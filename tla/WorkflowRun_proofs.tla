------------------------- MODULE WorkflowRun_proofs -------------------------
(***************************************************************************)
(* Safety of the durable run protocol, for every number of executions,     *)
(* pauses and task attempts, with and without a conversation.              *)
(*                                                                         *)
(* The properties of the rows hold each other up: a pause can be resumed   *)
(* by one execution only because there is one open pause, and there is one *)
(* because the owner of the run resumes the only pause that is open.       *)
(* Typing needs more than it seems to: the queue counts the attempts of a  *)
(* task down correctly only because no two handlers hold the same task.    *)
(***************************************************************************)
EXTENDS WorkflowRun, FiniteSetTheorems, TLAPS

\* At most one pause row is open.
OneOpen == \A p, q \in Pause : p \in Open /\ q \in Open => p = q

\* PauseFollowsRun without the cardinality.
RowsFollowRun ==
    /\ OneOpen
    /\ status = "paused" => \E p \in Open : pstatus[p] \in {"paused", "resume_ready"}
    /\ owner # NoExecution => \A p \in Open : pstatus[p] = "resuming" /\ by[p] = owner

\* A handler between the lookup of its pause and its claim holds task t for pause q.
Claims(t, q) == <<t, q>> \in claiming

\* A queued task is in the hands of one handler or execution at most.
OneHandler ==
    \A t \in Pause :
        /\ \A q, r \in Pause : Claims(t, q) /\ Claims(t, r) => q = r
        /\ \A e, f \in Execution : alive[e] /\ alive[f] /\ task[e] = t /\ task[f] = t => e = f
        /\ \A q \in Pause, e \in Execution : Claims(t, q) /\ alive[e] => task[e] # t

\* A task somebody handles has attempts left, and is not archived.
HandledIsQueued ==
    \A t \in Pause :
        /\ \A q \in Pause : Claims(t, q) => tasks[t] > 0
        /\ \A e \in Execution : alive[e] /\ task[e] = t => tasks[t] > 0

\* What only its process knew is gone with an execution.
DeadHoldNothing ==
    \A e \in Execution : ~alive[e] => task[e] = NoPause /\ claimed[e] = NoPause

\* The handling half of the invariant, with the typing that goes with it.
QueueTypes ==
    /\ tasks \in [Pause -> {Archived} \cup 0..MaxAttempts]
    /\ alive \in [Execution -> BOOLEAN]
    /\ claimed \in [Execution -> {NoPause} \cup Pause]
    /\ task \in [Execution -> {NoPause} \cup Pause]

Handling == QueueTypes /\ OneHandler /\ HandledIsQueued /\ DeadHoldNothing

\* A run that does not exist has no open pause.
NothingBefore == status = "none" => Open = {}

IInv ==
    /\ TypeOK /\ RowsFollowRun /\ OwnerIffRunning /\ ResumesAnswered /\ SlotFollowsRun
    /\ NothingBefore /\ Handling

-----------------------------------------------------------------------------
USE RunAssumption
USE DEF Execution, NoExecution, Pause, NoPause, NoStop, LostOwner, Archived, Terminal,
        runRow, pauseRows, queueVars, execVars, vars

\* Nothing is created, claimed or queued initially.
LEMMA InitInvariant == Init => IInv
  <1> SUFFICES ASSUME Init PROVE IInv
    OBVIOUS
  <1>1. TypeOK
    <2>1. (CHOOSE r \in Reason : TRUE) \in Reason
      OBVIOUS
    <2> QED
      BY <2>1 DEF Init, TypeOK
  <1>2. RowsFollowRun /\ OwnerIffRunning /\ ResumesAnswered /\ SlotFollowsRun
    BY DEF Init, RowsFollowRun, OneOpen, Open, OwnerIffRunning, ResumesAnswered, SlotFollowsRun
  <1>3. NothingBefore /\ Handling
    BY <1>1 DEF Init, NothingBefore, Open, TypeOK, Handling, QueueTypes, OneHandler, HandledIsQueued,
        DeadHoldNothing, Claims
  <1> QED
    BY <1>1, <1>2, <1>3 DEF IInv

-----------------------------------------------------------------------------
(* Facts shared by several actions.                                         *)

\* A handler that returns gives back its own task only, with one attempt less or
\* none at all: the count stays in its range since the task had one left.
LEMMA ReturnedTask ==
    ASSUME QueueTypes, NEW t \in {NoPause} \cup Pause, t # NoPause => tasks[t] > 0, HandlerReturns(t)
    PROVE  /\ tasks' \in [Pause -> {Archived} \cup 0..MaxAttempts]
           /\ \A u \in Pause : u # t => tasks'[u] = tasks[u]
  <1>1. CASE t = NoPause
    BY <1>1 DEF QueueTypes, HandlerReturns
  <1>2. CASE t # NoPause
    <2>1. PICK left \in {0, Retried(tasks[t])} : tasks' = [tasks EXCEPT ![t] = left]
      BY <1>2 DEF HandlerReturns
    <2>2. left \in {Archived} \cup 0..MaxAttempts
      BY <1>2 DEF QueueTypes, Retried
    <2> QED
      BY <2>1, <2>2 DEF QueueTypes
  <1> QED
    BY <1>1, <1>2

\* The end of an execution, whatever it wrote before.
LEMMA EndKeepsHandling ==
    ASSUME Handling, NEW e \in Execution, alive[e], Ends(e), UNCHANGED claiming
    PROVE  Handling'
  <1>1. task[e] \in {NoPause} \cup Pause /\ (task[e] # NoPause => tasks[task[e]] > 0)
    BY DEF Handling, QueueTypes, HandledIsQueued
  <1>2. /\ tasks' \in [Pause -> {Archived} \cup 0..MaxAttempts]
        /\ \A u \in Pause : u # task[e] => tasks'[u] = tasks[u]
    BY <1>1, ReturnedTask DEF Handling, Ends
  <1>3. QueueTypes'
    BY <1>2 DEF Handling, QueueTypes, Ends
  <1>4. \A f \in Execution : alive'[f] => f # e /\ alive[f] /\ task'[f] = task[f]
    BY DEF Handling, QueueTypes, Ends
  <1>5. OneHandler' /\ DeadHoldNothing'
    BY <1>4 DEF Handling, QueueTypes, OneHandler, DeadHoldNothing, Claims, Ends
  <1>6. HandledIsQueued'
    BY <1>2, <1>4 DEF Handling, QueueTypes, OneHandler, HandledIsQueued, Claims
  <1> QED
    BY <1>3, <1>5, <1>6 DEF Handling

\* CompleteReasonsTx opens and closes no row, takes back no answer and no outbox row,
\* and readies a pause only with its last answer.
LEMMA CompletingKeepsRows ==
    ASSUME TypeOK, RowsFollowRun, ResumesAnswered, NothingBefore, NEW p \in Open, NEW r \in Reason, NEW a \in Pause,
           CompleteReasons(p, r, a), UNCHANGED <<status, owner>>
    PROVE  /\ RowsFollowRun' /\ ResumesAnswered' /\ NothingBefore'
           /\ pstatus' \in [Pause -> {"none", "paused", "resume_ready", "resuming", "closed"}]
           /\ answer' \in [Pause -> [Reason -> {NoPause} \cup Pause]]
           /\ outbox' \in [Pause -> {"none", "pending", "published"}]
  <1>1. p \in Pause /\ pstatus[p] \notin {"none", "closed"}
    BY DEF Open
  <1>2. /\ answer' \in [Pause -> [Reason -> {NoPause} \cup Pause]]
        /\ \A q \in Pause, x \in Reason : answer[q][x] # NoPause => answer'[q][x] # NoPause
        /\ \A q \in Pause : q # p => answer'[q] = answer[q]
    BY <1>1 DEF CompleteReasons, TypeOK
  <1>3. /\ pstatus' \in [Pause -> {"none", "paused", "resume_ready", "resuming", "closed"}]
        /\ \A q \in Pause : q # p => pstatus'[q] = pstatus[q]
        /\ pstatus'[p] # pstatus[p] =>
              pstatus[p] = "paused" /\ pstatus'[p] = "resume_ready" /\ NonePending(p, answer'[p])
    BY <1>1 DEF CompleteReasons, ResumeReady, TypeOK
  <1>4. /\ outbox' \in [Pause -> {"none", "pending", "published"}]
        /\ \A q \in Pause : outbox[q] # "none" => outbox'[q] # "none"
        /\ NonePending(p, answer'[p]) => outbox'[p] # "none"
    BY <1>1 DEF CompleteReasons, TypeOK
  <1>5. by' = by /\ reasons' = reasons
    BY DEF CompleteReasons
  <1>6. Open' = Open
    BY <1>1, <1>3 DEF Open
  <1>7. RowsFollowRun'
    BY <1>1, <1>3, <1>5, <1>6 DEF RowsFollowRun, OneOpen, Open
  <1>8. ResumesAnswered'
    BY <1>1, <1>2, <1>3, <1>4, <1>5 DEF ResumesAnswered, NonePending, TypeOK
  <1> QED
    BY <1>2, <1>3, <1>4, <1>6, <1>7, <1>8 DEF NothingBefore

-----------------------------------------------------------------------------
(* The steps.                                                               *)

\* The steps of an execution and of the lease scan.
LEMMA ExecutionSteps ==
    ASSUME IInv,
           \/ CreateRun \/ OtherRun \/ LeaseExpires \/ FinalizeExpired
           \/ \E e \in Execution : ExecutionStep(e)
    PROVE  IInv'
  <1> USE DEF IInv
  <1> DEFINE Rows == RowsFollowRun /\ OwnerIffRunning /\ ResumesAnswered /\ SlotFollowsRun /\ NothingBefore
  <1>1. CASE CreateRun
    <2>1. TypeOK'
      BY <1>1 DEF CreateRun, TypeOK
    <2>2. Handling'
      BY <1>1 DEF CreateRun, TypeOK, Handling, QueueTypes, OneHandler, HandledIsQueued, DeadHoldNothing, Claims
    <2>3. Open' = {}
      BY <1>1 DEF CreateRun, NothingBefore, Open
    <2>4. RowsFollowRun' /\ NothingBefore'
      BY <1>1, <2>3 DEF CreateRun, RowsFollowRun, OneOpen, NothingBefore
    <2>5. OwnerIffRunning' /\ ResumesAnswered' /\ SlotFollowsRun'
      BY <1>1 DEF CreateRun, OwnerIffRunning, ResumesAnswered, SlotFollowsRun
    <2> QED
      BY <2>1, <2>2, <2>4, <2>5
  <1>2. CASE OtherRun \/ LeaseExpires \/ \E e \in Execution : Renew(e)
    <2>1. TypeOK'
      BY <1>2, SMTT(30) DEF OtherRun, LeaseExpires, Renew, TypeOK
    <2>2. Handling'
      BY <1>2 DEF OtherRun, LeaseExpires, Renew, Handling, QueueTypes, OneHandler, HandledIsQueued, DeadHoldNothing, Claims
    <2>3. Rows'
      BY <1>2 DEF OtherRun, LeaseExpires, Renew, RowsFollowRun, OneOpen, Open, OwnerIffRunning, ResumesAnswered,
            SlotFollowsRun, NothingBefore
    <2> QED
      BY <2>1, <2>2, <2>3
  <1>3. CASE FinalizeExpired
    <2>1. TypeOK'
      BY <1>3 DEF FinalizeExpired, ReleasedSlot, ClearedOwner, TypeOK
    <2>2. Handling'
      BY <1>3 DEF FinalizeExpired, Handling, QueueTypes, OneHandler, HandledIsQueued, DeadHoldNothing, Claims
    <2>3. Rows'
      BY <1>3 DEF FinalizeExpired, ReleasedSlot, ClearedOwner, TypeOK, RowsFollowRun, OneOpen, Open, OwnerIffRunning,
            ResumesAnswered, SlotFollowsRun, NothingBefore
    <2> QED
      BY <2>1, <2>2, <2>3
  <1>4. ASSUME NEW e \in Execution, NEW R \in (SUBSET Reason) \ {{}}, NEW f \in R, Save(e, R, f)
        PROVE  IInv'
    <2>1. Handling'
      BY <1>4, EndKeepsHandling DEF Save
    <2>2. SavedRow(e) = {Cardinality({p \in Pause : pstatus[p] # "none"}) + 1} /\ ClosedBySave(e) = Open
      BY <1>4 DEF Save, Fence, RowsFollowRun, SavedRow, ClosedBySave
    <2>3. PICK row \in SavedRow(e) \cap Pause :
              /\ pstatus' = [p \in Pause |-> IF p = row THEN "paused"
                                           ELSE IF p \in ClosedBySave(e) THEN "closed" ELSE pstatus[p]]
              /\ by' = [by EXCEPT ![row] = NoExecution]
              /\ reasons' = [reasons EXCEPT ![row] = R]
              /\ first' = [first EXCEPT ![row] = f]
              /\ answer' = [answer EXCEPT ![row] = [r \in Reason |-> NoPause]]
      BY <1>4, Zenon DEF Save
    <2>4. status' = "paused" /\ owner' = NoExecution /\ lease' = "none"
          /\ UNCHANGED <<generation, slot, outbox, claiming, stopping>>
      BY <1>4 DEF Save, ClearedOwner
    <2>5. TypeOK'
      BY <2>1, <2>3, <2>4 DEF TypeOK, Handling, QueueTypes
    <2>6. Open' = {row}
      BY <2>2, <2>3, SMTT(30) DEF Open, TypeOK
    <2>7. RowsFollowRun' /\ OwnerIffRunning' /\ NothingBefore'
      BY <2>3, <2>4, <2>6 DEF RowsFollowRun, OneOpen, OwnerIffRunning, NothingBefore
    <2>8. ResumesAnswered'
      BY <2>3, <2>4 DEF ResumesAnswered, TypeOK
    <2>9. SlotFollowsRun'
      BY <1>4, <2>4 DEF SlotFollowsRun, Save, HoldsSlot
    <2> QED
      BY <2>1, <2>5, <2>7, <2>8, <2>9
  <1>5. ASSUME NEW e \in Execution, NEW s \in Terminal, Finish(e, s)
        PROVE  IInv'
    <2>1. Handling'
      BY <1>5, EndKeepsHandling DEF Finish
    <2>2. /\ status' = s /\ owner' = NoExecution /\ lease' = "none" /\ slot' = ReleasedSlot
          /\ UNCHANGED <<generation, by, reasons, first, answer, outbox, claiming, stopping>>
      BY <1>5 DEF Finish, ClearedOwner
    <2>3. /\ pstatus' \in [Pause -> {"none", "paused", "resume_ready", "resuming", "closed"}]
          /\ \A p \in Pause : pstatus'[p] = pstatus[p] \/ pstatus'[p] = "closed"
      BY <1>5 DEF Finish, TypeOK
    <2>4. TypeOK'
      BY <2>1, <2>2, <2>3 DEF TypeOK, Handling, QueueTypes, ReleasedSlot
    <2>5. Rows'
      BY <2>2, <2>3 DEF RowsFollowRun, OneOpen, Open, OwnerIffRunning, ResumesAnswered, SlotFollowsRun,
            NothingBefore, ReleasedSlot
    <2> QED
      BY <2>1, <2>4, <2>5
  <1>6. ASSUME NEW e \in Execution, Abandon(e)
        PROVE  IInv'
    <2>1. Handling'
      BY <1>6, EndKeepsHandling DEF Abandon
    <2>2. TypeOK'
      BY <1>6, <2>1 DEF Abandon, TypeOK, Handling, QueueTypes
    <2>3. Rows'
      BY <1>6 DEF Abandon, RowsFollowRun, OneOpen, Open, OwnerIffRunning, ResumesAnswered, SlotFollowsRun, NothingBefore
    <2> QED
      BY <2>1, <2>2, <2>3
  <1> QED
    BY <1>1, <1>2, <1>3, <1>4, <1>5, <1>6 DEF ExecutionStep

\* A task that a worker may take is in nobody's hands.
LEMMA QueuedIsFree ==
    ASSUME NEW t \in Pause, Queued(t)
    PROVE  /\ tasks[t] > 0
           /\ \A q \in Pause : ~Claims(t, q)
           /\ \A e \in Execution : alive[e] => task[e] # t
  <1>1. ASSUME NEW q \in Pause PROVE ~Claims(t, q)
    <2>1. <<t, q>>[1] = t
      OBVIOUS
    <2> QED
      BY <2>1 DEF Queued, Claims
  <1> QED
    BY <1>1 DEF Queued

\* A worker takes a free task, and becomes its only handler.
LEMMA TakingKeepsHandling ==
    ASSUME Handling, NEW t \in Pause, NEW q \in Pause, Queued(t),
           claiming' = claiming \cup {<<t, q>>}, UNCHANGED <<tasks, execVars>>
    PROVE  Handling'
  <1>1. \A u, p \in Pause : Claims(u, p)' => Claims(u, p) \/ (u = t /\ p = q)
    BY DEF Claims
  <1>2. /\ tasks[t] > 0
        /\ \A p \in Pause : ~Claims(t, p)
        /\ \A e \in Execution : alive[e] => task[e] # t
    BY QueuedIsFree
  <1>3. QueueTypes' /\ DeadHoldNothing'
    BY DEF Handling, QueueTypes, DeadHoldNothing
  <1>4. HandledIsQueued'
    BY <1>1, <1>2 DEF Handling, HandledIsQueued
  <1>5. OneHandler'
    BY <1>1, <1>2 DEF Handling, OneHandler
  <1> QED
    BY <1>3, <1>4, <1>5 DEF Handling

\* Answers, the outbox and the queue.
LEMMA QueueSteps ==
    ASSUME IInv,
           \/ \E p \in Pause, r \in Reason : Submit(p, r)
           \/ \E p \in Pause : Dispatch(p) \/ TaskStep(p)
           \/ \E t \in {NoPause} \cup Pause : ClaimStep(t)
    PROVE  IInv'
  <1> USE DEF IInv
  <1> DEFINE Rows == RowsFollowRun /\ OwnerIffRunning /\ ResumesAnswered /\ SlotFollowsRun /\ NothingBefore
  <1>1. ASSUME NEW p \in Pause, NEW r \in Reason, Submit(p, r)
        PROVE  IInv'
    <2>1. p \in Open /\ CompleteReasons(p, r, p) /\ UNCHANGED <<runRow, slot, lease, tasks, execVars, stopping>>
      BY <1>1 DEF Submit
    <2>2. claiming' = claiming \/ claiming' = claiming \cup {<<NoPause, p>>}
      BY <1>1 DEF Submit
    <2>3. claiming' \subseteq ({NoPause} \cup Pause) \X Pause
      BY <2>2 DEF TypeOK
    <2>4. \A t, q \in Pause : Claims(t, q)' => Claims(t, q)
      BY <2>2 DEF Claims
    <2>5. Handling'
      BY <2>1, <2>4 DEF Handling, QueueTypes, OneHandler, HandledIsQueued, DeadHoldNothing
    <2>6. /\ RowsFollowRun' /\ ResumesAnswered' /\ NothingBefore'
          /\ pstatus' \in [Pause -> {"none", "paused", "resume_ready", "resuming", "closed"}]
          /\ answer' \in [Pause -> [Reason -> {NoPause} \cup Pause]]
          /\ outbox' \in [Pause -> {"none", "pending", "published"}]
      BY <2>1, CompletingKeepsRows
    <2>7. by' = by /\ reasons' = reasons /\ first' = first
      BY <2>1 DEF CompleteReasons
    <2>8. TypeOK'
      BY <2>1, <2>3, <2>6, <2>7 DEF TypeOK
    <2> QED
      BY <2>1, <2>5, <2>6, <2>8 DEF OwnerIffRunning, SlotFollowsRun
  <1>2. ASSUME NEW p \in Pause, Dispatch(p)
        PROVE  IInv'
    <2>1. Enqueued(p) \in {Archived} \cup 0..MaxAttempts /\ (tasks[p] > 0 => Enqueued(p) > 0)
      BY DEF Enqueued, TypeOK
    <2>2. TypeOK'
      BY <1>2, <2>1 DEF Dispatch, TypeOK
    <2>3. Handling'
      BY <1>2, <2>1, SMTT(30) DEF Dispatch, Handling, QueueTypes, OneHandler, HandledIsQueued, DeadHoldNothing, Claims
    <2>4. Rows'
      BY <1>2 DEF Dispatch, TypeOK, RowsFollowRun, OneOpen, Open, OwnerIffRunning, ResumesAnswered, SlotFollowsRun, NothingBefore
    <2> QED
      BY <2>2, <2>3, <2>4
  <1>3. ASSUME NEW t \in Pause, NEW q \in Pause, TaskWithoutPause(t) \/ TaskRejected(t, q)
        PROVE  IInv'
    <2>1. Queued(t) /\ UNCHANGED <<runRow, slot, lease, pauseRows, outbox, claiming, execVars, stopping>>
      BY <1>3 DEF TaskWithoutPause, TaskRejected
    <2>2. /\ tasks' \in [Pause -> {Archived} \cup 0..MaxAttempts]
          /\ \A u \in Pause : u # t => tasks'[u] = tasks[u]
      <3>1. tasks[t] \in 1..MaxAttempts
        BY <2>1, QueuedIsFree DEF TypeOK
      <3>2. Retried(tasks[t]) \in {Archived} \cup 0..MaxAttempts
        BY <3>1 DEF Retried
      <3>3. PICK left \in {Archived} \cup 0..MaxAttempts : tasks' = [tasks EXCEPT ![t] = left]
        BY <1>3, <3>2 DEF TaskWithoutPause, TaskRejected
      <3> QED
        BY <3>3 DEF TypeOK
    <2>3. TypeOK'
      BY <2>1, <2>2 DEF TypeOK
    <2>4. Handling'
      BY <2>1, <2>2, QueuedIsFree, SMTT(30) DEF Handling, QueueTypes, OneHandler, HandledIsQueued, DeadHoldNothing, Claims
    <2>5. Rows'
      BY <2>1 DEF RowsFollowRun, OneOpen, Open, OwnerIffRunning, ResumesAnswered, SlotFollowsRun, NothingBefore
    <2> QED
      BY <2>3, <2>4, <2>5
  <1>4. ASSUME NEW t \in Pause, NEW q \in Pause, TaskAnswers(t, q)
        PROVE  IInv'
    <2>1. /\ q \in Open /\ "question" \in Reason /\ CompleteReasons(q, "question", t) /\ Queued(t)
          /\ UNCHANGED <<runRow, slot, lease, execVars, stopping>>
      BY <1>4 DEF TaskAnswers, MatchesQuestion, TypeOK
    <2>2. \/ claiming' = claiming \cup {<<t, q>>} /\ UNCHANGED tasks
          \/ claiming' = claiming /\ tasks' = [tasks EXCEPT ![t] = 0]
      BY <1>4 DEF TaskAnswers
    <2>3. /\ claiming' \subseteq ({NoPause} \cup Pause) \X Pause
          /\ tasks' \in [Pause -> {Archived} \cup 0..MaxAttempts]
      BY <2>2 DEF TypeOK
    <2>4. Handling'
      <3>1. CASE claiming' = claiming \cup {<<t, q>>} /\ UNCHANGED tasks
        BY <2>1, <3>1, TakingKeepsHandling
      <3>2. CASE claiming' = claiming /\ tasks' = [tasks EXCEPT ![t] = 0]
        BY <2>1, <3>2, QueuedIsFree
           DEF Handling, QueueTypes, OneHandler, HandledIsQueued, DeadHoldNothing, Claims
      <3> QED
        BY <2>2, <3>1, <3>2
    <2>5. /\ RowsFollowRun' /\ ResumesAnswered' /\ NothingBefore'
          /\ pstatus' \in [Pause -> {"none", "paused", "resume_ready", "resuming", "closed"}]
          /\ answer' \in [Pause -> [Reason -> {NoPause} \cup Pause]]
          /\ outbox' \in [Pause -> {"none", "pending", "published"}]
      BY <2>1, CompletingKeepsRows
    <2>6. by' = by /\ reasons' = reasons /\ first' = first
      BY <2>1 DEF CompleteReasons
    <2>7. TypeOK'
      BY <2>1, <2>3, <2>5, <2>6 DEF TypeOK
    <2> QED
      BY <2>1, <2>4, <2>5, <2>7 DEF OwnerIffRunning, SlotFollowsRun
  <1>5. ASSUME NEW t \in Pause, NEW q \in Pause, TaskLoads(t, q)
        PROVE  IInv'
    <2>1. /\ Queued(t) /\ claiming' = claiming \cup {<<t, q>>}
          /\ UNCHANGED <<runRow, slot, lease, pauseRows, outbox, tasks, execVars, stopping>>
      BY <1>5 DEF TaskLoads
    <2>2. TypeOK'
      BY <2>1 DEF TypeOK
    <2>3. Handling'
      BY <2>1, TakingKeepsHandling
    <2>4. Rows'
      BY <2>1 DEF RowsFollowRun, OneOpen, Open, OwnerIffRunning, ResumesAnswered, SlotFollowsRun, NothingBefore
    <2> QED
      BY <2>2, <2>3, <2>4
  <1>6. ASSUME NEW t \in {NoPause} \cup Pause, NEW q \in Pause, ClaimResume(t, q)
        PROVE  IInv'
    <2> DEFINE new == generation + 1
    <2>1. /\ Claims(t, q) /\ Claimable(q) /\ HoldsSlot /\ new \in Execution
          /\ pstatus' = [pstatus EXCEPT ![q] = "resuming"] /\ by' = [by EXCEPT ![q] = new]
          /\ status' = "running" /\ generation' = new /\ owner' = new /\ lease' = "valid"
          /\ alive' = [alive EXCEPT ![new] = TRUE] /\ claimed' = [claimed EXCEPT ![new] = q]
          /\ task' = [task EXCEPT ![new] = t] /\ claiming' = claiming \ {<<t, q>>}
          /\ UNCHANGED <<slot, reasons, first, answer, outbox, tasks, stopping>>
      BY <1>6 DEF ClaimResume, ClaimedStatus, Claims
    <2>2. q \in Open
      BY <2>1 DEF Claimable, Open
    <2> HIDE DEF new
    <2>3. TypeOK'
      BY <2>1 DEF TypeOK
    <2>4. Handling'
      <3>1. \A u, p \in Pause : Claims(u, p)' => Claims(u, p) /\ <<u, p>> # <<t, q>>
        BY <2>1 DEF Claims
      <3>2. \A e \in Execution : e # new => alive'[e] = alive[e] /\ task'[e] = task[e] /\ claimed'[e] = claimed[e]
        BY <2>1 DEF TypeOK
      <3>3. alive'[new] /\ task'[new] = t
        BY <2>1 DEF TypeOK
      <3>4. QueueTypes'
        BY <2>3 DEF TypeOK, QueueTypes
      <3>5. DeadHoldNothing'
        BY <3>2, <3>3, <2>1 DEF Handling, DeadHoldNothing
      <3>6. HandledIsQueued'
        BY <3>1, <3>2, <3>3, <2>1 DEF Handling, HandledIsQueued
      <3>7. OneHandler'
        BY <3>1, <3>2, <3>3, <2>1 DEF Handling, OneHandler
      <3> QED
        BY <3>4, <3>5, <3>6, <3>7 DEF Handling
    <2>5. Open' = Open
      BY <2>1, <2>2 DEF Open, TypeOK
    <2>6. RowsFollowRun' /\ NothingBefore'
      BY <2>1, <2>2, <2>5 DEF RowsFollowRun, OneOpen, Open, TypeOK, NothingBefore
    <2>7. OwnerIffRunning' /\ SlotFollowsRun'
      BY <2>1 DEF OwnerIffRunning, SlotFollowsRun, HoldsSlot
    <2>8. ResumesAnswered'
      BY <2>1 DEF ResumesAnswered, Claimable, TypeOK
    <2> QED
      BY <2>3, <2>4, <2>6, <2>7, <2>8
  <1>7. ASSUME NEW t \in {NoPause} \cup Pause, NEW q \in Pause, ClaimFails(t, q)
        PROVE  IInv'
    <2>1. /\ Claims(t, q) /\ claiming' = claiming \ {<<t, q>>} /\ HandlerReturns(t)
          /\ UNCHANGED <<runRow, slot, lease, pauseRows, outbox, execVars, stopping>>
      BY <1>7 DEF ClaimFails, Claims
    <2>2. QueueTypes /\ (t # NoPause => tasks[t] > 0)
      BY <2>1 DEF Handling, HandledIsQueued
    <2>3. /\ tasks' \in [Pause -> {Archived} \cup 0..MaxAttempts]
          /\ \A u \in Pause : u # t => tasks'[u] = tasks[u]
      BY <2>1, <2>2, ReturnedTask
    <2>4. \A u, p \in Pause : Claims(u, p)' => Claims(u, p) /\ <<u, p>> # <<t, q>>
      BY <2>1 DEF Claims
    <2>5. \A u, p \in Pause : Claims(u, p)' => u # t
      BY <2>1, <2>4 DEF Handling, OneHandler
    <2>6. TypeOK'
      BY <2>1, <2>3 DEF TypeOK
    <2>7. Handling'
      BY <2>1, <2>3, <2>4, <2>5, SMTT(30) DEF Handling, QueueTypes, OneHandler, HandledIsQueued, DeadHoldNothing
    <2>8. Rows'
      BY <2>1 DEF RowsFollowRun, OneOpen, Open, OwnerIffRunning, ResumesAnswered, SlotFollowsRun, NothingBefore
    <2> QED
      BY <2>6, <2>7, <2>8
  <1> QED
    BY <1>1, <1>2, <1>3, <1>4, <1>5, <1>6, <1>7 DEF TaskStep, ClaimStep

\* StopWorkflowTask.
LEMMA StopSteps ==
    ASSUME IInv, StopReads \/ StopOwned \/ StopUnowned \/ StopLosesOwner \/ StopReturns
    PROVE  IInv'
  <1> USE DEF IInv
  <1> DEFINE Rows == RowsFollowRun /\ OwnerIffRunning /\ ResumesAnswered /\ SlotFollowsRun /\ NothingBefore
  <1>1. Handling'
    BY DEF StopReads, StopOwned, StopUnowned, StopLosesOwner, StopReturns,
           Handling, QueueTypes, OneHandler, HandledIsQueued, DeadHoldNothing, Claims
  <1>2. CASE StopReads \/ StopLosesOwner \/ StopReturns
    <2>1. TypeOK'
      BY <1>2 DEF StopReads, StopLosesOwner, StopReturns, TypeOK
    <2>2. Rows'
      BY <1>2 DEF StopReads, StopLosesOwner, StopReturns, RowsFollowRun, OneOpen, Open, OwnerIffRunning,
            ResumesAnswered, SlotFollowsRun, NothingBefore
    <2> QED
      BY <1>1, <2>1, <2>2
  <1>3. CASE StopOwned
    <2>1. TypeOK'
      BY <1>3 DEF StopOwned, ClearedOwner, ReleasedSlot, TypeOK
    <2>2. Rows'
      BY <1>3 DEF StopOwned, ClearedOwner, ReleasedSlot, RowsFollowRun, OneOpen, Open, OwnerIffRunning,
            ResumesAnswered, SlotFollowsRun, NothingBefore
    <2> QED
      BY <1>1, <2>1, <2>2
  <1>4. CASE StopUnowned
    <2>1. TypeOK'
      BY <1>4 DEF StopUnowned, ReleasedSlot, TypeOK
    <2>2. Rows'
      BY <1>4 DEF StopUnowned, ReleasedSlot, RowsFollowRun, OneOpen, Open, OwnerIffRunning,
            ResumesAnswered, SlotFollowsRun, NothingBefore
    <2> QED
      BY <1>1, <2>1, <2>2
  <1> QED
    BY <1>2, <1>3, <1>4

\* Every step of the protocol preserves the invariant.
LEMMA StepInvariant == IInv /\ [Next]_vars => IInv'
  <1> SUFFICES ASSUME IInv, [Next]_vars PROVE IInv'
    OBVIOUS
  <1>1. CASE UNCHANGED vars
    BY <1>1, SMTT(30) DEF IInv, TypeOK, RowsFollowRun, OneOpen, Open, OwnerIffRunning, ResumesAnswered, SlotFollowsRun,
        NothingBefore, Handling, QueueTypes, OneHandler, HandledIsQueued, DeadHoldNothing, Claims
  <1>2. CASE Next
    BY <1>2, ExecutionSteps, QueueSteps, StopSteps DEF Next
  <1> QED
    BY <1>1, <1>2

-----------------------------------------------------------------------------
(* Theorems.                                                                *)

\* The inductive invariant holds in every reachable state.
LEMMA Invariant == Spec => []IInv
BY InitInvariant, StepInvariant, PTL DEF Spec

\* The rows of the run, its pauses, the outbox and the queue are well typed: in particular
\* the attempts of a task are never counted below the archive.
THEOREM TypeCorrect == Spec => []TypeOK
BY Invariant, PTL DEF IInv

\* The pause rows follow the run row, whoever claims, saves, finishes, stops and expires.
THEOREM PausesFollowTheRun == Spec => []PauseFollowsRun
  <1>1. IInv => PauseFollowsRun
    <2> SUFFICES ASSUME IInv PROVE Cardinality(Open) <= 1
      BY DEF IInv, RowsFollowRun, PauseFollowsRun
    <2>1. CASE Open = {}
      BY <2>1, FS_EmptySet
    <2>2. CASE Open # {}
      <3>1. PICK p \in Pause : Open = {p}
        BY <2>2 DEF IInv, RowsFollowRun, OneOpen, Open
      <3>2. Cardinality({p}) = 1
        BY FS_Singleton
      <3> QED
        BY <3>1, <3>2
    <2> QED
      BY <2>1, <2>2
  <1> QED
    BY <1>1, Invariant, PTL

\* The run has an owner exactly while it is running.
THEOREM OwnedWhileRunning == Spec => []OwnerIffRunning
BY Invariant, PTL DEF IInv

\* No pause is resumed before its last answer, and none without its outbox row.
THEOREM ResumedWhenAnswered == Spec => []ResumesAnswered
BY Invariant, PTL DEF IInv

\* The conversation is neither leaked nor lost.
THEOREM SlotHeldWhileActive == Spec => []SlotFollowsRun
BY Invariant, PTL DEF IInv

\* A queued task is handled by one handler or execution at a time.
THEOREM TaskHandledOnce == Spec => []OneHandler
BY Invariant, PTL DEF IInv, Handling

\* A run of a conversation that has ended is never taken up again: its slot is gone, and
\* every write that could revive it demands the slot.  (Without a conversation
\* ClaimResume does revive a stopped run.)
THEOREM EndedForGood == HasConversation => (Spec => TerminalIsFinal)
  <1> SUFFICES ASSUME HasConversation PROVE Spec => TerminalIsFinal
    OBVIOUS
  <1>1. IInv /\ [Next]_vars => [(status \in Terminal) => status' = status]_vars
    <2> SUFFICES ASSUME IInv, Next, status \in Terminal PROVE status' = status
      OBVIOUS
    <2>1. ~HoldsSlot /\ owner = NoExecution
      BY DEF IInv, SlotFollowsRun, OwnerIffRunning, HoldsSlot
    <2> QED
      BY <2>1 DEF Next, CreateRun, OtherRun, ExecutionStep, Save, Finish, Abandon, Renew, LeaseExpires,
            FinalizeExpired, Submit, Dispatch, TaskStep, TaskWithoutPause, TaskRejected, TaskAnswers, TaskLoads,
            ClaimStep, ClaimResume, ClaimFails, StopReads, StopOwned, StopUnowned, StopLosesOwner, StopReturns
  <1> QED
    BY <1>1, Invariant, PTL DEF Spec, TerminalIsFinal
=============================================================================
