----------------------------- MODULE WorkflowRun -----------------------------
(***************************************************************************)
(* The durable life of one workflow run (runtime protocol 2): the run row  *)
(* with its execution owner and generation, the pause rows, the reasons a  *)
(* pause waits for, the resume outbox, the queued resume tasks and the     *)
(* conversation slot.  Every action is one database transaction, taken     *)
(* under the lock of the run row or of the pause row; executions, request  *)
(* handlers, queue workers and the scanners interleave between them and    *)
(* may die at any point.                                                   *)
(*                                                                         *)
(* A claim gives out a new execution id and the next generation together,  *)
(* so an execution is named by its generation.  A pause row is named by    *)
(* its own generation.  What the nodes of the run do is in WorkflowEngine  *)
(* and WorkflowResume.                                                     *)
(***************************************************************************)
EXTENDS Integers, FiniteSets

CONSTANTS
    HasConversation,   \* whether the run belongs to a conversation
    Reason,            \* the kinds of interaction a pause may wait for
    MaxGeneration,     \* bound: executions of the run
    MaxPauses,         \* bound: pauses of the run
    MaxAttempts        \* attempts of a queued task (MaxRetry(10) + 1)

ASSUME RunAssumption ==
    /\ HasConversation \in BOOLEAN
    /\ Reason \subseteq {"question", "approval"} /\ Reason # {}
    /\ MaxGeneration \in Nat \ {0}
    /\ MaxPauses \in Nat \ {0}
    /\ MaxAttempts \in Nat \ {0}

Execution == 1..MaxGeneration
NoExecution == 0
Pause == 1..MaxPauses
NoPause == 0
NoStop == -1
LostOwner == -2
Archived == -1

VARIABLES
    status, generation, owner,   \* workflow_run_logs
    slot,                        \* active_workflow_run_id: free, this or other
    lease,                       \* the lease of the run row and of the pause it resumes:
                                 \* none, valid, expired or overdue (past the scan's grace)
    pstatus, by,                 \* status and resume_execution_id of the pause rows
    reasons, first,              \* what each pause waits for; its first paused node
    answer,                      \* per reason, the pause whose answer completed it
    outbox,                      \* the resume message of each pause
    tasks,                       \* attempts left of the queued task of each pause;
                                 \* 0: no task with that id; Archived: all used up
    claiming,                    \* <<task, pause>>: handlers about to call ClaimResume
    alive, claimed, task,        \* the executions: state, resumed pause, queue task
    stopping                     \* the owner a stop request has read, or LostOwner

runRow == <<status, generation, owner>>
pauseRows == <<pstatus, by, reasons, first, answer>>
queueVars == <<outbox, tasks, claiming>>
execVars == <<alive, claimed, task>>
vars == <<runRow, slot, lease, pauseRows, queueVars, execVars, stopping>>

Terminal == {"succeeded", "failed", "stopped"}

TypeOK ==
    /\ status \in {"none", "running", "paused"} \cup Terminal
    /\ generation \in {0} \cup Execution /\ owner \in {NoExecution} \cup Execution
    /\ slot \in {"free", "this", "other"}
    /\ lease \in {"none", "valid", "expired", "overdue"}
    /\ pstatus \in [Pause -> {"none", "paused", "resume_ready", "resuming", "closed"}]
    /\ by \in [Pause -> {NoExecution} \cup Execution]
    /\ reasons \in [Pause -> SUBSET Reason] /\ first \in [Pause -> Reason]
    /\ answer \in [Pause -> [Reason -> {NoPause} \cup Pause]]
    /\ outbox \in [Pause -> {"none", "pending", "published"}]
    /\ tasks \in [Pause -> {Archived} \cup 0..MaxAttempts]
    /\ claiming \subseteq ({NoPause} \cup Pause) \X Pause
    /\ alive \in [Execution -> BOOLEAN]
    /\ claimed \in [Execution -> {NoPause} \cup Pause]
    /\ task \in [Execution -> {NoPause} \cup Pause]
    /\ stopping \in {NoStop, LostOwner, NoExecution} \cup Execution

Init ==
    /\ status = "none" /\ generation = 0 /\ owner = NoExecution
    /\ slot = "free" /\ lease = "none"
    /\ pstatus = [p \in Pause |-> "none"] /\ by = [p \in Pause |-> NoExecution]
    /\ reasons = [p \in Pause |-> {}] /\ first = [p \in Pause |-> CHOOSE r \in Reason : TRUE]
    /\ answer = [p \in Pause |-> [r \in Reason |-> NoPause]]
    /\ outbox = [p \in Pause |-> "none"] /\ tasks = [p \in Pause |-> 0]
    /\ claiming = {}
    /\ alive = [e \in Execution |-> FALSE]
    /\ claimed = [e \in Execution |-> NoPause] /\ task = [e \in Execution |-> NoPause]
    /\ stopping = NoStop

\* The rows with resumed_at unset.
Open == {p \in Pause : pstatus[p] \notin {"none", "closed"}}

-----------------------------------------------------------------------------
(* The conversation slot.                                                   *)

\* Faulty variant: the conversation is not looked at.
AnySlot == TRUE

\* The row count every update of the conversation demands.
HoldsSlot == HasConversation => slot = "this"

\* Faulty variant: the conversation stays with the run.
KeptSlot == slot

\* releaseWorkflowConversationTx.
ReleasedSlot == IF HasConversation THEN "free" ELSE slot

\* createWorkflowRunLogWithConversationClaim and BeforeCreate; a busy conversation
\* is an error and creates nothing.
CreateRun ==
    /\ status = "none"
    /\ HasConversation => slot = "free"
    /\ slot' = IF HasConversation THEN "this" ELSE slot
    /\ status' = "running" /\ generation' = 1 /\ owner' = 1
    /\ lease' = "valid"
    /\ alive' = [alive EXCEPT ![1] = TRUE]
    /\ UNCHANGED <<pauseRows, queueVars, claimed, task, stopping>>

\* Another run of the conversation takes the free slot and gives it back.
OtherRun ==
    /\ HasConversation
    /\ \/ slot = "free" /\ slot' = "other"
       \/ slot = "other" /\ slot' = "free"
    /\ UNCHANGED <<runRow, lease, pauseRows, queueVars, execVars, stopping>>

-----------------------------------------------------------------------------
(* The steps of an execution.                                               *)

\* The fence of every write of an execution: its id and its generation.
Fence(e) == owner = e /\ generation = e

\* Faulty variant: the owner of the row survives the end of its execution.
KeptOwner == owner

\* The last update of Save, finalizeWorkflowRun and finalizeExpiredExecution.
ClearedOwner == NoExecution

\* The queue takes a task back whose handler returned an error.
Retried(n) == IF n = 1 THEN Archived ELSE n - 1

\* The queue worker's handler returns, with success or with an error.
HandlerReturns(t) ==
    IF t = NoPause THEN UNCHANGED tasks
    ELSE \E left \in {0, Retried(tasks[t])} : tasks' = [tasks EXCEPT ![t] = left]

\* The execution is over, and with it what only its process knew.
Ends(e) ==
    /\ alive' = [alive EXCEPT ![e] = FALSE]
    /\ claimed' = [claimed EXCEPT ![e] = NoPause]
    /\ task' = [task EXCEPT ![e] = NoPause]
    /\ HandlerReturns(task[e])

\* Faulty variant: the pause the execution had resumed stays as it is.
ClosesNothing(e) == {}

\* The pause that the execution had resumed and that its next pause closes.
ClosedBySave(e) == {p \in Open : pstatus[p] = "resuming" /\ by[p] = e}

\* The row of a new pause; an open row that nobody resumes is written over.
SavedRow(e) ==
    LET left == Open \ {p \in Open : pstatus[p] = "resuming" /\ by[p] = e}
    IN  IF left # {} THEN left ELSE {Cardinality({p \in Pause : pstatus[p] # "none"}) + 1}

Save(e, R, f) ==
    /\ alive[e] /\ Fence(e) /\ HoldsSlot
    /\ \A p \in Open : pstatus[p] = "resuming" => by[p] = e
    /\ \E row \in SavedRow(e) \cap Pause :
          /\ pstatus' = [p \in Pause |-> IF p = row THEN "paused"
                                         ELSE IF p \in ClosedBySave(e) THEN "closed" ELSE pstatus[p]]
          /\ by' = [by EXCEPT ![row] = NoExecution]
          /\ reasons' = [reasons EXCEPT ![row] = R]
          /\ first' = [first EXCEPT ![row] = f]
          /\ answer' = [answer EXCEPT ![row] = [r \in Reason |-> NoPause]]
    /\ status' = "paused" /\ owner' = ClearedOwner /\ lease' = "none"
    /\ Ends(e)
    /\ UNCHANGED <<generation, slot, outbox, claiming, stopping>>

\* finalizeWorkflowRun for the execution itself: a resumed pause must still be
\* its own, or nothing is written.
Finish(e, s) ==
    /\ alive[e] /\ Fence(e) /\ HoldsSlot
    /\ claimed[e] # NoPause => pstatus[claimed[e]] = "resuming" /\ by[claimed[e]] = e
    /\ pstatus' = IF claimed[e] = NoPause THEN pstatus ELSE [pstatus EXCEPT ![claimed[e]] = "closed"]
    /\ status' = s /\ owner' = ClearedOwner /\ lease' = "none"
    /\ slot' = ReleasedSlot
    /\ Ends(e)
    /\ UNCHANGED <<generation, by, reasons, first, answer, outbox, claiming, stopping>>

\* The execution dies, sees its ownership lost, or cannot write its result.
Abandon(e) ==
    /\ alive[e]
    /\ Ends(e)
    /\ UNCHANGED <<runRow, slot, lease, pauseRows, outbox, claiming, stopping>>

\* RenewExecutionLease: the run row, and the pause row of a resumed run.
Renew(e) ==
    /\ alive[e] /\ Fence(e)
    /\ claimed[e] # NoPause => pstatus[claimed[e]] = "resuming" /\ by[claimed[e]] = e
    /\ lease' = "valid"
    /\ UNCHANGED <<runRow, slot, pauseRows, queueVars, execVars, stopping>>

\* Time passes; a stalled execution may miss its renewals and go on afterwards.
LeaseExpires ==
    /\ owner # NoExecution \/ \E p \in Pause : pstatus[p] = "resuming"
    /\ \/ lease = "valid" /\ lease' = "expired"
       \/ lease = "expired" /\ lease' = "overdue"
    /\ UNCHANGED <<runRow, slot, pauseRows, queueVars, execVars, stopping>>

\* Faulty variant: the comparison with the cutoff the wrong way round.
BeforeCutoff == lease = "valid"

\* execution_lease_expires_at < cutoff, the present minus the grace period.
PastCutoff == lease = "overdue"

\* finalizeExpiredExecution, called by the periodic scan.
FinalizeExpired ==
    /\ status = "running" /\ owner # NoExecution /\ PastCutoff
    /\ HoldsSlot
    /\ status' = "failed" /\ owner' = ClearedOwner /\ lease' = "none"
    /\ slot' = ReleasedSlot
    /\ pstatus' = [p \in Pause |-> IF pstatus[p] = "resuming" /\ by[p] = owner THEN "closed" ELSE pstatus[p]]
    /\ UNCHANGED <<generation, by, reasons, first, answer, queueVars, execVars, stopping>>

-----------------------------------------------------------------------------
(* Interactions, the outbox and the queue.                                  *)

\* Faulty variant: one answer is enough.
AnyAnswered(p, a) == \E r \in reasons[p] : a[r] # NoPause

\* No reason of the pause is left pending.
NonePending(p, a) == \A r \in reasons[p] : a[r] # NoPause

\* Faulty variant: a status that no other part of the code knows.
MarkedReady(s) == IF s = "paused" THEN "ready" ELSE s

\* prepareResumeTx on the pause row.
ResumeReady(s) == IF s = "paused" THEN "resume_ready" ELSE s

\* CompleteReasonsTx: the answer given for pause a completes reason r of pause p,
\* once; the last one makes the pause resumable and writes the outbox row.
CompleteReasons(p, r, a) ==
    /\ answer' = [answer EXCEPT ![p][r] = IF @ = NoPause THEN a ELSE @]
    /\ pstatus' = IF NonePending(p, answer'[p]) THEN [pstatus EXCEPT ![p] = ResumeReady(@)] ELSE pstatus
    /\ outbox' = IF NonePending(p, answer'[p]) /\ outbox[p] = "none"
                 THEN [outbox EXCEPT ![p] = "pending"] ELSE outbox
    /\ UNCHANGED <<by, reasons, first>>

\* A user answers pause p, perhaps again.  The handler that completed the pause
\* goes on to resume the run itself, or leaves that to the queue.
Submit(p, r) ==
    /\ p \in Open /\ r \in reasons[p]
    /\ CompleteReasons(p, r, p)
    /\ \E direct \in (IF NonePending(p, answer'[p]) THEN {{}, {<<NoPause, p>>}} ELSE {{}}) :
          claiming' = claiming \cup direct
    /\ UNCHANGED <<runRow, slot, lease, tasks, execVars, stopping>>

\* Faulty variant: the message is marked without a task.
NotEnqueued(p) == tasks[p]

\* EnqueueTask with the task id of the outbox row; a task that exists stays.
Enqueued(p) == IF tasks[p] = 0 THEN MaxAttempts ELSE tasks[p]

\* DispatchResumeOutbox; it may die before the message is marked published.
Dispatch(p) ==
    /\ outbox[p] = "pending"
    /\ tasks' = [tasks EXCEPT ![p] = Enqueued(p)]
    /\ \E s \in {"pending", "published"} : outbox' = [outbox EXCEPT ![p] = s]
    /\ UNCHANGED <<runRow, slot, lease, pauseRows, claiming, execVars, stopping>>

\* A worker may take the task of pause t.
Queued(t) ==
    /\ tasks[t] > 0
    /\ \A c \in claiming : c[1] # t
    /\ \A e \in Execution : alive[e] => task[e] # t

\* The type of the task: a question resume if any reason was a question.
IsQuestionTask(t) == "question" \in reasons[t]

\* The handler finds no open pause: ErrPauseNotFound ends the task.
TaskWithoutPause(t) ==
    /\ Queued(t) /\ Open = {}
    /\ tasks' = [tasks EXCEPT ![t] = 0]
    /\ UNCHANGED <<runRow, slot, lease, pauseRows, outbox, claiming, execVars, stopping>>

\* The question reason that SubmitInteraction matches in the open pause q: the
\* task does not carry the node it was for, so the first paused node is taken.
MatchesQuestion(q) == "question" \in reasons[q] /\ first[q] = "question"

\* The open pause q waits for something else, or is not ready: an error.
TaskRejected(t, q) ==
    /\ Queued(t) /\ q \in Open
    /\ IF IsQuestionTask(t) THEN ~MatchesQuestion(q) ELSE outbox[q] = "none"
    /\ tasks' = [tasks EXCEPT ![t] = Retried(@)]
    /\ UNCHANGED <<runRow, slot, lease, pauseRows, outbox, claiming, execVars, stopping>>

\* resumeQuestionAnswerWorkflow from the queue: the answer the task carries is
\* submitted again, to the pause that is open now.
TaskAnswers(t, q) ==
    /\ Queued(t) /\ q \in Open
    /\ IsQuestionTask(t) /\ MatchesQuestion(q)
    /\ CompleteReasons(q, "question", t)
    /\ IF NonePending(q, answer'[q])
       THEN claiming' = claiming \cup {<<t, q>>} /\ UNCHANGED tasks
       ELSE tasks' = [tasks EXCEPT ![t] = 0] /\ UNCHANGED claiming
    /\ UNCHANGED <<runRow, slot, lease, execVars, stopping>>

\* resumeApprovalWorkflow from the queue.
TaskLoads(t, q) ==
    /\ Queued(t) /\ q \in Open
    /\ ~IsQuestionTask(t) /\ outbox[q] # "none"
    /\ claiming' = claiming \cup {<<t, q>>}
    /\ UNCHANGED <<runRow, slot, lease, pauseRows, outbox, tasks, execVars, stopping>>

\* Faulty variant: the run row keeps its status.
UnclaimedStatus == status

\* What ClaimResume writes into the run row, whatever it held.
ClaimedStatus == "running"

\* The pause is ready, or its execution lost the lease.
Claimable(q) == pstatus[q] = "resume_ready" \/ (pstatus[q] = "resuming" /\ lease # "valid")

ClaimResume(t, q) ==
    /\ <<t, q>> \in claiming
    /\ Claimable(q) /\ HoldsSlot
    /\ generation + 1 \in Execution
    /\ pstatus' = [pstatus EXCEPT ![q] = "resuming"]
    /\ by' = [by EXCEPT ![q] = generation + 1]
    /\ status' = ClaimedStatus /\ generation' = generation + 1 /\ owner' = generation + 1
    /\ lease' = "valid"
    /\ alive' = [alive EXCEPT ![generation + 1] = TRUE]
    /\ claimed' = [claimed EXCEPT ![generation + 1] = q]
    /\ task' = [task EXCEPT ![generation + 1] = t]
    /\ claiming' = claiming \ {<<t, q>>}
    /\ UNCHANGED <<slot, reasons, first, answer, outbox, tasks, stopping>>

\* The pause is claimed by another, closed, or the slot is gone; or the handler dies.
ClaimFails(t, q) ==
    /\ <<t, q>> \in claiming
    /\ t = NoPause \/ ~(Claimable(q) /\ HoldsSlot)
    /\ claiming' = claiming \ {<<t, q>>}
    /\ HandlerReturns(t)
    /\ UNCHANGED <<runRow, slot, lease, pauseRows, outbox, execVars, stopping>>

-----------------------------------------------------------------------------
(* StopWorkflowTask: it reads the run row, perhaps several times while it   *)
(* waits for a local execution, and then writes what that row calls for.    *)

StopReads ==
    /\ status # "none"
    /\ stopping # owner /\ stopping' = owner
    /\ UNCHANGED <<runRow, slot, lease, pauseRows, queueVars, execVars>>

\* finalizeStoppedWorkflowRunV2 of an owned run: finalizeWorkflowRun with the
\* owner taken from the run row, which names no pause: an open one keeps its lease.
StopOwned ==
    /\ stopping \in Execution
    /\ Fence(stopping) /\ HoldsSlot
    /\ status' = "stopped" /\ owner' = ClearedOwner
    /\ lease' = IF Open = {} THEN "none" ELSE lease
    /\ slot' = ReleasedSlot
    /\ stopping' = NoStop
    /\ UNCHANGED <<generation, pauseRows, queueVars, execVars>>

\* finalizeUnownedStoppedWorkflowRunV2.
StopUnowned ==
    /\ stopping = NoExecution /\ owner = NoExecution
    /\ status \notin Terminal /\ HoldsSlot
    /\ status' = "stopped"
    /\ slot' = ReleasedSlot
    /\ pstatus' = [p \in Pause |-> IF p \in Open THEN "closed" ELSE pstatus[p]]
    /\ stopping' = NoStop
    /\ UNCHANGED <<generation, owner, lease, by, reasons, first, answer, queueVars, execVars>>

\* ErrExecutionOwnershipLost: the owner that was read is gone; the run is loaded again.
StopLosesOwner ==
    /\ stopping \in Execution /\ ~Fence(stopping)
    /\ stopping' = LostOwner
    /\ UNCHANGED <<runRow, slot, lease, pauseRows, queueVars, execVars>>

\* The reload, which answers with success if the row has no owner; or an unowned
\* run that has ended, which is a success, or has an owner again, an error.
StopReturns ==
    /\ \/ stopping = LostOwner
       \/ stopping = NoExecution /\ (owner # NoExecution \/ status \in Terminal)
    /\ stopping' = NoStop
    /\ UNCHANGED <<runRow, slot, lease, pauseRows, queueVars, execVars>>

-----------------------------------------------------------------------------
TaskStep(t) ==
    \/ TaskWithoutPause(t)
    \/ \E q \in Pause : TaskRejected(t, q) \/ TaskAnswers(t, q) \/ TaskLoads(t, q)

ClaimStep(t) == \E q \in Pause : ClaimResume(t, q) \/ ClaimFails(t, q)

ExecutionStep(e) ==
    \/ \E R \in (SUBSET Reason) \ {{}} : \E f \in R : Save(e, R, f)
    \/ \E s \in Terminal : Finish(e, s)
    \/ Abandon(e) \/ Renew(e)

Next ==
    \/ CreateRun \/ OtherRun
    \/ \E e \in Execution : ExecutionStep(e)
    \/ LeaseExpires \/ FinalizeExpired
    \/ \E p \in Pause, r \in Reason : Submit(p, r)
    \/ \E p \in Pause : Dispatch(p) \/ TaskStep(p)
    \/ \E t \in {NoPause} \cup Pause : ClaimStep(t)
    \/ StopReads \/ StopOwned \/ StopUnowned
    \/ StopLosesOwner \/ StopReturns

Spec == Init /\ [][Next]_vars

\* The scans are periodic, the queue delivers, a handler that runs gets to its
\* claim, and time passes; no execution and no user has to do anything.
Fairness ==
    /\ WF_vars(LeaseExpires) /\ WF_vars(FinalizeExpired)
    /\ \A p \in Pause : WF_vars(Dispatch(p)) /\ WF_vars(TaskStep(p))
    /\ \A t \in {NoPause} \cup Pause : WF_vars(ClaimStep(t))

FairSpec == Spec /\ Fairness

-----------------------------------------------------------------------------
(* Properties.                                                              *)

\* The pause rows follow the run row: one pause is open at most, a paused run has
\* one that waits or is ready, and while an execution owns the run the only pause
\* that can be open is the one it resumes itself (Save, ClaimResume, finalizeWorkflowRun
\* and finalizeExpiredExecution, in any order, with executions that were overtaken).
PauseFollowsRun ==
    /\ Cardinality(Open) <= 1
    /\ status = "paused" => \E p \in Open : pstatus[p] \in {"paused", "resume_ready"}
    /\ owner # NoExecution => \A p \in Open : pstatus[p] = "resuming" /\ by[p] = owner

\* active_execution_id is set exactly while the run is running: no path out of
\* "running" leaves an owner that could still write, and no run is left running
\* without an owner, where the lease scan would never find it.
OwnerIffRunning == owner # NoExecution <=> status = "running"

\* A pause is resumed only after every interaction it waits for was answered, and
\* never without the outbox row its inputs are read from (CompleteReasonsTx,
\* prepareResumeTx, LoadResumePayload).
ResumesAnswered ==
    \A p \in Pause : pstatus[p] \in {"resume_ready", "resuming"} =>
        outbox[p] # "none" /\ \A r \in reasons[p] : answer[p][r] # NoPause

\* The conversation belongs to the run from its creation until it has ended, and
\* not longer: a leaked slot would lock the conversation, a lost one would let two
\* runs write its messages (createWorkflowRunLogWithConversationClaim, releaseWorkflowConversationTx).
SlotFollowsRun == HasConversation => (slot = "this" <=> status \in {"running", "paused"})

\* A run that has ended is never taken up again, whatever tasks, handlers and
\* scans are still under way (finalizeWorkflowRun, ClaimResume).
TerminalIsFinal == [][(status \in Terminal) => status' = status]_vars

\* The answer that completes a reason was given to that very pause generation
\* (SubmitInteraction, resumeQuestionAnswerWorkflow).
AnswersOwnPause == \A p \in Pause, r \in Reason : answer[p][r] \in {NoPause, p}

\* An execution that died as the owner of the run does not keep it: the lease scan
\* fails the run, or another execution or a stop takes it away (FinalizeExpiredExecutions).
OrphanFinalized == \A e \in Execution : owner = e /\ ~alive[e] ~> owner # e

\* A pause that is ready is resumed or closed, also when the handler of the last
\* answer dies before it has resumed the run: the outbox and the queue see to it
\* (prepareResumeTx, DispatchResumeOutbox, ClaimResume), as long as no error but a
\* death uses up the attempts of the task.
AnsweredResumes ==
    \A p \in Pause : pstatus[p] = "resume_ready" /\ generation < MaxGeneration ~> pstatus[p] # "resume_ready"
=============================================================================
