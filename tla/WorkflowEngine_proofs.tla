----------------------- MODULE WorkflowEngine_proofs -----------------------
(***************************************************************************)
(* Proofs about WorkflowEngine for every graph, every concurrency and      *)
(* every set of outcomes.                                                  *)
(***************************************************************************)
EXTENDS WorkflowEngine, FiniteSetTheorems, TLAPS

\* Until the flags are reset nothing has been scheduled.
BeforeRun ==
    sched \in {"idle", "locked"} =>
        /\ \A n \in Node : status[n] = "pending" /\ handle[n] = NoHandle /\ proc[n] = "none"
        /\ batch = {} /\ orphans = {} /\ leases = 0 /\ result = "none"

\* markPaused is called in the step that writes the paused status.
PauseIsFlagged == \A n \in Node : status[n] = "paused" => isPaused

\* The status a node may have at each place of its goroutine.
StatusOfProc ==
    \A n \in Node :
        /\ proc[n] = "none" => status[n] \in {"pending", "running", "skipped"}
        /\ proc[n] \in {"launched", "running"} => status[n] = "running"
        /\ proc[n] = "aborted" => status[n] = "failed" /\ isStopped
        /\ proc[n] \in {"finished", "signalled", "gone"} => status[n] \in TerminalStatus

\* Only a node that Stop interrupted leaves its RunNode behind.
OrphanIsStopped ==
    \A n \in orphans : proc[n] \in {"aborted", "finished", "signalled", "gone"} /\ isStopped

LaunchesOfProc == \A n \in Node : launches[n] = IF proc[n] = "none" THEN 0 ELSE 1

\* What has been decided about a node stays true until it is started.
MayStart(n) ==
    /\ AllUpstreamsTerminated(edges, status, n)
    /\ ~MustSkip(edges, status, handle, n)

CurIsPending ==
    /\ sched \in {"upstreams", "ready", "leased"} => cur \in Node /\ status[cur] = "pending"
    /\ sched \in {"ready", "leased"} => AllUpstreamsTerminated(edges, status, cur)
    /\ sched = "leased" => MayStart(cur)

BatchIsClaimed == \A n \in batch : status[n] = "running" /\ proc[n] = "none" /\ MayStart(n)

\* Why the scheduler left its loop.
LeftLoop ==
    /\ sched \in {"join", "returned"} =>
          result = "cycle" \/ isStopped \/ isPaused \/ ctxDone \/ AllTerminated
    /\ sched = "returned" => ~isRunning /\ GoroutinesEnded
    /\ sched # "returned" => result = "none"
    /\ result = "nil" => ~isStopped
    /\ sched = "returned" /\ isStopped => result = "stopped"

IInv ==
    /\ TypeOK
    /\ BeforeRun /\ PauseIsFlagged /\ StatusOfProc /\ LaunchesOfProc /\ OrphanIsStopped
    /\ CurIsPending /\ BatchIsClaimed /\ LeftLoop

-----------------------------------------------------------------------------
USE DEF nodeVars, flagVars, tickVars, procVars

\* What one step cannot undo: an ended node stays ended, and one that succeeded or
\* was handled as an exception keeps its status and the handle it selected.
KeepsEnded ==
    /\ edges' = edges
    /\ \A u \in Node :
          /\ IsStatusTerminated(status[u]) => IsStatusTerminated(status'[u])
          /\ status[u] \in {"succeeded", "exception"} =>
                status'[u] = status[u] /\ handle'[u] = handle[u]

\* The decision that a node may start survives any such step.
LEMMA MayStartStable ==
    ASSUME NEW n \in Node, TypeOK, KeepsEnded
    PROVE  /\ AllUpstreamsTerminated(edges, status, n) => AllUpstreamsTerminated(edges, status, n)'
           /\ MayStart(n) => MayStart(n)'
  <1>1. AllUpstreamsTerminated(edges, status, n) => AllUpstreamsTerminated(edges, status, n)'
    BY DEF KeepsEnded, AllUpstreamsTerminated, Upstreams
  <1>2. ASSUME MayStart(n)
        PROVE  ~MustSkip(edges, status, handle, n)'
    <2>1. CASE Upstreams(edges, n) = {}
      BY <2>1 DEF KeepsEnded, MustSkip, Upstreams
    <2>2. CASE Upstreams(edges, n) # {}
      <3>1. PICK u \in Upstreams(edges, n) : ActivatesDownstream(edges, status, handle, u, n)
        BY <1>2, <2>2 DEF MayStart, MustSkip, HasAnyActiveUpstreamEdge
      <3>2. status[u] \in {"succeeded", "exception"}
        BY <1>2, <3>1 DEF MayStart, AllUpstreamsTerminated, ActivatesDownstream,
                          IsStatusTerminated, TerminalStatus
      <3>3. u \in Node /\ status'[u] = status[u] /\ handle'[u] = handle[u] /\ edges' = edges
        BY <3>1, <3>2 DEF KeepsEnded, Upstreams
      <3>4. ActivatesDownstream(edges, status, handle, u, n)'
        BY <3>1, <3>3 DEF ActivatesDownstream
      <3>5. u \in Upstreams(edges, n)'
        BY <3>1, <3>3 DEF Upstreams
      <3>. QED
        BY <3>4, <3>5 DEF MustSkip, HasAnyActiveUpstreamEdge
    <2>. QED
      BY <2>1, <2>2
  <1>. QED
    BY <1>1, <1>2 DEF MayStart

\* The invariant holds at the start.
LEMMA InitIInv == Init => IInv
  <1>. SUFFICES ASSUME Init PROVE IInv
    OBVIOUS
  <1>1. TypeOK
    <2>1. edges \in Graph
      BY EngineAssumption DEF Init
    <2>2. status \in [Node -> Status] /\ handle \in [Node -> Handle \cup {NoHandle}]
      BY DEF Init, Status
    <2>3. proc \in [Node -> ProcPlaces] /\ launches \in [Node -> Nat]
      BY DEF Init, ProcPlaces
    <2>4. sched \in SchedPlaces /\ result \in Results /\ leases \in Int
      BY DEF Init, SchedPlaces, Results
    <2>. QED
      BY <2>1, <2>2, <2>3, <2>4 DEF Init, TypeOK
  <1>2. BeforeRun /\ PauseIsFlagged /\ StatusOfProc /\ LaunchesOfProc /\ OrphanIsStopped
    BY DEF Init, BeforeRun, PauseIsFlagged, StatusOfProc, LaunchesOfProc, OrphanIsStopped
  <1>3. CurIsPending /\ BatchIsClaimed /\ LeftLoop
    BY DEF Init, CurIsPending, BatchIsClaimed, LeftLoop
  <1>. QED
    BY <1>1, <1>2, <1>3 DEF IInv

\* One scheduler step, one goroutine step or a caller's step keeps the types.
LEMMA TypePreserved == TypeOK /\ CurIsPending /\ [Next]_vars => TypeOK'
  <1>. SUFFICES ASSUME TypeOK, CurIsPending, [Next]_vars PROVE TypeOK'
    OBVIOUS
  <1>. USE DEF TypeOK, Status, TerminalStatus, SchedPlaces, TickPlaces, ProcPlaces, Results
  <1>1. CASE Execute
    BY <1>1 DEF Execute
  <1>2. CASE ResetAndPreflight
    BY <1>2 DEF ResetAndPreflight
  <1>3. CASE TickStart
    BY <1>3 DEF TickStart, LeaveTick
  <1>4. ASSUME NEW n \in Node, Visit(n) PROVE TypeOK'
    BY <1>4 DEF Visit
  <1>5. CASE ReadUpstreams
    BY <1>5 DEF ReadUpstreams, VisitNext
  <1>6. CASE LeavePaused
    <2>1. leases' \in Int
      BY <1>6 DEF LeavePaused, LeaseGivenBack
    <2>. QED
      BY <1>6, <2>1 DEF LeavePaused, LeaveTick
  <1>7. CASE SkipNode
    BY <1>7 DEF SkipNode, VisitNext
  <1>8. CASE Lease
    BY <1>8 DEF Lease, VisitNext
  <1>9. CASE Claim
    <2>1. status' \in [Node -> Status]
      BY <1>9 DEF Claim, ClaimNodeForExecution
    <2>. QED
      BY <1>9, <2>1 DEF Claim, VisitNext, CurIsPending
  <1>10. CASE StartReadyBatch
    <2>1. Cardinality(batch) \in Nat
      BY GraphAssumption, FS_Subset, FS_CardinalityType
    <2>2. leases' \in Int
      BY <1>10, <2>1 DEF StartReadyBatch
    <2>3. status' \in [Node -> Status] /\ proc' \in [Node -> ProcPlaces]
      BY <1>10 DEF StartReadyBatch
    <2>4. launches' \in [Node -> Nat] /\ orphans' \subseteq Node
      BY <1>10 DEF StartReadyBatch
    <2>. QED
      BY <1>10, <2>2, <2>3, <2>4 DEF StartReadyBatch, LeaveTick
  <1>11. CASE Join
    BY <1>11 DEF Join, ExecutionResult
  <1>12. ASSUME NEW n \in Node, BeginNode(n) PROVE TypeOK'
    BY <1>12 DEF BeginNode, StoppedNodeStatus
  <1>13. ASSUME NEW n \in Node, AbortNode(n) PROVE TypeOK'
    BY <1>13 DEF AbortNode, StoppedNodeStatus
  <1>14. ASSUME NEW n \in Node, NEW o \in Outcomes, FinishNode(n, o) PROVE TypeOK'
    <2>1. o.status \in TerminalStatus /\ o.handle \in Handle \cup {NoHandle}
      BY EngineAssumption
    <2>2. status' \in [Node -> Status] /\ handle' \in [Node -> Handle \cup {NoHandle}]
      BY <1>14, <2>1 DEF FinishNode
    <2>3. isPaused' \in BOOLEAN /\ pausedNodes' \subseteq Node /\ sched' \in SchedPlaces
      BY <1>14 DEF FinishNode, Signalled
    <2>. QED
      BY <1>14, <2>2, <2>3 DEF FinishNode
  <1>15. ASSUME NEW n \in Node, SignalStatusChange(n) PROVE TypeOK'
    BY <1>15 DEF SignalStatusChange, Signalled
  <1>16. ASSUME NEW n \in Node, Unlease(n) PROVE TypeOK'
    BY <1>16 DEF Unlease
  <1>17. CASE Stop
    BY <1>17 DEF Stop, Signalled
  <1>18. CASE Cancel
    BY <1>18 DEF Cancel
  <1>19. CASE UNCHANGED vars
    BY <1>19 DEF vars
  <1>20. ASSUME NEW n \in Node, RunnerEnds(n) PROVE TypeOK'
    BY <1>20 DEF RunnerEnds
  <1>. QED
    BY <1>1, <1>2, <1>3, <1>4, <1>5, <1>6, <1>7, <1>8, <1>9, <1>10, <1>11, <1>12, <1>13, <1>14,
       <1>15, <1>16, <1>17, <1>18, <1>19, <1>20 DEF Next, Scheduler, Goroutine, Returned

\* The steps that leave the nodes, their handles and their goroutines alone.
QuietStep ==
    \/ Execute \/ TickStart \/ (\E n \in Node : Visit(n)) \/ ReadUpstreams
    \/ LeavePaused \/ Lease \/ Join \/ Stop \/ Cancel \/ (\E n \in Node : RunnerEnds(n))
    \/ UNCHANGED vars

\* What a quiet step leaves alone.
LEMMA QuietStepKeeps ==
    ASSUME QuietStep
    PROVE  /\ UNCHANGED <<edges, status, handle, proc, launches>>
           /\ UNCHANGED <<isPaused, pausedNodes>>
           /\ isStopped => isStopped'
           /\ orphans' \subseteq orphans
  BY DEF QuietStep, Execute, TickStart, Visit, ReadUpstreams, LeavePaused, Lease, Join, Stop,
         Cancel, RunnerEnds, vars

\* Every step is a quiet one or one of the others.
LEMMA StepCases ==
    ASSUME [Next]_vars
    PROVE  \/ QuietStep
           \/ ResetAndPreflight \/ SkipNode \/ Claim \/ StartReadyBatch
           \/ \E n \in Node : BeginNode(n)
           \/ \E n \in Node : AbortNode(n)
           \/ \E n \in Node, o \in Outcomes : FinishNode(n, o)
           \/ \E n \in Node : SignalStatusChange(n)
           \/ \E n \in Node : Unlease(n)
  BY DEF Next, Scheduler, Goroutine, Returned, QuietStep

\* An outcome is a terminal status and a handle.
LEMMA OutcomeType == ASSUME NEW o \in Outcomes
                     PROVE  o.status \in TerminalStatus /\ o.handle \in Handle \cup {NoHandle}
  BY EngineAssumption

\* No step changes a node that has ended.
LEMMA EndedKept == IInv /\ [Next]_vars => KeepsEnded
  <1>. SUFFICES ASSUME IInv, [Next]_vars PROVE KeepsEnded
    OBVIOUS
  <1>. USE DEF IInv, KeepsEnded, IsStatusTerminated, TerminalStatus, TypeOK
  <1>1. CASE QuietStep
    BY <1>1, QuietStepKeeps
  <1>2. CASE ResetAndPreflight
    BY <1>2 DEF ResetAndPreflight, BeforeRun
  <1>3. CASE SkipNode
    BY <1>3 DEF SkipNode, CurIsPending
  <1>4. CASE Claim
    BY <1>4 DEF Claim, ClaimNodeForExecution
  <1>5. CASE StartReadyBatch
    BY <1>5 DEF StartReadyBatch
  <1>6. ASSUME NEW n \in Node, BeginNode(n) PROVE KeepsEnded
    BY <1>6 DEF BeginNode, StatusOfProc
  <1>7. ASSUME NEW n \in Node, AbortNode(n) PROVE KeepsEnded
    BY <1>7 DEF AbortNode, StatusOfProc
  <1>8. ASSUME NEW n \in Node, NEW o \in Outcomes, FinishNode(n, o) PROVE KeepsEnded
    BY <1>8, OutcomeType DEF FinishNode, StatusOfProc
  <1>9. ASSUME NEW n \in Node, SignalStatusChange(n) PROVE KeepsEnded
    BY <1>9 DEF SignalStatusChange
  <1>10. ASSUME NEW n \in Node, Unlease(n) PROVE KeepsEnded
    BY <1>10 DEF Unlease
  <1>. QED
    BY <1>1, <1>2, <1>3, <1>4, <1>5, <1>6, <1>7, <1>8, <1>9, <1>10, StepCases

\* The statuses, the launches and the pause flag, kept by every step.
LEMMA NodesPreserved ==
    IInv /\ [Next]_vars =>
        PauseIsFlagged' /\ StatusOfProc' /\ LaunchesOfProc' /\ OrphanIsStopped'
  <1>. DEFINE Goal == PauseIsFlagged' /\ StatusOfProc' /\ LaunchesOfProc' /\ OrphanIsStopped'
  <1>. SUFFICES ASSUME IInv, [Next]_vars PROVE Goal
    OBVIOUS
  <1>. USE DEF IInv, PauseIsFlagged, StatusOfProc, LaunchesOfProc, OrphanIsStopped,
               TerminalStatus, TypeOK
  <1>1. CASE QuietStep
    BY <1>1, QuietStepKeeps
  <1>2. CASE ResetAndPreflight
    BY <1>2 DEF ResetAndPreflight, BeforeRun
  <1>3. CASE SkipNode
    BY <1>3 DEF SkipNode, CurIsPending
  <1>4. CASE Claim
    BY <1>4 DEF Claim, ClaimNodeForExecution, CurIsPending
  <1>5. CASE StartReadyBatch
    BY <1>5 DEF StartReadyBatch, BatchIsClaimed
  <1>6. ASSUME NEW n \in Node, BeginNode(n) PROVE Goal
    BY <1>6 DEF BeginNode, StoppedNodeStatus
  <1>7. ASSUME NEW n \in Node, AbortNode(n) PROVE Goal
    BY <1>7 DEF AbortNode, StoppedNodeStatus
  <1>8. ASSUME NEW n \in Node, NEW o \in Outcomes, FinishNode(n, o) PROVE Goal
    BY <1>8, OutcomeType DEF FinishNode
  <1>9. ASSUME NEW n \in Node, SignalStatusChange(n) PROVE Goal
    BY <1>9 DEF SignalStatusChange
  <1>10. ASSUME NEW n \in Node, Unlease(n) PROVE Goal
    BY <1>10 DEF Unlease
  <1>. QED
    BY <1>1, <1>2, <1>3, <1>4, <1>5, <1>6, <1>7, <1>8, <1>9, <1>10, StepCases

\* The node being visited stays pending, and what was found out about it stays true.
LEMMA CurPreserved == IInv /\ [Next]_vars => CurIsPending'
  <1>. SUFFICES ASSUME IInv, [Next]_vars PROVE CurIsPending'
    OBVIOUS
  <1>. USE DEF IInv
  <1>0. KeepsEnded /\ TypeOK
    BY EndedKept
  \* A step that does not move the scheduler touches no pending node.
  <1>a. ASSUME UNCHANGED <<sched, cur>>, \A n \in Node : status[n] = "pending" => status'[n] = "pending"
        PROVE  CurIsPending'
    <2>1. CASE sched \in {"upstreams", "ready", "leased"}
      BY <1>0, <1>a, <2>1, MayStartStable DEF CurIsPending
    <2>2. CASE sched \notin {"upstreams", "ready", "leased"}
      BY <1>a, <2>2 DEF CurIsPending
    <2>. QED
      BY <2>1, <2>2
  <1>1. CASE Execute \/ ResetAndPreflight \/ Join
    BY <1>1 DEF Execute, ResetAndPreflight, Join, CurIsPending
  <1>2. CASE TickStart \/ LeavePaused \/ StartReadyBatch
    BY <1>2 DEF TickStart, LeavePaused, StartReadyBatch, LeaveTick, CurIsPending
  <1>3. CASE SkipNode \/ Claim
    BY <1>3 DEF SkipNode, Claim, VisitNext, CurIsPending
  <1>4. ASSUME NEW n \in Node, Visit(n) PROVE CurIsPending'
    BY <1>4 DEF Visit, CurIsPending
  <1>5. CASE ReadUpstreams
    BY <1>5 DEF ReadUpstreams, VisitNext, CurIsPending
  <1>6. CASE Lease
    BY <1>6 DEF Lease, VisitNext, CurIsPending, MayStart
  <1>7. ASSUME NEW n \in Node, BeginNode(n) \/ AbortNode(n) PROVE CurIsPending'
    BY <1>7, <1>a, <1>0 DEF BeginNode, AbortNode, StatusOfProc, TypeOK
  <1>8. ASSUME NEW n \in Node, NEW o \in Outcomes, FinishNode(n, o) PROVE CurIsPending'
    <2>1. \A m \in Node : status[m] = "pending" => status'[m] = "pending"
      BY <1>8, <1>0 DEF FinishNode, StatusOfProc, TypeOK
    <2>2. CASE sched = "wait"
      BY <1>8, <2>2 DEF FinishNode, Signalled, CurIsPending
    <2>3. CASE sched # "wait"
      BY <1>8, <1>a, <2>1, <2>3 DEF FinishNode, Signalled
    <2>. QED
      BY <2>2, <2>3
  <1>9. ASSUME NEW n \in Node, SignalStatusChange(n) PROVE CurIsPending'
    BY <1>9 DEF SignalStatusChange, Signalled, TickPlaces, CurIsPending
  <1>10. ASSUME NEW n \in Node, Unlease(n) PROVE CurIsPending'
    BY <1>10, <1>a DEF Unlease
  <1>11. CASE Stop
    <2>1. CASE sched = "wait"
      BY <1>11, <2>1 DEF Stop, Signalled, CurIsPending
    <2>2. CASE sched # "wait"
      BY <1>11, <1>a, <2>2 DEF Stop, Signalled
    <2>. QED
      BY <2>1, <2>2
  <1>12. CASE Cancel \/ UNCHANGED vars \/ \E n \in Node : RunnerEnds(n)
    BY <1>12, <1>a DEF Cancel, RunnerEnds, vars
  <1>. QED
    BY <1>1, <1>2, <1>3, <1>4, <1>5, <1>6, <1>7, <1>8, <1>9, <1>10, <1>11, <1>12
       DEF Next, Scheduler, Goroutine, Returned

\* A claimed node waits untouched for the start of its batch.
LEMMA BatchPreserved == IInv /\ [Next]_vars => BatchIsClaimed'
  <1>. SUFFICES ASSUME IInv, [Next]_vars PROVE BatchIsClaimed'
    OBVIOUS
  <1>. USE DEF IInv
  <1>0. KeepsEnded /\ TypeOK
    BY EndedKept
  <1>a. ASSUME NEW n \in batch, status'[n] = status[n], proc'[n] = proc[n]
        PROVE  status'[n] = "running" /\ proc'[n] = "none" /\ MayStart(n)'
    BY <1>a, <1>0, MayStartStable DEF BatchIsClaimed, TypeOK
  <1>b. ASSUME batch' \subseteq batch,
               \A n \in batch : status'[n] = status[n] /\ proc'[n] = proc[n]
        PROVE  BatchIsClaimed'
    BY <1>a, <1>b DEF BatchIsClaimed
  <1>1. CASE Execute \/ Join \/ Stop \/ Cancel \/ UNCHANGED vars \/ \E n \in Node : RunnerEnds(n)
    BY <1>1, <1>b DEF Execute, Join, Stop, Cancel, RunnerEnds, vars
  <1>2. CASE ResetAndPreflight
    BY <1>2 DEF ResetAndPreflight, BeforeRun, BatchIsClaimed
  <1>3. CASE TickStart \/ LeavePaused \/ StartReadyBatch
    <2>1. CASE batch' = {}
      BY <2>1 DEF BatchIsClaimed
    <2>2. CASE TickStart /\ batch' = batch
      BY <2>2, <1>b DEF TickStart
    <2>. QED
      BY <1>3, <2>1, <2>2 DEF TickStart, LeavePaused, StartReadyBatch, LeaveTick
  <1>4. ASSUME NEW n \in Node, Visit(n) PROVE BatchIsClaimed'
    BY <1>4, <1>b DEF Visit
  <1>5. CASE ReadUpstreams \/ Lease
    BY <1>5, <1>b DEF ReadUpstreams, Lease, VisitNext
  <1>6. CASE SkipNode
    BY <1>6, <1>b, <1>0 DEF SkipNode, CurIsPending, BatchIsClaimed, TypeOK
  <1>7. CASE Claim
    <2>1. PICK m \in Node : m = cur /\ status[m] = "pending" /\ MayStart(m)
      BY <1>7 DEF Claim, CurIsPending
    <2>2. proc[m] = "none"
      BY <2>1, <1>0 DEF StatusOfProc, TypeOK, ProcPlaces, TerminalStatus
    <2>3. MayStart(m)'
      BY <1>0, <2>1, MayStartStable
    <2>4. status'[m] = "running" /\ proc' = proc /\ batch' = batch \cup {m}
      BY <1>7, <2>1, <1>0 DEF Claim, ClaimNodeForExecution, TypeOK
    <2>5. \A n \in batch : status'[n] = status[n]
      BY <1>7, <1>0, <2>1 DEF Claim, ClaimNodeForExecution, BatchIsClaimed, TypeOK
    <2>. QED
      BY <1>a, <2>2, <2>3, <2>4, <2>5 DEF BatchIsClaimed
  <1>8. ASSUME NEW n \in Node, BeginNode(n) \/ AbortNode(n) PROVE BatchIsClaimed'
    BY <1>8, <1>b, <1>0 DEF BeginNode, AbortNode, BatchIsClaimed, TypeOK
  <1>9. ASSUME NEW n \in Node, NEW o \in Outcomes, FinishNode(n, o) PROVE BatchIsClaimed'
    BY <1>9, <1>b, <1>0 DEF FinishNode, BatchIsClaimed, TypeOK
  <1>10. ASSUME NEW n \in Node, SignalStatusChange(n) \/ Unlease(n) PROVE BatchIsClaimed'
    BY <1>10, <1>b, <1>0 DEF SignalStatusChange, Unlease, BatchIsClaimed, TypeOK
  <1>. QED
    BY <1>1, <1>2, <1>3, <1>4, <1>5, <1>6, <1>7, <1>8, <1>9, <1>10
       DEF Next, Scheduler, Goroutine, Returned

\* How the run begins and ends.
LEMMA RunPreserved == IInv /\ [Next]_vars => BeforeRun' /\ LeftLoop'
  <1>. DEFINE Goal == BeforeRun' /\ LeftLoop'
  <1>. SUFFICES ASSUME IInv, [Next]_vars PROVE Goal
    OBVIOUS
  <1>. USE DEF IInv, BeforeRun, LeftLoop, GoroutinesEnded
  <1>0. AllTerminated => AllTerminated'
    BY EndedKept DEF KeepsEnded, AllTerminated
  <1>1. CASE Execute
    BY <1>1, <1>0 DEF Execute
  <1>2. CASE ResetAndPreflight
    BY <1>2, <1>0 DEF ResetAndPreflight, TypeOK
  <1>3. CASE TickStart
    BY <1>3, <1>0 DEF TickStart, LeaveTick, IsPaused
  <1>4. CASE LeavePaused
    BY <1>4 DEF LeavePaused, LeaveTick, IsPaused
  <1>5. CASE SkipNode \/ Claim \/ ReadUpstreams \/ Lease \/ \E n \in Node : Visit(n)
    BY <1>5 DEF SkipNode, Claim, ReadUpstreams, Lease, Visit, VisitNext
  <1>6. CASE StartReadyBatch
    BY <1>6 DEF StartReadyBatch, LeaveTick
  <1>7. CASE Join
    BY <1>7, <1>0 DEF Join, ExecutionResult
  <1>8. ASSUME NEW n \in Node, BeginNode(n) PROVE Goal
    BY <1>8, <1>0 DEF BeginNode
  <1>9. ASSUME NEW n \in Node, AbortNode(n) PROVE Goal
    BY <1>9, <1>0 DEF AbortNode
  <1>10. ASSUME NEW n \in Node, NEW o \in Outcomes, FinishNode(n, o) PROVE Goal
    BY <1>10, <1>0 DEF FinishNode, Signalled
  <1>11. ASSUME NEW n \in Node, SignalStatusChange(n) PROVE Goal
    BY <1>11, <1>0 DEF SignalStatusChange, Signalled
  <1>12. ASSUME NEW n \in Node, Unlease(n) PROVE Goal
    BY <1>12, <1>0 DEF Unlease
  <1>13. CASE Stop
    BY <1>13, <1>0 DEF Stop, Signalled
  <1>14. CASE Cancel \/ UNCHANGED vars \/ \E n \in Node : RunnerEnds(n)
    BY <1>14, <1>0 DEF Cancel, RunnerEnds, vars
  <1>. QED
    BY <1>1, <1>2, <1>3, <1>4, <1>5, <1>6, <1>7, <1>8, <1>9, <1>10, <1>11, <1>12, <1>13, <1>14
       DEF Next, Scheduler, Goroutine, Returned

\* Every step keeps the invariant.
LEMMA IInvPreserved == IInv /\ [Next]_vars => IInv'
  BY TypePreserved, NodesPreserved, CurPreserved, BatchPreserved, RunPreserved DEF IInv

\* IInv holds in every reachable state.
THEOREM Invariance == Spec => []IInv
  BY InitIInv, IInvPreserved, PTL DEF Spec

-----------------------------------------------------------------------------
(* The properties that follow from IInv.                                    *)

\* Every reachable state of the engine has the types of TypeOK.
THEOREM TypeCorrect == Spec => []TypeOK
  BY Invariance, PTL DEF IInv

\* At most one goroutine is ever started for a node (claimNodeForExecution).
THEOREM StartsOnce == Spec => []RunsAtMostOnce
  <1>1. IInv => RunsAtMostOnce
    BY DEF IInv, LaunchesOfProc, RunsAtMostOnce
  <1>. QED
    BY <1>1, Invariance, PTL

\* Execute returns with no started node undecided and with no node executing, except
\* that a stopped engine may leave the runner of an ended node behind (executeNode
\* and consumeNodeEvents on the stop path).
THEOREM Quiescent == Spec => []ReturnsQuiescent
  <1>1. IInv => ReturnsQuiescent
    BY DEF IInv, TypeOK, LeftLoop, GoroutinesEnded, StatusOfProc, LaunchesOfProc,
           OrphanIsStopped, ReturnsQuiescent, TerminalStatus
  <1>. QED
    BY <1>1, Invariance, PTL

\* A nil error without pause or cancellation means that every node is terminal.
THEOREM Complete == Spec => []NilMeansComplete
  <1>1. IInv => NilMeansComplete
    BY DEF IInv, LeftLoop, NilMeansComplete, AllTerminated
  <1>. QED
    BY <1>1, Invariance, PTL

-----------------------------------------------------------------------------
(* The lease bucket.                                                        *)

\* Claimed and live nodes are finitely many.
LEMMA FiniteParts ==
    /\ IsFiniteSet(Claimed) /\ Cardinality(Claimed) \in Nat
    /\ IsFiniteSet(Live) /\ Cardinality(Live) \in Nat
  BY GraphAssumption, FS_Subset, FS_CardinalityType DEF Claimed, Live

\* The normalized concurrency is a number.
LEMMA ConcurrencyType == MaxConcurrency \in Nat
  BY EngineAssumption DEF MaxConcurrency, NormalizeMaxConcurrency, DefaultMaxConcurrency,
                          MaxConcurrencyLimit

\* At the start no slot is leased.
LEMMA InitLeases == Init => LeasesAccounted
  <1>. SUFFICES ASSUME Init PROVE LeasesAccounted
    OBVIOUS
  <1>1. Claimed = {} /\ Live = {}
    BY DEF Init, Claimed, Live
  <1>. QED
    BY <1>1, FS_EmptySet, ConcurrencyType DEF Init, LeasesAccounted

\* No step loses a lease or returns one twice, on none of the pause paths.
LEMMA LeasesPreserved == IInv /\ LeasesAccounted /\ [Next]_vars => LeasesAccounted'
  <1>. SUFFICES ASSUME IInv, LeasesAccounted, [Next]_vars PROVE LeasesAccounted'
    OBVIOUS
  <1>. DEFINE visiting == IF sched = "leased" THEN 1 ELSE 0
  <1>0. TypeOK /\ leases \in Int /\ MaxConcurrency \in Nat
    BY ConcurrencyType DEF IInv, TypeOK
  <1>a. /\ Cardinality(Claimed) \in Nat /\ IsFiniteSet(Claimed)
        /\ Cardinality(Live) \in Nat /\ IsFiniteSet(Live)
    BY FiniteParts
  <1>b. ASSUME Claimed' = Claimed, Live' = Live, leases' = leases + visiting' - visiting,
               leases' <= MaxConcurrency
        PROVE  LeasesAccounted'
    BY <1>0, <1>a, <1>b DEF LeasesAccounted
  <1>c. ASSUME UNCHANGED <<status, proc>> PROVE Claimed' = Claimed /\ Live' = Live
    BY <1>c DEF Claimed, Live
  <1>1. CASE Execute \/ TickStart \/ ReadUpstreams \/ Join \/ \E n \in Node : Visit(n)
    BY <1>1, <1>0, <1>b, <1>c
       DEF Execute, TickStart, LeaveTick, ReadUpstreams, VisitNext, Join, Visit, LeasesAccounted
  <1>2. CASE ResetAndPreflight
    <2>1. status' = status
      BY <1>2, <1>0 DEF ResetAndPreflight, IInv, BeforeRun, TypeOK
    <2>. QED
      BY <1>2, <1>0, <1>b, <1>c, <2>1 DEF ResetAndPreflight, LeasesAccounted
  <1>3. CASE LeavePaused
    BY <1>3, <1>0, <1>b, <1>c DEF LeavePaused, LeaveTick, LeaseGivenBack, LeasesAccounted
  <1>4. CASE Lease
    BY <1>4, <1>0, <1>b, <1>c DEF Lease, VisitNext, LeasesAccounted
  <1>5. CASE SkipNode
    <2>1. Claimed' = Claimed /\ Live' = Live
      BY <1>5, <1>0 DEF SkipNode, IInv, CurIsPending, Claimed, Live, TypeOK
    <2>. QED
      BY <1>5, <1>0, <1>b, <2>1 DEF SkipNode, VisitNext, LeasesAccounted
  <1>6. CASE Claim
    <2>1. PICK m \in Node : m = cur /\ status[m] = "pending"
      BY <1>6 DEF Claim, IInv, CurIsPending
    <2>2. proc[m] = "none" /\ m \notin Claimed
      BY <2>1, <1>0 DEF IInv, StatusOfProc, TypeOK, ProcPlaces, TerminalStatus, Claimed
    <2>3. Claimed' = Claimed \cup {m} /\ Live' = Live
      BY <1>6, <1>0, <2>1, <2>2 DEF Claim, ClaimNodeForExecution, Claimed, Live, TypeOK
    <2>4. Cardinality(Claimed') = Cardinality(Claimed) + 1
      BY <2>2, <2>3, <1>a, FS_AddElement
    <2>5. leases' = leases /\ sched = "leased" /\ sched' = "visit"
      BY <1>6 DEF Claim, VisitNext
    <2>. QED
      BY <1>0, <1>a, <2>3, <2>4, <2>5 DEF LeasesAccounted
  <1>7. CASE StartReadyBatch
    <2>1. batch \subseteq Claimed /\ IsFiniteSet(batch) /\ Cardinality(batch) \in Nat
      BY <1>0, <1>a, FS_Subset, FS_CardinalityType DEF IInv, BatchIsClaimed, TypeOK, Claimed
    <2>2. Claimed' = Claimed \ batch
      BY <1>7, <1>0, <2>1 DEF StartReadyBatch, Claimed, TypeOK
    <2>3. Cardinality(Claimed') = Cardinality(Claimed) - Cardinality(batch)
      <3>1. Claimed \cap batch = batch
        BY <2>1
      <3>2. Cardinality(Claimed \ batch) = Cardinality(Claimed) - Cardinality(Claimed \cap batch)
        BY <1>a, FS_Difference
      <3>. QED
        BY <2>2, <3>1, <3>2
    <2>4. sched # "leased" /\ sched' # "leased"
      BY <1>7 DEF StartReadyBatch, LeaveTick
    <2>5. CASE IsPaused
      <3>1. Live' = Live /\ leases' = leases - Cardinality(batch)
        BY <1>7, <2>5 DEF StartReadyBatch, Live
      <3>. QED
        BY <1>0, <1>a, <2>1, <2>3, <2>4, <3>1 DEF LeasesAccounted
    <2>6. CASE ~IsPaused
      <3>1. Live' = Live \cup batch /\ leases' = leases
        BY <1>7, <1>0, <2>1, <2>6 DEF StartReadyBatch, Live, Claimed, TypeOK
      <3>2. Live \cap batch = {}
        BY <2>1 DEF Live, Claimed
      <3>3. Cardinality(Live') = Cardinality(Live) + Cardinality(batch)
        BY <3>1, <3>2, <1>a, <2>1, FS_Union, FS_EmptySet
      <3>. QED
        BY <1>0, <1>a, <2>1, <2>3, <2>4, <3>1, <3>3 DEF LeasesAccounted
    <2>. QED
      BY <2>5, <2>6
  <1>8. ASSUME NEW n \in Node, BeginNode(n) \/ AbortNode(n) PROVE LeasesAccounted'
    <2>1. Claimed' = Claimed /\ Live' = Live
      BY <1>8, <1>0 DEF BeginNode, AbortNode, Claimed, Live, TypeOK
    <2>. QED
      BY <1>8, <1>0, <1>b, <2>1 DEF BeginNode, AbortNode, LeasesAccounted
  <1>9. ASSUME NEW n \in Node, NEW o \in Outcomes, FinishNode(n, o) PROVE LeasesAccounted'
    <2>1. Claimed' = Claimed /\ Live' = Live
      BY <1>9, <1>0 DEF FinishNode, Claimed, Live, TypeOK
    <2>. QED
      BY <1>9, <1>0, <1>b, <2>1 DEF FinishNode, Signalled, LeasesAccounted
  <1>10. ASSUME NEW n \in Node, SignalStatusChange(n) PROVE LeasesAccounted'
    <2>1. Claimed' = Claimed /\ Live' = Live
      BY <1>10, <1>0 DEF SignalStatusChange, Claimed, Live, TypeOK
    <2>. QED
      BY <1>10, <1>0, <1>b, <2>1 DEF SignalStatusChange, Signalled, LeasesAccounted
  <1>11. ASSUME NEW n \in Node, Unlease(n) PROVE LeasesAccounted'
    <2>1. Claimed' = Claimed /\ Live' = Live \ {n} /\ n \in Live
      BY <1>11, <1>0 DEF Unlease, Claimed, Live, TypeOK
    <2>2. Cardinality(Live') = Cardinality(Live) - 1
      BY <2>1, <1>a, FS_RemoveElement
    <2>. QED
      BY <1>11, <1>0, <1>a, <2>1, <2>2 DEF Unlease, LeasesAccounted
  <1>12. CASE Stop \/ Cancel \/ UNCHANGED vars \/ \E n \in Node : RunnerEnds(n)
    BY <1>12, <1>0, <1>b, <1>c DEF Stop, Signalled, Cancel, RunnerEnds, vars, LeasesAccounted
  <1>. QED
    BY <1>1, <1>2, <1>3, <1>4, <1>5, <1>6, <1>7, <1>8, <1>9, <1>10, <1>11, <1>12
       DEF Next, Scheduler, Goroutine, Returned

\* The leases out are those of the claimed and the live nodes and of the node being
\* claimed, never more than the concurrency the factory allows.
THEOREM LeasesCorrect == Spec => []LeasesAccounted
  BY InitLeases, LeasesPreserved, Invariance, PTL DEF Spec
=============================================================================
