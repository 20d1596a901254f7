---------------------- MODULE WorkflowEngineDag_proofs ----------------------
(***************************************************************************)
(* The engine implements DagRun, for every graph, concurrency and outcome. *)
(***************************************************************************)
EXTENDS WorkflowEngine_proofs

USE DEF nodeVars, flagVars, tickVars, procVars

DagStopped == isStopped /\ sched \notin {"idle", "locked"}

\* Steps DagRun does not see.
DagStutter == UNCHANGED <<edges, VisibleStatus, handle>> /\ (DagStopped' <=> DagStopped)

\* A step that DagRun does not see is a stutter of DagRun.
LEMMA StutterIsDag == DagStutter => UNCHANGED Dag!vars
  BY Zenon DEF DagStutter, DagStopped, Dag!vars

\* The abstract steps that change a status keep stopped.
LEMMA StoppedKept ==
    ASSUME DagStopped' <=> DagStopped
    PROVE  (isStopped /\ sched \notin {"idle", "locked"})'
              = (isStopped /\ sched \notin {"idle", "locked"})
  BY Zenon DEF DagStopped

\* The status of a node that is not merely claimed is visible.
LEMMA VisibleOfEnded ==
    ASSUME NEW u \in Node, status[u] # "running" \/ proc[u] # "none"
    PROVE  VisibleStatus[u] = status[u]
  BY DEF VisibleStatus, Claimed

\* A node whose upstreams are terminal is judged alike by both specifications.
LEMMA DecidedAlike ==
    ASSUME TypeOK, PauseIsFlagged, NEW n \in Node, ~isPaused,
           AllUpstreamsTerminated(edges, status, n), VisibleStatus[n] = "pending"
    PROVE  /\ Dag!Decidable(n)
           /\ Dag!MustSkip(edges, VisibleStatus, handle, n) <=> MustSkip(edges, status, handle, n)
  <1>1. \A u \in Upstreams(edges, n) : u \in Node /\ VisibleStatus[u] = status[u]
    BY VisibleOfEnded DEF AllUpstreamsTerminated, IsStatusTerminated, TerminalStatus, Upstreams
  <1>2. Dag!Upstreams(edges, n) = Upstreams(edges, n)
    BY DEF Dag!Upstreams, Upstreams
  <1>3. Dag!AllUpstreamsTerminated(edges, VisibleStatus, n)
    BY <1>1, <1>2 DEF AllUpstreamsTerminated, IsStatusTerminated, TerminalStatus,
       Dag!AllUpstreamsTerminated, Dag!IsStatusTerminated, Dag!TerminalStatus
  <1>4. \A u \in Upstreams(edges, n) : VisibleStatus[u] # "paused"
    BY <1>1 DEF PauseIsFlagged
  <1>5. Dag!Decidable(n)
    BY <1>2, <1>3, <1>4 DEF Dag!Decidable
  <1>6. \A u \in Upstreams(edges, n) :
           Dag!ActivatesDownstream(edges, VisibleStatus, handle, u, n)
              <=> ActivatesDownstream(edges, status, handle, u, n)
    BY <1>1 DEF Dag!ActivatesDownstream, ActivatesDownstream
  <1>. QED
    BY <1>2, <1>5, <1>6 DEF Dag!MustSkip, Dag!HasAnyActiveUpstreamEdge, MustSkip,
       HasAnyActiveUpstreamEdge

\* The engine starts where DagRun starts.
LEMMA InitRefines == Init => Dag!Init
  <1>. SUFFICES ASSUME Init PROVE Dag!Init
    OBVIOUS
  <1>1. VisibleStatus = [n \in Node |-> "pending"]
    BY DEF Init, VisibleStatus, Claimed
  <1>2. (isStopped /\ sched \notin {"idle", "locked"}) = FALSE
    BY DEF Init
  <1>. QED
    BY <1>1, <1>2 DEF Init, Dag!Init, Dag!NoHandle, NoHandle

\* Every step of the engine is a step of DagRun or one it does not see.
LEMMA StepRefines == IInv /\ [Next]_vars => [Dag!Next]_(Dag!vars)
  <1>. SUFFICES ASSUME IInv, [Next]_vars PROVE Dag!Next \/ UNCHANGED Dag!vars
    OBVIOUS
  <1>0. TypeOK /\ PauseIsFlagged /\ StatusOfProc
    BY DEF IInv
  <1>a. ASSUME NEW n \in Node, proc[n] # "none" PROVE sched \notin {"idle", "locked"}
    BY <1>a DEF IInv, BeforeRun
  <1>b. ASSUME UNCHANGED <<edges, status, proc, handle, isStopped>>,
               sched' \in {"idle", "locked"} <=> sched \in {"idle", "locked"}
        PROVE  UNCHANGED Dag!vars
    <2>1. VisibleStatus' = VisibleStatus
      BY <1>b DEF VisibleStatus, Claimed
    <2>. QED
      BY <1>b, <2>1, StutterIsDag DEF DagStutter, DagStopped
  <1>1. CASE Execute
    BY <1>1, <1>b DEF Execute
  <1>2. CASE ResetAndPreflight
    <2>1. status' = status
      BY <1>2, <1>0 DEF ResetAndPreflight, IInv, BeforeRun, TypeOK
    <2>2. VisibleStatus' = VisibleStatus
      BY <1>2, <2>1 DEF ResetAndPreflight, VisibleStatus, Claimed
    <2>. QED
      BY <1>2, <2>2, StutterIsDag DEF ResetAndPreflight, DagStutter, DagStopped
  <1>3. CASE TickStart \/ ReadUpstreams \/ LeavePaused \/ Lease \/ Join \/ \E n \in Node : Visit(n)
    BY <1>3, <1>b DEF TickStart, ReadUpstreams, LeavePaused, Lease, Join, Visit, VisitNext, LeaveTick
  <1>4. CASE SkipNode
    <2>1. PICK m \in Node : /\ m = cur /\ status[m] = "pending"
                            /\ AllUpstreamsTerminated(edges, status, m)
                            /\ MustSkip(edges, status, handle, m)
      BY <1>4 DEF SkipNode, IInv, CurIsPending
    <2>2. VisibleStatus[m] = "pending" /\ ~isPaused
      BY <1>4, <2>1, VisibleOfEnded DEF SkipNode, IsPaused
    <2>3. Dag!Decidable(m) /\ Dag!MustSkip(edges, VisibleStatus, handle, m)
      BY <1>0, <2>1, <2>2, DecidedAlike
    <2>4. VisibleStatus' = [VisibleStatus EXCEPT ![m] = "skipped"]
      BY <1>0, <1>4, <2>1 DEF SkipNode, VisibleStatus, Claimed, TypeOK
    <2>5. DagStopped' <=> DagStopped
      BY <1>4 DEF SkipNode, VisitNext, DagStopped
    <2>. QED
      BY <1>4, <2>3, <2>4, <2>5, StoppedKept DEF SkipNode, Dag!Skip, Dag!Next
  <1>5. CASE Claim
    <2>1. PICK m \in Node : m = cur /\ status[m] = "pending"
      BY <1>5 DEF Claim, IInv, CurIsPending
    <2>2. proc[m] = "none"
      BY <1>0, <2>1 DEF StatusOfProc, TypeOK, ProcPlaces, TerminalStatus
    <2>3. VisibleStatus' = VisibleStatus
      BY <1>0, <1>5, <2>1, <2>2 DEF Claim, ClaimNodeForExecution, VisibleStatus, Claimed, TypeOK
    <2>. QED
      BY <1>5, <2>3, StutterIsDag DEF Claim, VisitNext, DagStutter, DagStopped
  <1>6. CASE StartReadyBatch
    <2>0. \A n \in batch : n \in Node /\ status[n] = "running" /\ proc[n] = "none" /\ MayStart(n)
      BY <1>0 DEF IInv, BatchIsClaimed, TypeOK
    <2>1. UNCHANGED <<edges, handle>> /\ (DagStopped' <=> DagStopped)
      BY <1>6 DEF StartReadyBatch, LeaveTick, DagStopped
    <2>2. CASE IsPaused
      <3>1. VisibleStatus' = VisibleStatus
        BY <1>0, <1>6, <2>0, <2>2 DEF StartReadyBatch, VisibleStatus, Claimed, TypeOK
      <3>. QED
        BY <2>1, <3>1, StutterIsDag DEF DagStutter
    <2>3. CASE ~IsPaused
      <3>1. VisibleStatus' = [n \in Node |-> IF n \in batch THEN "running" ELSE VisibleStatus[n]]
        BY <1>0, <1>6, <2>0, <2>3 DEF StartReadyBatch, VisibleStatus, Claimed, TypeOK
      <3>2. ASSUME NEW n \in batch
            PROVE  Dag!Decidable(n) /\ ~Dag!MustSkip(edges, VisibleStatus, handle, n)
        <4>1. VisibleStatus[n] = "pending"
          BY <2>0 DEF VisibleStatus, Claimed
        <4>. QED
          BY <1>0, <2>0, <2>3, <4>1, DecidedAlike DEF MayStart, IsPaused
      <3>3. Dag!Start(batch)
        BY <2>1, <3>1, <3>2, StoppedKept DEF Dag!Start
      <3>. QED
        BY <2>0, <3>3 DEF Dag!Next
    <2>. QED
      BY <2>2, <2>3
  <1>7. ASSUME NEW n \in Node, BeginNode(n) \/ AbortNode(n)
        PROVE  Dag!Next \/ UNCHANGED Dag!vars
    <2>1. /\ status[n] = "running" /\ proc[n] # "none" /\ VisibleStatus[n] = "running"
          /\ sched \notin {"idle", "locked"}
      BY <1>7, <1>0, <1>a, VisibleOfEnded DEF BeginNode, AbortNode, StatusOfProc
    <2>2. UNCHANGED <<edges, handle>> /\ (DagStopped' <=> DagStopped)
      BY <1>7 DEF BeginNode, AbortNode, DagStopped
    <2>3. CASE isStopped
      <3>1. VisibleStatus' = [VisibleStatus EXCEPT ![n] = "failed"]
        BY <1>7, <1>0, <2>1, <2>3
           DEF BeginNode, AbortNode, StoppedNodeStatus, VisibleStatus, Claimed, TypeOK
      <3>2. Dag!Interrupt(n)
        BY <2>1, <2>2, <2>3, <3>1, StoppedKept DEF Dag!Interrupt
      <3>. QED
        BY <3>2 DEF Dag!Next
    <2>4. CASE ~isStopped
      <3>1. VisibleStatus' = VisibleStatus
        BY <1>7, <1>0, <2>1, <2>4 DEF BeginNode, AbortNode, VisibleStatus, Claimed, TypeOK
      <3>. QED
        BY <2>2, <3>1, StutterIsDag DEF DagStutter
    <2>. QED
      BY <2>3, <2>4
  <1>8. ASSUME NEW n \in Node, NEW o \in Outcomes, FinishNode(n, o)
        PROVE  Dag!Next \/ UNCHANGED Dag!vars
    <2>1. proc[n] # "none" /\ VisibleStatus[n] = status[n] /\ sched \notin {"idle", "locked"}
      BY <1>8, <1>0, <1>a, VisibleOfEnded DEF FinishNode
    <2>2. VisibleStatus' = [VisibleStatus EXCEPT ![n] = o.status]
      BY <1>8, <1>0, <2>1 DEF FinishNode, VisibleStatus, Claimed, TypeOK
    <2>3. DagStopped' <=> DagStopped
      BY <1>8, <2>1 DEF FinishNode, Signalled, DagStopped
    <2>4. Dag!Record(n, o)
      BY <1>8, <2>2, <2>3, StoppedKept DEF FinishNode, Dag!Record
    <2>5. CASE proc[n] = "running"
      BY <1>0, <2>1, <2>4, <2>5 DEF StatusOfProc, Dag!Finish, Dag!Next
    <2>6. CASE proc[n] = "aborted"
      BY <1>0, <2>1, <2>4, <2>6 DEF StatusOfProc, Dag!ReportInterrupted, Dag!Next
    <2>. QED
      BY <1>8, <2>5, <2>6 DEF FinishNode
  <1>9. ASSUME NEW n \in Node, SignalStatusChange(n) \/ Unlease(n)
        PROVE  UNCHANGED Dag!vars
    <2>1. proc[n] # "none" /\ sched \notin {"idle", "locked"}
      BY <1>9, <1>a DEF SignalStatusChange, Unlease
    <2>2. VisibleStatus' = VisibleStatus
      BY <1>9, <1>0, <2>1 DEF SignalStatusChange, Unlease, VisibleStatus, Claimed, TypeOK
    <2>3. UNCHANGED <<edges, handle>> /\ (DagStopped' <=> DagStopped)
      BY <1>9, <2>1 DEF SignalStatusChange, Unlease, Signalled, DagStopped
    <2>. QED
      BY <2>2, <2>3, StutterIsDag DEF DagStutter
  <1>10. CASE Stop
    <2>1. VisibleStatus' = VisibleStatus /\ UNCHANGED <<edges, handle>>
      BY <1>10 DEF Stop, VisibleStatus, Claimed
    <2>2. CASE sched \in {"idle", "locked"}
      BY <1>10, <2>1, <2>2, StutterIsDag DEF Stop, Signalled, DagStutter, DagStopped
    <2>3. CASE sched \notin {"idle", "locked"}
      <3>1. (isStopped /\ sched \notin {"idle", "locked"})' = TRUE
        BY <1>10, <2>3 DEF Stop, Signalled
      <3>. QED
        BY <2>1, <3>1 DEF Dag!Stop, Dag!Next
    <2>. QED
      BY <2>2, <2>3
  <1>11. CASE Cancel \/ UNCHANGED vars \/ \E n \in Node : RunnerEnds(n)
    BY <1>11, <1>b DEF Cancel, RunnerEnds, vars
  <1>. QED
    BY <1>1, <1>2, <1>3, <1>4, <1>5, <1>6, <1>7, <1>8, <1>9, <1>10, <1>11
       DEF Next, Scheduler, Goroutine, Returned

\* The scheduler, its abandoned batches and its stop paths implement DagRun: no node
\* starts or is skipped on an upstream that is unfinished or paused, on any graph.
THEOREM Refinement == Spec => ImplementsDag
  BY InitRefines, StepRefines, Invariance, PTL DEF Spec, ImplementsDag, Dag!Spec
=============================================================================
