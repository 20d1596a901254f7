--------------------------- MODULE WorkflowEngine ---------------------------
(***************************************************************************)
(* The graph engine: one scheduler (WorkflowEngine.Execute and tick), one  *)
(* goroutine per started node (executeNode) with one more that runs the    *)
(* node and sends it events, and callers that stop the engine or cancel    *)
(* its context.                                                            *)
(*                                                                         *)
(* Locks.  statusChange.L is held by the scheduler from the first tick to  *)
(* the end of the loop, except inside Wait; signalStatusChange takes it,   *)
(* Stop and markPaused signal without it.  A node's status and handle are  *)
(* written and read under the node's mutex, together with markPaused, so a *)
(* finishing node is one step.  Between two IsPaused checks of tick        *)
(* anything may happen: each stretch between two checks is a step (what    *)
(* follows a check up to the next one commutes with a node that pauses).   *)
(***************************************************************************)
EXTENDS WorkflowGraph, Integers

CONSTANTS Graphs,                 \* the graphs AddNode and AddDependencyWithHandle built
          RequestedConcurrency,   \* EngineRunConfig.MaxConcurrency
          Outcomes,               \* the results a node runner may report: a terminal status,
                                  \* and no error with a paused one
          Requests,               \* the requests callers make while the engine runs
          NoNode

ASSUME EngineAssumption ==
    /\ Graphs \subseteq Graph
    /\ RequestedConcurrency \in Int
    /\ Outcomes \subseteq [status : TerminalStatus, handle : Handle \cup {NoHandle}]
    /\ Requests \subseteq {"stop", "cancel"}
    /\ NoNode \notin Node

DefaultMaxConcurrency == 10
MaxConcurrencyLimit == 15

NormalizeMaxConcurrency(m) ==
    IF m <= 0 THEN DefaultMaxConcurrency
    ELSE IF m > MaxConcurrencyLimit THEN MaxConcurrencyLimit ELSE m

MaxConcurrency == NormalizeMaxConcurrency(RequestedConcurrency)

VARIABLES
    edges,       \* steps[n].UpstreamEdges
    status,      \* steps[n].Status
    handle,      \* steps[n].EdgeSourceHandle
    isRunning, isStopped, isPaused,
    pausedNodes, \* pausedNodeSet
    ctxDone,     \* the context given to Execute is cancelled
    leases,      \* len(leaseBucket)
    sched,       \* where the scheduler is
    todo,        \* nodes the range over steps in the current tick has yet to visit
    cur,         \* the node it is visiting
    batch,       \* readyBatch
    forceTick,
    proc,        \* where the goroutine of each node is
    launches,    \* how often a goroutine was started for each node (history)
    orphans,     \* nodes whose RunNode goes on although nobody reads its events
    result       \* what Execute returned

nodeVars  == <<status, handle>>
flagVars  == <<isRunning, isStopped, isPaused, pausedNodes, ctxDone>>
tickVars  == <<todo, cur, batch, forceTick>>
procVars  == <<proc, launches, orphans>>
vars == <<edges, nodeVars, flagVars, leases, sched, tickVars, procVars, result>>

\* The scheduler's places; in TickPlaces it holds statusChange.L.
TickPlaces  == {"tick", "visit", "upstreams", "ready", "leased"}
SchedPlaces == TickPlaces \cup {"idle", "locked", "wait", "woken", "join", "returned"}

\* The places of a node's goroutine: started, running the node, asked to stop
\* while it reads events, result written, signalled, ended.  The inner goroutine,
\* which waitGroup does not count, is inside RunNode while the place is "running",
\* and from then on for the nodes in orphans.
ProcPlaces == {"none", "launched", "running", "aborted", "finished", "signalled", "gone"}

Results == {"none", "nil", "stopped", "failed", "cycle"}

TypeOK ==
    /\ edges \in Graph
    /\ status \in [Node -> Status]
    /\ handle \in [Node -> Handle \cup {NoHandle}]
    /\ isRunning \in BOOLEAN /\ isStopped \in BOOLEAN /\ isPaused \in BOOLEAN
    /\ pausedNodes \subseteq Node
    /\ ctxDone \in BOOLEAN
    /\ leases \in Int
    /\ sched \in SchedPlaces
    /\ todo \subseteq Node /\ cur \in Node \cup {NoNode} /\ batch \subseteq Node
    /\ forceTick \in BOOLEAN
    /\ proc \in [Node -> ProcPlaces]
    /\ launches \in [Node -> Nat]
    /\ orphans \subseteq Node
    /\ result \in Results

Init ==
    /\ edges \in Graphs
    /\ status = [n \in Node |-> "pending"]
    /\ handle = [n \in Node |-> NoHandle]
    /\ isRunning = FALSE /\ isStopped = FALSE /\ isPaused = FALSE
    /\ pausedNodes = {}
    /\ ctxDone = FALSE
    /\ leases = 0
    /\ sched = "idle"
    /\ todo = {} /\ cur = NoNode /\ batch = {} /\ forceTick = FALSE
    /\ proc = [n \in Node |-> "none"]
    /\ launches = [n \in Node |-> 0]
    /\ orphans = {}
    /\ result = "none"

-----------------------------------------------------------------------------
(* Faulty variant: a broadcast that nobody waits for, the wake-up is lost.   *)
NotSignalled == sched

(* Signal on the condition variable: it wakes the scheduler if and only if  *)
(* it is inside Wait.                                                        *)
Signalled == IF sched = "wait" THEN "woken" ELSE sched

\* tryLock
Execute ==
    /\ sched = "idle"
    /\ isRunning' = TRUE
    /\ sched' = "locked"
    /\ UNCHANGED <<edges, nodeVars, isStopped, isPaused, pausedNodes, ctxDone, leases,
                   tickVars, procVars, result>>

\* reset, the flags cleared for this run, then preflight.  A Stop that came
\* between tryLock and this step is forgotten.
ResetAndPreflight ==
    /\ sched = "locked"
    /\ status' = [n \in Node |-> "pending"]
    /\ isStopped' = FALSE /\ isPaused' = FALSE /\ pausedNodes' = {}
    /\ IF HasCycle(edges)
       THEN result' = "cycle" /\ isRunning' = FALSE /\ sched' = "returned"
       ELSE sched' = "tick" /\ UNCHANGED <<result, isRunning>>
    /\ UNCHANGED <<edges, handle, ctxDone, leases, tickVars, procVars>>

LeaveTick(place) ==
    /\ sched' = place
    /\ todo' = {} /\ cur' = NoNode /\ batch' = {} /\ forceTick' = FALSE

\* Faulty variant: one terminal node is taken for the end of the run.
SomeTerminated == \E n \in Node : IsStatusTerminated(status[n])

\* isTerminated
AllTerminated == \A n \in Node : IsStatusTerminated(status[n])

\* Faulty variant: the flag is not looked at.
IgnorePaused == FALSE

\* IsPaused, the flag another goroutine may set at any moment.
IsPaused == isPaused

\* The head of tick; the woken scheduler takes statusChange.L first.
TickStart ==
    /\ sched \in {"tick", "woken"}
    /\ IF isStopped \/ IsPaused \/ ctxDone \/ AllTerminated
       THEN LeaveTick("join")
       ELSE sched' = "visit" /\ todo' = Node /\ UNCHANGED <<cur, batch, forceTick>>
    /\ UNCHANGED <<edges, nodeVars, flagVars, leases, procVars, result>>

\* Go on with the next node of the range.
VisitNext ==
    /\ sched' = "visit" /\ todo' = todo \ {cur} /\ cur' = NoNode

\* Faulty variant: the lease of the node being visited is not given back.
LeaseKept == leases

\* The lease of a node that is visited and not yet claimed is given back.
LeaseGivenBack == IF sched = "leased" THEN leases - 1 ELSE leases

\* An IsPaused check of tick that finds the engine paused.  readyBatch is
\* dropped with the nodes already claimed for it and their leases; only the
\* lease of the node being visited is given back.
LeavePaused ==
    /\ IsPaused
    /\ \/ sched = "visit" /\ todo # {}
       \/ sched \in {"upstreams", "ready", "leased"}
    /\ leases' = LeaseGivenBack
    /\ LeaveTick("join")
    /\ UNCHANGED <<edges, nodeVars, flagVars, procVars, result>>

\* The range over steps visits its nodes in any order.
Visit(n) ==
    /\ sched = "visit" /\ n \in todo
    /\ ~IsPaused
    /\ IF status[n] = "pending"
       THEN sched' = "upstreams" /\ cur' = n /\ UNCHANGED todo
       ELSE todo' = todo \ {n} /\ UNCHANGED <<sched, cur>>
    /\ UNCHANGED <<edges, nodeVars, flagVars, leases, batch, forceTick, procVars, result>>

\* A pause may come between the IsPaused check and reading the upstreams.
ReadUpstreams ==
    /\ sched = "upstreams"
    /\ IF AllUpstreamsTerminated(edges, status, cur)
       THEN sched' = "ready" /\ UNCHANGED <<todo, cur>>
       ELSE VisitNext
    /\ UNCHANGED <<edges, nodeVars, flagVars, leases, batch, forceTick, procVars, result>>

SkipNode ==
    /\ sched = "ready"
    /\ ~IsPaused
    /\ MustSkip(edges, status, handle, cur)
    /\ status' = [status EXCEPT ![cur] = "skipped"]
    /\ forceTick' = TRUE
    /\ VisitNext
    /\ UNCHANGED <<edges, handle, flagVars, leases, batch, procVars, result>>

\* lease does not block: a node that finds the bucket full waits for a later tick.
Lease ==
    /\ sched = "ready"
    /\ ~IsPaused
    /\ ~MustSkip(edges, status, handle, cur)
    /\ IF leases < MaxConcurrency
       THEN leases' = leases + 1 /\ sched' = "leased" /\ UNCHANGED <<todo, cur>>
       ELSE VisitNext /\ UNCHANGED leases
    /\ UNCHANGED <<edges, nodeVars, flagVars, batch, forceTick, procVars, result>>

\* Faulty variant: the claimed node stays pending until its goroutine runs.
ClaimUnmarked(n) == status

\* claimNodeForExecution.  Only the scheduler takes a node out of pending, so
\* the branch for a node that is no longer pending is never taken.
ClaimNodeForExecution(n) == [status EXCEPT ![n] = "running"]

Claim ==
    /\ sched = "leased"
    /\ ~IsPaused
    /\ status[cur] = "pending"
    /\ status' = ClaimNodeForExecution(cur)
    /\ batch' = batch \cup {cur}
    /\ VisitNext
    /\ UNCHANGED <<edges, handle, flagVars, leases, forceTick, procVars, result>>

\* startReadyBatch and the end of tick: wait, or tick again at once after a skip.
StartReadyBatch ==
    /\ sched = "visit" /\ todo = {}
    /\ IF IsPaused
       THEN /\ status' = [n \in Node |-> IF n \in batch /\ status[n] = "running"
                                         THEN "pending" ELSE status[n]]
            /\ leases' = leases - Cardinality(batch)
            /\ UNCHANGED procVars
       ELSE /\ proc' = [n \in Node |-> IF n \in batch THEN "launched" ELSE proc[n]]
            /\ launches' = [n \in Node |-> IF n \in batch THEN launches[n] + 1 ELSE launches[n]]
            /\ UNCHANGED <<status, leases, orphans>>
    /\ LeaveTick(IF forceTick THEN "tick" ELSE "wait")
    /\ UNCHANGED <<edges, handle, flagVars, result>>

\* getExecutionResult
ExecutionResult ==
    IF isStopped THEN "stopped"
    ELSE IF \E n \in Node : status[n] = "failed" THEN "failed" ELSE "nil"

\* Faulty variant: Execute does not wait for the goroutines of its nodes.
NotAwaited == TRUE

\* waitGroup.Wait
GoroutinesEnded == \A n \in Node : proc[n] \in {"none", "gone"}

\* The end of Execute and the deferred unlock.
Join ==
    /\ sched = "join"
    /\ GoroutinesEnded
    /\ result' = ExecutionResult
    /\ isRunning' = FALSE
    /\ sched' = "returned"
    /\ UNCHANGED <<edges, nodeVars, isStopped, isPaused, pausedNodes, ctxDone, leases,
                   tickVars, procVars>>

-----------------------------------------------------------------------------
(* The goroutine of node n.                                                 *)

\* Faulty variant: a status the scheduler does not know.
UnknownStatus == "stopped"

\* The status executeNode and consumeNodeEvents give a node they stop.
StoppedNodeStatus == "failed"

\* The head of executeNode: a stopped engine fails the node and returns before
\* the deferred signal is set up.
BeginNode(n) ==
    /\ proc[n] = "launched"
    /\ IF isStopped
       THEN /\ status' = [status EXCEPT ![n] = StoppedNodeStatus]
            /\ proc' = [proc EXCEPT ![n] = "signalled"]
       ELSE /\ status' = [status EXCEPT ![n] = "running"]
            /\ proc' = [proc EXCEPT ![n] = "running"]
    /\ UNCHANGED <<edges, handle, flagVars, leases, sched, tickVars, launches, orphans, result>>

\* consumeNodeEvents: an event that arrives after Stop fails the node.  RunNode has
\* ended and its last events were still in the channel, or it goes on unread.
AbortNode(n) ==
    /\ proc[n] = "running" /\ isStopped
    /\ status' = [status EXCEPT ![n] = StoppedNodeStatus]
    /\ proc' = [proc EXCEPT ![n] = "aborted"]
    /\ orphans' \in {orphans, orphans \cup {n}}
    /\ UNCHANGED <<edges, handle, flagVars, leases, sched, tickVars, launches, result>>

\* The deferred write of the result.  A node that was not aborted has read the
\* channel to its end, so its RunNode is over.  After AbortNode the write uses the
\* result of an earlier event or none; no result and no error is a success.
\* A paused result is markPaused: the flag, the set and a signal without the lock.
FinishNode(n, o) ==
    /\ proc[n] \in {"running", "aborted"}
    /\ status' = [status EXCEPT ![n] = o.status]
    /\ handle' = [handle EXCEPT ![n] = o.handle]
    /\ proc' = [proc EXCEPT ![n] = "finished"]
    /\ IF o.status = "paused"
       THEN /\ isPaused' = TRUE
            /\ pausedNodes' = pausedNodes \cup {n}
            /\ sched' = Signalled
       ELSE UNCHANGED <<isPaused, pausedNodes, sched>>
    /\ UNCHANGED <<edges, isRunning, isStopped, ctxDone, leases, tickVars, launches, orphans,
                   result>>

\* signalStatusChange takes statusChange.L, so it waits for the tick to end.
SignalStatusChange(n) ==
    /\ proc[n] = "finished" /\ sched \notin TickPlaces
    /\ sched' = Signalled
    /\ proc' = [proc EXCEPT ![n] = "signalled"]
    /\ UNCHANGED <<edges, nodeVars, flagVars, leases, tickVars, launches, orphans, result>>

\* The goroutine's deferred unlease and waitGroup.Done: no signal follows.
Unlease(n) ==
    /\ proc[n] = "signalled"
    /\ leases' = leases - 1
    /\ proc' = [proc EXCEPT ![n] = "gone"]
    /\ UNCHANGED <<edges, nodeVars, flagVars, sched, tickVars, launches, orphans, result>>

\* RunNode returns on its own, at any time or never: with its channel full and no
\* reader it waits for the end of its context.
RunnerEnds(n) ==
    /\ n \in orphans
    /\ orphans' = orphans \ {n}
    /\ UNCHANGED <<edges, nodeVars, flagVars, leases, sched, tickVars, proc, launches, result>>

-----------------------------------------------------------------------------
(* The callers.                                                             *)

Stop ==
    /\ "stop" \in Requests
    /\ isRunning /\ ~isStopped
    /\ isStopped' = TRUE
    /\ sched' = Signalled
    /\ UNCHANGED <<edges, nodeVars, isRunning, isPaused, pausedNodes, ctxDone, leases,
                   tickVars, procVars, result>>

\* The context is cancelled: no signal.
Cancel ==
    /\ "cancel" \in Requests
    /\ ~ctxDone
    /\ ctxDone' = TRUE
    /\ UNCHANGED <<edges, nodeVars, isRunning, isStopped, isPaused, pausedNodes, leases,
                   sched, tickVars, procVars, result>>

Returned == sched = "returned" /\ UNCHANGED vars

Scheduler ==
    \/ Execute \/ ResetAndPreflight \/ TickStart
    \/ \E n \in Node : Visit(n)
    \/ ReadUpstreams \/ LeavePaused \/ SkipNode \/ Lease \/ Claim
    \/ StartReadyBatch \/ Join

Goroutine(n) ==
    \/ BeginNode(n) \/ AbortNode(n)
    \/ \E o \in Outcomes : FinishNode(n, o)
    \/ SignalStatusChange(n) \/ Unlease(n)

Next ==
    \/ Scheduler
    \/ \E n \in Node : Goroutine(n) \/ RunnerEnds(n)
    \/ Stop \/ Cancel
    \/ Returned

Spec == Init /\ [][Next]_vars

(* Go runs every runnable goroutine, a free mutex is eventually acquired,   *)
(* and a node runner whose events are read returns (the time limits of the  *)
(* nodes are external).                                                     *)
Fairness == WF_vars(Scheduler) /\ \A n \in Node : WF_vars(Goroutine(n))

FairSpec == Spec /\ Fairness

-----------------------------------------------------------------------------
(* Properties.                                                              *)

\* Claimed for a batch that has not been started, or that a pause dropped.
Claimed == {n \in Node : status[n] = "running" /\ proc[n] = "none"}

\* Nodes whose goroutine has been started and has not ended.
Live == {n \in Node : proc[n] \notin {"none", "gone"}}

\* A claimed node has not started: nobody outside the scheduler has seen it run.
VisibleStatus == [n \in Node |-> IF n \in Claimed THEN "pending" ELSE status[n]]

Dag == INSTANCE DagRun WITH
         status  <- VisibleStatus,
         stopped <- isStopped /\ sched \notin {"idle", "locked"}

\* The scheduler of engine_scheduler.go, with its unlocked pause flag, its
\* abandoned batches and its stop paths, implements DagRun: no node starts or is
\* skipped on an upstream that is unfinished or paused.
ImplementsDag == Dag!Spec

\* claimNodeForExecution: however ticks, skips and finished nodes interleave, the
\* engine starts at most one goroutine for a node, so its side effects happen once.
RunsAtMostOnce == \A n \in Node : launches[n] <= 1

\* leaseBucket: every lease belongs to a claimed node, a started goroutine or
\* the node being claimed, and no more than MaxConcurrency are out; a lease lost
\* or returned twice on one of the pause paths would show here.
LeasesAccounted ==
    /\ leases = Cardinality(Claimed) + Cardinality(Live) + (IF sched = "leased" THEN 1 ELSE 0)
    /\ leases <= MaxConcurrency

\* When Execute has returned, no node is executing, unless it returned that it was
\* stopped: only then may a RunNode outlive it, and its node has ended.  Every node
\* that Execute leaves pending or running was never started: the pause snapshot may
\* queue those nodes again without repeating a side effect.
ReturnsQuiescent ==
    sched = "returned" =>
        \A n \in Node :
            /\ proc[n] \in {"none", "gone"}
            /\ n \in orphans => result = "stopped"
            /\ status[n] \in {"pending", "running"} => launches[n] = 0 /\ n \notin orphans

\* A nil error of an execution that neither paused nor was cancelled means that
\* every node reached a terminal status: no branch was forgotten.
NilMeansComplete ==
    result = "nil" /\ ~isPaused /\ ~ctxDone => \A n \in Node : IsStatusTerminated(status[n])

\* Execute returns once it has been called, provided that node runners return.
ExecuteReturns == (sched = "locked") ~> (sched = "returned")
=============================================================================
