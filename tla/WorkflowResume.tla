--------------------------- MODULE WorkflowResume ---------------------------
(***************************************************************************)
(* A run that pauses and is resumed.  Until the first pause its nodes are  *)
(* run by the graph engine, seen here through what it promises (DagRun).   *)
(* The pause snapshot keeps the nodes that are left, the completed ones,   *)
(* the failures and the outputs; the resumed run is executed from it by    *)
(* the queue loop of executeWorkflowStream, one node at a time, with its   *)
(* own rules for activating and skipping nodes.                            *)
(*                                                                         *)
(* status and handle go on recording what happened to each node after the  *)
(* resume, so that both executors can be compared.                         *)
(***************************************************************************)
EXTENDS WorkflowGraph, Integers, Sequences

CONSTANTS Graphs, Outcomes

ASSUME ResumeAssumption ==
    /\ IsFiniteSet(Handle)
    /\ Graphs \subseteq Graph
    /\ Outcomes \subseteq [status : TerminalStatus, handle : Handle \cup {NoHandle}]

VARIABLES
    edges, status, handle,  \* the graph and what happened to each node
    mode,                   \* engine, saved, resumed, done, failed, stopped, or
                            \* lost: the snapshot could not be written
    queue,                  \* nodeQueue
    completed,              \* completedNodes
    failedNodes,            \* nodeID -> "ok" (no entry), "skipped" or an error
    runs,                   \* how often each node ran to a final status (history)
    skippedBefore           \* nodes the engine had skipped before the pause (history)

loopVars == <<queue, completed, failedNodes>>
vars == <<edges, status, handle, mode, loopVars, runs, skippedBefore>>

\* Whether the engine, before the first pause, obeys what DagRun promises.
Dag == INSTANCE DagRun WITH stopped <- FALSE

Modes == {"engine", "saved", "resumed", "done", "failed", "stopped", "lost"}

TypeOK ==
    /\ edges \in Graph
    /\ status \in [Node -> Status]
    /\ handle \in [Node -> Handle \cup {NoHandle}]
    /\ mode \in Modes
    /\ queue \in Seq(Node)
    /\ completed \subseteq Node
    /\ failedNodes \in [Node -> {"ok", "skipped", "error"}]
    /\ runs \in [Node -> Nat]
    /\ skippedBefore \subseteq Node

Init ==
    /\ Dag!Init
    /\ mode = "engine"
    /\ queue = <<>>
    /\ completed = {} /\ skippedBefore = {}
    /\ failedNodes = [n \in Node |-> "ok"]
    /\ runs = [n \in Node |-> 0]

Orders(S) == {q \in [1..Cardinality(S) -> S] : \A i, j \in DOMAIN q : q[i] = q[j] => i = j}

WithStatus(S) == {n \in Node : status[n] \in S}

-----------------------------------------------------------------------------
EngineStep ==
    /\ mode = "engine"
    /\ \/ \E S \in SUBSET Node : Dag!Start(S) /\ UNCHANGED runs
       \/ \E n \in Node : Dag!Skip(n) /\ UNCHANGED runs
       \/ \E n \in Node, o \in Outcomes :
             /\ Dag!Finish(n, o)
             /\ runs' = [runs EXCEPT ![n] = IF o.status = "paused" THEN @ ELSE @ + 1]
    /\ UNCHANGED <<mode, loopVars, skippedBefore>>

\* The nodes the snapshot queues again besides the paused ones.
LeftPending == WithStatus({"pending"})

\* workflowGraphPauseExecutorState: the paused nodes first, then whatever the
\* engine left pending, both lists in an order the graph does not determine.
\* A failed node makes Execute return an error and nothing is saved; a skipped
\* node is completed and not marked in failedNodes.
SavePause ==
    /\ mode = "engine"
    /\ WithStatus({"running", "failed"}) = {} /\ WithStatus({"paused"}) # {}
    /\ \E p \in Orders(WithStatus({"paused"})), q \in Orders(LeftPending) :
          queue' = p \o q
    /\ completed' = WithStatus({"succeeded", "skipped", "exception"})
    /\ failedNodes' = [n \in Node |-> IF status[n] = "exception" THEN "error" ELSE "ok"]
    /\ skippedBefore' = WithStatus({"skipped"})
    /\ mode' \in {"saved", "lost"}
    /\ UNCHANGED <<edges, status, handle, runs>>

\* The engine completes without a pause, or with an error that takes precedence
\* over a pause; a node that ended in an exception counts as a failed node.
EndWithoutPause ==
    /\ mode = "engine"
    /\ WithStatus({"running"}) = {}
    /\ WithStatus({"pending"}) = {} \/ WithStatus({"paused"}) # {}
    /\ WithStatus({"failed"}) # {} \/ WithStatus({"paused"}) = {}
    /\ mode' = IF WithStatus({"failed", "exception"}) # {} THEN "failed" ELSE "done"
    /\ UNCHANGED <<edges, status, handle, loopVars, runs, skippedBefore>>

\* The snapshot is loaded: the queue starts with the paused nodes.
Resume ==
    /\ mode = "saved"
    /\ mode' = "resumed"
    /\ UNCHANGED <<edges, status, handle, loopVars, runs, skippedBefore>>

-----------------------------------------------------------------------------
(* One iteration of the queue loop for the node at its head.                *)

\* The edges from n to the targets not completed, as pairs of handle and target.
OutEdges(n, done) == {e \in Handle \X Node : e[1] \in edges[e[2]][n] /\ e[2] \notin done}

\* Faulty variant: the handles of the edges are queued instead of their targets.
EnqueuedHandles(n, done) == {[i \in DOMAIN q |-> q[i][1]] : q \in Orders(OutEdges(n, done))}

\* EnqueueDownstreams: an entry per edge, in the iteration order of a map.
Enqueued(n, done) == {[i \in DOMAIN q |-> q[i][2]] : q \in Orders(OutEdges(n, done))}

\* The handle the loop takes as selected by an upstream.
SelectedHandle(u) == IF handle[u] # NoHandle THEN handle[u] ELSE "source"

\* Faulty variant: a skipped upstream activates its "source" edge.
MayActivateSkipped(u, n) == SelectedHandle(u) \in edges[n][u]

\* The handle an upstream is taken to be connected by: the first one that
\* targets the node in the iteration order of a map.  Activation is a choice
\* when an upstream reaches the node through several handles.
MayActivate(u, n) == failedNodes[u] # "skipped" /\ SelectedHandle(u) \in edges[n][u]

MayNotActivate(u, n) == failedNodes[u] = "skipped" \/ edges[n][u] # {SelectedHandle(u)}

MayRun(n)  == Upstreams(edges, n) = {} \/ \E u \in Upstreams(edges, n) : MayActivate(u, n)
MaySkip(n) == Upstreams(edges, n) # {} /\ \A u \in Upstreams(edges, n) : MayNotActivate(u, n)

\* Faulty variants: without the test for a completed node, or for its upstreams.
ReadyAgain(n) == Upstreams(edges, n) \subseteq completed
ReadyEarly(n) == n \notin completed

Ready(n) == n \notin completed /\ Upstreams(edges, n) \subseteq completed

AtHead(n) == mode = "resumed" /\ queue # <<>> /\ Head(queue) = n

\* Faulty variant: back to the front of the queue.
Front(n) == queue

\* A node whose upstreams are not all completed goes to the back.
Behind(n) == Append(Tail(queue), n)

\* Already completed: dropped.  An upstream is missing: to the back of the queue.
Requeue(n) ==
    /\ AtHead(n)
    /\ ~Ready(n)
    /\ queue' = IF n \in completed THEN Tail(queue) ELSE Behind(n)
    /\ UNCHANGED <<edges, status, handle, mode, completed, failedNodes, runs, skippedBefore>>

SkipInactive(n) ==
    /\ AtHead(n) /\ Ready(n)
    /\ MaySkip(n)
    /\ completed' = completed \cup {n}
    /\ failedNodes' = [failedNodes EXCEPT ![n] = "skipped"]
    /\ status' = [status EXCEPT ![n] = "skipped"]
    /\ \E q \in Enqueued(n, completed') : queue' = Tail(queue) \o q
    /\ UNCHANGED <<edges, handle, mode, runs, skippedBefore>>

\* The node is unknown, or its log row cannot be created: the run ends.
NotStarted(n) ==
    /\ AtHead(n) /\ Ready(n) /\ MayRun(n)
    /\ mode' = "failed"
    /\ UNCHANGED <<edges, status, handle, loopVars, runs, skippedBefore>>

\* The node runs in an engine of its own, which gives it a status and a handle.
ExecuteNode(n, o) ==
    /\ AtHead(n) /\ Ready(n)
    /\ MayRun(n)
    /\ status' = [status EXCEPT ![n] = o.status]
    /\ handle' = [handle EXCEPT ![n] = o.handle]
    /\ UNCHANGED <<edges, skippedBefore>>

\* A failed status is an error of the node: it ends the run.
FailNode(n, o) ==
    /\ o.status = "failed"
    /\ ExecuteNode(n, o)
    /\ failedNodes' = [failedNodes EXCEPT ![n] = "error"]
    /\ completed' = completed \cup {n}
    /\ runs' = [runs EXCEPT ![n] = @ + 1]
    /\ mode' = "failed"
    /\ queue' = Tail(queue)

\* A node that pauses again is put in front of the saved queue.  When the
\* snapshot cannot be written the error is logged and the loop ends all the same.
PauseNode(n, o) ==
    /\ o.status = "paused"
    /\ ExecuteNode(n, o)
    /\ mode' \in {"saved", "lost"}
    /\ UNCHANGED <<queue, failedNodes, completed, runs>>

\* All targets of a node that ended are queued, whatever handle it selected; then
\* the loop looks at the context, which may have been cancelled meanwhile.
EndNode(n, o) ==
    /\ o.status \notin {"failed", "paused"}
    /\ ExecuteNode(n, o)
    /\ completed' = completed \cup {n}
    /\ runs' = [runs EXCEPT ![n] = @ + 1]
    /\ \E q \in Enqueued(n, completed') : queue' = Tail(queue) \o q
    /\ mode' \in {"resumed", "stopped"}
    /\ UNCHANGED failedNodes

\* The stop of the run is seen before a node runs, or in the middle of one.
StopSeen(n) ==
    /\ AtHead(n) /\ Ready(n) /\ MayRun(n)
    /\ mode' = "stopped"
    /\ UNCHANGED <<edges, status, handle, loopVars, runs, skippedBefore>>

\* finalizeWorkflowStreamExecution: the status the run ends with.
Drained ==
    /\ mode = "resumed" /\ queue = <<>>
    /\ mode' = IF \E n \in Node : failedNodes[n] = "error" THEN "failed" ELSE "done"
    /\ UNCHANGED <<edges, status, handle, loopVars, runs, skippedBefore>>

Ended == mode \in {"done", "failed", "stopped", "lost"} /\ UNCHANGED vars

LoopStep ==
    \/ \E n \in Node : Requeue(n) \/ SkipInactive(n)
    \/ \E n \in Node, o \in Outcomes : FailNode(n, o) \/ PauseNode(n, o) \/ EndNode(n, o)
    \/ Drained

Next ==
    \/ EngineStep \/ SavePause \/ EndWithoutPause \/ Resume
    \/ LoopStep
    \/ \E n \in Node : StopSeen(n) \/ NotStarted(n)
    \/ Ended

Spec == Init /\ [][Next]_vars

\* The loop is one goroutine, and a node runner returns.
FairSpec == Spec /\ WF_vars(LoopStep)

-----------------------------------------------------------------------------
(* Properties.                                                              *)

\* Across the engine, the snapshot, the queue with its duplicates and any number
\* of further pauses, a node runs to a final status at most once, and a run that
\* ends normally has run or skipped every node: neither the snapshot nor the
\* queue loses one.
RunsToEndOnce ==
    /\ \A n \in Node : runs[n] <= 1
    /\ mode = "done" => \A n \in Node : status[n] \in {"succeeded", "exception", "skipped"}

\* In the queue loop as in the engine, a node runs or is skipped only when all its
\* upstreams have ended and none is waiting for an answer.
DecidesAfterUpstreams ==
    [][\A n \in Node : n \in completed' \ completed /\ mode = "resumed" =>
          \A u \in Upstreams(edges, n) : status[u] \in {"succeeded", "exception", "skipped"}]_vars

\* Every upstream reaches a node by one handle, and one that selected a handle
\* has no "source" edge.
Unambiguous ==
    \A n \in Node : \A u \in Upstreams(edges, n) :
        /\ Cardinality(edges[n][u]) = 1
        /\ "source" \in edges[n][u] => handle[u] \in {NoHandle, "source"}

\* A resumed run takes the branch the engine would have taken: where the engine
\* had skipped nothing before the pause and the edges are unambiguous, the loop
\* skips exactly the nodes the rule of tick skips.
BranchesAsEngine ==
    [][\A n \in Node :
          n \in completed' \ completed /\ mode = "resumed" /\ skippedBefore = {} /\ Unambiguous =>
             (failedNodes'[n] = "skipped" <=> MustSkip(edges, status, handle, n))]_vars

\* The loop, which puts a node whose upstreams are unfinished at the end of the
\* queue without waiting, empties the queue, pauses or fails.
LoopEnds == (mode = "resumed") ~> (mode # "resumed")
=============================================================================
