------------------------------- MODULE DagRun -------------------------------
(***************************************************************************)
(* What a workflow engine promises about the nodes of a graph, whatever    *)
(* its scheduler does: a node starts once, after all its upstreams are     *)
(* terminal, none of them paused and one of them selecting an edge to it;  *)
(* it is skipped under the same conditions when none selects an edge; its  *)
(* final status stays, except that a stopped engine may replace the        *)
(* failure of a node it interrupted by the result the node reported.       *)
(***************************************************************************)
EXTENDS WorkflowGraph

CONSTANTS Graphs, Outcomes

VARIABLES edges, status, handle, stopped

vars == <<edges, status, handle, stopped>>

Init ==
    /\ edges \in Graphs
    /\ status = [n \in Node |-> "pending"]
    /\ handle = [n \in Node |-> NoHandle]
    /\ stopped = FALSE

Decidable(n) ==
    /\ status[n] = "pending"
    /\ AllUpstreamsTerminated(edges, status, n)
    /\ \A u \in Upstreams(edges, n) : status[u] # "paused"

\* The engine starts the nodes it found ready in one scan together.
Start(S) ==
    /\ \A n \in S : Decidable(n) /\ ~MustSkip(edges, status, handle, n)
    /\ status' = [n \in Node |-> IF n \in S THEN "running" ELSE status[n]]
    /\ UNCHANGED <<edges, handle>> /\ stopped' = stopped

Skip(n) ==
    /\ Decidable(n) /\ MustSkip(edges, status, handle, n)
    /\ status' = [status EXCEPT ![n] = "skipped"]
    /\ UNCHANGED <<edges, handle>> /\ stopped' = stopped

Record(n, o) ==
    /\ status' = [status EXCEPT ![n] = o.status]
    /\ handle' = [handle EXCEPT ![n] = o.handle]
    /\ edges' = edges /\ stopped' = stopped

Finish(n, o) == status[n] = "running" /\ Record(n, o)

Stop == stopped' = TRUE /\ UNCHANGED <<edges, status, handle>>

Interrupt(n) ==
    /\ stopped /\ status[n] = "running"
    /\ status' = [status EXCEPT ![n] = "failed"]
    /\ UNCHANGED <<edges, handle>> /\ stopped' = stopped

ReportInterrupted(n, o) == stopped /\ status[n] = "failed" /\ Record(n, o)

Next ==
    \/ \E S \in SUBSET Node : Start(S)
    \/ \E n \in Node : Skip(n) \/ Interrupt(n)
    \/ \E n \in Node, o \in Outcomes : Finish(n, o) \/ ReportInterrupted(n, o)
    \/ Stop

Spec == Init /\ [][Next]_vars
=============================================================================
