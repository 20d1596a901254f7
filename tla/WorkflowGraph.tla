--------------------------- MODULE WorkflowGraph ---------------------------
(***************************************************************************)
(* The graph a workflow engine executes, and the rules that decide whether *)
(* a node may start.                                                       *)
(*                                                                         *)
(* A graph maps a node to its incoming edges: g[n][u] is the set of source *)
(* handles by which upstream u is connected to n (NodeState.UpstreamEdges),*)
(* empty when there is no edge.  AddDependencyWithHandle never records an  *)
(* edge without a handle, so NodeState.Upstreams is Upstreams(g, n) below. *)
(*                                                                         *)
(* st[n] is the status of node n and h[n] the source handle it selected    *)
(* (NodeState.Status and NodeState.EdgeSourceHandle).                      *)
(***************************************************************************)
EXTENDS FiniteSets

CONSTANTS Node,      \* the node ids of a workflow
          Handle     \* the source handles edges may carry

NoHandle == "unset"  \* an empty EdgeSourceHandle

ASSUME GraphAssumption == IsFiniteSet(Node) /\ "source" \in Handle /\ NoHandle \notin Handle

Graph == [Node -> [Node -> SUBSET Handle]]

Upstreams(g, n) == {u \in Node : g[n][u] # {}}

\* WorkflowNodeExecutionStatus, without the legacy values no engine path uses.
TerminalStatus == {"succeeded", "failed", "exception", "skipped", "paused"}
Status == TerminalStatus \cup {"pending", "running"}

\* isStatusTerminated
IsStatusTerminated(s) == s \in TerminalStatus

\* allUpstreamsTerminated
AllUpstreamsTerminated(g, st, n) ==
    \A u \in Upstreams(g, n) : IsStatusTerminated(st[u])

\* One edge bundle of hasAnyActiveUpstreamEdge: a skipped, failed or paused
\* upstream never activates; any other one does through a "source" edge or
\* through the handle it selected.
ActivatesDownstream(g, st, h, u, n) ==
    /\ st[u] \notin {"skipped", "failed", "paused"}
    /\ "source" \in g[n][u] \/ h[u] \in g[n][u]

HasAnyActiveUpstreamEdge(g, st, h, n) ==
    \E u \in Upstreams(g, n) : ActivatesDownstream(g, st, h, u, n)

\* The rule tick applies once every upstream is terminal: a node with upstreams
\* and no active edge is skipped, any other one may run.
MustSkip(g, st, h, n) ==
    Upstreams(g, n) # {} /\ ~HasAnyActiveUpstreamEdge(g, st, h, n)

\* preflight: a set of nodes each of which has an upstream inside the set is
\* what a depth-first search that meets its own recursion stack finds.
HasCycle(g) ==
    \E S \in (SUBSET Node) \ {{}} : \A n \in S : Upstreams(g, n) \cap S # {}
=============================================================================
