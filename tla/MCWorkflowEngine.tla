-------------------------- MODULE MCWorkflowEngine --------------------------
(***************************************************************************)
(* Small instances of WorkflowEngine: every graph over three nodes that    *)
(* respects their order, with edges through "source" and a branch handle,  *)
(* and two graphs with a cycle.                                            *)
(***************************************************************************)
EXTENDS WorkflowEngine

CONSTANTS a, b, c

AllEdges(E) == [n \in Node |-> [u \in Node |-> {h \in Handle : <<u, h, n>> \in E}]]

MCHandle == {"source", "yes"}

ForwardEdges == {<<a, "source", b>>, <<a, "yes", b>>, <<a, "source", c>>,
                 <<b, "source", c>>, <<b, "yes", c>>}

ForwardGraphs == {AllEdges(E) : E \in SUBSET ForwardEdges}

CyclicGraphs == {AllEdges({<<a, "source", a>>}),
                 AllEdges({<<a, "source", b>>, <<b, "yes", c>>, <<c, "source", a>>})}

MCGraphs == ForwardGraphs \cup CyclicGraphs

\* No edges, a chain, a branch whose other arm is skipped, a join.
ShapeGraphs == {AllEdges({}),
                AllEdges({<<a, "source", b>>, <<b, "source", c>>}),
                AllEdges({<<a, "yes", b>>, <<a, "source", c>>}),
                AllEdges({<<a, "source", c>>, <<b, "yes", c>>})}

MCOutcomes == {[status |-> "succeeded", handle |-> NoHandle], [status |-> "succeeded", handle |-> "yes"],
               [status |-> "failed", handle |-> NoHandle], [status |-> "exception", handle |-> "yes"],
               [status |-> "paused", handle |-> NoHandle], [status |-> "skipped", handle |-> NoHandle]}
=============================================================================
