-------------------------- MODULE MCWorkflowResume --------------------------
(***************************************************************************)
(* Graphs over four nodes: a branch at a, two arms, a join at d that is    *)
(* itself reached by a branch of c.                                        *)
(***************************************************************************)
EXTENDS WorkflowResume

CONSTANTS a, b, c, d

MCHandle == {"source", "yes"}

AllEdges(E) == [n \in Node |-> [u \in Node |-> {h \in Handle : <<u, h, n>> \in E}]]

ForwardEdges == {<<a, "yes", b>>, <<a, "source", c>>, <<b, "source", d>>,
                 <<c, "source", d>>, <<c, "yes", d>>}

MCGraphs == {AllEdges(E) : E \in SUBSET ForwardEdges}

MCOutcomes == {[status |-> "succeeded", handle |-> NoHandle], [status |-> "succeeded", handle |-> "yes"],
               [status |-> "failed", handle |-> NoHandle], [status |-> "exception", handle |-> "yes"],
               [status |-> "paused", handle |-> NoHandle]}
=============================================================================
