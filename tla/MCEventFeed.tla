---------------------------- MODULE MCEventFeed ----------------------------
(* Two instances write a pair of events, a pause and the end of the run.    *)
EXTENDS EventFeed

E(id, kind, gen) == [id |-> id, kind |-> kind, gen |-> gen]

MCEntry == {E("a", "node_finished", 1), E("b", "node_finished", 1),
            E("p", "workflow_paused", 1), E("f", "workflow_finished", 2)}

MCBatches == {<<E("a", "node_finished", 1), E("b", "node_finished", 1)>>,
              <<E("p", "workflow_paused", 1)>>, <<E("f", "workflow_finished", 2)>>}
=============================================================================
