------------------------- MODULE MCEventDispatcher -------------------------
(* The first execution runs a loop of two rounds.  The marker that leads to  *)
(* the second round confirms the first, and the end of the loop the second;  *)
(* a child of the first round is reported by two goroutines.  The execution  *)
(* that takes over only ends or pauses.                                      *)
EXTENDS EventDispatcher

MCGens == 1 .. 2
MCThreads == {"loop", "node"}

Ev(id, kind, box, round) == [id |-> id, kind |-> kind, box |-> box, round |-> round, seq |-> 0]

Inner == Ev("k", "node_finished", "b", 0)

MCScript ==
    <<[loop |-> <<Ev("s", "loop_started", "b", 0), Inner, Ev("x", "loop_next", "b", 0),
                  Ev("c", "loop_completed", "b", 2)>>,
       node |-> <<Inner>>],
      [loop |-> <<>>, node |-> <<>>]>>
=============================================================================
