------------------------------ MODULE EventLog ------------------------------
(***************************************************************************)
(* What the event log of one workflow run promises to its readers: entries *)
(* are only ever appended, an entry with a key is stored once, an          *)
(* execution that was overtaken by a later one adds nothing any more, and  *)
(* no execution event follows the end of the run.                          *)
(*                                                                         *)
(* The sequence number of an entry is its index.  Generation 0 stands for  *)
(* the writers that are no execution: form handlers and scanners.          *)
(***************************************************************************)
EXTENDS Naturals, Sequences

CONSTANTS
    Entry,          \* records with the fields id, kind and gen
    Repeatable      \* the entries without a key, which may be stored again

VARIABLE log

LogInit == log = <<>>

Finished(l) == \E n \in DOMAIN l : l[n].kind = "workflow_finished"

\* Entry n of log l may stand behind the entries before it.
Admissible(l, n) ==
    \A m \in 1 .. (n - 1) :
        /\ l[m] = l[n] => l[n] \in Repeatable
        /\ l[n].gen # 0 => /\ l[m].gen <= l[n].gen
                           /\ l[m].kind # "workflow_finished"

\* One transaction: a non-empty batch of admissible entries is appended.
Grow ==
    /\ Len(log) < Len(log')
    /\ SubSeq(log', 1, Len(log)) = log
    /\ \A n \in (Len(log) + 1) .. Len(log') :
          log'[n] \in Entry /\ Admissible(log', n)

AppendBatch(es) == log' = log \o es /\ Grow

LogSpec == LogInit /\ [][Grow]_log
=============================================================================
