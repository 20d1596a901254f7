----------------------------- MODULE EventFeed -----------------------------
(***************************************************************************)
(* How the events of one workflow run reach its subscribers: the committed *)
(* tail in Redis with its asynchronous publishers (workflow_event_cache.go)*)
(* and the event stream handler (workflow_events_handler.go), in front of  *)
(* the log of module EventLog.                                             *)
(*                                                                         *)
(* An instance commits a batch, offers it to its publisher queue after the *)
(* commit, and its publisher writes it to Redis some time later; instances *)
(* are not synchronised, a full queue drops, a write may fail or time out. *)
(* Wake-up signals only decide when a subscriber reads; since they may be  *)
(* lost and a ticker polls in any case, a subscriber here may read at any  *)
(* time.                                                                   *)
(***************************************************************************)
EXTENDS EventLog, FiniteSets, FiniteSetsExt

CONSTANTS
    Instances,      \* API processes
    Clients,        \* readers of the run's event stream
    Batches,        \* the batches that writers may append
    MaxLog,         \* bound on the length of the log
    QueueSize,      \* workflowCommittedTailQueueSize
    TailLimit,      \* workflowCommittedTailLimit
    Window,         \* windowSize of publishWorkflowCommittedTailWindow
    ReadLimit,      \* workflowEventsBatchLimit
    MaxCuts         \* bound on broken connections

ASSUME FeedAssumption ==
    /\ Batches \subseteq Seq(Entry)
    /\ {QueueSize, TailLimit, Window, ReadLimit, MaxLog} \subseteq Nat \ {0}
    /\ MaxCuts \in Nat

VARIABLES
    commits,        \* commits[i]: committed ranges instance i has yet to offer
    pubq,           \* pubq[i]: the publisher queue of instance i
    tail,           \* sequences in the sorted set of the run
    conn,           \* conn[c]: a client's connection and its options
    from,           \* from[c]: the sequence a client's view starts behind
    got,            \* got[c]: the sequences a client has received, in order
    cursor,         \* cursor[c]: lastSequence of the handler
    cuts            \* broken connections so far

feedVars == <<commits, pubq, tail>>
readVars == <<conn, from, got, cursor, cuts>>
vars == <<log, commits, pubq, tail, conn, from, got, cursor, cuts>>

Idle == [pc |-> "idle", pauses |-> FALSE]

Init ==
    /\ LogInit
    /\ commits = [i \in Instances |-> <<>>]
    /\ pubq = [i \in Instances |-> <<>>]
    /\ tail = {}
    /\ conn = [c \in Clients |-> Idle]
    /\ from = [c \in Clients |-> 0]
    /\ got = [c \in Clients |-> <<>>]
    /\ cursor = [c \in Clients |-> 0]
    /\ cuts = 0

-----------------------------------------------------------------------------
(* Writers and the committed tail.                                          *)

Commit(i, es) ==
    /\ Len(log) + Len(es) <= MaxLog
    /\ AppendBatch(es)
    /\ commits' = [commits EXCEPT ![i] = Append(@, (Len(log) + 1) .. Len(log'))]
    /\ UNCHANGED <<pubq, tail, readVars>>

\* publishWorkflowCommittedTail never blocks: a full queue drops the range.
Offered(q, range) == IF Len(q) < QueueSize THEN Append(q, range) ELSE q

Offer(i) ==
    /\ commits[i] # <<>>
    /\ pubq' = [pubq EXCEPT ![i] = Offered(@, Head(commits[i]))]
    /\ commits' = [commits EXCEPT ![i] = Tail(@)]
    /\ UNCHANGED <<log, tail, readVars>>

\* The process dies after a commit: what it had not offered or published is lost.
Crash(i) ==
    /\ commits[i] # <<>> \/ pubq[i] # <<>>
    /\ commits' = [commits EXCEPT ![i] = <<>>]
    /\ pubq' = [pubq EXCEPT ![i] = <<>>]
    /\ UNCHANGED <<log, tail, readVars>>

\* An execution that claimed the run republishes the window behind its claim.
HydrateWindow(i, through) ==
    /\ pubq' = [pubq EXCEPT ![i] =
            Offered(@, Max({1, through - Window + 1}) .. through)]
    /\ UNCHANGED <<log, commits, tail, readVars>>

\* Only the highest TailLimit scores stay in the sorted set.
Trimmed(s) == {n \in s : Cardinality({m \in s : m > n}) < TailLimit}

Publish(i) ==
    /\ pubq[i] # <<>>
    /\ tail' = Trimmed(tail \cup Head(pubq[i]))
    /\ pubq' = [pubq EXCEPT ![i] = Tail(@)]
    /\ UNCHANGED <<log, commits, readVars>>

PublishFails(i) ==
    /\ pubq[i] # <<>>
    /\ pubq' = [pubq EXCEPT ![i] = Tail(@)]
    /\ UNCHANGED <<log, commits, tail, readVars>>

\* The key expires, or Redis evicts or loses it.
TailExpires ==
    /\ tail # {}
    /\ tail' = {}
    /\ UNCHANGED <<log, commits, pubq, readVars>>

-----------------------------------------------------------------------------
(* The event stream handler, one connection of client c.                    *)

\* Faulty variant: a client that names its cursor gets no reading loop.
ConnectVerbatim(c, start, pauses) ==
    /\ conn[c].pc = "idle"
    /\ conn' = [conn EXCEPT ![c] = [pc |-> start, pauses |-> pauses]]
    /\ UNCHANGED <<log, feedVars, from, got, cursor, cuts>>

\* A first connection: from the start, or from where the run is now; it stops at
\* a pause unless continue_on_pause was asked for.  "now" first has to learn
\* the latest sequence.
Connect(c, start, pauses) ==
    /\ conn[c].pc = "idle"
    /\ conn' = [conn EXCEPT ![c] = [pc |-> IF start = "after" THEN "reading" ELSE start,
                                    pauses |-> pauses]]
    /\ UNCHANGED <<log, feedVars, from, got, cursor, cuts>>

\* LatestEventSequence for a client without a cursor; if that fails the handler
\* goes on from the beginning.
StartAtLatest(c) ==
    /\ conn[c].pc = "latest"
    /\ \E start \in {0, Len(log)} :
        /\ from' = [from EXCEPT ![c] = start]
        /\ cursor' = [cursor EXCEPT ![c] = start]
    /\ conn' = [conn EXCEPT ![c].pc = "reading"]
    /\ UNCHANGED <<log, feedVars, got, cuts>>

\* The snapshot transaction reads the run and its next_event_sequence together.
StartAtSnapshot(c) ==
    /\ conn[c].pc = "snapshot"
    /\ from' = [from EXCEPT ![c] = Len(log)]
    /\ cursor' = [cursor EXCEPT ![c] = Len(log)]
    /\ conn' = [conn EXCEPT ![c].pc = IF Finished(log) THEN "done" ELSE "reading"]
    /\ UNCHANGED <<log, feedVars, got, cuts>>

\* readWorkflowCommittedTailAfter: the lowest ReadLimit cached sequences behind
\* the cursor, if there are any and they follow it without a gap.
Cached(after) ==
    LET hits == {n \in tail : n > after}
    IN {n \in hits : Cardinality({m \in hits : m < n}) < ReadLimit}
\* Faulty variant: any cached event behind the cursor is a hit.
AnyHit(after) == Cached(after) # {}

TailHit(after) ==
    /\ Cached(after) # {}
    /\ Cached(after) = (after + 1) .. (after + Cardinality(Cached(after)))

\* Faulty variant: a pause ends the stream, the end of the run does not.
OnlyPauses(n, pauses) == log[n].kind = "workflow_paused" /\ ~pauses

\* Where sendWorkflowRunEvents stops: behind the first terminal event.
StopsAt(n, pauses) ==
    \/ log[n].kind = "workflow_finished"
    \/ log[n].kind = "workflow_paused" /\ ~pauses
Sent(batch, pauses) ==
    {n \in batch : ~\E m \in batch : m < n /\ StopsAt(m, pauses)}

\* A finite set of sequences in ascending order.
Ascending(s) ==
    [k \in 1 .. Cardinality(s) |->
        CHOOSE n \in s : Cardinality({m \in s : m < n}) = k - 1]

\* The handler's lastSequence follows the events it sends.
Deliver(c, batch) ==
    LET sent == Sent(batch, conn[c].pauses)
    IN /\ got' = [got EXCEPT ![c] = @ \o Ascending(sent)]
       /\ cursor' = [cursor EXCEPT ![c] = Max(sent)]
       /\ conn' = [conn EXCEPT ![c].pc =
                IF \E n \in sent : StopsAt(n, conn[c].pauses) THEN "done" ELSE @]
       /\ UNCHANGED <<log, feedVars, from, cuts>>

ReadTail(c) ==
    /\ conn[c].pc = "reading"
    /\ TailHit(cursor[c])
    /\ Deliver(c, Cached(cursor[c]))

\* Faulty variant: the database is read only for clients without a cursor.
ReadLogOnce(c) ==
    /\ conn[c].pc = "reading"
    /\ cursor[c] = 0 /\ Len(log) > 0
    /\ Deliver(c, {n \in DOMAIN log : n <= ReadLimit})

\* ListEvents from the database, after a miss, a gap or a Redis error.
ReadLog(c) ==
    /\ conn[c].pc = "reading"
    /\ cursor[c] < Len(log)
    /\ Deliver(c, {n \in DOMAIN log : cursor[c] < n /\ n <= cursor[c] + ReadLimit})

\* The connection breaks with events still under way; the client comes back with
\* the last id it saw.
Reconnect(c, seen) ==
    /\ conn[c].pc = "reading"
    /\ cuts < MaxCuts
    /\ cuts' = cuts + 1
    /\ got' = [got EXCEPT ![c] = SubSeq(@, 1, seen)]
    /\ cursor' = [cursor EXCEPT ![c] = from[c] + seen]
    /\ UNCHANGED <<log, feedVars, conn, from>>

Read(c) == ReadTail(c) \/ ReadLog(c)

Next ==
    \/ \E i \in Instances :
        \/ \E es \in Batches : Commit(i, es)
        \/ Offer(i) \/ Crash(i) \/ Publish(i) \/ PublishFails(i)
        \/ \E through \in 1 .. Len(log) : HydrateWindow(i, through)
    \/ TailExpires
    \/ \E c \in Clients :
        \/ \E start \in {"after", "latest", "snapshot"}, pauses \in BOOLEAN :
                Connect(c, start, pauses)
        \/ StartAtLatest(c) \/ StartAtSnapshot(c) \/ ReadTail(c) \/ ReadLog(c)
        \/ \E seen \in 0 .. Len(got[c]) : Reconnect(c, seen)

\* The handler's tickers fire for ever: a connected client goes on reading.
Fairness == \A c \in Clients : WF_vars(Read(c))

Spec == Init /\ [][Next]_vars /\ Fairness

-----------------------------------------------------------------------------
(* Properties.                                                              *)

\* Type correctness of the feed.
TypeOK ==
    /\ commits \in [Instances -> Seq(SUBSET Nat)]
    /\ pubq \in [Instances -> Seq(SUBSET Nat)]
    /\ tail \in SUBSET Nat
    /\ conn \in [Clients -> [pc : {"idle", "latest", "snapshot", "reading", "done"},
                             pauses : BOOLEAN]]
    /\ from \in [Clients -> Nat]
    /\ got \in [Clients -> Seq(Nat)]
    /\ cursor \in [Clients -> Nat]
    /\ cuts \in 0 .. MaxCuts

\* A client receives every committed event behind its start exactly once and in
\* order, and nothing that is not committed yet,
\* whether reads are served by Redis or by the database, however late, trimmed,
\* expired or full of holes the cache is, and across reconnects.
ReceivesLogInOrder ==
    \A c \in Clients :
        /\ cursor[c] = from[c] + Len(got[c]) /\ cursor[c] <= Len(log)
        /\ \A k \in DOMAIN got[c] : got[c][k] = from[c] + k

EndsStream(n, c) ==
    \/ log[n].kind = "workflow_finished"
    \/ log[n].kind = "workflow_paused" /\ ~conn[c].pauses

\* The stream shows nothing behind the end of the run, and ends only there, at a
\* pause the client asked to end at, or with a terminal snapshot.
EndsAtTerminal ==
    \A c \in Clients :
        /\ \A k \in DOMAIN got[c] :
              EndsStream(got[c][k], c) => k = Len(got[c]) /\ conn[c].pc = "done"
        /\ conn[c].pc = "done" =>
              \/ got[c] # <<>> /\ EndsStream(got[c][Len(got[c])], c)
              \/ got[c] = <<>> /\ \E n \in 1 .. from[c] : log[n].kind = "workflow_finished"

\* A connected client gets everything that is committed behind its cursor, or an
\* end of its stream, even if every notification and every cache write is lost.
EventuallyDelivered ==
    \A c \in Clients : \A n \in 1 .. MaxLog :
        conn[c].pc = "reading" /\ cursor[c] < n /\ n <= Len(log)
            ~> conn[c].pc = "done" \/ cursor[c] >= n
=============================================================================
