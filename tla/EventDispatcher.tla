--------------------------- MODULE EventDispatcher ---------------------------
(***************************************************************************)
(* How the executions of one workflow run write its event log: the event   *)
(* dispatcher (workflow_event_public.go), its micro-batcher                *)
(* (workflow_runtime_event_batcher.go) and the fenced append of a batch    *)
(* (pause/event_batch.go).                                                 *)
(*                                                                         *)
(* Every execution generation owns a dispatcher.  Its threads (the engine  *)
(* workers that report node and container events) dispatch one event at a  *)
(* time and wait for the answer of the batch that carries it.  A dispatcher*)
(* whose execution lost the run to the next generation goes on working:    *)
(* only the fence of the append stops it.                                  *)
(***************************************************************************)
EXTENDS Naturals, Sequences, FiniteSets, SequencesExt, FiniteSetsExt

CONSTANTS
    Gens,          \* execution generations: 1 .. n
    Threads,       \* dispatching goroutines of an execution
    Script,        \* Script[g][t]: the events thread t of generation g reports
    BatchCount,    \* workflowRuntimeEventBatchCount
    QueueSize,     \* workflowRuntimeEventQueueSize
    Forms          \* forms whose handlers and scanners append events of their own

\* Events are records [id, kind, box, round, seq]; seq > 0 marks an event that
\* a transaction has already stored under that sequence ("__stored_sequence").
Main == "main"     \* the goroutine that finalizes the execution and closes

Events == UNION {ToSet(Script[g][t]) : g \in Gens, t \in Threads}

\* An event's id stands for its idempotency key, which is made from its kind,
\* its node or container and its round.
ASSUME DispatchAssumption ==
    /\ 1 \in Gens /\ Gens \subseteq Nat \ {0}
    /\ Main \notin Threads
    /\ BatchCount \in Nat \ {0} /\ QueueSize \in Nat \ {0}
    /\ \A g \in Gens, t \in Threads : Script[g][t] \in Seq(Events)
    /\ \A e \in Events : /\ e.seq = 0 /\ e.round \in Nat
                         /\ e.id \notin {"workflow_finished", "workflow_paused"}
                         /\ e.kind \notin {"workflow_finished", "workflow_paused"}
    /\ \A e, f \in Events : e.id = f.id => e = f

\* Event e reports that the container of marker m has started and m's round is over.
Confirms(e, m) ==
    /\ e.box = m.box
    /\ \/ /\ m.kind = "loop_started"
          /\ e.kind \in {"loop_started", "loop_next", "loop_completed"}
       \/ /\ m.kind = "loop_next"
          /\ \/ e.kind = "loop_next" /\ e.round = m.round
             \/ e.kind = "loop_completed" /\ m.round < e.round

\* A container runs once in an execution, so none is nested in another one.  Its node
\* sends started, next and completed in this order through one channel, and one
\* goroutine reports what comes out of it.
ASSUME LifecycleAssumption ==
    \A g \in Gens, t \in Threads : \A i \in DOMAIN Script[g][t] :
        \A u \in Threads : \A m \in ToSet(Script[g][u]) :
            Confirms(Script[g][t][i], m) => \E j \in 1 .. i : Script[g][t][j] = m

VARIABLES
    rows,          \* workflow_run_events: records [seq, ev, gen]
    nextSeq,       \* workflow_run_logs.next_event_sequence
    owner,         \* active execution's generation, 0 when there is none
    gen,           \* workflow_run_logs.execution_generation
    over,          \* the run has a terminal status
    disp,          \* disp[g]: containers, pending events and closed flag
    queue,         \* queue[g]: the batcher's channel
    bat,           \* bat[g]: the batcher goroutine
    thr,           \* thr[g][t]: events dispatched, those accepted, waiting or not
    main,          \* main[g]: stage of the finalizing goroutine, stored event
    live,          \* live[g]: what onEvent was called with, in order
    failed,        \* failed[g]: a request or an append of generation g has failed
    outside        \* forms that have appended their event

vars == <<rows, nextSeq, owner, gen, over, disp, queue, bat, thr, main, live,
          failed, outside>>

-----------------------------------------------------------------------------
(* Kinds of events.                                                         *)

RunTerminal(e)  == e.kind = "workflow_finished"
BoxTerminal(e)  == e.kind = "loop_completed"
Barrier(e)      == RunTerminal(e) \/ BoxTerminal(e) \/ e.kind = "workflow_paused"
Keyed(e)        == e.kind \in {"loop_started", "loop_next", "loop_completed", "node_finished"}

\* The idempotency key of an event, made from the execution that reports it.
SameKey(r, g, e) == Keyed(e) /\ r.gen = g /\ r.ev.id = e.id

NoBatch == [phase |-> "idle", reqs |-> <<>>, carry |-> <<>>, recs |-> <<>>,
            out |-> <<>>, closed |-> FALSE]

Init ==
    /\ rows = {}
    /\ nextSeq = 0
    /\ owner = 1
    /\ gen = 1
    /\ over = FALSE
    /\ disp = [g \in Gens |-> [opened |-> {}, rounds |-> {}, pending |-> <<>>,
                               closed |-> FALSE]]
    /\ queue = [g \in Gens |-> <<>>]
    /\ bat = [g \in Gens |-> NoBatch]
    /\ thr = [g \in Gens |-> [t \in Threads |-> [pos |-> 0, taken |-> 0, waiting |-> FALSE]]]
    /\ main = [g \in Gens |-> [stage |-> "running", ev |-> {}]]
    /\ live = [g \in Gens |-> <<>>]
    /\ failed = [g \in Gens |-> FALSE]
    /\ outside = {}

-----------------------------------------------------------------------------
(* The dispatcher's bookkeeping of containers.                              *)

\* A child waits until its container has started and its round is known.
ShouldBuffer(d, e) ==
    /\ e.kind = "node_finished" /\ e.box # "none"
    /\ e.box \notin d.opened \/ <<e.box, e.round>> \notin d.rounds

\* The rounds a completed container reports are 0 .. steps - 1.
ObserveContainerLifecycle(d, e) ==
    CASE e.kind = "loop_started" -> [d EXCEPT !.opened = @ \cup {e.box}]
      [] e.kind = "loop_next" ->
            [d EXCEPT !.opened = @ \cup {e.box}, !.rounds = @ \cup {<<e.box, e.round>>}]
      [] e.kind = "loop_completed" ->
            [d EXCEPT !.opened = @ \cup {e.box},
                      !.rounds = @ \cup {<<e.box, n>> : n \in 0 .. (e.round - 1)}]
      [] OTHER -> d

\* The elements of s at the indices I, in their order.
Pick(s, I) ==
    [k \in 1 .. Cardinality(I) |->
        s[CHOOSE i \in I : Cardinality({j \in I : j < i}) = k - 1]]

Waits(d) == {i \in DOMAIN d.pending : ShouldBuffer(d, d.pending[i])}

Ready(d, force) ==
    IF force THEN d.pending ELSE Pick(d.pending, DOMAIN d.pending \ Waits(d))
Kept(d, force) == IF force THEN <<>> ELSE Pick(d.pending, Waits(d))

\* Faulty variant: what became ready goes first, whatever released it.
ReadyFirst(d, e) ==
    LET forced == IF RunTerminal(e) THEN Ready(d, TRUE) ELSE <<>>
        d1 == IF RunTerminal(e) THEN [d EXCEPT !.pending = <<>>] ELSE d
        d2 == ObserveContainerLifecycle(d1, e)
    IN [recs |-> forced \o Ready(d2, FALSE) \o <<e>>,
        disp |-> [d2 EXCEPT !.pending = Kept(d2, FALSE)]]

\* What one dispatched event puts into the queue, and the dispatcher after it.
Released(d, e) ==
    LET forced == IF RunTerminal(e) THEN Ready(d, TRUE) ELSE <<>>
        d1 == IF RunTerminal(e) THEN [d EXCEPT !.pending = <<>>] ELSE d
        d2 == ObserveContainerLifecycle(d1, e)
        ready == Ready(d2, FALSE)
    IN [recs |-> IF BoxTerminal(e) THEN forced \o ready \o <<e>>
                 ELSE forced \o <<e>> \o ready,
        disp |-> [d2 EXCEPT !.pending = Kept(d2, FALSE)]]

Request(recs, barrier, by) == [recs |-> recs, barrier |-> barrier, by |-> by]

\* Dispatch under the dispatcher's mutex: e becomes pending or a request.
Buffer(g, e) ==
    /\ ~disp[g].closed
    /\ ShouldBuffer(disp[g], e)
    /\ disp' = [disp EXCEPT ![g].pending = Append(@, e)]
    /\ UNCHANGED queue

Enqueue(g, e, by) ==
    LET r == Released(disp[g], e)
    IN /\ ~disp[g].closed
       /\ ~ShouldBuffer(disp[g], e)
       /\ Len(queue[g]) < QueueSize
       /\ disp' = [disp EXCEPT ![g] = r.disp]
       /\ queue' = [queue EXCEPT ![g] = Append(@, Request(r.recs, Barrier(e), by))]

\* The context ends before the queue takes the request: whatever it released
\* from the pending list is gone with it.
Cancelled(g, rest) ==
    /\ ~disp[g].closed
    /\ disp' = [disp EXCEPT ![g] = rest]
    /\ failed' = [failed EXCEPT ![g] = TRUE]
    /\ UNCHANGED queue

Dispatch(g, t) ==
    /\ gen >= g
    /\ ~thr[g][t].waiting
    /\ thr[g][t].pos < Len(Script[g][t])
    /\ LET e == Script[g][t][thr[g][t].pos + 1]
           n == thr[g][t].pos + 1
           Advance(taken, w) ==
               thr' = [thr EXCEPT ![g][t] = [pos |-> n, taken |-> taken, waiting |-> w]]
       IN \/ /\ disp[g].closed            \* errWorkflowRuntimeEventBatcherClosed
             /\ Advance(thr[g][t].taken, FALSE)
             /\ UNCHANGED <<disp, queue, failed>>
          \/ Buffer(g, e) /\ Advance(n, FALSE) /\ UNCHANGED failed
          \/ Enqueue(g, e, t) /\ Advance(n, TRUE) /\ UNCHANGED failed
          \/ /\ ~ShouldBuffer(disp[g], e)
             /\ Cancelled(g, Released(disp[g], e).disp)
             /\ Advance(thr[g][t].taken, FALSE)
    /\ UNCHANGED <<rows, nextSeq, owner, gen, over, bat, main, live, outside>>

-----------------------------------------------------------------------------
(* The batcher goroutine.                                                   *)

\* The batch b takes one more request; recs are the records of its requests,
\* in their order, and so their number is eventCount.
Grow(b, next) == [b EXCEPT !.reqs = Append(@, next), !.recs = @ \o next.recs]

BatcherOnly == UNCHANGED <<rows, nextSeq, owner, gen, over, disp, thr, main, live,
                           failed, outside>>

TakeFirst(g) ==
    /\ bat[g].phase = "idle"
    /\ bat[g].carry # <<>> \/ queue[g] # <<>>
    /\ LET first == IF bat[g].carry # <<>> THEN bat[g].carry[1] ELSE Head(queue[g])
       IN /\ queue' = [queue EXCEPT ![g] = IF bat[g].carry # <<>> THEN @ ELSE Tail(@)]
          /\ bat' = [bat EXCEPT ![g] = [Grow(@, first) EXCEPT
                !.carry = <<>>,
                !.phase = IF first.barrier \/ Len(first.recs) >= BatchCount
                          THEN "flush" ELSE "collect"]]
    /\ BatcherOnly

\* Faulty variant: the request that ends a batch is not carried over.
CollectDrops(g) ==
    /\ bat[g].phase = "collect"
    /\ queue[g] # <<>>
    /\ LET next == Head(queue[g])
           size == Len(bat[g].recs) + Len(next.recs)
       IN bat' = [bat EXCEPT ![g] =
            IF next.barrier \/ size > BatchCount
            THEN [@ EXCEPT !.carry = <<>>, !.phase = "flush"]
            ELSE [Grow(@, next) EXCEPT
                    !.phase = IF size = BatchCount THEN "flush" ELSE "collect"]]
    /\ queue' = [queue EXCEPT ![g] = Tail(@)]
    /\ BatcherOnly

CollectNext(g) ==
    /\ bat[g].phase = "collect"
    /\ queue[g] # <<>>
    /\ LET next == Head(queue[g])
           size == Len(bat[g].recs) + Len(next.recs)
       IN bat' = [bat EXCEPT ![g] =
            IF next.barrier \/ size > BatchCount
            THEN [@ EXCEPT !.carry = <<next>>, !.phase = "flush"]
            ELSE [Grow(@, next) EXCEPT
                    !.phase = IF size = BatchCount THEN "flush" ELSE "collect"]]
    /\ queue' = [queue EXCEPT ![g] = Tail(@)]
    /\ BatcherOnly

\* The batch window ends, or the queue is closed.
WindowEnds(g) ==
    /\ bat[g].phase = "collect"
    /\ bat' = [bat EXCEPT ![g].phase = "flush"]
    /\ UNCHANGED queue
    /\ BatcherOnly

\* Faulty variant: the goroutine stops without draining the closed queue.
ExitsAtOnce(g) ==
    /\ bat[g].phase = "idle" /\ bat[g].closed
    /\ bat' = [bat EXCEPT ![g].phase = "stopped"]
    /\ UNCHANGED queue
    /\ BatcherOnly

BatcherExits(g) ==
    /\ bat[g].phase = "idle"
    /\ bat[g].closed /\ queue[g] = <<>> /\ bat[g].carry = <<>>
    /\ bat' = [bat EXCEPT ![g].phase = "stopped"]
    /\ UNCHANGED queue
    /\ BatcherOnly

-----------------------------------------------------------------------------
(* The durable append.                                                      *)

\* The first event of each idempotency key that has no row yet.
Fresh(g, recs) ==
    LET New(i) == /\ recs[i].seq = 0
                  /\ ~\E r \in rows : SameKey(r, g, recs[i])
                  /\ ~\E j \in 1 .. (i - 1) : Keyed(recs[i]) /\ recs[j] = recs[i]
    IN [i \in DOMAIN recs |-> New(i)]

\* Faulty variant: the first fresh event takes the sequence allocated last.
RowsFromLast(g, recs) ==
    LET fresh == Fresh(g, recs)
        Before(i) == Cardinality({j \in 1 .. (i - 1) : fresh[j]})
    IN {[seq |-> nextSeq + Before(i), ev |-> recs[i], gen |-> g] :
            i \in {j \in DOMAIN recs : fresh[j]}}

\* The place of the i-th event among the fresh ones.
Offset(fresh, i) == Cardinality({j \in 1 .. i : fresh[j]})

\* Rows for the fresh events: they take the next sequences in their order.
NewRows(g, recs) ==
    LET fresh == Fresh(g, recs)
    IN {[seq |-> nextSeq + Offset(fresh, i), ev |-> recs[i], gen |-> g] :
            i \in {j \in DOMAIN recs : fresh[j]}}

\* What a chunk's events are published with: the sequence they came with, that of
\* their own row, or that of the row with their key.
Stored(g, recs, table) ==
    LET fresh == Fresh(g, recs)
        Sequence(i) == IF recs[i].seq > 0 THEN recs[i].seq
                       ELSE IF fresh[i] THEN nextSeq + Offset(fresh, i)
                       ELSE (CHOOSE r \in table : SameKey(r, g, recs[i])).seq
    IN [i \in DOMAIN recs |-> [ev |-> recs[i], seq |-> Sequence(i)]]

Chunk(g) == SubSeq(bat[g].recs, 1, Min({BatchCount, Len(bat[g].recs)}))
ToStore(recs) == \E i \in DOMAIN recs : recs[i].seq = 0

\* Faulty variant: the owner of the run is not compared.
PersistUnfenced(g) ==
    LET chunk == Chunk(g)
    IN /\ bat[g].phase = "flush"
       /\ rows' = rows \cup NewRows(g, chunk)
       /\ nextSeq' = nextSeq + Cardinality(NewRows(g, chunk))
       /\ bat' = [bat EXCEPT ![g].phase = "emit", ![g].out = Stored(g, chunk, rows')]
    /\ UNCHANGED <<owner, gen, over, disp, queue, thr, main, live, failed, outside>>

\* One transaction for the chunk, under the lock of the run's row.
Persist(g) ==
    LET chunk == Chunk(g)
    IN /\ bat[g].phase = "flush"
       /\ ToStore(chunk) => owner = g
       /\ rows' = rows \cup NewRows(g, chunk)
       /\ nextSeq' = nextSeq + Cardinality(NewRows(g, chunk))
       /\ bat' = [bat EXCEPT ![g].phase = "emit", ![g].out = Stored(g, chunk, rows')]
    /\ UNCHANGED <<owner, gen, over, disp, queue, thr, main, live, failed, outside>>

\* Everyone whose request was in the batch gets its answer.
Answered(g) ==
    LET by == {bat[g].reqs[i].by : i \in DOMAIN bat[g].reqs}
    IN /\ thr' = [thr EXCEPT ![g] = [t \in Threads |->
                    IF t \in by THEN [@[t] EXCEPT !.waiting = FALSE] ELSE @[t]]]
       /\ main' = [main EXCEPT ![g].stage =
                    IF Main \notin by THEN @ ELSE IF @ = "closing" THEN "flushed" ELSE "answered"]

\* The append fails: the fence refuses it, or the database does.
PersistFails(g) ==
    /\ bat[g].phase = "flush"
    /\ ToStore(Chunk(g))
    /\ failed' = [failed EXCEPT ![g] = TRUE]
    /\ bat' = [bat EXCEPT ![g] = [@ EXCEPT !.phase = "idle", !.reqs = <<>>, !.recs = <<>>]]
    /\ Answered(g)
    /\ UNCHANGED <<rows, nextSeq, owner, gen, over, disp, queue, live, outside>>

\* The committed chunk reaches the live stream; then the next chunk or the answers.
Emit(g) ==
    LET rest == SubSeq(bat[g].recs, Len(bat[g].out) + 1, Len(bat[g].recs))
    IN /\ bat[g].phase = "emit"
       /\ live' = [live EXCEPT ![g] = @ \o bat[g].out]
       /\ IF rest # <<>>
          THEN /\ bat' = [bat EXCEPT ![g] = [@ EXCEPT !.phase = "flush", !.recs = rest, !.out = <<>>]]
               /\ UNCHANGED <<thr, main>>
          ELSE /\ bat' = [bat EXCEPT ![g] = [@ EXCEPT !.phase = "idle", !.reqs = <<>>,
                                                      !.recs = <<>>, !.out = <<>>]]
               /\ Answered(g)
    /\ UNCHANGED <<rows, nextSeq, owner, gen, over, disp, queue, failed, outside>>

-----------------------------------------------------------------------------
(* The finalizing goroutine, and what happens to the run outside.           *)

Control(kind, g) == [id |-> kind, kind |-> kind, box |-> "none", round |-> 0, seq |-> 0]

\* Faulty variant: the event is dispatched with the sequence before its own.
SettleOffByOne(g, kind) ==
    /\ owner = g
    /\ main[g].stage = "running"
    /\ rows' = rows \cup {[seq |-> nextSeq + 1, ev |-> Control(kind, g), gen |-> g]}
    /\ nextSeq' = nextSeq + 1
    /\ owner' = 0
    /\ over' = (kind = "workflow_finished")
    /\ main' = [main EXCEPT ![g] = [stage |-> "stored",
                    ev |-> {[Control(kind, g) EXCEPT !.seq = nextSeq]}]]
    /\ UNCHANGED <<gen, disp, queue, bat, thr, live, failed, outside>>

\* The transaction that ends or pauses the execution stores the event itself
\* and gives the run up; the event is dispatched after the commit.
Settle(g, kind) ==
    /\ owner = g
    /\ main[g].stage = "running"
    /\ rows' = rows \cup {[seq |-> nextSeq + 1, ev |-> Control(kind, g), gen |-> g]}
    /\ nextSeq' = nextSeq + 1
    /\ owner' = 0
    /\ over' = (kind = "workflow_finished")
    /\ main' = [main EXCEPT ![g] = [stage |-> "stored",
                    ev |-> {[Control(kind, g) EXCEPT !.seq = nextSeq + 1]}]]
    /\ UNCHANGED <<gen, disp, queue, bat, thr, live, failed, outside>>

DispatchSettled(g) ==
    /\ main[g].stage = "stored"
    /\ \E e \in main[g].ev :
        \/ /\ Enqueue(g, e, Main)
           /\ main' = [main EXCEPT ![g].stage = "dispatched"]
           /\ UNCHANGED failed
        \/ /\ Cancelled(g, Released(disp[g], e).disp)
           /\ main' = [main EXCEPT ![g].stage = "answered"]
    /\ UNCHANGED <<rows, nextSeq, owner, gen, over, bat, thr, live, outside>>

\* Close is deferred: it follows the settled event, or an early return.
Close(g) ==
    /\ gen >= g
    /\ main[g].stage \in {"running", "answered"}
    /\ LET closed == [disp[g] EXCEPT !.closed = TRUE, !.pending = <<>>]
       IN \/ /\ disp[g].pending = <<>>
             /\ disp' = [disp EXCEPT ![g] = closed]
             /\ main' = [main EXCEPT ![g].stage = "flushed"]
             /\ UNCHANGED <<queue, failed>>
          \/ /\ disp[g].pending # <<>> /\ Len(queue[g]) < QueueSize
             /\ disp' = [disp EXCEPT ![g] = closed]
             /\ queue' = [queue EXCEPT ![g] = Append(@, Request(disp[g].pending, TRUE, Main))]
             /\ main' = [main EXCEPT ![g].stage = "closing"]
             /\ UNCHANGED failed
          \/ /\ disp[g].pending # <<>> /\ Cancelled(g, closed)
             /\ main' = [main EXCEPT ![g].stage = "flushed"]
    /\ UNCHANGED <<rows, nextSeq, owner, gen, over, bat, thr, live, outside>>

CloseBatcher(g) ==
    /\ main[g].stage = "flushed"
    /\ ~bat[g].closed
    /\ bat' = [bat EXCEPT ![g].closed = TRUE]
    /\ UNCHANGED <<rows, nextSeq, owner, gen, over, disp, queue, thr, main, live, failed, outside>>

\* Faulty variant: the run row keeps the execution that lost it.
ClaimKeepsOwner ==
    /\ ~over
    /\ gen + 1 \in Gens
    /\ gen' = gen + 1
    /\ UNCHANGED <<owner, rows, nextSeq, over, disp, queue, bat, thr, main, live, failed, outside>>

\* A resume, or a scanner after the lease expired, claims the run.
Claim ==
    /\ ~over
    /\ gen + 1 \in Gens
    /\ gen' = gen + 1
    /\ owner' = gen + 1
    /\ UNCHANGED <<rows, nextSeq, over, disp, queue, bat, thr, main, live, failed, outside>>

\* A form handler or a scanner appends an event that no execution fences.
Outside(f) ==
    /\ f \notin outside
    /\ outside' = outside \cup {f}
    /\ rows' = rows \cup {[seq |-> nextSeq + 1, gen |-> 0, ev |->
            [id |-> f, kind |-> "approval_expired", box |-> "none", round |-> 0, seq |-> 0]]}
    /\ nextSeq' = nextSeq + 1
    /\ UNCHANGED <<owner, gen, over, disp, queue, bat, thr, main, live, failed>>

Next ==
    \/ \E g \in Gens :
        \/ \E t \in Threads : Dispatch(g, t)
        \/ TakeFirst(g) \/ CollectNext(g) \/ WindowEnds(g) \/ BatcherExits(g)
        \/ Persist(g) \/ PersistFails(g) \/ Emit(g)
        \/ \E kind \in {"workflow_finished", "workflow_paused"} : Settle(g, kind)
        \/ DispatchSettled(g) \/ Close(g) \/ CloseBatcher(g)
    \/ Claim
    \/ \E f \in Forms : Outside(f)

-----------------------------------------------------------------------------
(* Properties.                                                              *)

\* Type correctness of the event table, the run's row and the goroutines.
TypeOK ==
    /\ nextSeq \in Nat
    /\ \A r \in rows : r.seq \in Nat /\ r.gen \in Gens \cup {0}
    /\ gen \in Gens /\ owner \in {0, gen} /\ over \in BOOLEAN
    /\ \A g \in Gens :
        /\ ToSet(disp[g].pending) \subseteq Events
        /\ Len(queue[g]) <= QueueSize
        /\ bat[g].phase \in {"idle", "collect", "flush", "emit", "stopped"}
        /\ Len(bat[g].carry) <= 1
        /\ main[g].stage \in {"running", "stored", "dispatched", "answered",
                              "closing", "flushed"}

\* The log a reader sees: the events in the order of their sequences.
LogOf ==
    [n \in 1 .. Cardinality(rows) |->
        LET r == CHOOSE x \in rows : x.seq = n
        IN [id |-> r.ev.id, kind |-> r.ev.kind, gen |-> r.gen]]

Log == INSTANCE EventLog WITH
    log <- LogOf,
    Entry <- [id : {e.id : e \in Events} \cup {"workflow_finished", "workflow_paused"}
                   \cup Forms,
              kind : {e.kind : e \in Events} \cup
                   {"workflow_finished", "workflow_paused", "approval_expired"},
              gen : Gens \cup {0}],
    Repeatable <- {[id |-> e.id, kind |-> e.kind, gen |-> g] :
                      e \in {x \in Events : ~Keyed(x)}, g \in Gens}

\* The dispatchers, batchers and other writers of a run together implement the
\* append-only log: no gap, no key stored twice, nothing of an overtaken
\* execution behind its successor's events, nothing behind workflow_finished.
WritesTheLog == Log!LogSpec

\* Sequences are allocated without gap or duplicate, whoever appends.
SequencesDense == {r.seq : r \in rows} = 1 .. nextSeq /\ Cardinality(rows) = nextSeq

\* Durable before visible, in the same order: every event of the live stream
\* carries the sequence of its committed row, and rows are shown live for the
\* first time in the order of the log.
LiveIsReplay ==
    \A g \in Gens : \A j \in DOMAIN live[g] :
        /\ \E r \in rows : r.seq = live[g][j].seq /\ r.ev.id = live[g][j].ev.id
        /\ \A i \in 1 .. (j - 1) :
              live[g][i].seq > live[g][j].seq
              => \E k \in 1 .. (i - 1) : live[g][k].seq = live[g][j].seq

\* A marker of a child: the start of its container, or the marker of its round.
MarkerOf(m, e) ==
    /\ m.box = e.box
    /\ m.kind = "loop_started" \/ (m.kind = "loop_next" /\ m.round = e.round)

Child(e) == e.kind = "node_finished" /\ e.box # "none"

\* Replay shows a container before its children: no start and no round marker
\* of a child's container is stored behind the child, unless a request or an append
\* of that execution failed and the execution is being torn down.
ChildrenFollowTheirRound ==
    \A r, q \in rows :
        (/\ r.gen = q.gen /\ r.gen # 0 /\ ~failed[r.gen]
         /\ Child(r.ev) /\ MarkerOf(q.ev, r.ev))
        => q.seq < r.seq

InFlight(g) ==
    ToSet(disp[g].pending)
    \cup (UNION {ToSet(queue[g][i].recs) : i \in DOMAIN queue[g]})
    \cup (UNION {ToSet(bat[g].carry[i].recs) : i \in DOMAIN bat[g].carry})
    \cup ToSet(bat[g].recs)

\* No event the dispatcher accepted disappears on its way through the pending
\* list, the queue, the carried request and the chunks of a batch: as long as
\* no request or append failed it is in flight or has been shown live.
NothingLost ==
    \A g \in Gens : ~failed[g] =>
        \A t \in Threads : \A n \in 1 .. thr[g][t].taken :
            LET e == Script[g][t][n]
            IN e \in InFlight(g) \/ \E i \in DOMAIN live[g] : live[g][i].ev = e

Requests(g) ==
    queue[g] \o bat[g].carry \o bat[g].reqs

\* Whoever waits for an answer has exactly one request in the batcher's hands,
\* and the batcher does not stop while it holds one: Dispatch and Close never
\* wait for ever, however closing, carrying and failing batches interleave.
EveryWaiterServed ==
    \A g \in Gens :
        LET By(w) == {i \in DOMAIN Requests(g) : Requests(g)[i].by = w}
        IN /\ \A t \in Threads :
                 Cardinality(By(t)) = IF thr[g][t].waiting THEN 1 ELSE 0
           /\ Cardinality(By(Main)) =
                 IF main[g].stage \in {"dispatched", "closing"} THEN 1 ELSE 0
           /\ bat[g].phase = "stopped" => Requests(g) = <<>>

-----------------------------------------------------------------------------
Spec == Init /\ [][Next]_vars
=============================================================================
