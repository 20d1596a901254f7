----------------------- MODULE EventDispatcher_proofs -----------------------
(***************************************************************************)
(* How the executions of a run write its event log, for every number of    *)
(* executions and threads, every script of events and every size of the    *)
(* queue and of a batch.                                                   *)
(*                                                                         *)
(* Executions share only the table and the run's row.  So the invariant is *)
(* one predicate per execution, over what that execution holds, and one    *)
(* over the table: a step of an execution is proved once for its own part, *)
(* and StepOfOne carries the others over.                                  *)
(***************************************************************************)
EXTENDS EventDispatcher, FiniteSetTheorems, SequenceTheorems, TLAPS

\* The kinds of event that a transaction stores when it gives the run up.
Ending == {"workflow_finished", "workflow_paused"}

\* An event that Settle has stored, with its sequence.
SettledEvents == {[Control(kind, 0) EXCEPT !.seq = n] : kind \in Ending, n \in Nat \ {0}}

Records  == Events \cup SettledEvents
Boxes    == {e.box : e \in Events}
Disps    == [opened : SUBSET Boxes, rounds : SUBSET (Boxes \X Nat),
             pending : Seq(Events), closed : BOOLEAN]
ReqsOf   == [recs : Seq(Records), barrier : BOOLEAN, by : Threads \cup {Main}]
Shown    == [ev : Records, seq : Nat \ {0}]
PhaseOf  == {"idle", "collect", "flush", "emit", "stopped"}
Bats     == [phase : PhaseOf, reqs : Seq(ReqsOf),
             carry : Seq(ReqsOf), recs : Seq(Records), out : Seq(Shown), closed : BOOLEAN]
Stages   == {"running", "stored", "dispatched", "answered", "closing", "flushed"}

Thrs     == [Threads -> [pos : Nat, taken : Nat, waiting : BOOLEAN]]
Mains    == [stage : Stages, ev : SUBSET SettledEvents]

\* The full types of the variables; TypeOK names only a part of them.
Types ==
    /\ nextSeq \in Nat
    /\ \A r \in rows : /\ r.seq \in Nat \ {0} /\ r.gen \in Gens \cup {0}
                       /\ r.gen # 0 => r.ev \in Events \cup {Control(k, 0) : k \in Ending}
    /\ gen \in Gens /\ owner \in {0, gen} /\ over \in BOOLEAN
    /\ disp \in [Gens -> Disps]
    /\ queue \in [Gens -> Seq(ReqsOf)]
    /\ bat \in [Gens -> Bats]
    /\ thr \in [Gens -> Thrs]
    /\ main \in [Gens -> Mains]
    /\ live \in [Gens -> Seq(Shown)]
    /\ failed \in [Gens -> BOOLEAN]
    /\ \A g \in Gens : Len(queue[g]) <= QueueSize /\ Len(bat[g].carry) <= 1

-----------------------------------------------------------------------------
(* The invariant of one execution: d, q, b, th, m, f and lv are the values of *)
(* disp, queue, bat, thr, main, failed and live at the execution.             *)

\* Which parts of a batcher are in use in its phases, and what a closed one implies.
PhaseOK(d, q, b, m) ==
    /\ b.phase \in {"idle", "stopped"} => b.reqs = <<>> /\ b.recs = <<>>
    /\ b.phase = "collect" => b.carry = <<>>
    /\ b.phase # "emit" => b.out = <<>>
    /\ b.phase = "stopped" => b.closed /\ q = <<>> /\ b.carry = <<>>
    /\ b.closed => m.stage = "flushed"
    /\ m.stage \in {"closing", "flushed"} => d.closed

\* The chunk that is shown is the front of the records that are left.
FrontOK(b) ==
    /\ Len(b.out) <= Len(b.recs)
    /\ \A i \in 1 .. Len(b.out) : b.out[i].ev = b.recs[i]

\* A thread that was never refused has had all its events accepted.
TakenOK(d, th, f) == ~f /\ ~d.closed => \A t \in Threads : th[t].taken = th[t].pos

Count(q, w) == Cardinality({i \in DOMAIN q : q[i].by = w})

\* How many requests of w the batcher has.
Held(q, b, w) == Count(q, w) + Count(b.carry, w) + Count(b.reqs, w)

WaitOK(q, b, th, m) ==
    /\ \A t \in Threads : Held(q, b, t) = IF th[t].waiting THEN 1 ELSE 0
    /\ Held(q, b, Main) = IF m.stage \in {"dispatched", "closing"} THEN 1 ELSE 0

\* The records of requests, and all events in flight or shown.
Inside(q) == UNION {ToSet(q[i].recs) : i \in DOMAIN q}

Known(d, q, b, lv) ==
    ToSet(d.pending) \cup Inside(q) \cup Inside(b.carry) \cup ToSet(b.recs)
    \cup {lv[i].ev : i \in DOMAIN lv}

KeptOK(g, d, q, b, th, f, lv) ==
    ~f => \A t \in Threads : \A n \in 1 .. th[t].taken : Script[g][t][n] \in Known(d, q, b, lv)

\* What is on its way are events of the scripts and the event this execution settled.
Queued(q, b) == Inside(q) \cup Inside(b.carry) \cup ToSet(b.recs)

SentOK(q, b, m) ==
    /\ Queued(q, b) \subseteq Events \cup m.ev
    /\ m.stage = "running" => m.ev = {}

LocalOK(g, d, q, b, th, m, f, lv) ==
    /\ PhaseOK(d, q, b, m) /\ FrontOK(b) /\ TakenOK(d, th, f)
    /\ WaitOK(q, b, th, m) /\ KeptOK(g, d, q, b, th, f, lv) /\ SentOK(q, b, m)

Local == \A g \in Gens :
    LocalOK(g, disp[g], queue[g], bat[g], thr[g], main[g], failed[g], live[g])

-----------------------------------------------------------------------------
(* Counting.                                                                *)

\* Sets that a one-to-one mapping relates have the same number of elements.
LEMMA SameCount ==
    ASSUME NEW S, NEW T, IsFiniteSet(S), NEW f \in [S -> T],
           \A x, y \in S : f[x] = f[y] => x = y,
           \A y \in T : \E x \in S : f[x] = y
    PROVE  IsFiniteSet(T) /\ Cardinality(T) = Cardinality(S)
  <1>1. f \in Bijection(S, T)
    BY Zenon DEF Bijection, Injection, Surjection, IsInjective
  <1>2. ExistsBijection(S, T)
    BY <1>1, Zenon DEF ExistsBijection
  <1> QED
    BY <1>2, FS_Bijection, Zenon

Rank(S, i) == Cardinality({j \in S : j < i})

\* A rank is a number below the size of the set.
LEMMA RankBound ==
    ASSUME NEW S \in SUBSET Nat, IsFiniteSet(S), NEW i \in S
    PROVE  Rank(S, i) \in Nat /\ Rank(S, i) < Cardinality(S) /\ Cardinality(S) \in Nat
  <1> DEFINE T == {j \in S : j < i}
  <1>1. T \in SUBSET S /\ i \notin T /\ i \in Nat
    OBVIOUS
  <1> HIDE DEF T
  <1>2. IsFiniteSet(T) /\ Cardinality(T) <= Cardinality(S) /\ (Cardinality(S) = Cardinality(T) => S = T)
    BY <1>1, FS_Subset, Zenon
  <1>3. Cardinality(T) \in Nat /\ Cardinality(S) \in Nat
    BY <1>2, FS_CardinalityType, Zenon
  <1>4. Cardinality(S) # Cardinality(T)
    BY <1>1, <1>2, Zenon
  <1>5. Rank(S, i) = Cardinality(T)
    BY Zenon DEF Rank, T
  <1> QED
    BY <1>2, <1>3, <1>4, <1>5

\* Ranks follow the order of the elements.
LEMMA RankLess ==
    ASSUME NEW S \in SUBSET Nat, IsFiniteSet(S), NEW i \in S, NEW k \in S, i < k
    PROVE  Rank(S, i) < Rank(S, k)
  <1> DEFINE T == {j \in S : j < k}
  <1>1. T \in SUBSET Nat /\ T \in SUBSET S /\ i \in T
    OBVIOUS
  <1>2. {j \in T : j < i} = {j \in S : j < i}
    <2>1. i \in Nat /\ k \in Nat /\ \A j \in S : j \in Nat
      OBVIOUS
    <2>2. \A j \in S : j < i => j < k
      BY <2>1
    <2> QED
      BY <2>2, Zenon
  <1> HIDE DEF T
  <1>3. IsFiniteSet(T)
    BY <1>1, FS_Subset, Zenon
  <1>4. Rank(T, i) < Cardinality(T)
    BY <1>1, <1>3, RankBound, Zenon
  <1>5. Rank(T, i) = Rank(S, i)
    BY <1>2 DEF Rank
  <1>6. Cardinality(T) = Rank(S, k)
    BY Zenon DEF Rank, T
  <1> QED
    BY <1>4, <1>5, <1>6

\* Every number below the size of the set is a rank.
LEMMA RankOnto ==
    ASSUME NEW S \in SUBSET Nat, IsFiniteSet(S)
    PROVE  /\ Cardinality(S) \in Nat
           /\ \A k \in 0 .. (Cardinality(S) - 1) : \E i \in S : Rank(S, i) = k
  <1>1. Cardinality(S) \in Nat
    BY FS_CardinalityType, Zenon
  <1>2. PICK c \in Nat : c = Cardinality(S)
    BY <1>1
  <1> DEFINE f == [i \in S |-> Rank(S, i)]
             T == 0 .. (c - 1)
  <1>3. f \in [S -> T]
    <2>1. ASSUME NEW i \in S PROVE Rank(S, i) \in T
      <3>1. Rank(S, i) \in Nat /\ Rank(S, i) < Cardinality(S)
        BY RankBound, Zenon
      <3> QED
        BY <1>2, <3>1
    <2> HIDE DEF T
    <2> QED
      BY <2>1, Zenon
  <1>4. ASSUME NEW x \in S, NEW y \in S, f[x] = f[y] PROVE x = y
    <2>1. Rank(S, x) = Rank(S, y)
      BY <1>4
    <2>2. x \in Nat /\ y \in Nat
      OBVIOUS
    <2> HIDE DEF f
    <2>3. x < y => Rank(S, x) < Rank(S, y)
      BY RankLess, Zenon
    <2>4. y < x => Rank(S, y) < Rank(S, x)
      BY RankLess, Zenon
    <2>5. Rank(S, x) \in Nat /\ Rank(S, y) \in Nat
      BY RankBound, Zenon
    <2> QED
      BY <2>1, <2>2, <2>3, <2>4, <2>5
  <1>5. IsFiniteSet(T) /\ Cardinality(T) = c
    <2>1. 0 \in Int /\ c - 1 \in Int
      OBVIOUS
    <2>2. IsFiniteSet(T) /\ Cardinality(T) = IF 0 > c - 1 THEN 0 ELSE c - 1 - 0 + 1
      BY <2>1, FS_Interval
    <2> QED
      BY <2>2
  <1>6. f \in Injection(S, T)
    <2> HIDE DEF f, T
    <2> QED
      BY <1>3, <1>4, Zenon DEF Injection, IsInjective
  <1>7. f \in Surjection(S, T)
    <2> HIDE DEF f, T
    <2> QED
      BY <1>2, <1>5, <1>6, FS_Injection, Zenon
  <1>8. \A k \in T : \E i \in S : f[i] = k
    <2> HIDE DEF f, T
    <2> QED
      BY <1>7, Zenon DEF Surjection
  <1>9. \A k \in T : \E i \in S : Rank(S, i) = k
    BY <1>8
  <1> QED
    BY <1>1, <1>2, <1>9

\* The indices of a sequence are numbers, finitely many.
LEMMA Indices ==
    ASSUME NEW E, NEW s \in Seq(E), NEW I \in SUBSET DOMAIN s
    PROVE  /\ Len(s) \in Nat /\ DOMAIN s = 1 .. Len(s)
           /\ I \in SUBSET Nat /\ IsFiniteSet(I) /\ Cardinality(I) \in Nat
  <1>1. Len(s) \in Nat /\ DOMAIN s = 1 .. Len(s)
    BY LenProperties
  <1>2. IsFiniteSet(DOMAIN s)
    BY <1>1, FS_Interval
  <1>3. IsFiniteSet(I) /\ Cardinality(I) \in Nat
    BY <1>2, FS_Subset, FS_CardinalityType, Zenon
  <1> QED
    BY <1>1, <1>3

\* What is picked from a sequence are its elements at these indices.
LEMMA PickProperties ==
    ASSUME NEW E, NEW s \in Seq(E), NEW I \in SUBSET DOMAIN s
    PROVE  Pick(s, I) \in Seq(E) /\ ToSet(Pick(s, I)) = {s[i] : i \in I}
  <1>1. /\ I \in SUBSET Nat /\ IsFiniteSet(I) /\ \A i \in I : s[i] \in E
        /\ Cardinality(I) \in Nat
    <2>1. \A i \in I : s[i] \in E
      BY ElementOfSeq
    <2> QED
      BY <2>1, Indices, Zenon
  <1>2. PICK c \in Nat : c = Cardinality(I)
    BY <1>1
  <1> DEFINE at(k) == CHOOSE i \in I : Rank(I, i) = k - 1
  <1>3. Pick(s, I) = [k \in 1 .. c |-> s[at(k)]]
    BY <1>2 DEF Pick, Rank
  <1>4. ASSUME NEW k \in 1 .. c PROVE at(k) \in I /\ Rank(I, at(k)) = k - 1
    <2>1. \A n \in 0 .. (c - 1) : \E i \in I : Rank(I, i) = n
      BY <1>1, <1>2, RankOnto
    <2>2. \E i \in I : Rank(I, i) = k - 1
      BY <2>1
    <2> QED
      BY <2>2, Zenon
  <1>5. ASSUME NEW i \in I PROVE \E k \in 1 .. c : at(k) = i
    <2>1. Rank(I, i) \in Nat /\ Rank(I, i) < c
      BY <1>1, <1>2, RankBound
    <2>2. PICK k \in 1 .. c : k = Rank(I, i) + 1
      BY <2>1
    <2> DEFINE j == at(k)
    <2>3. j \in I /\ Rank(I, j) = Rank(I, i)
      BY <1>4, <2>1, <2>2
    <2>4. at(k) = j
      OBVIOUS
    <2> HIDE DEF j
    <2>5. i \in Nat /\ j \in Nat
      BY <1>1, <2>3
    <2>6. ~(i < j)
      <3>1. i < j => Rank(I, i) < Rank(I, j)
        BY <1>1, <2>3, RankLess, Zenon
      <3> QED
        BY <2>1, <2>3, <3>1
    <2>7. ~(j < i)
      <3>1. j < i => Rank(I, j) < Rank(I, i)
        BY <1>1, <2>3, RankLess, Zenon
      <3> QED
        BY <2>1, <2>3, <3>1
    <2>8. i = j
      BY <2>5, <2>6, <2>7
    <2> QED
      BY <2>4, <2>8, Zenon
  <1> HIDE DEF at
  <1>6. Pick(s, I) \in Seq(E)
    <2>1. \A k \in 1 .. c : s[at(k)] \in E
      BY <1>1, <1>4
    <2> QED
      BY <1>3, <2>1, IsASeq
  <1>7. ToSet(Pick(s, I)) = {s[at(k)] : k \in 1 .. c}
    BY <1>3 DEF ToSet
  <1> QED
    BY <1>4, <1>5, <1>6, <1>7, Zenon

\* Requests of a concatenation are counted in its parts.
LEMMA CountConcat ==
    ASSUME NEW E, NEW p \in Seq(E), NEW q \in Seq(E), NEW w
    PROVE  /\ Count(p, w) \in Nat /\ Count(q, w) \in Nat
           /\ Count(p \o q, w) = Count(p, w) + Count(q, w)
  <1> DEFINE P == {i \in DOMAIN p : p[i].by = w}
             Q == {i \in DOMAIN q : q[i].by = w}
             R == {i \in DOMAIN (p \o q) : (p \o q)[i].by = w}
             T == {i \in R : i > Len(p)}
             f == [i \in Q |-> i + Len(p)]
  <1>1. /\ Len(p) \in Nat /\ DOMAIN p = 1 .. Len(p) /\ Len(q) \in Nat /\ DOMAIN q = 1 .. Len(q)
        /\ DOMAIN (p \o q) = 1 .. (Len(p) + Len(q))
        /\ \A i \in 1 .. Len(p) : (p \o q)[i] = p[i]
        /\ \A i \in 1 .. Len(q) : (p \o q)[i + Len(p)] = q[i]
    BY LenProperties, ConcatProperties
  <1>2. IsFiniteSet(P) /\ IsFiniteSet(Q) /\ Cardinality(P) \in Nat /\ Cardinality(Q) \in Nat
    <2>1. P \in SUBSET DOMAIN p /\ Q \in SUBSET DOMAIN q
      OBVIOUS
    <2> HIDE DEF P, Q
    <2> QED
      BY <2>1, Indices, Zenon
  <1>3. f \in [Q -> T]
    BY <1>1
  <1>4. \A x, y \in Q : f[x] = f[y] => x = y
    BY <1>1
  <1>5. \A y \in T : \E x \in Q : f[x] = y
    <2> SUFFICES ASSUME NEW y \in T PROVE \E x \in Q : f[x] = y
      OBVIOUS
    <2>1. y - Len(p) \in 1 .. Len(q) /\ (y - Len(p)) + Len(p) = y
      BY <1>1
    <2>2. q[y - Len(p)] = (p \o q)[y]
      BY <1>1, <2>1
    <2>3. y - Len(p) \in Q
      BY <1>1, <2>1, <2>2
    <2> QED
      BY <2>1, <2>3
  <1>6. R = P \cup T /\ P \cap T = {}
    BY <1>1
  <1>7. Count(p, w) = Cardinality(P) /\ Count(q, w) = Cardinality(Q) /\ Count(p \o q, w) = Cardinality(R)
    BY DEF Count
  <1> HIDE DEF P, Q, R, T, f
  <1>8. IsFiniteSet(T) /\ Cardinality(T) = Cardinality(Q)
    BY <1>2, <1>3, <1>4, <1>5, SameCount, Zenon
  <1>9. Cardinality(R) = Cardinality(P) + Cardinality(T) - Cardinality({})
    BY <1>2, <1>6, <1>8, FS_Union
  <1> QED
    BY <1>2, <1>7, <1>8, <1>9, FS_EmptySet

\* A single request counts for its sender.
LEMMA CountOne ==
    ASSUME NEW r, NEW w
    PROVE  Count(<<>>, w) = 0 /\ Count(<<r>>, w) = IF r.by = w THEN 1 ELSE 0
  <1>1. {i \in DOMAIN <<>> : <<>>[i].by = w} = {}
    OBVIOUS
  <1>2. {i \in DOMAIN <<r>> : <<r>>[i].by = w} = IF r.by = w THEN {1} ELSE {}
    OBVIOUS
  <1>3. Cardinality({1}) = 1 /\ Cardinality({}) = 0
    BY FS_Singleton, FS_EmptySet, Zenon
  <1>4. Count(<<>>, w) = 0
    BY <1>1, <1>3 DEF Count
  <1>5. Count(<<r>>, w) = IF r.by = w THEN 1 ELSE 0
    BY <1>2, <1>3 DEF Count
  <1> QED
    BY <1>4, <1>5

\* What is appended, or taken from the front, is counted.
LEMMA CountAppend ==
    ASSUME NEW E, NEW q \in Seq(E), NEW r \in E, NEW w
    PROVE  Count(Append(q, r), w) = Count(q, w) + IF r.by = w THEN 1 ELSE 0
  <1>1. Append(q, r) = q \o <<r>> /\ <<r>> \in Seq(E)
    BY AppendIsConcat
  <1>2. Count(q \o <<r>>, w) = Count(q, w) + Count(<<r>>, w)
    BY <1>1, CountConcat, Zenon
  <1>3. Count(<<r>>, w) = IF r.by = w THEN 1 ELSE 0
    BY CountOne, Zenon
  <1> QED
    BY <1>1, <1>2, <1>3

\* Taking the head off a queue.
LEMMA CountTail ==
    ASSUME NEW E, NEW q \in Seq(E), q # <<>>, NEW w
    PROVE  /\ Count(q, w) = Count(Tail(q), w) + IF Head(q).by = w THEN 1 ELSE 0
           /\ Count(Tail(q), w) \in Nat /\ Head(q) \in E /\ Tail(q) \in Seq(E)
  <1>1. Head(q) \in E /\ Tail(q) \in Seq(E)
    BY HeadTailProperties
  <1>2. q = <<Head(q)>> \o Tail(q) /\ <<Head(q)>> \in Seq(E)
    BY <1>1
  <1>3. Count(q, w) = Count(<<Head(q)>>, w) + Count(Tail(q), w) /\ Count(Tail(q), w) \in Nat
    <2>1. /\ Count(<<Head(q)>> \o Tail(q), w) = Count(<<Head(q)>>, w) + Count(Tail(q), w)
          /\ Count(Tail(q), w) \in Nat
      BY <1>1, <1>2, CountConcat, Zenon
    <2> QED
      BY <1>2, <2>1, Zenon
  <1>4. Count(<<Head(q)>>, w) = IF Head(q).by = w THEN 1 ELSE 0
    BY CountOne, Zenon
  <1> QED
    BY <1>1, <1>3, <1>4

-----------------------------------------------------------------------------
(* The dispatcher's bookkeeping.                                            *)

\* What records are: an event of a script has no sequence yet, a settled one has.
LEMMA RecordFields ==
    /\ \A e \in Events : e.seq = 0 /\ e.round \in Nat /\ e.box \in Boxes /\ e.id \notin Ending
    /\ \A e \in SettledEvents : /\ e.seq \in Nat \ {0} /\ e.kind \in Ending /\ e.id = e.kind
                                /\ e.box = "none"
    /\ \A e \in Records : e.seq \in Nat /\ (e.seq = 0 => e \in Events)
  <1>1. \A e \in Events : e.seq = 0 /\ e.round \in Nat /\ e.id \notin Ending
    BY DispatchAssumption DEF Ending
  <1>2. \A e \in Events : e.box \in Boxes
    BY DEF Boxes
  <1>3. \A e \in SettledEvents : /\ e.seq \in Nat \ {0} /\ e.kind \in Ending /\ e.id = e.kind
                                /\ e.box = "none"
    <2> TAKE e \in SettledEvents
    <2>1. PICK kind \in Ending, n \in Nat \ {0} : e = [Control(kind, 0) EXCEPT !.seq = n]
      BY DEF SettledEvents
    <2>2. e = [id |-> kind, kind |-> kind, box |-> "none", round |-> 0, seq |-> n]
      BY <2>1 DEF Control
    <2> QED
      BY <2>2
  <1> QED
    BY <1>1, <1>2, <1>3 DEF Records

\* Looking at an event changes the containers and rounds only.
LEMMA ObserveType ==
    ASSUME NEW d \in Disps, NEW e \in Records
    PROVE  LET o == ObserveContainerLifecycle(d, e)
           IN o \in Disps /\ o.pending = d.pending /\ o.closed = d.closed
  <1>1. d.opened \in SUBSET Boxes /\ d.rounds \in SUBSET (Boxes \X Nat)
    BY DEF Disps
  <1>2. CASE e \in SettledEvents
    BY <1>2, RecordFields DEF ObserveContainerLifecycle, Ending
  <1>3. CASE e \in Events
    <2>1. e.box \in Boxes /\ e.round \in Nat
      BY <1>3, RecordFields
    <2>2. CASE e.kind = "loop_started"
      BY <1>1, <2>1, <2>2 DEF ObserveContainerLifecycle, Disps
    <2>3. CASE e.kind = "loop_next"
      <3>1. d.rounds \cup {<<e.box, e.round>>} \in SUBSET (Boxes \X Nat)
        BY <1>1, <2>1
      <3>2. ObserveContainerLifecycle(d, e) =
                [d EXCEPT !.opened = @ \cup {e.box}, !.rounds = @ \cup {<<e.box, e.round>>}]
        BY <2>3 DEF ObserveContainerLifecycle
      <3> DEFINE R == d.rounds \cup {<<e.box, e.round>>}
      <3>3. ObserveContainerLifecycle(d, e) = [d EXCEPT !.opened = @ \cup {e.box}, !.rounds = R]
        BY <3>2
      <3>4. R \in SUBSET (Boxes \X Nat)
        BY <3>1
      <3> HIDE DEF R
      <3> QED
        BY <1>1, <2>1, <3>3, <3>4, ZenonT(40) DEF Disps
    <2>4. CASE e.kind = "loop_completed"
      <3>1. {<<e.box, n>> : n \in 0 .. (e.round - 1)} \in SUBSET (Boxes \X Nat)
        BY <2>1
      <3>2. ObserveContainerLifecycle(d, e) =
                [d EXCEPT !.opened = @ \cup {e.box},
                          !.rounds = @ \cup {<<e.box, n>> : n \in 0 .. (e.round - 1)}]
        BY <2>4 DEF ObserveContainerLifecycle
      <3> DEFINE R == d.rounds \cup {<<e.box, n>> : n \in 0 .. (e.round - 1)}
      <3>3. ObserveContainerLifecycle(d, e) = [d EXCEPT !.opened = @ \cup {e.box}, !.rounds = R]
        BY <3>2
      <3>4. R \in SUBSET (Boxes \X Nat)
        BY <1>1, <3>1
      <3> HIDE DEF R
      <3> QED
        BY <1>1, <2>1, <3>3, <3>4, ZenonT(40) DEF Disps
    <2>5. CASE e.kind \notin {"loop_started", "loop_next", "loop_completed"}
      BY <2>5 DEF ObserveContainerLifecycle
    <2> QED
      BY <2>2, <2>3, <2>4, <2>5
  <1> QED
    BY <1>2, <1>3 DEF Records

\* The ready and the kept events are together the pending ones.
LEMMA ReadyKept ==
    ASSUME NEW d \in Disps, NEW force \in BOOLEAN
    PROVE  /\ Ready(d, force) \in Seq(Events) /\ Kept(d, force) \in Seq(Events)
           /\ ToSet(d.pending) \subseteq ToSet(Ready(d, force)) \cup ToSet(Kept(d, force))
  <1>1. d.pending \in Seq(Events)
    BY DEF Disps
  <1>2. CASE force
    BY <1>1, <1>2 DEF Ready, Kept
  <1>3. CASE ~force
    <2> DEFINE s == d.pending
               I == Waits(d)
               J == DOMAIN s \ I
    <2>1. I \in SUBSET DOMAIN s /\ J \in SUBSET DOMAIN s
      BY Zenon DEF Waits
    <2>2. Ready(d, force) = Pick(s, J) /\ Kept(d, force) = Pick(s, I)
      BY <1>3 DEF Ready, Kept
    <2>3. s \in Seq(Events)
      BY <1>1
    <2>4. ToSet(s) = {s[i] : i \in DOMAIN s}
      BY DEF ToSet
    <2> HIDE DEF s, I
    <2>5. /\ Pick(s, J) \in Seq(Events) /\ ToSet(Pick(s, J)) = {s[i] : i \in J}
          /\ Pick(s, I) \in Seq(Events) /\ ToSet(Pick(s, I)) = {s[i] : i \in I}
      BY <2>1, <2>3, PickProperties
    <2>6. ToSet(s) \subseteq ToSet(Pick(s, J)) \cup ToSet(Pick(s, I))
      BY <2>4, <2>5
    <2> QED
      BY <2>2, <2>5, <2>6 DEF s
  <1> QED
    BY <1>2, <1>3

\* The elements of sequences that are joined, shortened and cut.
LEMMA Elements ==
    ASSUME NEW E, NEW p \in Seq(E), NEW q \in Seq(E)
    PROVE  /\ ToSet(p \o q) = ToSet(p) \cup ToSet(q) /\ p \o q \in Seq(E)
           /\ ToSet(p) \subseteq E /\ ToSet(<<>>) = {}
           /\ \A x : ToSet(<<x>>) = {x}
  <1>1. /\ Len(p) \in Nat /\ DOMAIN p = 1 .. Len(p) /\ Len(q) \in Nat /\ DOMAIN q = 1 .. Len(q)
        /\ DOMAIN (p \o q) = 1 .. (Len(p) + Len(q)) /\ p \o q \in Seq(E)
        /\ \A i \in 1 .. Len(p) : (p \o q)[i] = p[i]
        /\ \A i \in 1 .. Len(q) : (p \o q)[i + Len(p)] = q[i]
    BY LenProperties, ConcatProperties
  <1>2. ASSUME NEW x \in ToSet(p \o q) PROVE x \in ToSet(p) \cup ToSet(q)
    <2>1. PICK i \in 1 .. (Len(p) + Len(q)) : x = (p \o q)[i]
      BY <1>1 DEF ToSet
    <2>2. CASE i <= Len(p)
      BY <1>1, <2>1, <2>2 DEF ToSet
    <2>3. CASE ~(i <= Len(p))
      <3>1. i - Len(p) \in 1 .. Len(q) /\ (i - Len(p)) + Len(p) = i
        BY <1>1, <2>3
      <3>2. x = q[i - Len(p)]
        BY <1>1, <2>1, <3>1
      <3> QED
        BY <1>1, <3>1, <3>2 DEF ToSet
    <2> QED
      BY <2>2, <2>3
  <1>3. ASSUME NEW x \in ToSet(p) \cup ToSet(q) PROVE x \in ToSet(p \o q)
    <2>1. CASE x \in ToSet(p)
      <3>1. PICK i \in 1 .. Len(p) : x = p[i]
        BY <1>1, <2>1 DEF ToSet
      <3>2. i \in DOMAIN (p \o q) /\ x = (p \o q)[i]
        BY <1>1, <3>1
      <3> QED
        BY <3>2 DEF ToSet
    <2>2. CASE x \in ToSet(q)
      <3>1. PICK i \in 1 .. Len(q) : x = q[i]
        BY <1>1, <2>2 DEF ToSet
      <3>2. i + Len(p) \in DOMAIN (p \o q) /\ x = (p \o q)[i + Len(p)]
        BY <1>1, <3>1
      <3> QED
        BY <3>2 DEF ToSet
    <2> QED
      BY <2>1, <2>2
  <1>4. ToSet(p) \subseteq E /\ ToSet(<<>>) = {}
    BY DEF ToSet
  <1>5. \A x : ToSet(<<x>>) = {x}
    BY DEF ToSet
  <1> QED
    BY <1>1, <1>2, <1>3, <1>4, <1>5

\* Appending adds one element.
LEMMA AppendElement ==
    ASSUME NEW E, NEW p \in Seq(E), NEW x \in E
    PROVE  Append(p, x) \in Seq(E) /\ ToSet(Append(p, x)) = ToSet(p) \cup {x}
  <1>1. Append(p, x) = p \o <<x>> /\ <<x>> \in Seq(E)
    BY AppendIsConcat
  <1> DEFINE q == <<x>>
  <1>2. q \in Seq(E) /\ ToSet(q) = {x} /\ Append(p, x) = p \o q
    BY <1>1 DEF ToSet
  <1> HIDE DEF q
  <1> QED
    BY <1>2, Elements

\* What a dispatched event puts into the queue: itself, and the events it releases; the
\* other pending events stay.
LEMMA ReleasedType ==
    ASSUME NEW d \in Disps, NEW e \in Records
    PROVE  LET r == Released(d, e)
           IN /\ r.recs \in Seq(Records) /\ r.disp \in Disps /\ r.disp.closed = d.closed
              /\ ToSet(d.pending) \cup {e} \subseteq ToSet(r.recs) \cup ToSet(r.disp.pending)
              /\ ToSet(r.recs) \subseteq Events \cup {e}
  <1> DEFINE forced == IF RunTerminal(e) THEN Ready(d, TRUE) ELSE <<>>
             d1 == IF RunTerminal(e) THEN [d EXCEPT !.pending = <<>>] ELSE d
             d2 == ObserveContainerLifecycle(d1, e)
             ready == Ready(d2, FALSE)
             kept == Kept(d2, FALSE)
             recs == IF BoxTerminal(e) THEN forced \o ready \o <<e>> ELSE forced \o <<e>> \o ready
             rest == [d2 EXCEPT !.pending = kept]
  <1>1. Released(d, e) = [recs |-> recs, disp |-> rest]
    BY DEF Released
  <1>2. /\ forced \in Seq(Events) /\ d1 \in Disps /\ d1.closed = d.closed
        /\ ToSet(d.pending) \subseteq ToSet(forced) \cup ToSet(d1.pending)
    <2>1. d.pending \in Seq(Events)
      BY DEF Disps
    <2>2. <<>> \in Seq(Events) /\ Ready(d, TRUE) = d.pending
      BY DEF Ready
    <2>3. CASE RunTerminal(e)
      BY <2>1, <2>2, <2>3 DEF Disps
    <2>4. CASE ~RunTerminal(e)
      BY <2>2, <2>4
    <2> QED
      BY <2>3, <2>4
  <1> HIDE DEF forced, d1
  <1>3. d2 \in Disps /\ d2.pending = d1.pending /\ d2.closed = d.closed
    BY <1>2, ObserveType
  <1> HIDE DEF d2
  <1>4. /\ ready \in Seq(Events) /\ kept \in Seq(Events)
        /\ ToSet(d1.pending) \subseteq ToSet(ready) \cup ToSet(kept)
    BY <1>3, ReadyKept
  <1> HIDE DEF ready, kept
  <1>5. forced \in Seq(Records) /\ ready \in Seq(Records) /\ <<e>> \in Seq(Records)
    BY <1>2, <1>4 DEF Records
  <1>6. recs \in Seq(Records) /\ ToSet(recs) = ToSet(forced) \cup {e} \cup ToSet(ready)
    <2> DEFINE one == <<e>>
    <2>6. one \in Seq(Records) /\ ToSet(one) = {e}
      BY <1>5, Elements
    <2> HIDE DEF one
    <2>1. \A p, q \in Seq(Records) : /\ p \o q \in Seq(Records)
                                     /\ ToSet(p \o q) = ToSet(p) \cup ToSet(q)
      <3> TAKE p, q \in Seq(Records)
      <3> QED
        BY Elements
    <2>4. CASE BoxTerminal(e)
      <3> DEFINE front == forced \o ready
      <3>1. front \in Seq(Records) /\ ToSet(front) = ToSet(forced) \cup ToSet(ready)
        BY <1>5, <2>1, Zenon
      <3>2. recs = front \o one
        BY <2>4 DEF one
      <3> HIDE DEF front, recs
      <3>3. front \o one \in Seq(Records) /\ ToSet(front \o one) = ToSet(front) \cup ToSet(one)
        BY <2>1, <2>6, <3>1, Zenon
      <3> QED
        BY <2>6, <3>1, <3>2, <3>3
    <2>5. CASE ~BoxTerminal(e)
      <3> DEFINE front == forced \o one
      <3>1. front \in Seq(Records) /\ ToSet(front) = ToSet(forced) \cup ToSet(one)
        BY <1>5, <2>1, <2>6, Zenon
      <3>2. recs = front \o ready
        BY <2>5 DEF one
      <3> HIDE DEF front, recs
      <3>3. front \o ready \in Seq(Records) /\ ToSet(front \o ready) = ToSet(front) \cup ToSet(ready)
        BY <1>5, <2>1, <3>1, Zenon
      <3> QED
        BY <2>6, <3>1, <3>2, <3>3
    <2> QED
      BY <2>4, <2>5
  <1> HIDE DEF recs
  <1>7. rest \in Disps /\ rest.closed = d.closed /\ rest.pending = kept
    BY <1>3, <1>4 DEF Disps
  <1> HIDE DEF rest
  <1>8. ToSet(d.pending) \cup {e} \subseteq ToSet(recs) \cup ToSet(kept)
    BY <1>2, <1>4, <1>6, Zenon
  <1>9. ToSet(recs) \subseteq Events \cup {e}
    <2>1. ToSet(forced) \subseteq Events /\ ToSet(ready) \subseteq Events
      BY <1>2, <1>4, Elements, Zenon
    <2> QED
      BY <1>6, <2>1
  <1> QED
    BY <1>1, <1>6, <1>7, <1>8, <1>9

-----------------------------------------------------------------------------
(* The durable append.                                                      *)

FreshAt(g, recs) == {i \in DOMAIN recs : Fresh(g, recs)[i]}

NewRow(g, recs, i) ==
    [seq |-> nextSeq + 1 + Rank(FreshAt(g, recs), i), ev |-> recs[i], gen |-> g]

\* Which events get a row: those without a sequence whose key is neither stored nor
\* reported earlier in the same chunk.
LEMMA FreshProperties ==
    ASSUME NEW g \in Gens, NEW recs \in Seq(Records)
    PROVE  /\ FreshAt(g, recs) \in SUBSET DOMAIN recs /\ FreshAt(g, recs) \in SUBSET Nat
           /\ IsFiniteSet(FreshAt(g, recs)) /\ Cardinality(FreshAt(g, recs)) \in Nat
           /\ \A i \in FreshAt(g, recs) : recs[i] \in Events
           /\ \A i \in DOMAIN recs :
                 i \in FreshAt(g, recs) <=>
                    /\ recs[i].seq = 0
                    /\ ~\E r \in rows : SameKey(r, g, recs[i])
                    /\ ~\E j \in 1 .. (i - 1) : Keyed(recs[i]) /\ recs[j] = recs[i]
  <1> DEFINE F == FreshAt(g, recs)
  <1>1. F \in SUBSET DOMAIN recs
    BY Zenon DEF FreshAt
  <1>2. F \in SUBSET Nat /\ IsFiniteSet(F) /\ Cardinality(F) \in Nat
    <2> HIDE DEF F
    <2> QED
      BY <1>1, Indices, Zenon
  <1>3. \A i \in DOMAIN recs :
                 i \in F <=>
                    /\ recs[i].seq = 0
                    /\ ~\E r \in rows : SameKey(r, g, recs[i])
                    /\ ~\E j \in 1 .. (i - 1) : Keyed(recs[i]) /\ recs[j] = recs[i]
    BY Zenon DEF FreshAt, Fresh
  <1>4. \A i \in DOMAIN recs : recs[i] \in Records
    BY ElementOfSeq
  <1>5. \A i \in F : recs[i] \in Events
    <2> HIDE DEF F
    <2> QED
      BY <1>1, <1>3, <1>4, RecordFields, Zenon
  <1> QED
    BY <1>1, <1>2, <1>3, <1>5, Zenon

\* The offset of a fresh event is its place among the fresh ones.
LEMMA NewRowsByRank ==
    ASSUME NEW g \in Gens, NEW recs \in Seq(Records), nextSeq \in Nat
    PROVE  /\ NewRows(g, recs) = {NewRow(g, recs, i) : i \in FreshAt(g, recs)}
           /\ \A i \in FreshAt(g, recs) :
                 nextSeq + Offset(Fresh(g, recs), i) = NewRow(g, recs, i).seq
  <1> DEFINE F == FreshAt(g, recs)
             fresh == Fresh(g, recs)
             off(i) == Offset(fresh, i)
  <1>1. /\ F \in SUBSET DOMAIN recs /\ F \in SUBSET Nat /\ IsFiniteSet(F)
        /\ Len(recs) \in Nat /\ DOMAIN recs = 1 .. Len(recs)
    BY FreshProperties, LenProperties
  <1>2. F = {i \in DOMAIN recs : fresh[i]}
    BY Zenon DEF FreshAt
  <1>3. NewRows(g, recs) =
            {[seq |-> nextSeq + off(i), ev |-> recs[i], gen |-> g] : i \in F}
    BY <1>2 DEF NewRows
  <1> HIDE DEF F, fresh
  <1>4. ASSUME NEW i \in F PROVE nextSeq + off(i) = nextSeq + 1 + Rank(F, i)
    <2> DEFINE T == {j \in F : j < i}
    <2>1. {j \in 1 .. i : fresh[j]} = T \cup {i}
      BY <1>1, <1>2
    <2>2. T \in SUBSET F /\ i \notin T
      BY <1>1
    <2>3. Rank(F, i) = Cardinality(T)
      BY DEF Rank
    <2> HIDE DEF T
    <2>4. IsFiniteSet(T)
      BY <1>1, <2>2, FS_Subset, Zenon
    <2>5. Cardinality(T \cup {i}) = Cardinality(T) + 1 /\ Cardinality(T) \in Nat
      BY <2>2, <2>4, FS_AddElement, FS_CardinalityType
    <2>6. off(i) = Rank(F, i) + 1 /\ Rank(F, i) \in Nat
      BY <2>1, <2>3, <2>5 DEF Offset
    <2> HIDE DEF off
    <2> QED
      BY <2>6
  <1>7. \A i \in F : nextSeq + Offset(fresh, i) = NewRow(g, recs, i).seq
    BY <1>4 DEF NewRow, F
  <1> HIDE DEF off
  <1>5. ASSUME NEW i \in F
        PROVE  [seq |-> nextSeq + off(i), ev |-> recs[i], gen |-> g] = NewRow(g, recs, i)
    BY <1>4 DEF NewRow, F
  <1>6. {[seq |-> nextSeq + off(i), ev |-> recs[i], gen |-> g] : i \in F}
            = {NewRow(g, recs, i) : i \in F}
    BY <1>5, Zenon
  <1> QED
    BY <1>3, <1>6, <1>7, Zenon DEF F, fresh

\* The rows of a chunk take the next sequences, each of them once.
LEMMA NewRowsProperties ==
    ASSUME NEW g \in Gens, NEW recs \in Seq(Records), nextSeq \in Nat
    PROVE  LET N == NewRows(g, recs)
           IN /\ IsFiniteSet(N) /\ Cardinality(N) \in Nat
              /\ {r.seq : r \in N} = (nextSeq + 1) .. (nextSeq + Cardinality(N))
              /\ \A r \in N : r.gen = g /\ r.ev \in Events /\ r.seq \in Nat /\ r.seq > nextSeq
  <1> DEFINE F == FreshAt(g, recs)
             N == NewRows(g, recs)
             f == [i \in F |-> NewRow(g, recs, i)]
  <1>1. /\ F \in SUBSET Nat /\ IsFiniteSet(F) /\ Cardinality(F) \in Nat
        /\ \A i \in F : recs[i] \in Events
    BY FreshProperties, Zenon
  <1>2. N = {NewRow(g, recs, i) : i \in F}
    BY NewRowsByRank, Zenon
  <1> HIDE DEF F, N
  <1>3. ASSUME NEW i \in F
        PROVE  /\ NewRow(g, recs, i).seq = nextSeq + 1 + Rank(F, i)
               /\ NewRow(g, recs, i).ev = recs[i] /\ NewRow(g, recs, i).gen = g
               /\ Rank(F, i) \in Nat /\ Rank(F, i) < Cardinality(F)
    <2>1. Rank(F, i) \in Nat /\ Rank(F, i) < Cardinality(F)
      BY <1>1, RankBound, Zenon
    <2> QED
      BY <2>1 DEF NewRow, F
  <1>4. IsFiniteSet(N) /\ Cardinality(N) = Cardinality(F)
    <2>1. f \in [F -> N]
      BY <1>2
    <2>2. \A y \in N : \E i \in F : f[i] = y
      BY <1>2
    <2>3. ASSUME NEW x \in F, NEW y \in F, f[x] = f[y] PROVE x = y
      <3>1. Rank(F, x) = Rank(F, y)
        BY <1>3, <2>3
      <3>2. x \in Nat /\ y \in Nat /\ Rank(F, x) \in Nat /\ Rank(F, y) \in Nat
        BY <1>1, <1>3
      <3>3. (x < y => Rank(F, x) < Rank(F, y)) /\ (y < x => Rank(F, y) < Rank(F, x))
        BY <1>1, RankLess, Zenon
      <3> QED
        BY <3>1, <3>2, <3>3
    <2> HIDE DEF f
    <2> QED
      BY <1>1, <2>1, <2>2, <2>3, SameCount, Zenon
  <1>5. PICK c \in Nat : c = Cardinality(F)
    BY <1>1
  <1>6. \A r \in N : /\ r.gen = g /\ r.ev \in Events
                    /\ r.seq \in (nextSeq + 1) .. (nextSeq + c)
    <2> SUFFICES ASSUME NEW i \in F
                 PROVE  LET r == NewRow(g, recs, i)
                        IN r.gen = g /\ r.ev \in Events /\ r.seq \in (nextSeq + 1) .. (nextSeq + c)
      BY <1>2
    <2> QED
      BY <1>1, <1>3, <1>5
  <1>7. ASSUME NEW n \in (nextSeq + 1) .. (nextSeq + c) PROVE \E r \in N : r.seq = n
    <2>1. n - nextSeq - 1 \in 0 .. (c - 1)
      OBVIOUS
    <2>2. \A k \in 0 .. (c - 1) : \E i \in F : Rank(F, i) = k
      BY <1>1, <1>5, RankOnto
    <2>3. PICK i \in F : Rank(F, i) = n - nextSeq - 1
      BY <2>1, <2>2, Zenon
    <2>4. NewRow(g, recs, i).seq = n /\ NewRow(g, recs, i) \in N
      BY <1>2, <1>3, <2>3
    <2> QED
      BY <2>4
  <1>8. {r.seq : r \in N} = (nextSeq + 1) .. (nextSeq + c)
    BY <1>6, <1>7
  <1>9. \A r \in N : r.seq \in Nat /\ r.seq > nextSeq
    BY <1>6
  <1> QED
    BY <1>4, <1>5, <1>6, <1>8, <1>9 DEF N

\* A row with the key of an event is a row of that event.
LEMMA SameEvent ==
    ASSUME Types, NEW g \in Gens, NEW e \in Events, NEW r \in rows, SameKey(r, g, e)
    PROVE  r.gen = g /\ r.ev = e
  <1>1. r.gen = g /\ r.ev.id = e.id /\ e.id \notin Ending
    BY DispatchAssumption DEF SameKey, Ending
  <1>2. g # 0
    BY DispatchAssumption
  <1>3. r.ev \in Events \cup {Control(k, 0) : k \in Ending}
    BY <1>1, <1>2 DEF Types
  <1>4. r.ev \in Events
    <2>1. ASSUME NEW k \in Ending PROVE Control(k, 0).id \in Ending
      BY DEF Control
    <2> QED
      BY <1>1, <1>3, <2>1
  <1> QED
    BY <1>1, <1>4, DispatchAssumption

\* An event without a sequence that is not fresh has a row with its key, or is the
\* repetition of a fresh event of the chunk.
LEMMA RepeatedEvent ==
    ASSUME NEW g \in Gens, NEW recs \in Seq(Records), NEW i \in DOMAIN recs,
           recs[i].seq = 0, i \notin FreshAt(g, recs)
    PROVE  /\ Keyed(recs[i])
           /\ \/ \E r \in rows : SameKey(r, g, recs[i])
              \/ \E m \in FreshAt(g, recs) : m < i /\ recs[m] = recs[i]
  <1>1. \/ \E r \in rows : SameKey(r, g, recs[i])
        \/ \E j \in 1 .. (i - 1) : Keyed(recs[i]) /\ recs[j] = recs[i]
    BY FreshProperties, Zenon
  <1>2. Keyed(recs[i])
    BY <1>1 DEF SameKey
  <1>3. CASE ~\E r \in rows : SameKey(r, g, recs[i])
    <2> DEFINE J == {j \in 1 .. (i - 1) : recs[j] = recs[i]}
    <2>1. Len(recs) \in Nat /\ DOMAIN recs = 1 .. Len(recs)
      BY LenProperties
    <2>2. J \in SUBSET DOMAIN recs /\ J \in SUBSET Nat /\ J # {} /\ \A j \in J : j < i
      BY <1>1, <1>3, <2>1
    <2>3. \A j \in J : recs[j] = recs[i] /\ \A k \in 1 .. (j - 1) : recs[k] = recs[i] => k \in J
      BY <2>1
    <2> HIDE DEF J
    <2>4. IsFiniteSet(J) /\ Cardinality(J) \in Nat
      BY <2>2, Indices, Zenon
    <2>5. PICK x \in J : TRUE
      BY <2>2
    <2>6. 0 \in 0 .. (Cardinality(J) - 1)
      <3>1. Rank(J, x) \in Nat /\ Rank(J, x) < Cardinality(J)
        BY <2>2, <2>4, RankBound, Zenon
      <3> QED
        BY <2>4, <3>1
    <2>7. PICK m \in J : Rank(J, m) = 0
      BY <2>2, <2>4, <2>6, RankOnto, Zenon
    <2>8. {j \in J : j < m} = {}
      <3> DEFINE T == {j \in J : j < m}
      <3>1. T \in SUBSET J /\ Cardinality(T) = 0
        BY <2>7 DEF Rank
      <3> HIDE DEF T
      <3>2. IsFiniteSet(T)
        BY <2>4, <3>1, FS_Subset, Zenon
      <3>3. T = {}
        BY <3>1, <3>2, FS_EmptySet, Zenon
      <3> QED
        BY <3>3 DEF T
    <2>9. m \in DOMAIN recs /\ recs[m] = recs[i] /\ ~\E k \in 1 .. (m - 1) : recs[k] = recs[m]
      <3>1. m \in Nat /\ recs[m] = recs[i]
        BY <2>2, <2>3
      <3>2. ASSUME NEW k \in 1 .. (m - 1), recs[k] = recs[m] PROVE FALSE
        <4>1. k < m
          BY <3>1
        <4>2. k \in J
          BY <2>3, <3>1, <3>2
        <4> QED
          BY <2>8, <4>1, <4>2
      <3> QED
        BY <2>2, <3>1, <3>2
    <2>10. m \in FreshAt(g, recs)
      BY <1>3, <2>9, FreshProperties, Zenon
    <2> QED
      BY <1>2, <2>2, <2>9, <2>10
  <1> QED
    BY <1>2, <1>3

\* What is shown carries the sequence that it was settled with, that of its new row, or
\* that of an earlier row of the same event: one of the table, or one of the chunk.
StoredOK(g, recs, out) ==
    /\ out \in Seq(Shown) /\ Len(out) = Len(recs) /\ DOMAIN out = DOMAIN recs
    /\ \A i \in DOMAIN recs :
          /\ out[i].ev = recs[i]
          /\ recs[i].seq # 0 => out[i].seq = recs[i].seq
          /\ i \in FreshAt(g, recs) => out[i].seq = NewRow(g, recs, i).seq
          /\ (recs[i].seq = 0 /\ i \notin FreshAt(g, recs))
             => \/ \E r \in rows : r.gen = g /\ r.ev = recs[i] /\ r.seq = out[i].seq
                \/ \E m \in FreshAt(g, recs) : /\ m < i /\ recs[m] = recs[i]
                                               /\ out[m].seq = out[i].seq

\* The results of an append are what StoredOK says.
LEMMA StoredProperties ==
    ASSUME Types, NEW g \in Gens, NEW recs \in Seq(Records), NEW table,
           table = rows \cup NewRows(g, recs)
    PROVE  StoredOK(g, recs, Stored(g, recs, table))
  <1> DEFINE row(i) == CHOOSE r \in table : SameKey(r, g, recs[i])
             out == Stored(g, recs, table)
             F == FreshAt(g, recs)
             fresh == Fresh(g, recs)
  <1>1. Len(recs) \in Nat /\ DOMAIN recs = 1 .. Len(recs) /\ nextSeq \in Nat
    BY LenProperties DEF Types
  <1>2. out = [i \in DOMAIN recs |->
                [ev |-> recs[i], seq |-> IF recs[i].seq > 0 THEN recs[i].seq
                                         ELSE IF fresh[i] THEN nextSeq + Offset(fresh, i)
                                         ELSE row(i).seq]]
    BY Zenon DEF Stored
  <1>3. /\ F \in SUBSET DOMAIN recs /\ F \in SUBSET Nat
        /\ \A i \in F : recs[i] \in Events /\ recs[i].seq = 0
        /\ \A i \in DOMAIN recs : i \in F <=> fresh[i]
    <2>1. /\ F \in SUBSET DOMAIN recs /\ F \in SUBSET Nat
          /\ \A i \in F : recs[i] \in Events /\ recs[i].seq = 0
      BY FreshProperties, Zenon
    <2>2. \A i \in DOMAIN recs : i \in F <=> fresh[i]
      BY Zenon DEF FreshAt
    <2> QED
      BY <2>1, <2>2, Zenon
  <1>4. /\ NewRows(g, recs) = {NewRow(g, recs, i) : i \in F}
        /\ \A i \in F : nextSeq + Offset(fresh, i) = NewRow(g, recs, i).seq
    BY <1>1, NewRowsByRank, Zenon
  <1>5. \A r \in table : r.seq \in Nat \ {0}
    <2>1. nextSeq \in Nat /\ \A r \in rows : r.seq \in Nat \ {0}
      BY DEF Types
    <2>2. \A r \in NewRows(g, recs) : r.seq \in Nat /\ r.seq > nextSeq
      BY <2>1, NewRowsProperties, Zenon
    <2>3. \A r \in NewRows(g, recs) : r.seq \in Nat \ {0}
      BY <2>1, <2>2
    <2> QED
      BY <2>1, <2>3
  <1>6. \A i \in DOMAIN recs : /\ recs[i] \in Records /\ recs[i].seq \in Nat
                               /\ recs[i].seq = 0 => recs[i] \in Events
    <2>1. \A i \in DOMAIN recs : recs[i] \in Records
      BY ElementOfSeq
    <2> QED
      BY <2>1, RecordFields
  <1>7. \A i \in F : NewRow(g, recs, i).gen = g /\ NewRow(g, recs, i).ev = recs[i]
    BY DEF NewRow
  <1> HIDE DEF row, out, F, fresh
  <1>8. ASSUME NEW i \in F
        PROVE  /\ out[i] = [ev |-> recs[i], seq |-> NewRow(g, recs, i).seq]
               /\ out[i].ev = recs[i] /\ out[i].seq = NewRow(g, recs, i).seq
               /\ NewRow(g, recs, i).seq \in Nat \ {0} /\ i \in DOMAIN recs
    <2>1. i \in DOMAIN recs /\ recs[i].seq = 0 /\ fresh[i]
      BY <1>3
    <2>2. NewRow(g, recs, i) \in table
      BY <1>4
    <2> QED
      BY <1>2, <1>4, <1>5, <2>1, <2>2
  <1>9. ASSUME NEW i \in DOMAIN recs, recs[i].seq = 0, i \notin F
        PROVE  /\ out[i] = [ev |-> recs[i], seq |-> row(i).seq] /\ row(i).seq \in Nat \ {0}
               /\ out[i].ev = recs[i] /\ out[i].seq = row(i).seq
               /\ \/ row(i) \in rows /\ row(i).gen = g /\ row(i).ev = recs[i]
                  \/ \E m \in F : m < i /\ recs[m] = recs[i] /\ out[m].seq = row(i).seq
    <2>1. /\ Keyed(recs[i])
          /\ \/ \E r \in rows : SameKey(r, g, recs[i])
             \/ \E m \in F : m < i /\ recs[m] = recs[i]
      BY <1>9, RepeatedEvent, Zenon DEF F
    <2>2. \E r \in table : SameKey(r, g, recs[i])
      <3>1. CASE \E m \in F : m < i /\ recs[m] = recs[i]
        <4>1. PICK m \in F : recs[m] = recs[i]
          BY <3>1
        <4>2. NewRow(g, recs, m) \in table /\ SameKey(NewRow(g, recs, m), g, recs[i])
          BY <1>4, <1>7, <2>1, <4>1 DEF SameKey
        <4> QED
          BY <4>2
      <3> QED
        BY <2>1, <3>1
    <2>3. row(i) \in table /\ SameKey(row(i), g, recs[i])
      BY <2>2, Zenon DEF row
    <2>4. /\ out[i] = [ev |-> recs[i], seq |-> row(i).seq]
          /\ out[i].ev = recs[i] /\ out[i].seq = row(i).seq
      BY <1>2, <1>3, <1>9
    <2>5. recs[i] \in Events
      BY <1>6, <1>9
    <2>6. CASE row(i) \in rows
      <3>1. row(i).gen = g /\ row(i).ev = recs[i]
        BY <2>3, <2>5, <2>6, SameEvent, Zenon
      <3>2. row(i).seq \in Nat \ {0}
        BY <1>5, <2>3, Zenon
      <3> QED
        BY <2>4, <2>6, <3>1, <3>2, Zenon
    <2>7. CASE row(i) \notin rows
      <3>1. PICK n \in F : row(i) = NewRow(g, recs, n)
        BY <1>4, <2>3, <2>7
      <3>2. recs[n].id = recs[i].id /\ recs[n] \in Events /\ n \in DOMAIN recs /\ recs[n].seq = 0
        BY <1>3, <1>7, <2>3, <3>1 DEF SameKey
      <3>3. recs[n] = recs[i]
        BY <2>5, <3>2, DispatchAssumption
      <3>4. /\ ~\E r \in rows : SameKey(r, g, recs[n])
            /\ ~\E j \in 1 .. (n - 1) : Keyed(recs[n]) /\ recs[j] = recs[n]
        BY <3>2, FreshProperties, Zenon DEF F
      <3>5. PICK j \in F : j < i /\ recs[j] = recs[i]
        BY <2>1, <3>3, <3>4
      <3>6. n < i
        <4>1. j \in Nat /\ n \in Nat /\ i \in Nat /\ j \in 1 .. Len(recs)
          BY <1>1, <1>3
        <4>2. ~(j < n)
          BY <2>1, <3>3, <3>4, <3>5, <4>1
        <4> QED
          BY <3>5, <4>1, <4>2
      <3>7. out[n].seq = row(i).seq
        BY <1>8, <3>1
      <3> QED
        BY <1>5, <2>3, <2>4, <3>3, <3>6, <3>7
    <2> QED
      BY <2>6, <2>7
  <1>10. ASSUME NEW i \in DOMAIN recs, recs[i].seq # 0
         PROVE  /\ out[i] = [ev |-> recs[i], seq |-> recs[i].seq] /\ recs[i].seq \in Nat \ {0}
                /\ out[i].ev = recs[i] /\ out[i].seq = recs[i].seq
    BY <1>2, <1>6, <1>10
  <1>11. ASSUME NEW i \in DOMAIN recs PROVE out[i] \in Shown /\ out[i].ev = recs[i]
    <2>1. recs[i].seq # 0 => \E n \in Nat \ {0} : out[i] = [ev |-> recs[i], seq |-> n]
      BY <1>10, Zenon
    <2>2. i \in F => \E n \in Nat \ {0} : out[i] = [ev |-> recs[i], seq |-> n]
      BY <1>8, Zenon
    <2>3. recs[i].seq = 0 /\ i \notin F => \E n \in Nat \ {0} : out[i] = [ev |-> recs[i], seq |-> n]
      BY <1>9, Zenon
    <2>4. PICK n \in Nat \ {0} : out[i] = [ev |-> recs[i], seq |-> n]
      BY <2>1, <2>2, <2>3, Zenon
    <2> QED
      BY <1>6, <2>4 DEF Shown
  <1>12. out \in Seq(Shown) /\ Len(out) = Len(recs) /\ DOMAIN out = DOMAIN recs
    <2>1. PICK n \in Nat : n = Len(recs) /\ DOMAIN recs = 1 .. n
      BY <1>1
    <2>2. out \in [1 .. n -> Shown]
      BY <1>2, <1>11, <2>1
    <2>3. out \in Seq(Shown) /\ Len(out) = n /\ DOMAIN out = 1 .. n
      BY <2>2, LenProperties
    <2> QED
      BY <2>1, <2>3
  <1>13. ASSUME NEW i \in DOMAIN recs
         PROVE  /\ out[i].ev = recs[i]
                /\ recs[i].seq # 0 => out[i].seq = recs[i].seq
                /\ i \in F => out[i].seq = NewRow(g, recs, i).seq
                /\ (recs[i].seq = 0 /\ i \notin F)
                   => \/ \E r \in rows : r.gen = g /\ r.ev = recs[i] /\ r.seq = out[i].seq
                      \/ \E m \in F : m < i /\ recs[m] = recs[i] /\ out[m].seq = out[i].seq
    <2>1. recs[i].seq # 0 => out[i].seq = recs[i].seq
      BY <1>10, Zenon
    <2>2. i \in F => out[i].seq = NewRow(g, recs, i).seq
      BY <1>8, Zenon
    <2>3. ASSUME recs[i].seq = 0, i \notin F
          PROVE  \/ \E r \in rows : r.gen = g /\ r.ev = recs[i] /\ r.seq = out[i].seq
                 \/ \E m \in F : m < i /\ recs[m] = recs[i] /\ out[m].seq = out[i].seq
      <3>1. out[i].seq = row(i).seq
        BY <1>9, <2>3, Zenon
      <3> QED
        BY <1>9, <2>3, <3>1, Zenon
    <2> QED
      BY <1>11, <2>1, <2>2, <2>3, Zenon
  <1> QED
    BY <1>12, <1>13, Zenon DEF out, F, StoredOK

\* A chunk is the front of the records that are left, and not empty unless they are.
LEMMA ChunkProperties ==
    ASSUME Types, NEW g \in Gens
    PROVE  /\ Chunk(g) \in Seq(Records) /\ Len(Chunk(g)) <= Len(bat[g].recs)
           /\ DOMAIN Chunk(g) = 1 .. Len(Chunk(g)) /\ Len(Chunk(g)) \in Nat
           /\ \A i \in 1 .. Len(Chunk(g)) : Chunk(g)[i] = bat[g].recs[i]
           /\ bat[g].recs # <<>> => Len(Chunk(g)) > 0
  <1> DEFINE recs == bat[g].recs
  <1>1. recs \in Seq(Records)
    BY DEF Types, Bats
  <1>2. Chunk(g) = SubSeq(recs, 1, Min({BatchCount, Len(recs)}))
    BY DEF Chunk
  <1> HIDE DEF recs
  <1>3. /\ Len(recs) \in Nat /\ DOMAIN recs = 1 .. Len(recs) /\ BatchCount \in Nat \ {0}
        /\ (recs # <<>> => Len(recs) > 0)
    BY <1>1, DispatchAssumption, LenProperties
  <1>4. PICK m \in Nat : /\ m = Min({BatchCount, Len(recs)}) /\ m <= Len(recs)
                         /\ (Len(recs) > 0 => m > 0)
    <2>1. PICK b \in Nat, n \in Nat : b = BatchCount /\ n = Len(recs) /\ b > 0
      <3>1. BatchCount \in Nat /\ Len(recs) \in Nat /\ BatchCount > 0
        BY <1>3
      <3> QED
        BY <3>1, Zenon
    <2>2. \E x \in {b, n} : \A y \in {b, n} : x <= y
      BY <2>1
    <2>3. Min({b, n}) \in {b, n} /\ \A y \in {b, n} : Min({b, n}) <= y
      BY <2>2, Zenon DEF Min
    <2> QED
      BY <2>1, <2>3
  <1>5. \A i \in 1 .. m : recs[i] \in Records
    BY <1>1, <1>3, <1>4, ElementOfSeq
  <1>6. /\ SubSeq(recs, 1, m) \in Seq(Records) /\ Len(SubSeq(recs, 1, m)) = m
        /\ \A i \in 1 .. m : SubSeq(recs, 1, m)[i] = recs[i]
    <2>1. SubSeq(recs, 1, m) \in Seq(Records)
      <3>1. 1 \in Int /\ m \in Int
        BY <1>4
      <3> QED
        BY <1>5, <3>1, SubSeqProperties
    <2>2. Len(SubSeq(recs, 1, m)) = m
      BY <1>1, <1>3, <1>4
    <2>3. \A i \in 1 .. m : SubSeq(recs, 1, m)[i] = recs[i]
      BY <1>1, <1>3, <1>4
    <2> QED
      BY <2>1, <2>2, <2>3
  <1> QED
    BY <1>2, <1>3, <1>4, <1>6, LenProperties DEF recs

\* What is left of a sequence when its first k elements are cut off.
LEMMA RestProperties ==
    ASSUME NEW E, NEW s \in Seq(E), NEW k \in 0 .. Len(s)
    PROVE  LET rest == SubSeq(s, k + 1, Len(s))
           IN /\ rest \in Seq(E) /\ Len(rest) = Len(s) - k
              /\ \A i \in 1 .. (Len(s) - k) : rest[i] = s[k + i]
              /\ ToSet(s) \subseteq {s[i] : i \in 1 .. k} \cup ToSet(rest)
              /\ ToSet(rest) \subseteq ToSet(s)
  <1>1. Len(s) \in Nat /\ DOMAIN s = 1 .. Len(s) /\ \A i \in 1 .. Len(s) : s[i] \in E
    BY LenProperties, ElementOfSeq
  <1>2. PICK n \in Nat : n = Len(s) /\ k \in 0 .. n
    BY <1>1
  <1> DEFINE rest == SubSeq(s, k + 1, n)
  <1>3. rest \in Seq(E) /\ Len(rest) = n - k
    <2>1. k + 1 \in Int /\ n \in Int /\ \A i \in (k + 1) .. n : s[i] \in E
      BY <1>1, <1>2
    <2>2. rest \in Seq(E)
      BY <2>1, SubSeqProperties
    <2>3. Len(rest) = n - k
      <3>1. Len(rest) = IF k + 1 <= n THEN n - (k + 1) + 1 ELSE 0
        BY <2>1, SubSeqProperties
      <3> QED
        BY <1>2, <3>1
    <2> QED
      BY <2>2, <2>3
  <1>4. \A i \in 1 .. (n - k) : rest[i] = s[k + i]
    BY <1>1, <1>2
  <1> HIDE DEF rest
  <1>5. DOMAIN rest = 1 .. (n - k)
    BY <1>3, LenProperties
  <1>6. ASSUME NEW x \in ToSet(s) PROVE x \in {s[i] : i \in 1 .. k} \cup ToSet(rest)
    <2>1. PICK j \in 1 .. n : x = s[j]
      BY <1>1, <1>2 DEF ToSet
    <2>2. CASE j <= k
      BY <2>1, <2>2
    <2>3. CASE ~(j <= k)
      <3>1. j - k \in 1 .. (n - k) /\ k + (j - k) = j
        BY <1>2, <2>3
      <3>2. x = rest[j - k]
        BY <1>4, <2>1, <3>1
      <3> QED
        BY <1>5, <3>1, <3>2 DEF ToSet
    <2> QED
      BY <2>2, <2>3
  <1>7. ASSUME NEW x \in ToSet(rest) PROVE x \in ToSet(s)
    <2>1. PICK j \in 1 .. (n - k) : x = rest[j]
      BY <1>5 DEF ToSet
    <2>2. k + j \in 1 .. n /\ x = s[k + j]
      BY <1>2, <1>4, <2>1
    <2> QED
      BY <1>1, <1>2, <2>2 DEF ToSet
  <1> QED
    BY <1>2, <1>3, <1>4, <1>6, <1>7 DEF rest

\* A batch that takes one more request.
LEMMA GrowType ==
    ASSUME NEW b \in Bats, NEW next \in ReqsOf
    PROVE  /\ Grow(b, next) \in Bats
           /\ Grow(b, next).reqs = Append(b.reqs, next) /\ Grow(b, next).recs = b.recs \o next.recs
           /\ Grow(b, next).phase = b.phase /\ Grow(b, next).carry = b.carry
           /\ Grow(b, next).out = b.out /\ Grow(b, next).closed = b.closed
           /\ ToSet(Grow(b, next).recs) = ToSet(b.recs) \cup ToSet(next.recs)
           /\ Len(Grow(b, next).recs) = Len(b.recs) + Len(next.recs)
  <1>1. next.recs \in Seq(Records) /\ b.recs \in Seq(Records) /\ b.reqs \in Seq(ReqsOf)
    BY DEF Bats, ReqsOf
  <1>2. /\ b.recs \o next.recs \in Seq(Records)
        /\ ToSet(b.recs \o next.recs) = ToSet(b.recs) \cup ToSet(next.recs)
        /\ Len(b.recs \o next.recs) = Len(b.recs) + Len(next.recs)
    BY <1>1, Elements, ConcatProperties
  <1>3. Append(b.reqs, next) \in Seq(ReqsOf)
    BY <1>1, AppendProperties
  <1> DEFINE p == b.recs \o next.recs
             q == Append(b.reqs, next)
  <1>4. Grow(b, next) = [b EXCEPT !.reqs = q, !.recs = p]
    BY DEF Grow
  <1>5. p \in Seq(Records) /\ q \in Seq(ReqsOf)
    BY <1>2, <1>3
  <1> HIDE DEF p, q
  <1>6. /\ Grow(b, next) \in Bats
        /\ Grow(b, next).reqs = q /\ Grow(b, next).recs = p
        /\ Grow(b, next).phase = b.phase /\ Grow(b, next).carry = b.carry
        /\ Grow(b, next).out = b.out /\ Grow(b, next).closed = b.closed
    BY <1>4, <1>5 DEF Bats
  <1> QED
    BY <1>2, <1>6 DEF p, q

-----------------------------------------------------------------------------
(* The initial state, and a step of one execution.                          *)

\* The records inside sequences of requests.
LEMMA InsideProperties ==
    /\ Inside(<<>>) = {} /\ \A r : Inside(<<r>>) = ToSet(r.recs)
    /\ \A q \in Seq(ReqsOf), r \in ReqsOf : Inside(Append(q, r)) = Inside(q) \cup ToSet(r.recs)
    /\ \A q \in Seq(ReqsOf) : q # <<>> => Inside(q) = ToSet(Head(q).recs) \cup Inside(Tail(q))
  <1>1. Inside(<<>>) = {} /\ \A r : Inside(<<r>>) = ToSet(r.recs)
    BY DEF Inside
  <1>2. ASSUME NEW q \in Seq(ReqsOf), NEW r \in ReqsOf
        PROVE  Inside(Append(q, r)) = Inside(q) \cup ToSet(r.recs)
    <2>1. PICK n \in Nat : n = Len(q) /\ DOMAIN q = 1 .. n
      BY LenProperties
    <2> DEFINE a == Append(q, r)
    <2>2. DOMAIN a = 1 .. (n + 1) /\ a[n + 1] = r /\ \A i \in 1 .. n : a[i] = q[i]
      BY <2>1, AppendProperties
    <2> HIDE DEF a
    <2>3. \A i \in 1 .. (n + 1) : i \in 1 .. n \/ i = n + 1
      OBVIOUS
    <2>4. ASSUME NEW x \in Inside(a) PROVE x \in Inside(q) \cup ToSet(r.recs)
      <3>1. PICK i \in 1 .. (n + 1) : x \in ToSet(a[i].recs)
        BY <2>2 DEF Inside
      <3>2. CASE i \in 1 .. n
        <4>1. a[i] = q[i]
          BY <2>2, <3>2
        <4> QED
          BY <2>1, <3>1, <3>2, <4>1 DEF Inside
      <3>3. CASE i = n + 1
        BY <2>2, <3>1, <3>3
      <3> QED
        BY <2>3, <3>2, <3>3
    <2>5. n + 1 \in 1 .. (n + 1) /\ \A i \in 1 .. n : i \in 1 .. (n + 1)
      OBVIOUS
    <2>6. ASSUME NEW x \in Inside(q) \cup ToSet(r.recs) PROVE x \in Inside(a)
      <3>1. CASE x \in ToSet(r.recs)
        <4>1. n + 1 \in DOMAIN a /\ x \in ToSet(a[n + 1].recs)
          BY <2>2, <2>5, <3>1
        <4> QED
          BY <4>1, Zenon DEF Inside
      <3>2. CASE x \in Inside(q)
        <4>1. PICK i \in 1 .. n : x \in ToSet(q[i].recs)
          BY <2>1, <3>2 DEF Inside
        <4>2. i \in DOMAIN a /\ x \in ToSet(a[i].recs)
          BY <2>2, <2>5, <4>1
        <4> QED
          BY <4>2, Zenon DEF Inside
      <3> QED
        BY <2>6, <3>1, <3>2
    <2> QED
      BY <2>4, <2>6 DEF a
  <1>3. ASSUME NEW q \in Seq(ReqsOf), q # <<>>
        PROVE  Inside(q) = ToSet(Head(q).recs) \cup Inside(Tail(q))
    <2>1. PICK n \in Nat : n = Len(q) /\ DOMAIN q = 1 .. n /\ n > 0
      BY <1>3, LenProperties
    <2> DEFINE t == Tail(q)
    <2>2. DOMAIN t = 1 .. (n - 1) /\ q[1] = Head(q) /\ \A i \in 1 .. (n - 1) : t[i] = q[i + 1]
      BY <1>3, <2>1, HeadTailProperties
    <2> HIDE DEF t
    <2>3. ASSUME NEW i \in 1 .. n, i # 1 PROVE i - 1 \in 1 .. (n - 1) /\ t[i - 1] = q[i]
      BY <2>1, <2>2, <2>3
    <2>4. UNION {ToSet(q[i].recs) : i \in 1 .. n}
            \subseteq ToSet(Head(q).recs) \cup UNION {ToSet(t[i].recs) : i \in 1 .. (n - 1)}
      BY <2>1, <2>2, <2>3
    <2>5. ToSet(Head(q).recs) \cup UNION {ToSet(t[i].recs) : i \in 1 .. (n - 1)}
            \subseteq UNION {ToSet(q[i].recs) : i \in 1 .. n}
      BY <2>1, <2>2
    <2> QED
      BY <2>1, <2>2, <2>4, <2>5 DEF Inside, t
  <1> QED
    BY <1>1, <1>2, <1>3

\* The types hold at the start.
LEMMA InitTypes == Init => Types
  <1> SUFFICES ASSUME Init PROVE Types
    OBVIOUS
  <1>1. 1 \in Gens /\ QueueSize \in Nat
    BY DispatchAssumption
  <1>2. NoBatch \in Bats /\ NoBatch.carry = <<>>
    BY DEF NoBatch, Bats, PhaseOf
  <1>3. disp \in [Gens -> Disps]
    BY DEF Init, Disps
  <1>4. bat \in [Gens -> Bats] /\ \A g \in Gens : Len(bat[g].carry) <= 1
    BY <1>2 DEF Init
  <1>5. queue \in [Gens -> Seq(ReqsOf)] /\ \A g \in Gens : Len(queue[g]) <= QueueSize
    BY <1>1 DEF Init
  <1>6. thr \in [Gens -> Thrs] /\ main \in [Gens -> Mains]
    BY DEF Init, Thrs, Mains, Stages
  <1>7. live \in [Gens -> Seq(Shown)] /\ failed \in [Gens -> BOOLEAN]
    BY DEF Init
  <1> QED
    BY <1>1, <1>3, <1>4, <1>5, <1>6, <1>7 DEF Init, Types

\* At the start no execution holds anything.
LEMMA InitLocal == Init => Local
  <1> SUFFICES ASSUME Init, NEW g \in Gens
               PROVE  LocalOK(g, disp[g], queue[g], bat[g], thr[g], main[g], failed[g], live[g])
    BY DEF Local
  <1>1. PhaseOK(disp[g], queue[g], bat[g], main[g]) /\ FrontOK(bat[g])
    BY DEF Init, PhaseOK, FrontOK, NoBatch
  <1>2. TakenOK(disp[g], thr[g], failed[g])
    BY DEF Init, TakenOK
  <1>3. WaitOK(queue[g], bat[g], thr[g], main[g])
    <2>1. ASSUME NEW w PROVE Held(queue[g], bat[g], w) = 0
      <3>1. queue[g] = <<>> /\ bat[g].carry = <<>> /\ bat[g].reqs = <<>>
        BY DEF Init, NoBatch
      <3>2. Count(<<>>, w) = 0
        BY CountOne, Zenon
      <3> QED
        BY <3>1, <3>2 DEF Held
    <2> QED
      BY <2>1 DEF Init, WaitOK
  <1>4. KeptOK(g, disp[g], queue[g], bat[g], thr[g], failed[g], live[g])
    BY DEF Init, KeptOK
  <1>5. SentOK(queue[g], bat[g], main[g])
    <2>1. /\ queue[g] = <<>> /\ bat[g].carry = <<>> /\ bat[g].recs = <<>>
          /\ main[g].ev = {}
      BY DEF Init, NoBatch
    <2>2. Inside(<<>>) = {} /\ ToSet(<<>>) = {}
      BY InsideProperties DEF ToSet
    <2> QED
      BY <2>1, <2>2 DEF SentOK, Queued
  <1> QED
    BY <1>1, <1>2, <1>3, <1>4, <1>5 DEF LocalOK

\* What an execution looks like: its seven values are typed and in agreement.
Good(g, d, q, b, th, m, f, lv) ==
    /\ d \in Disps /\ q \in Seq(ReqsOf) /\ b \in Bats /\ th \in Thrs /\ m \in Mains
    /\ f \in BOOLEAN /\ lv \in Seq(Shown)
    /\ Len(q) <= QueueSize /\ Len(b.carry) <= 1
    /\ LocalOK(g, d, q, b, th, m, f, lv)

\* The functions over executions change only at g, to these values.
Becomes(g, d, q, b, th, m, f, lv) ==
    /\ disp' = [disp EXCEPT ![g] = d] /\ queue' = [queue EXCEPT ![g] = q]
    /\ bat' = [bat EXCEPT ![g] = b] /\ thr' = [thr EXCEPT ![g] = th]
    /\ main' = [main EXCEPT ![g] = m] /\ failed' = [failed EXCEPT ![g] = f]
    /\ live' = [live EXCEPT ![g] = lv]

\* The invariant, apart from the table of events and the run's row.
Executions ==
    /\ disp \in [Gens -> Disps] /\ queue \in [Gens -> Seq(ReqsOf)] /\ bat \in [Gens -> Bats]
    /\ thr \in [Gens -> Thrs] /\ main \in [Gens -> Mains]
    /\ live \in [Gens -> Seq(Shown)] /\ failed \in [Gens -> BOOLEAN]
    /\ \A g \in Gens : Good(g, disp[g], queue[g], bat[g], thr[g], main[g], failed[g], live[g])

\* Types and the parts of every execution make up its invariant.
LEMMA TypesLocal == Types /\ Local => Executions
  <1> SUFFICES ASSUME Types, Local PROVE Executions
    OBVIOUS
  <1>1. ASSUME NEW g \in Gens
        PROVE  Good(g, disp[g], queue[g], bat[g], thr[g], main[g], failed[g], live[g])
    BY Zenon DEF Types, Local, Good
  <1> QED
    BY <1>1, Zenon DEF Types, Executions

\* A step of one execution to good values keeps all executions good.
LEMMA StepOfOne ==
    ASSUME Executions, NEW g \in Gens, NEW d, NEW q, NEW b, NEW th, NEW m, NEW f, NEW lv,
           Becomes(g, d, q, b, th, m, f, lv), Good(g, d, q, b, th, m, f, lv)
    PROVE  Executions'
  <1>1. /\ disp' \in [Gens -> Disps] /\ queue' \in [Gens -> Seq(ReqsOf)] /\ bat' \in [Gens -> Bats]
        /\ thr' \in [Gens -> Thrs] /\ main' \in [Gens -> Mains]
        /\ live' \in [Gens -> Seq(Shown)] /\ failed' \in [Gens -> BOOLEAN]
    BY Zenon DEF Executions, Becomes, Good
  <1>2. ASSUME NEW h \in Gens
        PROVE  Good(h, disp'[h], queue'[h], bat'[h], thr'[h], main'[h], failed'[h], live'[h])
    <2>1. CASE h = g
      <3>1. /\ disp'[g] = d /\ queue'[g] = q /\ bat'[g] = b /\ thr'[g] = th /\ main'[g] = m
            /\ failed'[g] = f /\ live'[g] = lv
        BY DEF Executions, Becomes
      <3> QED
        BY <2>1, <3>1, Zenon
    <2>2. CASE h # g
      <3>1. /\ disp'[h] = disp[h] /\ queue'[h] = queue[h] /\ bat'[h] = bat[h] /\ thr'[h] = thr[h]
            /\ main'[h] = main[h] /\ failed'[h] = failed[h] /\ live'[h] = live[h]
        BY <2>2 DEF Executions, Becomes
      <3>2. Good(h, disp[h], queue[h], bat[h], thr[h], main[h], failed[h], live[h])
        BY Zenon DEF Executions
      <3> QED
        BY <3>1, <3>2, Zenon
    <2> QED
      BY <2>1, <2>2
  <1>3. (\A h \in Gens : Good(h, disp[h], queue[h], bat[h], thr[h], main[h], failed[h], live[h]))'
    BY <1>2 DEF Good, LocalOK, PhaseOK, FrontOK, TakenOK, WaitOK, KeptOK, Known, SentOK, Queued
  <1> QED
    BY <1>1, <1>3, Zenon DEF Executions

-----------------------------------------------------------------------------
(* Dispatching.                                                             *)

\* Counts of requests are numbers.
LEMMA HeldType ==
    ASSUME NEW q \in Seq(ReqsOf), NEW b \in Bats, NEW w
    PROVE  Count(q, w) \in Nat /\ Count(b.carry, w) \in Nat /\ Count(b.reqs, w) \in Nat
  <1>1. b.carry \in Seq(ReqsOf) /\ b.reqs \in Seq(ReqsOf)
    BY DEF Bats
  <1> QED
    BY <1>1, CountConcat, Zenon

\* A request in the queue is held for its sender and keeps what it carries.
LEMMA Enqueued ==
    ASSUME NEW g, NEW d, NEW q, NEW b, NEW th, NEW m, NEW f, NEW lv,
           Good(g, d, q, b, th, m, f, lv), ~d.closed, Len(q) < QueueSize,
           NEW r \in ReqsOf, NEW d2 \in Disps,
           ToSet(d.pending) \subseteq ToSet(r.recs) \cup ToSet(d2.pending)
    PROVE  LET q2 == Append(q, r)
           IN /\ q2 \in Seq(ReqsOf) /\ Len(q2) <= QueueSize
              /\ b.phase # "stopped" /\ ~b.closed /\ m.stage \notin {"closing", "flushed"}
              /\ \A w : Held(q2, b, w) = Held(q, b, w) + (IF r.by = w THEN 1 ELSE 0)
              /\ Known(d, q, b, lv) \cup ToSet(r.recs) \cup ToSet(d2.pending)
                    \subseteq Known(d2, q2, b, lv)
              /\ Queued(q2, b) = Queued(q, b) \cup ToSet(r.recs)
  <1> DEFINE q2 == Append(q, r)
  <1>1. q \in Seq(ReqsOf) /\ b \in Bats /\ b.closed \in BOOLEAN /\ Len(q) \in Nat
    BY LenProperties DEF Good, Bats
  <1>2. q2 \in Seq(ReqsOf) /\ Len(q2) = Len(q) + 1
    BY <1>1, AppendProperties
  <1>3. QueueSize \in Nat
    BY DispatchAssumption
  <1>4. b.phase # "stopped" /\ ~b.closed /\ m.stage \notin {"closing", "flushed"}
    BY DEF Good, LocalOK, PhaseOK
  <1>5. ASSUME NEW w
        PROVE  Held(q2, b, w) = Held(q, b, w) + (IF r.by = w THEN 1 ELSE 0)
    <2>1. Count(q2, w) = Count(q, w) + (IF r.by = w THEN 1 ELSE 0)
      BY <1>1, CountAppend
    <2>2. Count(q, w) \in Nat /\ Count(b.carry, w) \in Nat /\ Count(b.reqs, w) \in Nat
      BY <1>1, HeldType, Zenon
    <2> HIDE DEF q2
    <2> QED
      BY <2>1, <2>2 DEF Held
  <1>6. Inside(q2) = Inside(q) \cup ToSet(r.recs)
    BY <1>1, InsideProperties, Zenon
  <1> HIDE DEF q2
  <1>7. Known(d, q, b, lv) \cup ToSet(r.recs) \cup ToSet(d2.pending) \subseteq Known(d2, q2, b, lv)
    BY <1>6, Zenon DEF Known
  <1>8. Len(q2) <= QueueSize
    BY <1>1, <1>2, <1>3
  <1>9. Queued(q2, b) = Queued(q, b) \cup ToSet(r.recs)
    BY <1>6 DEF Queued
  <1> QED
    BY <1>2, <1>4, <1>5, <1>7, <1>8, <1>9 DEF q2

\* The values at one execution are good, and a variable that keeps them is a change to them.
LEMMA AtOne ==
    ASSUME Executions, NEW g \in Gens
    PROVE  /\ Good(g, disp[g], queue[g], bat[g], thr[g], main[g], failed[g], live[g])
           /\ disp = [disp EXCEPT ![g] = disp[g]] /\ queue = [queue EXCEPT ![g] = queue[g]]
           /\ bat = [bat EXCEPT ![g] = bat[g]] /\ thr = [thr EXCEPT ![g] = thr[g]]
           /\ main = [main EXCEPT ![g] = main[g]] /\ failed = [failed EXCEPT ![g] = failed[g]]
           /\ live = [live EXCEPT ![g] = live[g]]
  <1>1. Good(g, disp[g], queue[g], bat[g], thr[g], main[g], failed[g], live[g])
    BY Zenon DEF Executions
  <1> QED
    BY <1>1 DEF Executions

\* Dispatch: the event is refused, pending, queued with what it released, or lost
\* with a cancelled context that is noted as a failure.
LEMMA DispatchStep ==
    ASSUME Executions, NEW g \in Gens, NEW t \in Threads, Dispatch(g, t)
    PROVE  Executions'
  <1> DEFINE d == disp[g]
             q == queue[g]
             b == bat[g]
             th == thr[g]
             m == main[g]
             f == failed[g]
             lv == live[g]
             n == th[t].pos + 1
             e == Script[g][t][n]
             Adv(taken, w) == [th EXCEPT ![t] = [pos |-> n, taken |-> taken, waiting |-> w]]
  <1>1. Good(g, d, q, b, th, m, f, lv)
    BY AtOne, Zenon
  <1>2. /\ d \in Disps /\ q \in Seq(ReqsOf) /\ b \in Bats /\ th \in Thrs /\ m \in Mains
        /\ f \in BOOLEAN /\ lv \in Seq(Shown) /\ d.closed \in BOOLEAN
    BY <1>1 DEF Good, Disps
  <1>3. th[t].pos \in Nat /\ th[t].taken \in Nat /\ th[t].waiting = FALSE /\ n \in Nat
    BY <1>2 DEF Thrs, Dispatch
  <1>4. e \in Events /\ e \in Records
    <2>1. Script[g][t] \in Seq(Events)
      BY DispatchAssumption
    <2>2. n \in 1 .. Len(Script[g][t])
      BY <1>3, <2>1, LenProperties DEF Dispatch
    <2> QED
      BY <2>1, <2>2, ElementOfSeq DEF Records
  <1>5. /\ bat' = [bat EXCEPT ![g] = b] /\ main' = [main EXCEPT ![g] = m]
        /\ live' = [live EXCEPT ![g] = lv]
        /\ queue = [queue EXCEPT ![g] = q] /\ disp = [disp EXCEPT ![g] = d]
        /\ failed = [failed EXCEPT ![g] = f]
    BY AtOne DEF Dispatch
  <1>6. \/ /\ d.closed
           /\ thr' = [thr EXCEPT ![g] = Adv(th[t].taken, FALSE)]
           /\ UNCHANGED <<disp, queue, failed>>
        \/ Buffer(g, e) /\ thr' = [thr EXCEPT ![g] = Adv(n, FALSE)] /\ UNCHANGED failed
        \/ Enqueue(g, e, t) /\ thr' = [thr EXCEPT ![g] = Adv(n, TRUE)] /\ UNCHANGED failed
        \/ /\ Cancelled(g, Released(d, e).disp)
           /\ thr' = [thr EXCEPT ![g] = Adv(th[t].taken, FALSE)]
    BY DEF Dispatch
  <1>7. ASSUME NEW k \in Nat, NEW w \in BOOLEAN
        PROVE  /\ Adv(k, w) \in Thrs
               /\ Adv(k, w)[t].pos = n /\ Adv(k, w)[t].taken = k /\ Adv(k, w)[t].waiting = w
               /\ \A u \in Threads : u # t => Adv(k, w)[u] = th[u]
    BY <1>2, <1>3 DEF Thrs
  <1>8. ASSUME d.closed, thr' = [thr EXCEPT ![g] = Adv(th[t].taken, FALSE)],
               UNCHANGED <<disp, queue, failed>>
        PROVE  Executions'
    <2> DEFINE th2 == Adv(th[t].taken, FALSE)
    <2>1. /\ th2 \in Thrs
          /\ \A u \in Threads : th2[u].taken = th[u].taken /\ th2[u].waiting = th[u].waiting
      <3>1. /\ th2 \in Thrs /\ th2[t].taken = th[t].taken /\ th2[t].waiting = FALSE
            /\ \A u \in Threads : u # t => th2[u] = th[u]
        BY <1>3, <1>7
      <3> HIDE DEF th, th2
      <3> QED
        BY <1>3, <3>1
    <2>2. Becomes(g, d, q, b, th2, m, f, lv)
      BY <1>5, <1>8 DEF Becomes
    <2> HIDE DEF d, q, b, th, m, f, lv, th2
    <2>3. Good(g, d, q, b, th2, m, f, lv)
      BY <1>1, <1>8, <2>1 DEF Good, LocalOK, TakenOK, WaitOK, KeptOK
    <2> QED
      BY <2>2, <2>3, StepOfOne, Zenon
  <1>9. ASSUME Buffer(g, e), thr' = [thr EXCEPT ![g] = Adv(n, FALSE)], UNCHANGED failed
        PROVE  Executions'
    <2> DEFINE th2 == Adv(n, FALSE)
               d2 == [d EXCEPT !.pending = Append(@, e)]
    <2>1. ~d.closed /\ d2 \in Disps /\ d2.closed = d.closed /\ d2.pending = Append(d.pending, e)
      <3>1. ~d.closed
        BY <1>9 DEF Buffer
      <3> HIDE DEF d, e
      <3>2. Append(d.pending, e) \in Seq(Events)
        BY <1>2, <1>4, AppendElement DEF Disps
      <3> QED
        BY <1>2, <3>1, <3>2 DEF Disps
    <2>2. Becomes(g, d2, q, b, th2, m, f, lv)
      BY <1>5, <1>9 DEF Becomes, Buffer
    <2>3. /\ th2 \in Thrs /\ th2[t].taken = n /\ th2[t].pos = n /\ th2[t].waiting = th[t].waiting
          /\ \A u \in Threads : u # t => th2[u] = th[u]
      BY <1>3, <1>7
    <2>4. Known(d, q, b, lv) \cup {e} \subseteq Known(d2, q, b, lv)
      <3>1. d.pending \in Seq(Events)
        BY <1>2 DEF Disps
      <3>2. ToSet(Append(d.pending, e)) = ToSet(d.pending) \cup {e}
        <4> HIDE DEF d, e
        <4> QED
          BY <1>4, <3>1, AppendElement
      <3> HIDE DEF d, d2, e
      <3> QED
        BY <2>1, <3>2 DEF Known
    <2> HIDE DEF d, q, b, th, m, f, lv, th2, d2
    <2>5. TakenOK(d2, th2, f) /\ PhaseOK(d2, q, b, m) /\ WaitOK(q, b, th2, m)
      BY <1>1, <1>3, <2>1, <2>3 DEF Good, LocalOK, TakenOK, PhaseOK, WaitOK
    <2>6. KeptOK(g, d2, q, b, th2, f, lv)
      <3> SUFFICES ASSUME ~f, NEW u \in Threads, NEW k \in 1 .. th2[u].taken
                   PROVE  Script[g][u][k] \in Known(d2, q, b, lv)
        BY Zenon DEF KeptOK
      <3>1. CASE u = t /\ k = n
        BY <2>4, <3>1 DEF e
      <3>2. CASE ~(u = t /\ k = n)
        <4>1. k \in 1 .. th[u].taken
          <5>1. th[t].taken = th[t].pos
            BY <1>1, <2>1 DEF Good, LocalOK, TakenOK
          <5> QED
            BY <1>3, <2>3, <3>2, <5>1 DEF n
        <4> QED
          BY <1>1, <2>4, <4>1 DEF Good, LocalOK, KeptOK
      <3> QED
        BY <3>1, <3>2
    <2>7. Good(g, d2, q, b, th2, m, f, lv)
      BY <1>1, <2>1, <2>3, <2>5, <2>6 DEF Good, LocalOK
    <2> QED
      BY <2>2, <2>7, StepOfOne, Zenon
  <1>10. ASSUME Enqueue(g, e, t), thr' = [thr EXCEPT ![g] = Adv(n, TRUE)], UNCHANGED failed
         PROVE  Executions'
    <2> DEFINE th2 == Adv(n, TRUE)
               rel == Released(d, e)
               d2 == rel.disp
               r == Request(rel.recs, Barrier(e), t)
               q2 == Append(q, r)
    <2>1. /\ rel.recs \in Seq(Records) /\ d2 \in Disps /\ d2.closed = d.closed
          /\ ToSet(d.pending) \cup {e} \subseteq ToSet(rel.recs) \cup ToSet(d2.pending)
          /\ ToSet(rel.recs) \subseteq Events \cup {e}
      BY <1>2, <1>4, ReleasedType
    <2>2. ~d.closed /\ Len(q) < QueueSize
      BY <1>10 DEF Enqueue
    <2>3. r \in ReqsOf /\ r.by = t /\ r.recs = rel.recs
      BY <2>1 DEF Request, ReqsOf, Barrier, RunTerminal, BoxTerminal
    <2>4. Becomes(g, d2, q2, b, th2, m, f, lv)
      BY <1>5, <1>10 DEF Becomes, Enqueue
    <2>5. /\ th2 \in Thrs /\ th2[t].taken = n /\ th2[t].pos = n /\ th2[t].waiting = TRUE
          /\ \A u \in Threads : u # t => th2[u] = th[u]
      BY <1>3, <1>7
    <2> HIDE DEF d, q, b, th, m, f, lv, th2, rel, d2, r
    <2>6. /\ q2 \in Seq(ReqsOf) /\ Len(q2) <= QueueSize
          /\ b.phase # "stopped" /\ ~b.closed /\ m.stage \notin {"closing", "flushed"}
          /\ \A w : Held(q2, b, w) = Held(q, b, w) + (IF r.by = w THEN 1 ELSE 0)
          /\ Known(d, q, b, lv) \cup ToSet(r.recs) \cup ToSet(d2.pending)
                \subseteq Known(d2, q2, b, lv)
          /\ Queued(q2, b) = Queued(q, b) \cup ToSet(r.recs)
      <3>1. ToSet(d.pending) \subseteq ToSet(r.recs) \cup ToSet(d2.pending)
        BY <2>1, <2>3
      <3> QED
        BY <1>1, <2>1, <2>2, <2>3, <3>1, Enqueued
    <2> HIDE DEF q2
    <2>7. TakenOK(d2, th2, f) /\ PhaseOK(d2, q2, b, m)
      BY <1>1, <2>1, <2>5, <2>6 DEF Good, LocalOK, TakenOK, PhaseOK
    <2>8. WaitOK(q2, b, th2, m)
      <3>1. t # Main
        BY DispatchAssumption
      <3>2. /\ \A u \in Threads : Held(q, b, u) = IF th[u].waiting THEN 1 ELSE 0
            /\ Held(q, b, Main) = IF m.stage \in {"dispatched", "closing"} THEN 1 ELSE 0
        BY <1>1 DEF Good, LocalOK, WaitOK
      <3>3. Held(q2, b, Main) = IF m.stage \in {"dispatched", "closing"} THEN 1 ELSE 0
        BY <2>3, <2>6, <3>1, <3>2
      <3>4. ASSUME NEW u \in Threads PROVE Held(q2, b, u) = IF th2[u].waiting THEN 1 ELSE 0
        <4>1. CASE u = t
          BY <1>3, <2>3, <2>5, <2>6, <3>2, <4>1
        <4>2. CASE u # t
          BY <2>3, <2>5, <2>6, <3>2, <4>2
        <4> QED
          BY <4>1, <4>2
      <3> QED
        BY <3>3, <3>4, Zenon DEF WaitOK
    <2>9. KeptOK(g, d2, q2, b, th2, f, lv)
      <3> SUFFICES ASSUME ~f, NEW u \in Threads, NEW k \in 1 .. th2[u].taken
                   PROVE  Script[g][u][k] \in Known(d2, q2, b, lv)
        BY Zenon DEF KeptOK
      <3>1. CASE u = t /\ k = n
        <4>1. e \in Known(d2, q2, b, lv)
          BY <2>1, <2>3, <2>6
        <4> QED
          BY <3>1, <4>1 DEF e
      <3>2. CASE ~(u = t /\ k = n)
        <4>1. k \in 1 .. th[u].taken
          <5>1. th[t].taken = th[t].pos
            BY <1>1, <2>2 DEF Good, LocalOK, TakenOK
          <5> QED
            BY <1>3, <2>5, <3>2, <5>1 DEF n
        <4> QED
          BY <1>1, <2>6, <4>1 DEF Good, LocalOK, KeptOK
      <3> QED
        BY <3>1, <3>2
    <2>10. SentOK(q2, b, m)
      BY <1>1, <1>4, <2>1, <2>3, <2>6 DEF Good, LocalOK, SentOK
    <2>11. Good(g, d2, q2, b, th2, m, f, lv)
      BY <1>1, <2>1, <2>5, <2>6, <2>7, <2>8, <2>9, <2>10 DEF Good, LocalOK
    <2> QED
      BY <2>4, <2>11, StepOfOne, Zenon
  <1>11. ASSUME Cancelled(g, Released(d, e).disp),
                thr' = [thr EXCEPT ![g] = Adv(th[t].taken, FALSE)]
         PROVE  Executions'
    <2> DEFINE th2 == Adv(th[t].taken, FALSE)
               d2 == Released(d, e).disp
    <2>1. d2 \in Disps /\ d2.closed = d.closed
      BY <1>2, <1>4, ReleasedType
    <2>2. /\ th2 \in Thrs
          /\ \A u \in Threads : th2[u].taken = th[u].taken /\ th2[u].waiting = th[u].waiting
      <3>1. /\ th2 \in Thrs /\ th2[t].taken = th[t].taken /\ th2[t].waiting = FALSE
            /\ \A u \in Threads : u # t => th2[u] = th[u]
        BY <1>3, <1>7
      <3> HIDE DEF th, th2
      <3> QED
        BY <1>3, <3>1
    <2>3. Becomes(g, d2, q, b, th2, m, TRUE, lv)
      BY <1>5, <1>11 DEF Becomes, Cancelled
    <2> HIDE DEF d, q, b, th, m, f, lv, th2, d2
    <2>4. Good(g, d2, q, b, th2, m, TRUE, lv)
      BY <1>1, <2>1, <2>2 DEF Good, LocalOK, TakenOK, WaitOK, KeptOK, PhaseOK
    <2> QED
      BY <2>3, <2>4, StepOfOne, Zenon
  <1> QED
    BY <1>6, <1>8, <1>9, <1>10, <1>11

-----------------------------------------------------------------------------
(* Collecting a batch.                                                      *)

\* A batcher that moves requests from the queue or the carried one into its batch, or
\* carries one, holds the same requests and the same records.
LEMMA BatcherMoves ==
    ASSUME NEW g, NEW d, NEW q, NEW b, NEW th, NEW m, NEW f, NEW lv,
           Good(g, d, q, b, th, m, f, lv),
           NEW q2 \in Seq(ReqsOf), NEW b2 \in Bats, Len(q2) <= Len(q), Len(b2.carry) <= 1,
           b2.out = <<>>, b2.closed = b.closed, b.phase # "stopped", b2.phase \in {"collect", "flush"},
           b2.phase = "collect" => b2.carry = <<>>,
           \A w : Held(q2, b2, w) = Held(q, b, w),
           Queued(q2, b2) = Queued(q, b)
    PROVE  Good(g, d, q2, b2, th, m, f, lv)
  <1>1. Len(q) \in Nat /\ Len(q2) \in Nat /\ Len(q2) <= QueueSize
    <2>1. QueueSize \in Nat /\ Len(q) \in Nat /\ Len(q2) \in Nat /\ Len(q) <= QueueSize
      BY DispatchAssumption, LenProperties DEF Good
    <2> QED
      BY <2>1
  <1>2. PhaseOK(d, q2, b2, m)
    BY DEF Good, LocalOK, PhaseOK
  <1>3. FrontOK(b2)
    <2>1. b2.recs \in Seq(Records)
      BY DEF Bats
    <2>2. Len(b2.recs) \in Nat /\ Len(b2.out) = 0
      BY <2>1, LenProperties
    <2> QED
      BY <2>2 DEF FrontOK
  <1>4. WaitOK(q2, b2, th, m)
    BY DEF Good, LocalOK, WaitOK
  <1>5. Known(d, q, b, lv) \subseteq Known(d, q2, b2, lv)
    BY Zenon DEF Known, Queued
  <1>6. KeptOK(g, d, q2, b2, th, f, lv)
    BY <1>5, Zenon DEF Good, LocalOK, KeptOK
  <1>7. SentOK(q2, b2, m)
    BY Zenon DEF Good, LocalOK, SentOK
  <1> QED
    BY <1>1, <1>2, <1>3, <1>4, <1>6, <1>7 DEF Good, LocalOK

\* TakeFirst: the carried request, or else the head of the queue, starts a batch.
LEMMA TakeFirstStep ==
    ASSUME Executions, NEW g \in Gens, TakeFirst(g)
    PROVE  Executions'
  <1> DEFINE d == disp[g]
             q == queue[g]
             b == bat[g]
             th == thr[g]
             m == main[g]
             f == failed[g]
             lv == live[g]
             first == IF b.carry # <<>> THEN b.carry[1] ELSE Head(q)
             q2 == IF b.carry # <<>> THEN q ELSE Tail(q)
             ph == IF first.barrier \/ Len(first.recs) >= BatchCount THEN "flush" ELSE "collect"
             b2 == [Grow(b, first) EXCEPT !.carry = <<>>, !.phase = ph]
  <1>1. Good(g, d, q, b, th, m, f, lv)
    BY AtOne, Zenon
  <1>2. b.phase = "idle" /\ (b.carry # <<>> \/ q # <<>>)
    BY DEF TakeFirst
  <1>3. Becomes(g, d, q2, b2, th, m, f, lv)
    BY AtOne DEF Becomes, TakeFirst, BatcherOnly
  <1> HIDE DEF d, q, b, th, m, f, lv
  <1>4. /\ q \in Seq(ReqsOf) /\ b \in Bats /\ b.carry \in Seq(ReqsOf) /\ b.reqs \in Seq(ReqsOf)
        /\ Len(b.carry) <= 1 /\ Len(q) \in Nat
    BY <1>1, LenProperties DEF Good, Bats
  <1>5. b.reqs = <<>> /\ b.recs = <<>> /\ b.out = <<>>
    BY <1>1, <1>2 DEF Good, LocalOK, PhaseOK
  <1>6. ph \in {"collect", "flush"}
    OBVIOUS
  <1> HIDE DEF ph
  <1>7. CASE b.carry # <<>>
    <2>1. first = Head(b.carry) /\ q2 = q /\ Tail(b.carry) = <<>>
      BY <1>4, <1>7
    <2>2. first \in ReqsOf
      BY <1>4, <1>7, <2>1, HeadTailProperties
    <2> HIDE DEF first, q2
    <2>3. /\ Grow(b, first) \in Bats
          /\ Grow(b, first).reqs = Append(b.reqs, first) /\ Grow(b, first).out = b.out
          /\ Grow(b, first).closed = b.closed
          /\ ToSet(Grow(b, first).recs) = ToSet(b.recs) \cup ToSet(first.recs)
      BY <1>4, <2>2, GrowType, Zenon
    <2> DEFINE b1 == Grow(b, first)
    <2> HIDE DEF b1
    <2>4. /\ b2 \in Bats /\ b2.reqs = Append(b.reqs, first) /\ b2.carry = <<>> /\ b2.out = <<>>
          /\ b2.closed = b.closed /\ b2.phase = ph /\ b2.recs = b1.recs
      <3>1. Grow(b, first) \in Bats /\ <<>> \in Seq(ReqsOf) /\ ph \in PhaseOf
        BY <1>6, <2>3 DEF PhaseOf
      <3>2. PICK x, y : x = b2 /\ y = Grow(b, first) /\ x = [y EXCEPT !.carry = <<>>, !.phase = ph]
        OBVIOUS
      <3>3. /\ x \in Bats /\ x.reqs = y.reqs /\ x.carry = <<>> /\ x.out = y.out
            /\ x.closed = y.closed /\ x.phase = ph /\ x.recs = y.recs
        BY <3>1, <3>2 DEF Bats
      <3> HIDE DEF b2
      <3> QED
        BY <1>5, <2>3, <3>2, <3>3 DEF b1
    <2> HIDE DEF b2
    <2>5. ASSUME NEW w PROVE Held(q2, b2, w) = Held(q, b, w)
      <3>1. Count(b2.reqs, w) = Count(b.reqs, w) + (IF first.by = w THEN 1 ELSE 0)
        BY <1>4, <2>2, <2>4, CountAppend
      <3>2. Count(b.carry, w) = Count(<<>>, w) + (IF first.by = w THEN 1 ELSE 0)
        BY <1>4, <1>7, <2>1, CountTail
      <3>3. Count(<<>>, w) = 0
        BY CountOne, Zenon
      <3>4. Count(q, w) \in Nat /\ Count(b.carry, w) \in Nat /\ Count(b.reqs, w) \in Nat
        BY <1>4, HeldType, Zenon
      <3> QED
        BY <2>1, <2>4, <3>1, <3>2, <3>3, <3>4 DEF Held
    <2>6. Inside(b.carry) = ToSet(first.recs) /\ Inside(<<>>) = {}
      BY <1>4, <1>7, <2>1, InsideProperties
    <2>7. Queued(q2, b2) = Queued(q, b)
      BY <2>1, <2>3, <2>4, <2>6 DEF b1, Queued
    <2>8. Len(q2) <= Len(q) /\ q2 \in Seq(ReqsOf) /\ Len(b2.carry) <= 1
      BY <1>4, <2>1, <2>4
    <2>9. Good(g, d, q2, b2, th, m, f, lv)
      <3>1. b.phase # "stopped" /\ b2.phase \in {"collect", "flush"} /\ (b2.phase = "collect" => b2.carry = <<>>)
        BY <1>2, <1>6, <2>4
      <3> QED
        BY <1>1, <2>4, <2>5, <2>7, <2>8, <3>1, BatcherMoves, Zenon
    <2> QED
      BY <1>3, <2>9, StepOfOne, Zenon
  <1>8. CASE b.carry = <<>>
    <2>0. q # <<>>
      BY <1>2, <1>8
    <2>1. first = Head(q) /\ q2 = Tail(q)
      BY <1>8
    <2>2. first \in ReqsOf /\ q2 \in Seq(ReqsOf) /\ Len(q2) = Len(q) - 1
      BY <1>4, <2>0, <2>1, HeadTailProperties
    <2> HIDE DEF first, q2
    <2>3. /\ Grow(b, first) \in Bats
          /\ Grow(b, first).reqs = Append(b.reqs, first) /\ Grow(b, first).out = b.out
          /\ Grow(b, first).closed = b.closed
          /\ ToSet(Grow(b, first).recs) = ToSet(b.recs) \cup ToSet(first.recs)
      BY <1>4, <2>2, GrowType, Zenon
    <2> DEFINE b1 == Grow(b, first)
    <2> HIDE DEF b1
    <2>4. /\ b2 \in Bats /\ b2.reqs = Append(b.reqs, first) /\ b2.carry = <<>> /\ b2.out = <<>>
          /\ b2.closed = b.closed /\ b2.phase = ph /\ b2.recs = b1.recs
      <3>1. Grow(b, first) \in Bats /\ <<>> \in Seq(ReqsOf) /\ ph \in PhaseOf
        BY <1>6, <2>3 DEF PhaseOf
      <3>2. PICK x, y : x = b2 /\ y = Grow(b, first) /\ x = [y EXCEPT !.carry = <<>>, !.phase = ph]
        OBVIOUS
      <3>3. /\ x \in Bats /\ x.reqs = y.reqs /\ x.carry = <<>> /\ x.out = y.out
            /\ x.closed = y.closed /\ x.phase = ph /\ x.recs = y.recs
        BY <3>1, <3>2 DEF Bats
      <3> HIDE DEF b2
      <3> QED
        BY <1>5, <2>3, <3>2, <3>3 DEF b1
    <2> HIDE DEF b2
    <2>5. ASSUME NEW w PROVE Held(q2, b2, w) = Held(q, b, w)
      <3>1. Count(b2.reqs, w) = Count(b.reqs, w) + (IF first.by = w THEN 1 ELSE 0)
        BY <1>4, <2>2, <2>4, CountAppend
      <3>2. Count(q, w) = Count(q2, w) + (IF first.by = w THEN 1 ELSE 0) /\ Count(q2, w) \in Nat
        BY <1>4, <2>0, <2>1, CountTail
      <3>4. Count(q, w) \in Nat /\ Count(b.carry, w) \in Nat /\ Count(b.reqs, w) \in Nat
        BY <1>4, HeldType, Zenon
      <3> QED
        BY <1>8, <2>4, <3>1, <3>2, <3>4 DEF Held
    <2>6. Inside(q) = ToSet(first.recs) \cup Inside(q2) /\ Inside(<<>>) = {}
      BY <1>4, <2>0, <2>1, InsideProperties
    <2>7. Queued(q2, b2) = Queued(q, b)
      BY <1>8, <2>3, <2>4, <2>6 DEF b1, Queued
    <2>8. Len(q2) <= Len(q) /\ Len(b2.carry) <= 1
      BY <1>4, <2>2, <2>4
    <2>9. Good(g, d, q2, b2, th, m, f, lv)
      <3>1. b.phase # "stopped" /\ b2.phase \in {"collect", "flush"} /\ (b2.phase = "collect" => b2.carry = <<>>)
        BY <1>2, <1>6, <2>4
      <3> QED
        BY <1>1, <2>2, <2>4, <2>5, <2>7, <2>8, <3>1, BatcherMoves, Zenon
    <2> QED
      BY <1>3, <2>9, StepOfOne, Zenon
  <1> QED
    BY <1>7, <1>8

\* CollectNext: the head of the queue joins the batch or is carried over.
LEMMA CollectNextStep ==
    ASSUME Executions, NEW g \in Gens, CollectNext(g)
    PROVE  Executions'
  <1> DEFINE d == disp[g]
             q == queue[g]
             b == bat[g]
             th == thr[g]
             m == main[g]
             f == failed[g]
             lv == live[g]
             next == Head(q)
             size == Len(b.recs) + Len(next.recs)
             ph == IF size = BatchCount THEN "flush" ELSE "collect"
             carries == [b EXCEPT !.carry = <<next>>, !.phase = "flush"]
             grows == [Grow(b, next) EXCEPT !.phase = ph]
             b2 == IF next.barrier \/ size > BatchCount THEN carries ELSE grows
             q2 == Tail(q)
  <1>1. Good(g, d, q, b, th, m, f, lv)
    BY AtOne, Zenon
  <1>2. b.phase = "collect" /\ q # <<>>
    BY DEF CollectNext
  <1>3. bat' = [bat EXCEPT ![g] = b2]
    BY DEF CollectNext
  <1>4. Becomes(g, d, q2, b2, th, m, f, lv)
    BY <1>3, AtOne DEF Becomes, CollectNext, BatcherOnly
  <1> HIDE DEF d, q, b, th, m, f, lv
  <1>5. /\ q \in Seq(ReqsOf) /\ b \in Bats /\ b.carry \in Seq(ReqsOf) /\ b.reqs \in Seq(ReqsOf)
        /\ Len(q) \in Nat
    BY <1>1, LenProperties DEF Good, Bats
  <1>6. b.carry = <<>> /\ b.out = <<>>
    BY <1>1, <1>2 DEF Good, LocalOK, PhaseOK
  <1>7. next \in ReqsOf /\ q2 \in Seq(ReqsOf) /\ Len(q2) = Len(q) - 1
    BY <1>2, <1>5, HeadTailProperties
  <1>8. \A w : /\ Count(q, w) = Count(q2, w) + (IF next.by = w THEN 1 ELSE 0)
               /\ Count(q2, w) \in Nat
    BY <1>2, <1>5, CountTail
  <1>9. Inside(q) = ToSet(next.recs) \cup Inside(q2)
    BY <1>2, <1>5, InsideProperties
  <1>10. ph \in {"collect", "flush"}
    OBVIOUS
  <1> HIDE DEF ph, next, q2, size
  <1>11. CASE b2 = carries
    <2>1. /\ b2 \in Bats /\ b2.reqs = b.reqs /\ b2.recs = b.recs /\ b2.carry = <<next>>
          /\ b2.out = <<>> /\ b2.closed = b.closed /\ b2.phase = "flush"
      <3>1. <<next>> \in Seq(ReqsOf) /\ "flush" \in PhaseOf
        BY <1>7 DEF PhaseOf
      <3>2. PICK x, c : x = carries /\ c = <<next>> /\ x = [b EXCEPT !.carry = c, !.phase = "flush"]
        OBVIOUS
      <3>3. /\ x \in Bats /\ x.reqs = b.reqs /\ x.carry = c /\ x.out = b.out
            /\ x.closed = b.closed /\ x.phase = "flush" /\ x.recs = b.recs
        BY <1>5, <3>1, <3>2 DEF Bats
      <3> HIDE DEF b2, carries
      <3> QED
        BY <1>6, <1>11, <3>2, <3>3
    <2> HIDE DEF b2
    <2>2. ASSUME NEW w PROVE Held(q2, b2, w) = Held(q, b, w)
      <3>1. Count(b2.carry, w) = (IF next.by = w THEN 1 ELSE 0) /\ Count(b.carry, w) = 0
        BY <1>6, <2>1, CountOne
      <3>2. Count(b.reqs, w) \in Nat /\ Count(q2, w) \in Nat
        BY <1>5, <1>7, HeldType, Zenon
      <3>3. Count(q, w) = Count(q2, w) + (IF next.by = w THEN 1 ELSE 0)
        BY <1>8, Zenon
      <3> QED
        BY <2>1, <3>1, <3>2, <3>3 DEF Held
    <2>3. Inside(b2.carry) = ToSet(next.recs) /\ Inside(b.carry) = {}
      BY <1>6, <2>1, InsideProperties
    <2>4. Queued(q2, b2) = Queued(q, b)
      BY <1>9, <2>1, <2>3 DEF Queued
    <2>5. Good(g, d, q2, b2, th, m, f, lv)
      <3>1. /\ b.phase # "stopped" /\ b2.phase \in {"collect", "flush"}
            /\ (b2.phase = "collect" => b2.carry = <<>>) /\ Len(b2.carry) <= 1 /\ Len(q2) <= Len(q)
        BY <1>2, <1>5, <1>7, <2>1
      <3> QED
        BY <1>1, <1>7, <2>1, <2>2, <2>4, <3>1, BatcherMoves, Zenon
    <2> QED
      BY <1>4, <2>5, StepOfOne, Zenon
  <1>12. CASE b2 = grows
    <2> DEFINE b1 == Grow(b, next)
    <2>1. /\ b1 \in Bats /\ b1.reqs = Append(b.reqs, next) /\ b1.out = b.out
          /\ b1.closed = b.closed /\ b1.carry = b.carry
          /\ ToSet(b1.recs) = ToSet(b.recs) \cup ToSet(next.recs)
      BY <1>5, <1>7, GrowType, Zenon
    <2>2. b2 = [b1 EXCEPT !.phase = ph]
      BY <1>12
    <2> HIDE DEF b1, b2
    <2>3. /\ b2 \in Bats /\ b2.reqs = Append(b.reqs, next) /\ b2.recs = b1.recs /\ b2.carry = <<>>
          /\ b2.out = <<>> /\ b2.closed = b.closed /\ b2.phase = ph
      BY <1>6, <1>10, <2>1, <2>2 DEF Bats, PhaseOf
    <2>4. ASSUME NEW w PROVE Held(q2, b2, w) = Held(q, b, w)
      <3>1. Count(b2.reqs, w) = Count(b.reqs, w) + (IF next.by = w THEN 1 ELSE 0)
        BY <1>5, <1>7, <2>3, CountAppend
      <3>2. Count(b.reqs, w) \in Nat /\ Count(q2, w) \in Nat /\ Count(b.carry, w) \in Nat
        BY <1>5, <1>7, HeldType, Zenon
      <3>3. Count(q, w) = Count(q2, w) + (IF next.by = w THEN 1 ELSE 0)
        BY <1>8, Zenon
      <3> QED
        BY <1>6, <2>3, <3>1, <3>2, <3>3 DEF Held
    <2>5. Queued(q2, b2) = Queued(q, b)
      BY <1>6, <1>9, <2>1, <2>3 DEF Queued
    <2>6. Good(g, d, q2, b2, th, m, f, lv)
      <3>1. /\ b.phase # "stopped" /\ b2.phase \in {"collect", "flush"}
            /\ (b2.phase = "collect" => b2.carry = <<>>) /\ Len(b2.carry) <= 1 /\ Len(q2) <= Len(q)
        BY <1>2, <1>5, <1>7, <1>10, <2>3
      <3> QED
        BY <1>1, <1>7, <2>3, <2>4, <2>5, <3>1, BatcherMoves, Zenon
    <2> QED
      BY <1>4, <2>6, StepOfOne, Zenon
  <1> QED
    BY <1>11, <1>12

\* WindowEnds: only the phase changes.
LEMMA WindowEndsStep ==
    ASSUME Executions, NEW g \in Gens, WindowEnds(g)
    PROVE  Executions'
  <1> DEFINE d == disp[g]
             q == queue[g]
             b == bat[g]
             th == thr[g]
             m == main[g]
             f == failed[g]
             lv == live[g]
             b2 == [b EXCEPT !.phase = "flush"]
  <1>1. Good(g, d, q, b, th, m, f, lv)
    BY AtOne, Zenon
  <1>2. Becomes(g, d, q, b2, th, m, f, lv) /\ b.phase = "collect"
    BY AtOne DEF Becomes, WindowEnds, BatcherOnly
  <1> HIDE DEF d, q, b, th, m, f, lv
  <1>3. b \in Bats
    BY <1>1 DEF Good
  <1>4. /\ b2 \in Bats /\ b2.phase = "flush" /\ b2.carry = b.carry /\ b2.reqs = b.reqs
        /\ b2.recs = b.recs /\ b2.out = b.out /\ b2.closed = b.closed
    BY <1>3 DEF Bats, PhaseOf
  <1> HIDE DEF b2
  <1>5. Good(g, d, q, b2, th, m, f, lv)
    BY <1>1, <1>2, <1>4
    DEF Good, LocalOK, PhaseOK, FrontOK, WaitOK, Held, KeptOK, Known, SentOK, Queued
  <1> QED
    BY <1>2, <1>5, StepOfOne, Zenon

\* BatcherExits: the batcher stops with nothing in its hands.
LEMMA BatcherExitsStep ==
    ASSUME Executions, NEW g \in Gens, BatcherExits(g)
    PROVE  Executions'
  <1> DEFINE d == disp[g]
             q == queue[g]
             b == bat[g]
             th == thr[g]
             m == main[g]
             f == failed[g]
             lv == live[g]
             b2 == [b EXCEPT !.phase = "stopped"]
  <1>1. Good(g, d, q, b, th, m, f, lv)
    BY AtOne, Zenon
  <1>2. /\ Becomes(g, d, q, b2, th, m, f, lv) /\ b.phase = "idle" /\ b.closed
        /\ q = <<>> /\ b.carry = <<>>
    BY AtOne DEF Becomes, BatcherExits, BatcherOnly
  <1> HIDE DEF d, q, b, th, m, f, lv
  <1>3. b \in Bats
    BY <1>1 DEF Good
  <1>4. /\ b2 \in Bats /\ b2.phase = "stopped" /\ b2.carry = b.carry /\ b2.reqs = b.reqs
        /\ b2.recs = b.recs /\ b2.out = b.out /\ b2.closed = b.closed
    BY <1>3 DEF Bats, PhaseOf
  <1> HIDE DEF b2
  <1>5. Good(g, d, q, b2, th, m, f, lv)
    BY <1>1, <1>2, <1>4
    DEF Good, LocalOK, PhaseOK, FrontOK, WaitOK, Held, KeptOK, Known, SentOK, Queued
  <1> QED
    BY <1>2, <1>5, StepOfOne, Zenon

\* CloseBatcher: the queue is closed once the finalizer has flushed.
LEMMA CloseBatcherStep ==
    ASSUME Executions, NEW g \in Gens, CloseBatcher(g)
    PROVE  Executions'
  <1> DEFINE d == disp[g]
             q == queue[g]
             b == bat[g]
             th == thr[g]
             m == main[g]
             f == failed[g]
             lv == live[g]
             b2 == [b EXCEPT !.closed = TRUE]
  <1>1. Good(g, d, q, b, th, m, f, lv)
    BY AtOne, Zenon
  <1>2. Becomes(g, d, q, b2, th, m, f, lv) /\ m.stage = "flushed"
    BY AtOne DEF Becomes, CloseBatcher
  <1> HIDE DEF d, q, b, th, m, f, lv
  <1>3. b \in Bats
    BY <1>1 DEF Good
  <1>4. /\ b2 \in Bats /\ b2.phase = b.phase /\ b2.carry = b.carry /\ b2.reqs = b.reqs
        /\ b2.recs = b.recs /\ b2.out = b.out /\ b2.closed = TRUE
    BY <1>3 DEF Bats
  <1> HIDE DEF b2
  <1>5. Good(g, d, q, b2, th, m, f, lv)
    BY <1>1, <1>2, <1>4
    DEF Good, LocalOK, PhaseOK, FrontOK, WaitOK, Held, KeptOK, Known, SentOK, Queued
  <1> QED
    BY <1>2, <1>5, StepOfOne, Zenon

-----------------------------------------------------------------------------
(* Writing, showing and answering a batch.                                  *)

\* The senders of the requests of a batch are those it holds a request of.
LEMMA Senders ==
    ASSUME NEW q \in Seq(ReqsOf), NEW w
    PROVE  Count(q, w) \in Nat /\ (Count(q, w) = 0 <=> w \notin {q[i].by : i \in DOMAIN q})
  <1> DEFINE S == {i \in DOMAIN q : q[i].by = w}
  <1>1. S \in SUBSET DOMAIN q /\ (S = {} <=> w \notin {q[i].by : i \in DOMAIN q})
    OBVIOUS
  <1>2. Count(q, w) = Cardinality(S)
    BY DEF Count
  <1> HIDE DEF S
  <1>3. IsFiniteSet(S) /\ Cardinality(S) \in Nat
    BY <1>1, Indices, Zenon
  <1>4. Cardinality(S) = 0 <=> S = {}
    BY <1>3, FS_EmptySet, Zenon
  <1> QED
    BY <1>1, <1>2, <1>3, <1>4

\* The threads and the finalizing goroutine after the senders by got their answer.
ServedThr(th, by) ==
    [t \in Threads |-> IF t \in by THEN [th[t] EXCEPT !.waiting = FALSE] ELSE th[t]]
ServedMain(m, by) ==
    [m EXCEPT !.stage = IF Main \notin by THEN @
                        ELSE IF @ = "closing" THEN "flushed" ELSE "answered"]
By(q) == {q[i].by : i \in DOMAIN q}

\* Answering a batch serves exactly those whose request was in it.
LEMMA AnsweredGood ==
    ASSUME NEW g, NEW d, NEW q, NEW b, NEW th, NEW m, NEW f, NEW lv,
           Good(g, d, q, b, th, m, f, lv), b.phase # "stopped",
           NEW b2 \in Bats, b2.phase = "idle", b2.reqs = <<>>, b2.recs = <<>>, b2.out = <<>>,
           b2.carry = b.carry, b2.closed = b.closed, NEW f2 \in BOOLEAN, f => f2,
           NEW lv2 \in Seq(Shown), f2 \/ Known(d, q, b, lv) \subseteq Known(d, q, b2, lv2),
           NEW th2, th2 = ServedThr(th, By(b.reqs)), NEW m2, m2 = ServedMain(m, By(b.reqs))
    PROVE  Good(g, d, q, b2, th2, m2, f2, lv2)
  <1> DEFINE by == By(b.reqs)
  <1>1. /\ d \in Disps /\ q \in Seq(ReqsOf) /\ b \in Bats /\ th \in Thrs /\ m \in Mains
        /\ f \in BOOLEAN /\ b.reqs \in Seq(ReqsOf) /\ b.carry \in Seq(ReqsOf)
    BY DEF Good, Bats
  <1>2. /\ th2 \in Thrs
        /\ \A t \in Threads : /\ th2[t].taken = th[t].taken /\ th2[t].pos = th[t].pos
                              /\ th2[t].waiting = IF t \in by THEN FALSE ELSE th[t].waiting
    BY <1>1 DEF Thrs, ServedThr
  <1>3. /\ m2 \in Mains
        /\ m2.stage = IF Main \notin by THEN m.stage
                      ELSE IF m.stage = "closing" THEN "flushed" ELSE "answered"
    BY <1>1 DEF Mains, Stages, ServedMain
  <1>4. ASSUME NEW w
        PROVE  /\ Held(q, b2, w) = Count(q, w) + Count(b.carry, w)
               /\ Held(q, b, w) = Count(q, w) + Count(b.carry, w) + Count(b.reqs, w)
               /\ Count(q, w) \in Nat /\ Count(b.carry, w) \in Nat /\ Count(b.reqs, w) \in Nat
               /\ (Count(b.reqs, w) = 0 <=> w \notin by)
    <2>1. Count(b2.reqs, w) = 0
      BY CountOne
    <2>2. Count(q, w) \in Nat /\ Count(b.carry, w) \in Nat /\ Count(b.reqs, w) \in Nat
      BY <1>1, HeldType, Zenon
    <2>3. Count(b.reqs, w) = 0 <=> w \notin by
      BY <1>1, Senders DEF By
    <2> QED
      BY <2>1, <2>2, <2>3 DEF Held
  <1> HIDE DEF by
  <1>5. /\ \A t \in Threads : Held(q, b, t) = IF th[t].waiting THEN 1 ELSE 0
        /\ Held(q, b, Main) = IF m.stage \in {"dispatched", "closing"} THEN 1 ELSE 0
    BY DEF Good, LocalOK, WaitOK
  <1>6. WaitOK(q, b2, th2, m2)
    <2>1. ASSUME NEW t \in Threads PROVE Held(q, b2, t) = IF th2[t].waiting THEN 1 ELSE 0
      <3>1. /\ th2[t].waiting = IF t \in by THEN FALSE ELSE th[t].waiting
            /\ Held(q, b, t) = IF th[t].waiting THEN 1 ELSE 0
        BY <1>2, <1>5, Zenon
      <3>2. /\ Held(q, b2, t) = Count(q, t) + Count(b.carry, t)
            /\ Held(q, b, t) = Count(q, t) + Count(b.carry, t) + Count(b.reqs, t)
            /\ Count(q, t) \in Nat /\ Count(b.carry, t) \in Nat /\ Count(b.reqs, t) \in Nat
            /\ (Count(b.reqs, t) = 0 <=> t \notin by)
        BY <1>4
      <3> QED
        BY <3>1, <3>2
    <2>2. Held(q, b2, Main) = IF m2.stage \in {"dispatched", "closing"} THEN 1 ELSE 0
      BY <1>3, <1>4, <1>5
    <2> QED
      BY <2>1, <2>2, Zenon DEF WaitOK
  <1>7. PhaseOK(d, q, b2, m2)
    <2>1. Main \in by => m.stage \in {"dispatched", "closing"}
      BY <1>4, <1>5
    <2>2. /\ b.closed => m.stage = "flushed"
          /\ m.stage \in {"closing", "flushed"} => d.closed
      BY DEF Good, LocalOK, PhaseOK
    <2> QED
      BY <1>3, <2>1, <2>2 DEF PhaseOK
  <1>8. FrontOK(b2) /\ TakenOK(d, th2, f2)
    <2>1. TakenOK(d, th, f)
      BY Zenon DEF Good, LocalOK
    <2>2. TakenOK(d, th2, f2)
      BY <1>2, <2>1, Zenon DEF TakenOK
    <2>3. Len(b2.out) = 0 /\ Len(b2.recs) = 0
      OBVIOUS
    <2> QED
      BY <2>2, <2>3 DEF FrontOK
  <1>9. KeptOK(g, d, q, b2, th2, f2, lv2)
    BY <1>2 DEF Good, LocalOK, KeptOK
  <1>10. SentOK(q, b2, m2)
    <2>1. m2.ev = m.ev /\ (m2.stage = "running" => m.stage = "running")
      BY <1>1 DEF ServedMain, Mains
    <2>2. ToSet(<<>>) = {}
      BY DEF ToSet
    <2> QED
      BY <2>1, <2>2 DEF Good, LocalOK, SentOK, Queued
  <1> QED
    BY <1>1, <1>2, <1>3, <1>6, <1>7, <1>8, <1>9, <1>10 DEF Good, LocalOK

\* Persist: the shown chunk is the front of the records.
LEMMA PersistStep ==
    ASSUME Types, Executions, NEW g \in Gens, Persist(g)
    PROVE  Executions'
  <1> DEFINE d == disp[g]
             q == queue[g]
             b == bat[g]
             th == thr[g]
             m == main[g]
             f == failed[g]
             lv == live[g]
             chunk == Chunk(g)
             out == Stored(g, chunk, rows')
             b2 == [b EXCEPT !.phase = "emit", !.out = out]
  <1>1. Good(g, d, q, b, th, m, f, lv)
    BY AtOne, Zenon
  <1>2. Becomes(g, d, q, b2, th, m, f, lv) /\ b.phase = "flush"
    BY AtOne DEF Becomes, Persist
  <1>3. rows' = rows \cup NewRows(g, chunk)
    BY DEF Persist
  <1>4. /\ chunk \in Seq(Records) /\ Len(chunk) <= Len(b.recs) /\ DOMAIN chunk = 1 .. Len(chunk)
        /\ \A i \in 1 .. Len(chunk) : chunk[i] = b.recs[i]
    BY ChunkProperties, Zenon
  <1>5. /\ out \in Seq(Shown) /\ Len(out) = Len(chunk)
        /\ \A i \in DOMAIN chunk : out[i].ev = chunk[i]
    <2> HIDE DEF chunk
    <2> QED
      BY <1>3, <1>4, StoredProperties DEF StoredOK
  <1> HIDE DEF d, q, b, th, m, f, lv, chunk, out
  <1>6. b \in Bats
    BY <1>1 DEF Good
  <1>7. /\ b2 \in Bats /\ b2.phase = "emit" /\ b2.carry = b.carry /\ b2.reqs = b.reqs
        /\ b2.recs = b.recs /\ b2.out = out /\ b2.closed = b.closed
    BY <1>5, <1>6 DEF Bats, PhaseOf
  <1> HIDE DEF b2
  <1>8. FrontOK(b2)
    BY <1>4, <1>5, <1>7 DEF FrontOK
  <1>9. Good(g, d, q, b2, th, m, f, lv)
    BY <1>1, <1>2, <1>7, <1>8
    DEF Good, LocalOK, PhaseOK, WaitOK, Held, KeptOK, Known, SentOK, Queued
  <1> QED
    BY <1>2, <1>9, StepOfOne, Zenon

\* PersistFails: the batch is dropped, its senders are answered and the failure is noted.
LEMMA PersistFailsStep ==
    ASSUME Executions, NEW g \in Gens, PersistFails(g)
    PROVE  Executions'
  <1> DEFINE d == disp[g]
             q == queue[g]
             b == bat[g]
             th == thr[g]
             m == main[g]
             f == failed[g]
             lv == live[g]
             b2 == [b EXCEPT !.phase = "idle", !.reqs = <<>>, !.recs = <<>>]
             th2 == ServedThr(th, By(b.reqs))
             m2 == ServedMain(m, By(b.reqs))
  <1>1. Good(g, d, q, b, th, m, f, lv)
    BY AtOne, Zenon
  <1>2. thr' = [thr EXCEPT ![g] = th2] /\ main' = [main EXCEPT ![g] = m2]
    BY DEF PersistFails, Answered, ServedThr, ServedMain, By
  <1>3. Becomes(g, d, q, b2, th2, m2, TRUE, lv) /\ b.phase = "flush"
    BY <1>2, AtOne DEF Becomes, PersistFails
  <1> HIDE DEF d, q, b, th, m, f, lv
  <1>4. b \in Bats /\ lv \in Seq(Shown) /\ b.out = <<>>
    BY <1>1, <1>3 DEF Good, LocalOK, PhaseOK
  <1>5. /\ b2 \in Bats /\ b2.phase = "idle" /\ b2.carry = b.carry /\ b2.reqs = <<>>
        /\ b2.recs = <<>> /\ b2.out = <<>> /\ b2.closed = b.closed
    <2>1. "idle" \in PhaseOf /\ <<>> \in Seq(ReqsOf) /\ <<>> \in Seq(Records)
      BY DEF PhaseOf
    <2> QED
      BY <1>4, <2>1 DEF Bats
  <1> HIDE DEF b2
  <1>6. Good(g, d, q, b2, th2, m2, TRUE, lv)
    <2>1. b.phase # "stopped" /\ TRUE \in BOOLEAN /\ (f => TRUE)
      BY <1>3
    <2>2. TRUE \/ Known(d, q, b, lv) \subseteq Known(d, q, b2, lv)
      OBVIOUS
    <2> QED
      BY <1>1, <1>4, <1>5, <2>1, <2>2, AnsweredGood, Zenon
  <1> QED
    BY <1>3, <1>6, StepOfOne, Zenon

\* Emit: what leaves the records is in the live stream.
LEMMA EmitStep ==
    ASSUME Executions, NEW g \in Gens, Emit(g)
    PROVE  Executions'
  <1> DEFINE d == disp[g]
             q == queue[g]
             b == bat[g]
             th == thr[g]
             m == main[g]
             f == failed[g]
             lv == live[g]
             rest == SubSeq(b.recs, Len(b.out) + 1, Len(b.recs))
             lv2 == lv \o b.out
             more == [b EXCEPT !.phase = "flush", !.recs = rest, !.out = <<>>]
             done == [b EXCEPT !.phase = "idle", !.reqs = <<>>, !.recs = <<>>, !.out = <<>>]
             th2 == ServedThr(th, By(b.reqs))
             m2 == ServedMain(m, By(b.reqs))
  <1>1. Good(g, d, q, b, th, m, f, lv)
    BY AtOne, Zenon
  <1>2. b.phase = "emit"
    BY DEF Emit
  <1>3. rest # <<>> => Becomes(g, d, q, more, th, m, f, lv2)
    BY AtOne DEF Becomes, Emit
  <1>4. rest = <<>> => Becomes(g, d, q, done, th2, m2, f, lv2)
    BY AtOne DEF Becomes, Emit, Answered, ServedThr, ServedMain, By
  <1> HIDE DEF d, q, b, th, m, f, lv
  <1>5. /\ b \in Bats /\ lv \in Seq(Shown) /\ b.recs \in Seq(Records) /\ b.out \in Seq(Shown)
        /\ f \in BOOLEAN
    BY <1>1 DEF Good, Bats
  <1>6. /\ Len(b.out) \in Nat /\ DOMAIN b.out = 1 .. Len(b.out) /\ Len(b.recs) \in Nat
        /\ Len(b.out) \in 0 .. Len(b.recs)
        /\ \A i \in 1 .. Len(b.out) : b.out[i].ev = b.recs[i]
    BY <1>1, <1>5, LenProperties DEF Good, LocalOK, FrontOK
  <1>7. /\ rest \in Seq(Records)
        /\ ToSet(b.recs) \subseteq {b.recs[i] : i \in 1 .. Len(b.out)} \cup ToSet(rest)
        /\ ToSet(rest) \subseteq ToSet(b.recs)
    BY <1>5, <1>6, RestProperties
  <1>8. lv2 \in Seq(Shown) /\ {lv2[i].ev : i \in DOMAIN lv2}
                 = {lv[i].ev : i \in DOMAIN lv} \cup {b.out[i].ev : i \in DOMAIN b.out}
    <2>1. ToSet(lv2) = ToSet(lv) \cup ToSet(b.out) /\ lv2 \in Seq(Shown)
      BY <1>5, Elements
    <2>2. \A s : {s[i].ev : i \in DOMAIN s} = {x.ev : x \in ToSet(s)}
      BY DEF ToSet
    <2>3. /\ {lv2[i].ev : i \in DOMAIN lv2} = {x.ev : x \in ToSet(lv2)}
          /\ {lv[i].ev : i \in DOMAIN lv} = {x.ev : x \in ToSet(lv)}
          /\ {b.out[i].ev : i \in DOMAIN b.out} = {x.ev : x \in ToSet(b.out)}
      BY <2>2, Zenon
    <2> HIDE DEF lv2
    <2> QED
      BY <2>1, <2>3
  <1>9. ToSet(b.recs) \subseteq {b.out[i].ev : i \in DOMAIN b.out} \cup ToSet(rest)
    BY <1>6, <1>7
  <1> HIDE DEF rest, lv2
  <1>10. CASE rest # <<>>
    <2>1. /\ more \in Bats /\ more.phase = "flush" /\ more.carry = b.carry /\ more.reqs = b.reqs
          /\ more.recs = rest /\ more.out = <<>> /\ more.closed = b.closed
      <3>1. "flush" \in PhaseOf /\ <<>> \in Seq(Shown)
        BY DEF PhaseOf
      <3> QED
        BY <1>5, <1>7, <3>1 DEF Bats
    <2> HIDE DEF more
    <2>2. Known(d, q, b, lv) \subseteq Known(d, q, more, lv2)
      BY <1>8, <1>9, <2>1, Zenon DEF Known
    <2>3. FrontOK(more)
      <3>1. Len(rest) \in Nat
        BY <1>7, LenProperties
      <3> QED
        BY <2>1, <3>1 DEF FrontOK
    <2>4. KeptOK(g, d, q, more, th, f, lv2)
      BY <1>1, <2>2, Zenon DEF Good, LocalOK, KeptOK
    <2>5. SentOK(q, more, m)
      BY <1>1, <1>7, <2>1, Zenon DEF Good, LocalOK, SentOK, Queued
    <2>6. Good(g, d, q, more, th, m, f, lv2)
      BY <1>1, <1>2, <1>8, <2>1, <2>3, <2>4, <2>5 DEF Good, LocalOK, PhaseOK, WaitOK, Held
    <2> QED
      BY <1>3, <1>10, <2>6, StepOfOne, Zenon
  <1>11. CASE rest = <<>>
    <2>1. /\ done \in Bats /\ done.phase = "idle" /\ done.carry = b.carry /\ done.reqs = <<>>
          /\ done.recs = <<>> /\ done.out = <<>> /\ done.closed = b.closed
      <3>1. "idle" \in PhaseOf /\ <<>> \in Seq(Shown) /\ <<>> \in Seq(ReqsOf) /\ <<>> \in Seq(Records)
        BY DEF PhaseOf
      <3> QED
        BY <1>5, <3>1 DEF Bats
    <2> HIDE DEF done
    <2>2. Known(d, q, b, lv) \subseteq Known(d, q, done, lv2)
      <3>1. done.recs = rest
        BY <1>11, <2>1
      <3> QED
        BY <1>8, <1>9, <2>1, <3>1, Zenon DEF Known
    <2>3. Good(g, d, q, done, th2, m2, f, lv2)
      <3>1. PICK f2 \in BOOLEAN : f2 = f
        BY <1>5
      <3>2. /\ b.phase # "stopped" /\ (f => f2)
            /\ f2 \/ Known(d, q, b, lv) \subseteq Known(d, q, done, lv2)
            /\ lv2 \in Seq(Shown)
        BY <1>2, <1>8, <2>2, <3>1
      <3>3. Good(g, d, q, done, th2, m2, f2, lv2)
        <4>1. th2 = ServedThr(th, By(b.reqs)) /\ m2 = ServedMain(m, By(b.reqs))
          OBVIOUS
        <4> HIDE DEF th2, m2, more
        <4> QED
          BY <1>1, <2>1, <3>2, <4>1, AnsweredGood
      <3> QED
        BY <3>1, <3>3, Zenon
    <2> QED
      BY <1>4, <1>11, <2>3, StepOfOne, Zenon
  <1> QED
    BY <1>10, <1>11

-----------------------------------------------------------------------------
(* Ending an execution.                                                     *)

\* Settle: the finalizing goroutine has an event to dispatch.
LEMMA SettleStep ==
    ASSUME Executions, nextSeq \in Nat, NEW g \in Gens, NEW kind \in Ending, Settle(g, kind)
    PROVE  Executions'
  <1> DEFINE d == disp[g]
             q == queue[g]
             b == bat[g]
             th == thr[g]
             m == main[g]
             f == failed[g]
             lv == live[g]
             e == [Control(kind, g) EXCEPT !.seq = nextSeq + 1]
             m2 == [stage |-> "stored", ev |-> {e}]
  <1>1. Good(g, d, q, b, th, m, f, lv)
    BY AtOne, Zenon
  <1>2. Becomes(g, d, q, b, th, m2, f, lv) /\ m.stage = "running"
    BY AtOne DEF Becomes, Settle
  <1>3. e \in SettledEvents
    <2>1. Control(kind, g) = Control(kind, 0) /\ nextSeq + 1 \in Nat \ {0}
      BY DEF Control
    <2>2. PICK n \in Nat \ {0} : n = nextSeq + 1
      BY <2>1
    <2>3. e = [Control(kind, 0) EXCEPT !.seq = n]
      BY <2>1, <2>2
    <2> HIDE DEF e
    <2> QED
      BY <2>3 DEF SettledEvents
  <1> HIDE DEF d, q, b, th, m, f, lv, e
  <1>4. m2 \in Mains /\ m2.stage = "stored" /\ m2.ev = {e}
    BY <1>3 DEF Mains, Stages
  <1> HIDE DEF m2
  <1>5. Good(g, d, q, b, th, m2, f, lv)
    BY <1>1, <1>2, <1>4 DEF Good, LocalOK, PhaseOK, WaitOK, SentOK
  <1> QED
    BY <1>2, <1>5, StepOfOne, Zenon

\* DispatchSettled: the stored event becomes a request of the finalizing goroutine.
LEMMA DispatchSettledStep ==
    ASSUME Executions, NEW g \in Gens, DispatchSettled(g)
    PROVE  Executions'
  <1> DEFINE d == disp[g]
             q == queue[g]
             b == bat[g]
             th == thr[g]
             m == main[g]
             f == failed[g]
             lv == live[g]
  <1>1. Good(g, d, q, b, th, m, f, lv)
    BY AtOne, Zenon
  <1>2. /\ d \in Disps /\ q \in Seq(ReqsOf) /\ b \in Bats /\ th \in Thrs /\ m \in Mains
        /\ f \in BOOLEAN /\ lv \in Seq(Shown) /\ m.stage = "stored"
    BY <1>1 DEF Good, DispatchSettled
  <1>3. PICK e \in m.ev :
        \/ Enqueue(g, e, Main) /\ main' = [main EXCEPT ![g].stage = "dispatched"] /\ UNCHANGED failed
        \/ Cancelled(g, Released(d, e).disp) /\ main' = [main EXCEPT ![g].stage = "answered"]
    BY DEF DispatchSettled
  <1>4. e \in Records
    BY <1>2 DEF Mains, Records
  <1>5. /\ bat' = [bat EXCEPT ![g] = b] /\ thr' = [thr EXCEPT ![g] = th]
        /\ live' = [live EXCEPT ![g] = lv] /\ queue = [queue EXCEPT ![g] = q]
        /\ failed = [failed EXCEPT ![g] = f]
    BY AtOne DEF DispatchSettled
  <1> DEFINE rel == Released(d, e)
             d2 == rel.disp
  <1>6. /\ rel.recs \in Seq(Records) /\ d2 \in Disps /\ d2.closed = d.closed
        /\ ToSet(d.pending) \cup {e} \subseteq ToSet(rel.recs) \cup ToSet(d2.pending)
        /\ ToSet(rel.recs) \subseteq Events \cup {e}
    <2> HIDE DEF d, m
    <2> QED
      BY <1>2, <1>4, ReleasedType
  <1>7. ASSUME Enqueue(g, e, Main), main' = [main EXCEPT ![g].stage = "dispatched"], UNCHANGED failed
        PROVE  Executions'
    <2> DEFINE m2 == [m EXCEPT !.stage = "dispatched"]
               r == Request(rel.recs, Barrier(e), Main)
               q2 == Append(q, r)
    <2>1. ~d.closed /\ Len(q) < QueueSize
      BY <1>7 DEF Enqueue
    <2>2. r \in ReqsOf /\ r.by = Main /\ r.recs = rel.recs
      <3> HIDE DEF rel
      <3> QED
        BY <1>6 DEF Request, ReqsOf, Barrier, RunTerminal, BoxTerminal
    <2>3. Becomes(g, d2, q2, b, th, m2, f, lv)
      BY <1>5, <1>7 DEF Becomes, Enqueue
    <2> HIDE DEF d, q, b, th, m, f, lv, rel, d2, r
    <2>4. m2 \in Mains /\ m2.stage = "dispatched" /\ m2.ev = m.ev
      BY <1>2 DEF Mains, Stages
    <2>5. /\ q2 \in Seq(ReqsOf) /\ Len(q2) <= QueueSize
          /\ b.phase # "stopped" /\ ~b.closed /\ m.stage \notin {"closing", "flushed"}
          /\ \A w : Held(q2, b, w) = Held(q, b, w) + (IF r.by = w THEN 1 ELSE 0)
          /\ Known(d, q, b, lv) \cup ToSet(r.recs) \cup ToSet(d2.pending)
                \subseteq Known(d2, q2, b, lv)
          /\ Queued(q2, b) = Queued(q, b) \cup ToSet(r.recs)
      <3>1. ToSet(d.pending) \subseteq ToSet(r.recs) \cup ToSet(d2.pending)
        BY <1>6, <2>2
      <3> QED
        BY <1>1, <1>6, <2>1, <2>2, <3>1, Enqueued
    <2> HIDE DEF q2, m2
    <2>6. TakenOK(d2, th, f) /\ PhaseOK(d2, q2, b, m2)
      BY <1>1, <1>6, <2>4, <2>5 DEF Good, LocalOK, TakenOK, PhaseOK
    <2>7. WaitOK(q2, b, th, m2)
      <3>1. /\ \A u \in Threads : u # Main /\ Held(q, b, u) = IF th[u].waiting THEN 1 ELSE 0
            /\ Held(q, b, Main) = 0
        BY <1>1, <1>2, DispatchAssumption DEF Good, LocalOK, WaitOK
      <3>2. Held(q2, b, Main) = IF m2.stage \in {"dispatched", "closing"} THEN 1 ELSE 0
        BY <2>2, <2>4, <2>5, <3>1
      <3>3. ASSUME NEW u \in Threads PROVE Held(q2, b, u) = IF th[u].waiting THEN 1 ELSE 0
        BY <2>2, <2>5, <3>1
      <3> QED
        BY <3>2, <3>3, Zenon DEF WaitOK
    <2>8. KeptOK(g, d2, q2, b, th, f, lv)
      BY <1>1, <2>5 DEF Good, LocalOK, KeptOK
    <2>9. SentOK(q2, b, m2)
      BY <1>1, <1>3, <1>6, <2>2, <2>4, <2>5 DEF Good, LocalOK, SentOK
    <2>10. Good(g, d2, q2, b, th, m2, f, lv)
      BY <1>1, <1>6, <2>4, <2>5, <2>6, <2>7, <2>8, <2>9 DEF Good, LocalOK
    <2> QED
      BY <2>3, <2>10, StepOfOne, Zenon
  <1>8. ASSUME Cancelled(g, Released(d, e).disp), main' = [main EXCEPT ![g].stage = "answered"]
        PROVE  Executions'
    <2> DEFINE m2 == [m EXCEPT !.stage = "answered"]
    <2>1. Becomes(g, d2, q, b, th, m2, TRUE, lv)
      BY <1>5, <1>8 DEF Becomes, Cancelled
    <2> HIDE DEF d, q, b, th, m, f, lv, d2
    <2>2. m2 \in Mains /\ m2.stage = "answered" /\ m2.ev = m.ev
      BY <1>2 DEF Mains, Stages
    <2> HIDE DEF m2
    <2>3. ~b.closed
      BY <1>1, <1>2 DEF Good, LocalOK, PhaseOK
    <2>4. Good(g, d2, q, b, th, m2, TRUE, lv)
      BY <1>1, <1>2, <1>6, <2>2, <2>3 DEF Good, LocalOK, PhaseOK, TakenOK, WaitOK, KeptOK, SentOK
    <2> QED
      BY <2>1, <2>4, StepOfOne, Zenon
  <1> QED
    BY <1>3, <1>7, <1>8

\* Close: the pending events become the last request, unless there are none or the
\* context has ended.
LEMMA CloseStep ==
    ASSUME Executions, NEW g \in Gens, Close(g)
    PROVE  Executions'
  <1> DEFINE d == disp[g]
             q == queue[g]
             b == bat[g]
             th == thr[g]
             m == main[g]
             f == failed[g]
             lv == live[g]
             d2 == [d EXCEPT !.closed = TRUE, !.pending = <<>>]
             M(s) == [m EXCEPT !.stage = s]
  <1>1. Good(g, d, q, b, th, m, f, lv)
    BY AtOne, Zenon
  <1>2. /\ d \in Disps /\ q \in Seq(ReqsOf) /\ b \in Bats /\ th \in Thrs /\ m \in Mains
        /\ f \in BOOLEAN /\ lv \in Seq(Shown) /\ m.stage \in {"running", "answered"}
        /\ d.pending \in Seq(Events)
    BY <1>1 DEF Good, Close, Disps
  <1>3. /\ bat' = [bat EXCEPT ![g] = b] /\ thr' = [thr EXCEPT ![g] = th]
        /\ live' = [live EXCEPT ![g] = lv] /\ queue = [queue EXCEPT ![g] = q]
        /\ failed = [failed EXCEPT ![g] = f]
    BY AtOne DEF Close
  <1>4. \/ /\ d.pending = <<>>
           /\ Becomes(g, d2, q, b, th, M("flushed"), f, lv)
        \/ /\ Len(q) < QueueSize
           /\ Becomes(g, d2, Append(q, Request(d.pending, TRUE, Main)), b, th, M("closing"), f, lv)
        \/ Becomes(g, d2, q, b, th, M("flushed"), TRUE, lv)
    BY <1>3 DEF Close, Becomes, Cancelled
  <1> HIDE DEF d, q, b, th, m, f, lv
  <1>5. d2 \in Disps /\ d2.closed = TRUE /\ d2.pending = <<>>
    <2>1. <<>> \in Seq(Events)
      OBVIOUS
    <2> QED
      BY <1>2, <2>1 DEF Disps
  <1>6. \A s \in Stages : M(s) \in Mains /\ M(s).stage = s /\ M(s).ev = m.ev
    BY <1>2 DEF Mains
  <1>7. /\ M("flushed") \in Mains /\ M("flushed").stage = "flushed"
        /\ M("closing") \in Mains /\ M("closing").stage = "closing"
        /\ M("flushed").ev = m.ev /\ M("closing").ev = m.ev
    <2>1. "flushed" \in Stages /\ "closing" \in Stages
      BY DEF Stages
    <2> QED
      BY <1>6, <2>1, Zenon
  <1>8. ~b.closed
    BY <1>1, <1>2 DEF Good, LocalOK, PhaseOK
  <1>9. b.phase # "stopped"
    BY <1>1, <1>8 DEF Good, LocalOK, PhaseOK
  <1> HIDE DEF d2, M
  <1>10. CASE d.pending = <<>> /\ Becomes(g, d2, q, b, th, M("flushed"), f, lv)
    <2>1. Known(d, q, b, lv) = Known(d2, q, b, lv)
      BY <1>5, <1>10 DEF Known
    <2>2. KeptOK(g, d2, q, b, th, f, lv)
      BY <1>1, <2>1 DEF Good, LocalOK, KeptOK
    <2>3. /\ PhaseOK(d2, q, b, M("flushed")) /\ WaitOK(q, b, th, M("flushed")) /\ TakenOK(d2, th, f)
          /\ SentOK(q, b, M("flushed"))
      BY <1>1, <1>2, <1>5, <1>7, <1>8 DEF Good, LocalOK, PhaseOK, WaitOK, TakenOK, SentOK
    <2>4. Good(g, d2, q, b, th, M("flushed"), f, lv)
      BY <1>1, <1>5, <1>7, <2>2, <2>3 DEF Good, LocalOK
    <2> QED
      BY <1>10, <2>4, StepOfOne, Zenon
  <1>11. CASE /\ Len(q) < QueueSize
              /\ Becomes(g, d2, Append(q, Request(d.pending, TRUE, Main)), b, th, M("closing"), f, lv)
    <2> DEFINE r == Request(d.pending, TRUE, Main)
               q2 == Append(q, r)
    <2>1. r \in ReqsOf /\ r.by = Main /\ r.recs = d.pending
      <3>1. d.pending \in Seq(Records)
        BY <1>2 DEF Records
      <3> QED
        BY <3>1 DEF Request, ReqsOf
    <2> HIDE DEF r
    <2>2. q2 \in Seq(ReqsOf) /\ Len(q2) <= QueueSize
      <3>1. q2 \in Seq(ReqsOf) /\ Len(q2) = Len(q) + 1 /\ Len(q) \in Nat
        BY <1>2, <2>1, AppendProperties, LenProperties
      <3>2. QueueSize \in Nat
        BY DispatchAssumption
      <3> QED
        BY <1>11, <3>1, <3>2
    <2>3. \A w : Held(q2, b, w) = Held(q, b, w) + (IF r.by = w THEN 1 ELSE 0)
      <3> TAKE w
      <3>1. Count(q2, w) = Count(q, w) + (IF r.by = w THEN 1 ELSE 0)
        BY <1>2, <2>1, CountAppend
      <3>2. Count(q, w) \in Nat /\ Count(b.carry, w) \in Nat /\ Count(b.reqs, w) \in Nat
        BY <1>2, HeldType, Zenon
      <3> HIDE DEF q2
      <3> QED
        BY <3>1, <3>2 DEF Held
    <2>4. Known(d, q, b, lv) \subseteq Known(d2, q2, b, lv)
      <3>1. Inside(q2) = Inside(q) \cup ToSet(r.recs)
        BY <1>2, <2>1, InsideProperties, Zenon
      <3> HIDE DEF q2
      <3> QED
        BY <2>1, <3>1, Zenon DEF Known
    <2>5. Becomes(g, d2, q2, b, th, M("closing"), f, lv)
      BY <1>11 DEF r
    <2> HIDE DEF q2
    <2>6. KeptOK(g, d2, q2, b, th, f, lv)
      BY <1>1, <2>4 DEF Good, LocalOK, KeptOK
    <2>7. WaitOK(q2, b, th, M("closing"))
      <3>1. /\ \A u \in Threads : u # Main /\ Held(q, b, u) = IF th[u].waiting THEN 1 ELSE 0
            /\ Held(q, b, Main) = 0
        BY <1>1, <1>2, DispatchAssumption DEF Good, LocalOK, WaitOK
      <3>2. Held(q2, b, Main) = 1
        BY <2>1, <2>3, <3>1
      <3>3. ASSUME NEW u \in Threads PROVE Held(q2, b, u) = IF th[u].waiting THEN 1 ELSE 0
        BY <2>1, <2>3, <3>1
      <3> QED
        BY <1>7, <3>2, <3>3 DEF WaitOK
    <2>8. PhaseOK(d2, q2, b, M("closing")) /\ TakenOK(d2, th, f)
      BY <1>1, <1>5, <1>7, <1>8, <1>9 DEF Good, LocalOK, PhaseOK, TakenOK
    <2>9. SentOK(q2, b, M("closing"))
      <3>1. Inside(q2) = Inside(q) \cup ToSet(r.recs)
        BY <1>2, <2>1, InsideProperties, Zenon DEF q2
      <3>2. ToSet(r.recs) \subseteq Events
        BY <1>2, <2>1, Elements
      <3> QED
        BY <1>1, <1>7, <3>1, <3>2 DEF Good, LocalOK, SentOK, Queued
    <2>10. Good(g, d2, q2, b, th, M("closing"), f, lv)
      BY <1>1, <1>5, <1>7, <2>2, <2>6, <2>7, <2>8, <2>9 DEF Good, LocalOK
    <2> QED
      BY <2>5, <2>10, StepOfOne, Zenon
  <1>12. CASE Becomes(g, d2, q, b, th, M("flushed"), TRUE, lv)
    <2>1. KeptOK(g, d2, q, b, th, TRUE, lv) /\ TakenOK(d2, th, TRUE)
      BY DEF KeptOK, TakenOK
    <2>2. /\ PhaseOK(d2, q, b, M("flushed")) /\ WaitOK(q, b, th, M("flushed"))
          /\ SentOK(q, b, M("flushed"))
      BY <1>1, <1>2, <1>5, <1>7, <1>8 DEF Good, LocalOK, PhaseOK, WaitOK, SentOK
    <2>3. Good(g, d2, q, b, th, M("flushed"), TRUE, lv)
      BY <1>1, <1>5, <1>7, <2>1, <2>2 DEF Good, LocalOK
    <2> QED
      BY <1>12, <2>3, StepOfOne, Zenon
  <1> QED
    BY <1>4, <1>10, <1>11, <1>12

\* A step that changes no execution.
LEMMA SameExecutions ==
    ASSUME Executions, UNCHANGED <<disp, queue, bat, thr, main, live, failed>>
    PROVE  Executions'
  <1>1. \A g \in Gens : Good(g, disp'[g], queue'[g], bat'[g], thr'[g], main'[g], failed'[g], live'[g])
    BY DEF Executions
  <1>2. (\A h \in Gens : Good(h, disp[h], queue[h], bat[h], thr[h], main[h], failed[h], live[h]))'
    BY <1>1 DEF Good, LocalOK, PhaseOK, FrontOK, TakenOK, WaitOK, KeptOK, Known, SentOK, Queued
  <1> QED
    BY <1>2 DEF Executions

\* Every step keeps every execution good.
LEMMA ExecutionsStep ==
    ASSUME Types, Executions, [Next]_vars
    PROVE  Executions'
  <1>1. ASSUME NEW g \in Gens, NEW t \in Threads, Dispatch(g, t) PROVE Executions'
    BY <1>1, DispatchStep, Zenon
  <1>2. ASSUME NEW g \in Gens, TakeFirst(g) \/ CollectNext(g) \/ WindowEnds(g) \/ BatcherExits(g)
        PROVE Executions'
    BY <1>2, TakeFirstStep, CollectNextStep, WindowEndsStep, BatcherExitsStep, Zenon
  <1>3. ASSUME NEW g \in Gens, Persist(g) \/ PersistFails(g) \/ Emit(g) PROVE Executions'
    BY <1>3, PersistStep, PersistFailsStep, EmitStep, Zenon
  <1>4. ASSUME NEW g \in Gens, NEW kind \in {"workflow_finished", "workflow_paused"}, Settle(g, kind)
        PROVE Executions'
    BY <1>4, SettleStep, Zenon DEF Types, Ending
  <1>5. ASSUME NEW g \in Gens, DispatchSettled(g) \/ Close(g) \/ CloseBatcher(g) PROVE Executions'
    BY <1>5, DispatchSettledStep, CloseStep, CloseBatcherStep, Zenon
  <1>6. CASE Claim
    BY <1>6, SameExecutions DEF Claim
  <1>7. ASSUME NEW x \in Forms, Outside(x) PROVE Executions'
    BY <1>7, SameExecutions DEF Outside
  <1>8. CASE UNCHANGED vars
    BY <1>8, SameExecutions DEF vars
  <1> QED
    BY <1>1, <1>2, <1>3, <1>4, <1>5, <1>6, <1>7, <1>8, Zenon DEF Next

-----------------------------------------------------------------------------
(* The table of events and the run's row.                                   *)

Table ==
    /\ nextSeq \in Nat
    /\ \A r \in rows : /\ r.seq \in Nat \ {0} /\ r.gen \in Gens \cup {0}
                       /\ r.gen # 0 => r.ev \in Events \cup {Control(k, 0) : k \in Ending}
    /\ gen \in Gens /\ owner \in {0, gen} /\ over \in BOOLEAN

\* Sequences are dense in a finite table.
Dense == IsFiniteSet(rows) /\ SequencesDense

\* The table and the executions have their types.
LEMMA TypesOf == Table /\ Executions => Types
  <1> SUFFICES ASSUME Table, Executions PROVE Types
    OBVIOUS
  <1>1. \A g \in Gens : Len(queue[g]) <= QueueSize /\ Len(bat[g].carry) <= 1
    BY Zenon DEF Executions, Good
  <1> QED
    BY <1>1, Zenon DEF Types, Table, Executions

\* One more row, with the next sequence, keeps the table dense.
LEMMA OneRow ==
    ASSUME Dense, nextSeq \in Nat, NEW r, r.seq = nextSeq + 1,
           rows' = rows \cup {r}, nextSeq' = nextSeq + 1
    PROVE  Dense'
  <1>1. {x.seq : x \in rows} = 1 .. nextSeq /\ Cardinality(rows) = nextSeq /\ IsFiniteSet(rows)
    BY DEF Dense, SequencesDense
  <1>2. r \notin rows
    BY <1>1
  <1>3. IsFiniteSet(rows') /\ Cardinality(rows') = nextSeq + 1
    BY <1>1, <1>2, FS_AddElement
  <1>4. {x.seq : x \in rows'} = {x.seq : x \in rows} \cup {nextSeq + 1}
    OBVIOUS
  <1>5. (1 .. nextSeq) \cup {nextSeq + 1} = 1 .. (nextSeq + 1)
    OBVIOUS
  <1> QED
    BY <1>1, <1>3, <1>4, <1>5 DEF Dense, SequencesDense

\* The rows of a chunk keep the table dense.
LEMMA ChunkRows ==
    ASSUME Dense, nextSeq \in Nat, NEW g \in Gens, NEW recs \in Seq(Records),
           rows' = rows \cup NewRows(g, recs),
           nextSeq' = nextSeq + Cardinality(NewRows(g, recs))
    PROVE  Dense'
  <1> DEFINE N == NewRows(g, recs)
  <1>1. {x.seq : x \in rows} = 1 .. nextSeq /\ Cardinality(rows) = nextSeq /\ IsFiniteSet(rows)
    BY DEF Dense, SequencesDense
  <1>2. /\ IsFiniteSet(N) /\ Cardinality(N) \in Nat
        /\ {r.seq : r \in N} = (nextSeq + 1) .. (nextSeq + Cardinality(N))
        /\ \A r \in N : r.seq \in Nat /\ r.seq > nextSeq
    BY NewRowsProperties
  <1> HIDE DEF N
  <1>3. rows' = rows \cup N /\ nextSeq' = nextSeq + Cardinality(N)
    BY DEF N
  <1>4. rows \cap N = {}
    <2> SUFFICES ASSUME NEW x \in rows, x \in N PROVE FALSE
      OBVIOUS
    <2>1. x.seq \in 1 .. nextSeq
      BY <1>1
    <2> QED
      BY <1>2, <2>1
  <1>5. /\ IsFiniteSet(rows \cup N)
        /\ Cardinality(rows \cup N) = Cardinality(rows) + Cardinality(N) - Cardinality(rows \cap N)
    BY <1>1, <1>2, FS_Union
  <1>6. IsFiniteSet(rows') /\ Cardinality(rows') = nextSeq'
    <2>1. Cardinality(rows \cap N) = 0
      BY <1>4, FS_EmptySet, Zenon
    <2>2. Cardinality(rows \cup N) = nextSeq + Cardinality(N)
      BY <1>1, <1>2, <1>5, <2>1
    <2> QED
      BY <1>3, <1>5, <2>2, Zenon
  <1>7. {x.seq : x \in rows'} = {x.seq : x \in rows} \cup {x.seq : x \in N}
    BY <1>3
  <1>8. \A c \in Nat : (1 .. nextSeq) \cup ((nextSeq + 1) .. (nextSeq + c)) = 1 .. (nextSeq + c)
    OBVIOUS
  <1>9. {x.seq : x \in rows'} = 1 .. nextSeq'
    BY <1>1, <1>2, <1>3, <1>7, <1>8
  <1> QED
    BY <1>6, <1>9 DEF Dense, SequencesDense

\* Every step keeps the table typed and dense.
LEMMA TableStep ==
    ASSUME Table, Dense, Executions, [Next]_vars
    PROVE  Table' /\ Dense'
  <1> DEFINE Same == UNCHANGED <<rows, nextSeq, owner, gen, over>>
  <1>1. Same => Table' /\ Dense'
    BY DEF Table, Dense, SequencesDense
  <1>2. ASSUME NEW g \in Gens, Persist(g) PROVE Table' /\ Dense'
    <2>1. Types
      BY TypesOf
    <2>2. /\ Chunk(g) \in Seq(Records) /\ rows' = rows \cup NewRows(g, Chunk(g)) /\ nextSeq \in Nat
          /\ nextSeq' = nextSeq + Cardinality(NewRows(g, Chunk(g))) /\ UNCHANGED <<owner, gen, over>>
      BY <1>2, <2>1, ChunkProperties DEF Persist, Table
    <2>3. Dense'
      BY <2>2, ChunkRows
    <2>4. /\ Cardinality(NewRows(g, Chunk(g))) \in Nat
          /\ \A r \in NewRows(g, Chunk(g)) : /\ r.gen = g /\ r.ev \in Events /\ r.seq \in Nat
                                             /\ r.seq > nextSeq
      BY <2>2, NewRowsProperties
    <2>5. nextSeq' \in Nat
      BY <2>2, <2>4
    <2>6. ASSUME NEW r \in rows'
          PROVE  /\ r.seq \in Nat \ {0} /\ r.gen \in Gens \cup {0}
                 /\ r.gen # 0 => r.ev \in Events \cup {Control(k, 0) : k \in Ending}
      <3>1. CASE r \in rows
        BY <3>1, Zenon DEF Table
      <3>2. CASE r \in NewRows(g, Chunk(g))
        BY <2>2, <2>4, <3>2
      <3> QED
        BY <2>2, <2>6, <3>1, <3>2, Zenon
    <2> QED
      BY <2>2, <2>3, <2>5, <2>6 DEF Table
  <1>3. ASSUME NEW g \in Gens, NEW kind \in {"workflow_finished", "workflow_paused"}, Settle(g, kind)
        PROVE  Table' /\ Dense'
    <2> DEFINE r == [seq |-> nextSeq + 1, ev |-> Control(kind, g), gen |-> g]
    <2>1. rows' = rows \cup {r} /\ nextSeq' = nextSeq + 1 /\ owner' = 0 /\ gen' = gen /\ over' \in BOOLEAN
      BY <1>3 DEF Settle
    <2>2. r.seq = nextSeq + 1 /\ r.gen = g /\ r.ev \in {Control(k, 0) : k \in Ending}
      BY DEF Control, Ending
    <2> HIDE DEF r
    <2>3. Dense'
      BY <2>1, <2>2, OneRow DEF Table
    <2> QED
      BY <2>1, <2>2, <2>3 DEF Table
  <1>4. CASE Claim
    BY <1>4 DEF Claim, Table, Dense, SequencesDense
  <1>5. ASSUME NEW x \in Forms, Outside(x) PROVE Table' /\ Dense'
    <2> DEFINE r == [seq |-> nextSeq + 1, gen |-> 0, ev |->
            [id |-> x, kind |-> "approval_expired", box |-> "none", round |-> 0, seq |-> 0]]
    <2>1. rows' = rows \cup {r} /\ nextSeq' = nextSeq + 1 /\ UNCHANGED <<owner, gen, over>>
      BY <1>5 DEF Outside
    <2>2. r.seq = nextSeq + 1 /\ r.gen = 0
      OBVIOUS
    <2> HIDE DEF r
    <2>3. Dense'
      BY <2>1, <2>2, OneRow DEF Table
    <2> QED
      BY <2>1, <2>2, <2>3 DEF Table
  <1>6. ASSUME NEW g \in Gens, NEW t \in Threads, Dispatch(g, t) PROVE Same
    BY <1>6 DEF Dispatch
  <1>7. ASSUME NEW g \in Gens, TakeFirst(g) \/ CollectNext(g) \/ WindowEnds(g) \/ BatcherExits(g)
        PROVE Same
    BY <1>7 DEF TakeFirst, CollectNext, WindowEnds, BatcherExits, BatcherOnly
  <1>8. ASSUME NEW g \in Gens, PersistFails(g) \/ Emit(g) PROVE Same
    BY <1>8 DEF PersistFails, Emit
  <1>9. ASSUME NEW g \in Gens, DispatchSettled(g) \/ Close(g) \/ CloseBatcher(g) PROVE Same
    BY <1>9 DEF DispatchSettled, Close, CloseBatcher
  <1>10. CASE UNCHANGED vars
    BY <1>1, <1>10 DEF vars
  <1> HIDE DEF Same
  <1> QED
    BY <1>1, <1>2, <1>3, <1>4, <1>5, <1>6, <1>7, <1>8, <1>9, <1>10, Zenon DEF Next

-----------------------------------------------------------------------------
(* The results.                                                             *)

\* The inductive invariant.
IInv == Table /\ Dense /\ Executions

\* The invariant holds in every state of the dispatchers.
THEOREM Inductive == Spec => []IInv
  <1>1. Init => IInv
    <2> SUFFICES ASSUME Init PROVE IInv
      OBVIOUS
    <2>1. Types /\ Local
      BY InitTypes, InitLocal
    <2>2. Executions
      BY <2>1, TypesLocal
    <2>3. Table
      BY <2>1, Zenon DEF Types, Table
    <2>4. Dense
      <3>1. rows = {} /\ nextSeq = 0
        BY DEF Init
      <3>2. IsFiniteSet(rows) /\ Cardinality(rows) = 0
        BY <3>1, FS_EmptySet
      <3> QED
        BY <3>1, <3>2 DEF Dense, SequencesDense
    <2> QED
      BY <2>2, <2>3, <2>4 DEF IInv
  <1>2. IInv /\ [Next]_vars => IInv'
    <2> SUFFICES ASSUME IInv, [Next]_vars PROVE IInv'
      OBVIOUS
    <2>1. Types
      BY TypesOf, Zenon DEF IInv
    <2>2. Executions'
      BY <2>1, ExecutionsStep, Zenon DEF IInv
    <2>3. Table' /\ Dense'
      BY TableStep, Zenon DEF IInv
    <2> QED
      BY <2>2, <2>3, Zenon DEF IInv
  <1> QED
    BY <1>1, <1>2, PTL DEF Spec

\* Types: the event table, the run's row, the queues, the batchers and the
\* finalizing goroutines stay within their bounds, for any scripts and sizes.
THEOREM TypeCorrect == Spec => []TypeOK
  <1>1. IInv => TypeOK
    <2> SUFFICES ASSUME IInv PROVE TypeOK
      OBVIOUS
    <2>1. Types /\ Table
      BY TypesOf, Zenon DEF IInv
    <2>2. ASSUME NEW g \in Gens
          PROVE  /\ ToSet(disp[g].pending) \subseteq Events /\ Len(queue[g]) <= QueueSize
                 /\ bat[g].phase \in {"idle", "collect", "flush", "emit", "stopped"}
                 /\ Len(bat[g].carry) <= 1
                 /\ main[g].stage \in {"running", "stored", "dispatched", "answered",
                                       "closing", "flushed"}
      <3>1. disp[g].pending \in Seq(Events)
        BY <2>1 DEF Types, Disps
      <3>2. ToSet(disp[g].pending) \subseteq Events
        BY <3>1, Elements, Zenon
      <3>3. bat[g] \in Bats /\ main[g] \in Mains
        BY <2>1 DEF Types
      <3>4. Len(queue[g]) <= QueueSize /\ Len(bat[g].carry) <= 1
        BY <2>1, Zenon DEF Types
      <3> QED
        BY <3>2, <3>3, <3>4 DEF Bats, Mains, PhaseOf, Stages
    <2>3. nextSeq \in Nat /\ \A r \in rows : r.seq \in Nat /\ r.gen \in Gens \cup {0}
      BY <2>1 DEF Table
    <2> QED
      BY <2>1, <2>2, <2>3, Zenon DEF TypeOK, Table
  <1> QED
    BY <1>1, Inductive, PTL

\* Sequences: however many executions, handlers and scanners append to the log of a
\* run, the rows carry the sequences 1 .. next_event_sequence, each once.
THEOREM DenseSequences == Spec => []SequencesDense
  <1>1. IInv => SequencesDense
    BY DEF IInv, Dense
  <1> QED
    BY <1>1, Inductive, PTL

\* Delivery: as long as nothing of an execution failed, every event its dispatcher
\* accepted is pending, queued, carried, in the batch or has been shown live.
THEOREM NoEventLost == Spec => []NothingLost
  <1>1. IInv => NothingLost
    <2> SUFFICES ASSUME IInv, NEW g \in Gens, ~failed[g], NEW t \in Threads,
                        NEW n \in 1 .. thr[g][t].taken
                 PROVE  \/ Script[g][t][n] \in InFlight(g)
                        \/ \E i \in DOMAIN live[g] : live[g][i].ev = Script[g][t][n]
      BY Zenon DEF NothingLost
    <2>1. KeptOK(g, disp[g], queue[g], bat[g], thr[g], failed[g], live[g])
      BY Zenon DEF IInv, Executions, Good, LocalOK
    <2>2. Script[g][t][n] \in Known(disp[g], queue[g], bat[g], live[g])
      BY <2>1, Zenon DEF KeptOK
    <2>3. InFlight(g) = ToSet(disp[g].pending) \cup Inside(queue[g])
                          \cup Inside(bat[g].carry) \cup ToSet(bat[g].recs)
      BY Zenon DEF InFlight, Inside
    <2> QED
      BY <2>2, <2>3 DEF Known
  <1> QED
    BY <1>1, Inductive, PTL

\* Answers: a goroutine that waits for its answer has exactly one request in the
\* queue, carried over or in the batch, and the batcher never stops on a request.
THEOREM WaitersServed == Spec => []EveryWaiterServed
  <1>1. IInv => EveryWaiterServed
    <2> SUFFICES ASSUME IInv, NEW g \in Gens
                 PROVE  /\ \A t \in Threads :
                             Count(Requests(g), t) = IF thr[g][t].waiting THEN 1 ELSE 0
                        /\ Count(Requests(g), Main) =
                             IF main[g].stage \in {"dispatched", "closing"} THEN 1 ELSE 0
                        /\ bat[g].phase = "stopped" => Requests(g) = <<>>
      BY DEF EveryWaiterServed, Count
    <2>1. Good(g, disp[g], queue[g], bat[g], thr[g], main[g], failed[g], live[g])
      BY Zenon DEF IInv, Executions
    <2>2. queue[g] \in Seq(ReqsOf) /\ bat[g].carry \in Seq(ReqsOf) /\ bat[g].reqs \in Seq(ReqsOf)
      BY <2>1 DEF Good, Bats
    <2>3. ASSUME NEW w PROVE Count(Requests(g), w) = Held(queue[g], bat[g], w)
      <3>1. queue[g] \o bat[g].carry \in Seq(ReqsOf)
        BY <2>2, ConcatProperties
      <3>2. Count(queue[g] \o bat[g].carry, w) = Count(queue[g], w) + Count(bat[g].carry, w)
        BY <2>2, CountConcat, Zenon
      <3>3. Count((queue[g] \o bat[g].carry) \o bat[g].reqs, w)
              = Count(queue[g] \o bat[g].carry, w) + Count(bat[g].reqs, w)
        BY <2>2, <3>1, CountConcat, Zenon
      <3> QED
        BY <3>2, <3>3 DEF Requests, Held
    <2>4. WaitOK(queue[g], bat[g], thr[g], main[g]) /\ PhaseOK(disp[g], queue[g], bat[g], main[g])
      BY <2>1, Zenon DEF Good, LocalOK
    <2>5. bat[g].phase = "stopped" => Requests(g) = <<>>
      BY <2>4 DEF PhaseOK, Requests
    <2> QED
      BY <2>3, <2>4, <2>5, Zenon DEF WaitOK
  <1> QED
    BY <1>1, Inductive, PTL

-----------------------------------------------------------------------------
(* The live stream and the table.  R, own and gn stand for rows, owner and gen; E is *)
(* what execution g has settled, and s what it has shown or is about to show.       *)

\* Entry j is the first to show its row only if no row behind it was shown before.
OrderedAt(s, j) ==
    \A i \in 1 .. (j - 1) :
        s[i].seq > s[j].seq => \E k \in 1 .. (i - 1) : s[k].seq = s[j].seq

\* A settled execution has lost the run for good: its event is its last row.
LastOK(g, R, own, gn, E) ==
    \A e \in E : /\ own # g /\ gn >= g
                 /\ \E r \in R : r.gen = g /\ r.seq = e.seq /\ r.ev.id = e.id
                 /\ \A r \in R : r.gen = g => r.seq <= e.seq

\* Every row of the execution's events is shown, and what is shown has a row.
RowsShown(g, R, s) ==
    \A r \in R : r.gen = g /\ r.ev \in Events => \E i \in DOMAIN s : s[i].seq = r.seq
ShownBacked(g, R, s) ==
    \A i \in DOMAIN s : \E r \in R : r.gen = g /\ r.seq = s[i].seq /\ r.ev.id = s[i].ev.id

ReplayOK(g, R, own, gn, E, s) ==
    /\ LastOK(g, R, own, gn, E) /\ RowsShown(g, R, s) /\ ShownBacked(g, R, s)
    /\ \A j \in DOMAIN s : OrderedAt(s, j)

Replay == \A g \in Gens : ReplayOK(g, rows, owner, gen, main[g].ev, live[g] \o bat[g].out)

\* The repetition of an entry in order is in order.
LEMMA OrderedRepeat ==
    ASSUME NEW s \in Seq(Shown), NEW j \in DOMAIN s, NEW p \in DOMAIN s, p < j,
           s[p].seq = s[j].seq, OrderedAt(s, p)
    PROVE  OrderedAt(s, j)
  <1>1. j \in Nat /\ p \in Nat /\ p > 0
    BY LenProperties
  <1> SUFFICES ASSUME NEW i \in 1 .. (j - 1), s[i].seq > s[j].seq
               PROVE  \E k \in 1 .. (i - 1) : s[k].seq = s[j].seq
    BY DEF OrderedAt
  <1>2. i \in DOMAIN s /\ i \in Nat
    BY <1>1, LenProperties
  <1>3. s[i].seq \in Nat /\ s[j].seq \in Nat
    <2>1. s[i] \in Shown /\ s[j] \in Shown
      BY <1>2, ElementOfSeq
    <2> QED
      BY <2>1 DEF Shown
  <1>4. i # p
    BY <1>3
  <1>5. CASE i < p
    <2>1. i \in 1 .. (p - 1) /\ s[i].seq > s[p].seq
      BY <1>1, <1>2, <1>5
    <2> QED
      BY <2>1 DEF OrderedAt
  <1>6. CASE i > p
    <2>1. p \in 1 .. (i - 1)
      BY <1>1, <1>2, <1>6
    <2> QED
      BY <2>1
  <1> QED
    BY <1>1, <1>2, <1>4, <1>5, <1>6

\* An entry behind which nothing was shown before is in order.
LEMMA OrderedTop ==
    ASSUME NEW s \in Seq(Shown), NEW j \in DOMAIN s,
           \A i \in 1 .. (j - 1) : s[i].seq <= s[j].seq
    PROVE  OrderedAt(s, j)
  <1>1. DOMAIN s = 1 .. Len(s) /\ Len(s) \in Nat
    BY LenProperties
  <1>2. ASSUME NEW i \in 1 .. (j - 1) PROVE s[i].seq \in Nat /\ s[j].seq \in Nat
    <2>1. i \in DOMAIN s
      BY <1>1
    <2>2. s[i] \in Shown /\ s[j] \in Shown
      BY <2>1, ElementOfSeq
    <2> QED
      BY <2>2 DEF Shown
  <1>3. ASSUME NEW i \in 1 .. (j - 1) PROVE ~(s[i].seq > s[j].seq)
    BY <1>2
  <1> QED
    BY <1>3, Zenon DEF OrderedAt

\* Rows of others, and the run in other hands, change nothing for an execution.
LEMMA OtherRows ==
    ASSUME NEW g, NEW R, NEW own, NEW gn, NEW E, NEW s, ReplayOK(g, R, own, gn, E, s),
           NEW R2, NEW own2, NEW gn2, R \subseteq R2, \A r \in R2 : r.gen = g => r \in R,
           E # {} => own2 # g /\ gn2 >= g
    PROVE  ReplayOK(g, R2, own2, gn2, E, s)
  <1>1. LastOK(g, R2, own2, gn2, E)
    <2> SUFFICES ASSUME NEW e \in E
                 PROVE  /\ own2 # g /\ gn2 >= g
                        /\ \E r \in R2 : r.gen = g /\ r.seq = e.seq /\ r.ev.id = e.id
                        /\ \A r \in R2 : r.gen = g => r.seq <= e.seq
      BY Zenon DEF LastOK
    <2>1. /\ \E r \in R : r.gen = g /\ r.seq = e.seq /\ r.ev.id = e.id
          /\ \A r \in R : r.gen = g => r.seq <= e.seq
      BY Zenon DEF ReplayOK, LastOK
    <2> QED
      BY <2>1
  <1>2. RowsShown(g, R2, s)
    BY Zenon DEF ReplayOK, RowsShown
  <1>3. ShownBacked(g, R2, s)
    BY Zenon DEF ReplayOK, ShownBacked
  <1> QED
    BY <1>1, <1>2, <1>3, Zenon DEF ReplayOK

\* A step after which all executions agree with the table.
LEMMA ReplayNext ==
    ASSUME \A h \in Gens : ReplayOK(h, rows', owner', gen', main'[h].ev, live'[h] \o bat'[h].out)
    PROVE  Replay'
  BY DEF Replay, ReplayOK, LastOK, RowsShown, ShownBacked, OrderedAt

\* A step that appends nothing and shows nothing new.
LEMMA QuietStep ==
    ASSUME Replay, UNCHANGED <<rows, owner, gen>>,
           \A h \in Gens : /\ main'[h].ev = main[h].ev
                           /\ live'[h] \o bat'[h].out = live[h] \o bat[h].out
    PROVE  Replay'
  <1>1. ASSUME NEW h \in Gens
        PROVE  ReplayOK(h, rows', owner', gen', main'[h].ev, live'[h] \o bat'[h].out)
    <2>1. ReplayOK(h, rows, owner, gen, main[h].ev, live[h] \o bat[h].out)
      BY Zenon DEF Replay
    <2> QED
      BY <2>1
  <1> QED
    BY <1>1, ReplayNext, Zenon

\* Every step that neither appends nor claims shows nothing that was not about to be shown.
LEMMA QuietActions ==
    ASSUME Executions, Replay, NEW g \in Gens,
           \/ \E t \in Threads : Dispatch(g, t)
           \/ TakeFirst(g) \/ CollectNext(g) \/ WindowEnds(g) \/ BatcherExits(g)
           \/ PersistFails(g) \/ Emit(g) \/ DispatchSettled(g) \/ Close(g) \/ CloseBatcher(g)
    PROVE  Replay'
  <1> DEFINE Quiet == /\ UNCHANGED <<rows, owner, gen>>
                      /\ \A h \in Gens : /\ main'[h].ev = main[h].ev
                                         /\ live'[h] \o bat'[h].out = live[h] \o bat[h].out
  <1>1. /\ bat \in [Gens -> Bats] /\ main \in [Gens -> Mains] /\ live \in [Gens -> Seq(Shown)]
        /\ bat[g] \in Bats /\ live[g] \in Seq(Shown) /\ bat[g].out \in Seq(Shown)
    BY DEF Executions, Bats
  <1>2. (\E t \in Threads : Dispatch(g, t)) => Quiet
    BY DEF Dispatch
  <1>3. ASSUME TakeFirst(g) PROVE Quiet
    <2>1. UNCHANGED <<rows, owner, gen, main, live>>
      BY <1>3 DEF TakeFirst, BatcherOnly
    <2>2. PICK x, ph : bat' = [bat EXCEPT ![g] = [Grow(bat[g], x) EXCEPT !.carry = <<>>, !.phase = ph]]
      BY <1>3 DEF TakeFirst
    <2>3. \A h \in Gens : bat'[h].out = bat[h].out
      BY <1>1, <2>2 DEF Grow, Bats
    <2> QED
      BY <2>1, <2>3
  <1>4. ASSUME CollectNext(g) PROVE Quiet
    <2>1. UNCHANGED <<rows, owner, gen, main, live>>
      BY <1>4 DEF CollectNext, BatcherOnly
    <2>2. PICK x, ph : \/ bat' = [bat EXCEPT ![g] = [Grow(bat[g], x) EXCEPT !.phase = ph]]
                       \/ bat' = [bat EXCEPT ![g] = [bat[g] EXCEPT !.carry = <<x>>, !.phase = ph]]
      BY <1>4 DEF CollectNext
    <2>3. \A h \in Gens : bat'[h].out = bat[h].out
      <3>1. ASSUME bat' = [bat EXCEPT ![g] = [Grow(bat[g], x) EXCEPT !.phase = ph]]
            PROVE  \A h \in Gens : bat'[h].out = bat[h].out
        BY <1>1, <3>1 DEF Grow, Bats
      <3>2. ASSUME bat' = [bat EXCEPT ![g] = [bat[g] EXCEPT !.carry = <<x>>, !.phase = ph]]
            PROVE  \A h \in Gens : bat'[h].out = bat[h].out
        BY <1>1, <3>2 DEF Bats
      <3> QED
        BY <2>2, <3>1, <3>2
    <2> QED
      BY <2>1, <2>3
  <1>5. ASSUME WindowEnds(g) \/ BatcherExits(g) \/ CloseBatcher(g) PROVE Quiet
    <2>1. UNCHANGED <<rows, owner, gen, main, live>>
      BY <1>5 DEF WindowEnds, BatcherExits, CloseBatcher, BatcherOnly
    <2>2. \/ \E y : bat' = [bat EXCEPT ![g] = [bat[g] EXCEPT !.phase = y]]
          \/ \E y : bat' = [bat EXCEPT ![g] = [bat[g] EXCEPT !.closed = y]]
      BY <1>5 DEF WindowEnds, BatcherExits, CloseBatcher
    <2>3. \A h \in Gens : bat'[h].out = bat[h].out
      <3>1. ASSUME NEW y, bat' = [bat EXCEPT ![g] = [bat[g] EXCEPT !.phase = y]]
            PROVE  \A h \in Gens : bat'[h].out = bat[h].out
        BY <1>1, <3>1 DEF Bats
      <3>2. ASSUME NEW y, bat' = [bat EXCEPT ![g] = [bat[g] EXCEPT !.closed = y]]
            PROVE  \A h \in Gens : bat'[h].out = bat[h].out
        BY <1>1, <3>2 DEF Bats
      <3> QED
        BY <2>2, <3>1, <3>2, Zenon
    <2> QED
      BY <2>1, <2>3
  <1>6. ASSUME Answered(g) PROVE \A h \in Gens : main'[h].ev = main[h].ev
    BY <1>1, <1>6 DEF Answered, Mains
  <1>7. ASSUME PersistFails(g) PROVE Quiet
    <2>1. UNCHANGED <<rows, owner, gen, live>> /\ Answered(g)
      BY <1>7 DEF PersistFails
    <2>2. \A h \in Gens : bat'[h].out = bat[h].out
      BY <1>1, <1>7 DEF PersistFails, Bats
    <2> QED
      BY <1>6, <2>1, <2>2
  <1>8. ASSUME Emit(g) PROVE Quiet
    <2>1. UNCHANGED <<rows, owner, gen>> /\ (UNCHANGED main \/ Answered(g))
      BY <1>8 DEF Emit
    <2>2. live' = [live EXCEPT ![g] = live[g] \o bat[g].out]
      BY <1>8 DEF Emit
    <2>3. bat'[g].out = <<>> /\ \A h \in Gens : h # g => bat'[h] = bat[h]
      <3> DEFINE Cleared == bat'[g].out = <<>> /\ \A h \in Gens : h # g => bat'[h] = bat[h]
      <3>1. ASSUME NEW rest, bat' = [bat EXCEPT ![g] = [bat[g] EXCEPT !.phase = "flush",
                                                          !.recs = rest, !.out = <<>>]]
            PROVE  Cleared
        BY <1>1, <3>1 DEF Bats
      <3>2. ASSUME bat' = [bat EXCEPT ![g] = [bat[g] EXCEPT !.phase = "idle", !.reqs = <<>>,
                                                            !.recs = <<>>, !.out = <<>>]]
            PROVE  Cleared
        BY <1>1, <3>2 DEF Bats
      <3>3. \/ \E rest : bat' = [bat EXCEPT ![g] = [bat[g] EXCEPT !.phase = "flush",
                                                          !.recs = rest, !.out = <<>>]]
            \/ bat' = [bat EXCEPT ![g] = [bat[g] EXCEPT !.phase = "idle", !.reqs = <<>>,
                                                            !.recs = <<>>, !.out = <<>>]]
        BY <1>8 DEF Emit
      <3> HIDE DEF Cleared
      <3>4. Cleared
        BY <3>1, <3>2, <3>3, Zenon
      <3> QED
        BY <3>4 DEF Cleared
    <2>4. live'[g] \o bat'[g].out = live[g] \o bat[g].out
      <3>1. live'[g] = live[g] \o bat[g].out /\ live[g] \o bat[g].out \in Seq(Shown)
        BY <1>1, <2>2, ConcatProperties
      <3> QED
        BY <2>3, <3>1, ConcatEmptySeq
    <2>5. \A h \in Gens : h # g => live'[h] \o bat'[h].out = live[h] \o bat[h].out
      BY <1>1, <2>2, <2>3
    <2> QED
      BY <1>6, <2>1, <2>4, <2>5
  <1>9. ASSUME DispatchSettled(g) \/ Close(g) PROVE Quiet
    <2>1. UNCHANGED <<rows, owner, gen, live, bat>>
      BY <1>9 DEF DispatchSettled, Close
    <2>2. \A h \in Gens : main'[h].ev = main[h].ev
      <3>1. PICK x : main' = [main EXCEPT ![g].stage = x]
        BY <1>9 DEF DispatchSettled, Close
      <3> QED
        BY <1>1, <3>1 DEF Mains
    <2> QED
      BY <2>1, <2>2
  <1>10. Quiet
    <2> HIDE DEF Quiet
    <2> QED
      BY <1>2, <1>3, <1>4, <1>5, <1>7, <1>8, <1>9, Zenon
  <1> QED
    BY <1>10, QuietStep, Zenon

\* Claim: an execution that has settled is never the owner again.
LEMMA ClaimReplay ==
    ASSUME Table, Replay, Claim
    PROVE  Replay'
  <1>1. ASSUME NEW h \in Gens
        PROVE  ReplayOK(h, rows', owner', gen', main'[h].ev, live'[h] \o bat'[h].out)
    <2>1. ReplayOK(h, rows, owner, gen, main[h].ev, live[h] \o bat[h].out)
      BY Zenon DEF Replay
    <2>2. /\ rows' = rows /\ owner' = gen + 1 /\ gen' = gen + 1
          /\ main'[h].ev = main[h].ev /\ live'[h] \o bat'[h].out = live[h] \o bat[h].out
      BY DEF Claim
    <2>3. h \in Nat /\ gen \in Nat
      BY DispatchAssumption DEF Table
    <2>4. main[h].ev # {} => gen >= h
      BY <2>1 DEF ReplayOK, LastOK
    <2>5. main[h].ev # {} => gen + 1 # h /\ gen + 1 >= h
      BY <2>3, <2>4
    <2>6. ReplayOK(h, rows, gen + 1, gen + 1, main[h].ev, live[h] \o bat[h].out)
      BY <2>1, <2>5, OtherRows
    <2> QED
      BY <2>2, <2>6
  <1> QED
    BY <1>1, ReplayNext, Zenon

\* Outside: the row belongs to no execution.
LEMMA OutsideReplay ==
    ASSUME Table, Replay, NEW x \in Forms, Outside(x)
    PROVE  Replay'
  <1> DEFINE r == [seq |-> nextSeq + 1, gen |-> 0, ev |->
            [id |-> x, kind |-> "approval_expired", box |-> "none", round |-> 0, seq |-> 0]]
  <1>1. rows' = rows \cup {r} /\ r.gen = 0 /\ UNCHANGED <<owner, gen, main, live, bat>>
    BY DEF Outside
  <1> HIDE DEF r
  <1>2. ASSUME NEW h \in Gens
        PROVE  ReplayOK(h, rows', owner', gen', main'[h].ev, live'[h] \o bat'[h].out)
    <2>1. ReplayOK(h, rows, owner, gen, main[h].ev, live[h] \o bat[h].out)
      BY Zenon DEF Replay
    <2>2. h # 0
      BY DispatchAssumption
    <2>3. rows \subseteq rows' /\ \A y \in rows' : y.gen = h => y \in rows
      BY <1>1, <2>2
    <2>4. main[h].ev # {} => owner # h /\ gen >= h
      BY <2>1 DEF ReplayOK, LastOK
    <2>5. ReplayOK(h, rows', owner, gen, main[h].ev, live[h] \o bat[h].out)
      BY <2>1, <2>3, <2>4, OtherRows
    <2> QED
      BY <1>1, <2>5
  <1> QED
    BY <1>2, ReplayNext, Zenon

\* Settle: the event is the last row of its execution, and not one of the scripts'.
LEMMA SettleReplay ==
    ASSUME Table, Dense, Executions, Replay, NEW g \in Gens, NEW kind \in Ending, Settle(g, kind)
    PROVE  Replay'
  <1> DEFINE r == [seq |-> nextSeq + 1, ev |-> Control(kind, g), gen |-> g]
             e == [Control(kind, g) EXCEPT !.seq = nextSeq + 1]
             s == live[g] \o bat[g].out
  <1>1. /\ rows' = rows \cup {r} /\ owner' = 0 /\ owner = g /\ main[g].stage = "running"
        /\ main' = [main EXCEPT ![g] = [stage |-> "stored", ev |-> {e}]]
        /\ UNCHANGED <<gen, live, bat>>
    BY DEF Settle
  <1>2. /\ r.gen = g /\ r.seq = nextSeq + 1 /\ r.ev.id = kind /\ e.seq = nextSeq + 1 /\ e.id = kind
        /\ r.ev \notin Events
    <2>1. /\ r.gen = g /\ r.seq = nextSeq + 1 /\ r.ev.id = kind
          /\ e.seq = nextSeq + 1 /\ e.id = kind
      BY DEF Control
    <2>2. \A x \in Events : x.id \notin Ending
      BY DispatchAssumption DEF Ending
    <2> HIDE DEF r, e
    <2> QED
      BY <2>1, <2>2
  <1> HIDE DEF r, e
  <1>3. main[g].ev = {} /\ main \in [Gens -> Mains]
    BY <1>1 DEF Executions, Good, LocalOK, SentOK
  <1>4. gen >= g /\ g # 0
    BY <1>1, DispatchAssumption DEF Table
  <1>5. \A x \in rows : x.seq \in 1 .. nextSeq
    BY DEF Dense, SequencesDense
  <1>6. ASSUME NEW h \in Gens
        PROVE  ReplayOK(h, rows', owner', gen', main'[h].ev, live'[h] \o bat'[h].out)
    <2>1. ReplayOK(h, rows, owner, gen, main[h].ev, live[h] \o bat[h].out)
      BY Zenon DEF Replay
    <2>2. CASE h # g
      <3>1. rows \subseteq rows' /\ \A y \in rows' : y.gen = h => y \in rows
        BY <1>1, <1>2, <2>2
      <3>2. main[h].ev # {} => owner' # h /\ gen >= h
        <4>1. h # 0
          BY DispatchAssumption
        <4> QED
          BY <1>1, <2>1, <4>1 DEF ReplayOK, LastOK
      <3>3. ReplayOK(h, rows', owner', gen, main[h].ev, live[h] \o bat[h].out)
        BY <2>1, <3>1, <3>2, OtherRows
      <3>4. main'[h] = main[h]
        BY <1>1, <1>3, <2>2
      <3> QED
        BY <1>1, <3>3, <3>4
    <2>3. CASE h = g
      <3>1. main'[g].ev = {e}
        BY <1>1, <1>3
      <3>2. LastOK(g, rows', owner', gen', {e})
        <4>1. \A y \in rows' : y.seq <= e.seq
          BY <1>1, <1>2, <1>5 DEF Table
        <4>2. r \in rows'
          BY <1>1
        <4> QED
          BY <1>1, <1>2, <1>4, <4>1, <4>2 DEF LastOK
      <3>3. /\ RowsShown(g, rows, s) /\ ShownBacked(g, rows, s)
            /\ \A j \in DOMAIN s : OrderedAt(s, j)
        BY <2>1, <2>3, Zenon DEF ReplayOK
      <3> HIDE DEF s
      <3>4. RowsShown(g, rows', s)
        BY <1>1, <1>2, <3>3 DEF RowsShown
      <3>5. ShownBacked(g, rows', s)
        BY <1>1, <3>3 DEF ShownBacked
      <3>6. ReplayOK(g, rows', owner', gen', {e}, s)
        BY <3>2, <3>3, <3>4, <3>5, Zenon DEF ReplayOK
      <3>7. live'[g] \o bat'[g].out = s
        BY <1>1 DEF s
      <3> QED
        BY <2>3, <3>1, <3>6, <3>7
    <2> QED
      BY <2>2, <2>3
  <1> QED
    BY <1>6, ReplayNext, Zenon

\* Entries of o behind s: one is a top when nothing before it is behind it in the table.
IsTop(s, o, j) ==
    /\ \A i \in DOMAIN s : s[i].seq <= o[j].seq
    /\ \A i \in 1 .. (j - 1) : o[i].seq <= o[j].seq

\* A chunk of tops and repetitions continues an ordered stream.
LEMMA OrderedChunk ==
    ASSUME NEW s \in Seq(Shown), NEW o \in Seq(Shown), \A j \in DOMAIN s : OrderedAt(s, j),
           \A j \in DOMAIN o :
              \/ IsTop(s, o, j)
              \/ \E p \in DOMAIN s : s[p].seq = o[j].seq
              \/ \E m \in DOMAIN o : m < j /\ o[m].seq = o[j].seq /\ IsTop(s, o, m)
    PROVE  \A j \in DOMAIN (s \o o) : OrderedAt(s \o o, j)
  <1>1. PICK S : S = s \o o
    OBVIOUS
  <1>2. PICK a \in Nat : a = Len(s)
    BY LenProperties
  <1>3. PICK b \in Nat : b = Len(o)
    BY LenProperties
  <1>4. /\ S \in Seq(Shown) /\ DOMAIN S = 1 .. (a + b) /\ DOMAIN s = 1 .. a /\ DOMAIN o = 1 .. b
        /\ \A i \in 1 .. (a + b) : S[i] = IF i <= a THEN s[i] ELSE o[i - a]
    BY <1>1, <1>2, <1>3, ConcatProperties, LenProperties
  <1>5. ASSUME NEW j \in 1 .. a PROVE OrderedAt(S, j)
    <2>1. OrderedAt(s, j)
      BY <1>4
    <2>2. \A i \in 1 .. j : i \in 1 .. (a + b) /\ i <= a
      OBVIOUS
    <2>3. \A i \in 1 .. j : S[i] = s[i]
      BY <1>4, <2>2
    <2> QED
      BY <2>1, <2>3 DEF OrderedAt
  <1>6. ASSUME NEW j \in 1 .. b, IsTop(s, o, j) PROVE OrderedAt(S, a + j)
    <2>1. PICK k \in Nat : k = a + j /\ k \in DOMAIN S /\ S[k] = o[j]
      BY <1>4
    <2>2. ASSUME NEW i \in 1 .. (k - 1) PROVE S[i].seq <= S[k].seq
      <3>1. i \in 1 .. (a + b) /\ i \in Nat /\ i < a + j
        BY <2>1
      <3>2. CASE i <= a
        <4>1. i \in DOMAIN s /\ S[i] = s[i]
          BY <1>4, <3>1, <3>2
        <4> QED
          BY <1>6, <2>1, <4>1 DEF IsTop
      <3>3. CASE i > a
        <4>1. i - a \in 1 .. (j - 1) /\ S[i] = o[i - a]
          BY <1>4, <3>1, <3>3
        <4> QED
          BY <1>6, <2>1, <4>1 DEF IsTop
      <3> QED
        BY <3>1, <3>2, <3>3
    <2>3. OrderedAt(S, k)
      BY <1>4, <2>1, <2>2, OrderedTop, Zenon
    <2> QED
      BY <2>1, <2>3
  <1>7. ASSUME NEW j \in 1 .. b, NEW p \in 1 .. (a + b), p < a + j,
               S[p].seq = o[j].seq, OrderedAt(S, p)
        PROVE  OrderedAt(S, a + j)
    <2>1. a + j \in DOMAIN S /\ S[a + j] = o[j] /\ p \in DOMAIN S
      BY <1>4
    <2>2. S[p].seq = S[a + j].seq
      BY <1>7, <2>1
    <2> QED
      BY <1>4, <1>7, <2>1, <2>2, OrderedRepeat
  <1>8. ASSUME NEW j \in 1 .. b PROVE OrderedAt(S, a + j)
    <2>1. CASE IsTop(s, o, j)
      BY <1>6, <2>1
    <2>2. CASE \E p \in DOMAIN s : s[p].seq = o[j].seq
      <3>1. PICK p \in 1 .. a : s[p].seq = o[j].seq
        BY <1>4, <2>2
      <3>2. p \in 1 .. (a + b) /\ p < a + j /\ S[p] = s[p]
        BY <1>4
      <3> QED
        BY <1>5, <1>7, <3>1, <3>2
    <2>3. CASE \E m \in DOMAIN o : m < j /\ o[m].seq = o[j].seq /\ IsTop(s, o, m)
      <3>1. PICK m \in 1 .. b : m < j /\ o[m].seq = o[j].seq /\ IsTop(s, o, m)
        BY <1>4, <2>3
      <3>2. a + m \in 1 .. (a + b) /\ a + m < a + j /\ S[a + m] = o[m]
        BY <1>4, <3>1
      <3>3. OrderedAt(S, a + m)
        BY <1>6, <3>1
      <3> QED
        BY <1>7, <3>1, <3>2, <3>3
    <2> QED
      BY <1>4, <2>1, <2>2, <2>3
  <1>9. ASSUME NEW j \in 1 .. (a + b) PROVE OrderedAt(S, j)
    <2>1. CASE j <= a
      BY <1>5, <2>1
    <2>2. CASE j > a
      <3>1. j - a \in 1 .. b /\ a + (j - a) = j
        BY <2>2
      <3>2. OrderedAt(S, a + (j - a))
        BY <1>8, <3>1
      <3> QED
        BY <3>1, <3>2
    <2> QED
      BY <2>1, <2>2
  <1> QED
    BY <1>1, <1>4, <1>9

\* Showing more keeps the rows shown, and a chunk with rows is backed like the rest.
LEMMA ShownMore ==
    ASSUME NEW g, NEW R, NEW R2, R \subseteq R2, NEW s \in Seq(Shown), NEW o \in Seq(Shown),
           RowsShown(g, R, s), ShownBacked(g, R, s),
           \A i \in DOMAIN o : \E r \in R2 : /\ r.gen = g /\ r.seq = o[i].seq
                                             /\ r.ev.id = o[i].ev.id,
           \A r \in R2 : r \in R \/ \E i \in DOMAIN o : o[i].seq = r.seq
    PROVE  RowsShown(g, R2, s \o o) /\ ShownBacked(g, R2, s \o o)
  <1>1. PICK S : S = s \o o
    OBVIOUS
  <1>2. PICK a \in Nat : a = Len(s)
    BY LenProperties
  <1>3. PICK b \in Nat : b = Len(o)
    BY LenProperties
  <1>4. /\ S \in Seq(Shown) /\ DOMAIN S = 1 .. (a + b) /\ DOMAIN s = 1 .. a /\ DOMAIN o = 1 .. b
        /\ \A i \in 1 .. (a + b) : S[i] = IF i <= a THEN s[i] ELSE o[i - a]
    BY <1>1, <1>2, <1>3, ConcatProperties, LenProperties
  <1>5. /\ \A i \in 1 .. a : i \in DOMAIN S /\ S[i] = s[i]
        /\ \A i \in 1 .. b : a + i \in DOMAIN S /\ S[a + i] = o[i]
    BY <1>4
  <1>6. RowsShown(g, R2, S)
    <2> SUFFICES ASSUME NEW r \in R2, r.gen = g, r.ev \in Events
                 PROVE  \E i \in DOMAIN S : S[i].seq = r.seq
      BY Zenon DEF RowsShown
    <2>1. CASE r \in R
      <3>1. PICK i \in DOMAIN s : s[i].seq = r.seq
        BY <2>1, Zenon DEF RowsShown
      <3> QED
        BY <1>4, <1>5, <3>1
    <2>2. CASE r \notin R
      <3>1. PICK i \in DOMAIN o : o[i].seq = r.seq
        BY <2>2
      <3>2. a + i \in DOMAIN S /\ S[a + i].seq = r.seq
        BY <1>4, <1>5, <3>1
      <3> QED
        BY <3>2, Zenon
    <2> QED
      BY <2>1, <2>2
  <1>7. ShownBacked(g, R2, S)
    <2> SUFFICES ASSUME NEW i \in 1 .. (a + b)
                 PROVE  \E r \in R2 : r.gen = g /\ r.seq = S[i].seq /\ r.ev.id = S[i].ev.id
      BY <1>4 DEF ShownBacked
    <2>1. CASE i <= a
      <3>1. i \in DOMAIN s /\ S[i] = s[i]
        BY <1>4, <2>1
      <3>2. \E r \in R : r.gen = g /\ r.seq = s[i].seq /\ r.ev.id = s[i].ev.id
        BY <3>1, Zenon DEF ShownBacked
      <3> QED
        BY <3>1, <3>2
    <2>2. CASE i > a
      <3>1. i - a \in DOMAIN o /\ S[i] = o[i - a]
        BY <1>4, <2>2
      <3> QED
        BY <3>1
    <2> QED
      BY <2>1, <2>2
  <1> QED
    BY <1>1, <1>6, <1>7

\* The chunk of an execution that has not settled: new rows take the top, everything
\* else repeats a row that was shown.
LEMMA ScriptChunk ==
    ASSUME Types, \A r \in rows : r.seq <= nextSeq, NEW g \in Gens, NEW recs \in Seq(Records),
           \A i \in DOMAIN recs : recs[i] \in Events,
           NEW s \in Seq(Shown), RowsShown(g, rows, s), ShownBacked(g, rows, s),
           \A j \in DOMAIN s : OrderedAt(s, j)
    PROVE  LET R == rows \cup NewRows(g, recs)
               o == Stored(g, recs, R)
           IN /\ RowsShown(g, R, s \o o) /\ ShownBacked(g, R, s \o o)
              /\ \A j \in DOMAIN (s \o o) : OrderedAt(s \o o, j)
  <1> DEFINE R == rows \cup NewRows(g, recs)
             o == Stored(g, recs, R)
             F == FreshAt(g, recs)
             new(i) == NewRow(g, recs, i)
  <1>1. /\ o \in Seq(Shown) /\ Len(o) = Len(recs) /\ DOMAIN o = DOMAIN recs
        /\ \A i \in DOMAIN recs :
              /\ o[i].ev = recs[i]
              /\ recs[i].seq # 0 => o[i].seq = recs[i].seq
              /\ i \in F => o[i].seq = new(i).seq
              /\ (recs[i].seq = 0 /\ i \notin F)
                 => \/ \E r \in rows : r.gen = g /\ r.ev = recs[i] /\ r.seq = o[i].seq
                    \/ \E m \in F : m < i /\ recs[m] = recs[i] /\ o[m].seq = o[i].seq
    <2>1. R = rows \cup NewRows(g, recs)
      OBVIOUS
    <2> HIDE DEF R
    <2>2. StoredOK(g, recs, Stored(g, recs, R))
      BY <2>1, StoredProperties, Zenon
    <2> QED
      BY <2>2, Zenon DEF StoredOK
  <1>2. /\ F \in SUBSET DOMAIN recs /\ F \in SUBSET Nat /\ IsFiniteSet(F) /\ nextSeq \in Nat
        /\ DOMAIN recs = 1 .. Len(recs) /\ Len(recs) \in Nat
    BY FreshProperties, LenProperties DEF Types
  <1>3. NewRows(g, recs) = {new(i) : i \in F}
    BY <1>2, NewRowsByRank, Zenon
  <1>4. \A i \in F : /\ new(i).seq = nextSeq + 1 + Rank(F, i) /\ Rank(F, i) \in Nat
                     /\ new(i).ev = recs[i] /\ new(i).gen = g /\ new(i) \in R
    <2>1. \A i \in F : Rank(F, i) \in Nat
      BY <1>2, RankBound, Zenon
    <2>2. \A i \in F : new(i) \in R
      BY <1>3, Zenon
    <2>3. \A i \in F : new(i).seq = nextSeq + 1 + Rank(F, i) /\ new(i).ev = recs[i] /\ new(i).gen = g
      BY DEF NewRow
    <2> QED
      BY <2>1, <2>2, <2>3, Zenon
  <1>5. \A i \in DOMAIN recs : recs[i].seq = 0
    BY DispatchAssumption
  <1>6. \A r \in rows : r.seq \in Nat
    BY DEF Types
  <1>7. rows \subseteq R
    OBVIOUS
  <1>8. \A r \in R : r \in rows \/ \E i \in F : r = new(i)
    BY <1>3
  <1> HIDE DEF R, o, F, new
  <1>9. \A i \in DOMAIN recs : i \notin F
             => \/ \E r \in rows : r.gen = g /\ r.ev = recs[i] /\ r.seq = o[i].seq
                \/ \E m \in F : m < i /\ recs[m] = recs[i] /\ o[m].seq = o[i].seq
    BY <1>1, <1>5, Zenon
  <1>10. \A i \in DOMAIN o : \E r \in R : r.gen = g /\ r.seq = o[i].seq /\ r.ev.id = o[i].ev.id
    <2> SUFFICES ASSUME NEW i \in DOMAIN recs
                 PROVE  \E r \in R : r.gen = g /\ r.seq = o[i].seq /\ r.ev.id = o[i].ev.id
      BY <1>1
    <2>1. CASE i \in F
      <3>1. new(i).gen = g /\ new(i).seq = o[i].seq /\ new(i).ev = o[i].ev /\ new(i) \in R
        BY <1>1, <1>4, <2>1, Zenon
      <3> QED
        BY <3>1
    <2>2. CASE \E r \in rows : r.gen = g /\ r.ev = recs[i] /\ r.seq = o[i].seq
      BY <1>1, <1>7, <2>2
    <2>3. CASE \E m \in F : m < i /\ recs[m] = recs[i] /\ o[m].seq = o[i].seq
      <3>1. PICK m \in F : recs[m] = recs[i] /\ o[m].seq = o[i].seq
        BY <2>3
      <3>2. new(m).gen = g /\ new(m).seq = o[i].seq /\ new(m).ev = o[i].ev /\ new(m) \in R
        BY <1>1, <1>2, <1>4, <3>1
      <3> QED
        BY <3>2
    <2> QED
      BY <1>9, <2>1, <2>2, <2>3
  <1>11. \A r \in R : r \in rows \/ \E i \in DOMAIN o : o[i].seq = r.seq
    <2>1. \A i \in F : i \in DOMAIN o /\ o[i].seq = new(i).seq
      BY <1>1, <1>2
    <2> QED
      BY <1>8, <2>1
  <1>12. RowsShown(g, R, s \o o) /\ ShownBacked(g, R, s \o o)
    <2>1. o \in Seq(Shown)
      BY <1>1, Zenon
    <2> QED
      BY <1>10, <1>11, <1>7, <2>1, ShownMore, Zenon
  <1>13. \A i \in DOMAIN s : s[i].seq \in Nat /\ s[i].seq <= nextSeq
    <2> SUFFICES ASSUME NEW i \in DOMAIN s PROVE s[i].seq \in Nat /\ s[i].seq <= nextSeq
      OBVIOUS
    <2>1. PICK r \in rows : r.seq = s[i].seq
      BY Zenon DEF ShownBacked
    <2> QED
      BY <1>6, <2>1
  <1>14. ASSUME NEW j \in F PROVE IsTop(s, o, j)
    <2>1. o[j].seq = nextSeq + 1 + Rank(F, j) /\ Rank(F, j) \in Nat /\ j \in Nat
      BY <1>1, <1>2, <1>4, Zenon
    <2>2. ASSUME NEW i \in F, i < j PROVE o[i].seq <= o[j].seq
      <3>1. o[i].seq = nextSeq + 1 + Rank(F, i) /\ Rank(F, i) \in Nat
        BY <1>1, <1>2, <1>4, Zenon
      <3>2. Rank(F, i) < Rank(F, j)
        BY <1>2, <2>2, RankLess, Zenon
      <3> QED
        BY <1>2, <2>1, <3>1, <3>2
    <2>3. ASSUME NEW i \in 1 .. (j - 1) PROVE o[i].seq <= o[j].seq
      <3>1. i \in DOMAIN recs /\ i < j /\ i \in Nat
        BY <1>2
      <3>2. CASE i \in F
        BY <2>2, <3>1, <3>2
      <3>3. CASE \E r \in rows : r.gen = g /\ r.ev = recs[i] /\ r.seq = o[i].seq
        <4>1. PICK r \in rows : r.seq = o[i].seq
          BY <3>3
        <4> QED
          BY <1>2, <1>6, <2>1, <4>1
      <3>4. CASE \E m \in F : m < i /\ recs[m] = recs[i] /\ o[m].seq = o[i].seq
        <4>1. PICK m \in F : m < i /\ o[m].seq = o[i].seq
          BY <3>4
        <4>2. m < j
          BY <1>2, <2>1, <3>1, <4>1
        <4> QED
          BY <2>2, <4>1, <4>2
      <3> QED
        BY <1>9, <3>1, <3>2, <3>3, <3>4, Zenon
    <2>4. \A i \in DOMAIN s : s[i].seq <= o[j].seq
      BY <1>2, <1>13, <2>1
    <2> QED
      BY <2>3, <2>4, Zenon DEF IsTop
  <1>15. ASSUME NEW j \in DOMAIN o
         PROVE  \/ IsTop(s, o, j)
                \/ \E p \in DOMAIN s : s[p].seq = o[j].seq
                \/ \E m \in DOMAIN o : m < j /\ o[m].seq = o[j].seq /\ IsTop(s, o, m)
    <2>1. CASE j \in F
      BY <1>14, <2>1
    <2>2. CASE \E r \in rows : r.gen = g /\ r.ev = recs[j] /\ r.seq = o[j].seq
      <3>1. PICK r \in rows : r.gen = g /\ r.ev = recs[j] /\ r.seq = o[j].seq
        BY <2>2
      <3>2. r.ev \in Events
        BY <1>1, <3>1
      <3>3. \E p \in DOMAIN s : s[p].seq = r.seq
        BY <3>1, <3>2, Zenon DEF RowsShown
      <3> QED
        BY <3>1, <3>3
    <2>3. CASE \E m \in F : m < j /\ recs[m] = recs[j] /\ o[m].seq = o[j].seq
      BY <1>1, <1>2, <1>14, <2>3
    <2> QED
      BY <1>1, <1>9, <2>1, <2>2, <2>3, Zenon
  <1> QED
    BY <1>1, <1>12, <1>15, OrderedChunk, Zenon DEF R, o

\* The chunk of an execution that has settled holds settled events only: they are
\* published with the sequence they came with, the last of the execution.
LEMMA SettledChunk ==
    ASSUME Types, NEW g \in Gens, NEW recs \in Seq(Records), NEW own, NEW gn,
           NEW E \in SUBSET SettledEvents, \A i \in DOMAIN recs : recs[i] \in E,
           NEW s \in Seq(Shown), ReplayOK(g, rows, own, gn, E, s)
    PROVE  /\ NewRows(g, recs) = {}
           /\ ReplayOK(g, rows, own, gn, E, s \o Stored(g, recs, rows))
  <1>1. \A i \in DOMAIN recs : recs[i].seq \in Nat \ {0}
    <2>1. \A e \in SettledEvents : e.seq \in Nat \ {0}
      BY RecordFields
    <2> QED
      BY <2>1, Zenon
  <1>2. FreshAt(g, recs) = {}
    BY <1>1, FreshProperties
  <1>3. NewRows(g, recs) = {}
    <2>1. nextSeq \in Nat
      BY DEF Types
    <2>2. NewRows(g, recs) = {NewRow(g, recs, i) : i \in FreshAt(g, recs)}
      BY <2>1, NewRowsByRank, Zenon
    <2> QED
      BY <1>2, <2>2
  <1>4. PICK o : o = Stored(g, recs, rows)
    OBVIOUS
  <1>5. /\ o \in Seq(Shown) /\ DOMAIN o = DOMAIN recs
        /\ \A i \in DOMAIN recs : o[i].ev = recs[i] /\ o[i].seq = recs[i].seq
    <2>1. rows = rows \cup NewRows(g, recs)
      BY <1>3
    <2>2. /\ o \in Seq(Shown) /\ DOMAIN o = DOMAIN recs
          /\ \A i \in DOMAIN recs : /\ o[i].ev = recs[i]
                                    /\ recs[i].seq # 0 => o[i].seq = recs[i].seq
      BY <1>4, <2>1, StoredProperties DEF StoredOK
    <2> QED
      BY <1>1, <2>2
  <1>6. /\ LastOK(g, rows, own, gn, E) /\ RowsShown(g, rows, s) /\ ShownBacked(g, rows, s)
        /\ \A j \in DOMAIN s : OrderedAt(s, j)
    BY Zenon DEF ReplayOK
  <1>7. \A i \in DOMAIN o : \E r \in rows : /\ r.gen = g /\ r.seq = o[i].seq
                                            /\ r.ev.id = o[i].ev.id
    <2> SUFFICES ASSUME NEW i \in DOMAIN recs
                 PROVE  \E r \in rows : r.gen = g /\ r.seq = o[i].seq /\ r.ev.id = o[i].ev.id
      BY <1>5
    <2>1. \E r \in rows : r.gen = g /\ r.seq = recs[i].seq /\ r.ev.id = recs[i].id
      BY <1>6, Zenon DEF LastOK
    <2> QED
      BY <1>5, <2>1
  <1>8. RowsShown(g, rows, s \o o) /\ ShownBacked(g, rows, s \o o)
    BY <1>5, <1>6, <1>7, ShownMore, Zenon
  <1>9. ASSUME NEW j \in DOMAIN o PROVE IsTop(s, o, j)
    <2>1. \A r \in rows : r.gen = g => r.seq <= o[j].seq
      BY <1>5, <1>6 DEF LastOK
    <2>2. ASSUME NEW i \in DOMAIN s PROVE s[i].seq <= o[j].seq
      <3>1. PICK r \in rows : r.gen = g /\ r.seq = s[i].seq
        BY <1>6, Zenon DEF ShownBacked
      <3> QED
        BY <2>1, <3>1
    <2>3. ASSUME NEW i \in 1 .. (j - 1) PROVE o[i].seq <= o[j].seq
      <3>1. i \in DOMAIN o
        BY <1>5, LenProperties
      <3>2. PICK r \in rows : r.gen = g /\ r.seq = o[i].seq
        BY <1>7, <3>1, Zenon
      <3> QED
        BY <2>1, <3>2
    <2> QED
      BY <2>2, <2>3, Zenon DEF IsTop
  <1>10. \A j \in DOMAIN (s \o o) : OrderedAt(s \o o, j)
    BY <1>5, <1>6, <1>9, OrderedChunk, Zenon
  <1> QED
    BY <1>3, <1>4, <1>6, <1>8, <1>10, Zenon DEF ReplayOK

\* Persist: the rows of others do not change, and the chunk continues the stream of its
\* own execution whether that has settled or not.
LEMMA PersistReplay ==
    ASSUME Table, Dense, Executions, Replay, NEW g \in Gens, Persist(g)
    PROVE  Replay'
  <1>1. Types
    BY TypesOf, Zenon
  <1>2. PICK recs : recs = Chunk(g)
    OBVIOUS
  <1>3. /\ rows' = rows \cup NewRows(g, recs) /\ (ToStore(recs) => owner = g)
        /\ bat' = [bat EXCEPT ![g] = [bat[g] EXCEPT !.phase = "emit",
                                                    !.out = Stored(g, recs, rows')]]
        /\ bat[g].phase = "flush" /\ UNCHANGED <<owner, gen, main, live>>
    BY <1>2 DEF Persist
  <1>4. /\ recs \in Seq(Records) /\ DOMAIN recs = 1 .. Len(recs) /\ Len(recs) <= Len(bat[g].recs)
        /\ \A i \in DOMAIN recs : recs[i] = bat[g].recs[i]
    <2>1. /\ Chunk(g) \in Seq(Records) /\ DOMAIN Chunk(g) = 1 .. Len(Chunk(g))
          /\ Len(Chunk(g)) <= Len(bat[g].recs)
          /\ \A i \in 1 .. Len(Chunk(g)) : Chunk(g)[i] = bat[g].recs[i]
      BY <1>1, ChunkProperties, Zenon
    <2> QED
      BY <1>2, <2>1
  <1>5. /\ bat \in [Gens -> Bats] /\ bat[g] \in Bats /\ live[g] \in Seq(Shown)
        /\ main[g].ev \in SUBSET SettledEvents
    BY DEF Executions, Mains
  <1>6. bat[g].out = <<>> /\ \A i \in DOMAIN recs : recs[i] \in Events \cup main[g].ev
    <2>1. LocalOK(g, disp[g], queue[g], bat[g], thr[g], main[g], failed[g], live[g])
      BY Zenon DEF Executions, Good
    <2>2. bat[g].out = <<>>
      BY <1>3, <2>1 DEF LocalOK, PhaseOK
    <2>3. ToSet(bat[g].recs) \subseteq Events \cup main[g].ev
      BY <2>1 DEF LocalOK, SentOK, Queued
    <2>4. bat[g].recs \in Seq(Records)
      BY <1>5 DEF Bats
    <2>5. \A i \in DOMAIN recs : i \in DOMAIN bat[g].recs
      BY <1>4, <2>4, LenProperties
    <2>6. \A i \in DOMAIN bat[g].recs : bat[g].recs[i] \in ToSet(bat[g].recs)
      BY DEF ToSet
    <2> QED
      BY <1>4, <2>2, <2>3, <2>5, <2>6
  <1>7. bat'[g].out = Stored(g, recs, rows') /\ \A h \in Gens : h # g => bat'[h] = bat[h]
    BY <1>3, <1>5 DEF Bats
  <1>8. \A r \in NewRows(g, recs) : r.gen = g
    BY <1>4, NewRowsProperties DEF Table
  <1>9. ASSUME NEW h \in Gens, h # g
        PROVE  ReplayOK(h, rows', owner', gen', main'[h].ev, live'[h] \o bat'[h].out)
    <2>1. ReplayOK(h, rows, owner, gen, main[h].ev, live[h] \o bat[h].out)
      BY Zenon DEF Replay
    <2>2. rows \subseteq rows' /\ \A r \in rows' : r.gen = h => r \in rows
      BY <1>3, <1>8, <1>9
    <2>3. main[h].ev # {} => owner # h /\ gen >= h
      BY <2>1 DEF ReplayOK, LastOK
    <2>4. ReplayOK(h, rows', owner, gen, main[h].ev, live[h] \o bat[h].out)
      BY <2>1, <2>2, <2>3, OtherRows
    <2> QED
      BY <1>3, <1>7, <1>9, <2>4
  <1>10. ReplayOK(g, rows, owner, gen, main[g].ev, live[g])
    <2>1. ReplayOK(g, rows, owner, gen, main[g].ev, live[g] \o bat[g].out)
      BY Zenon DEF Replay
    <2>2. live[g] \o bat[g].out = live[g]
      BY <1>5, <1>6, ConcatEmptySeq
    <2> QED
      BY <2>1, <2>2
  <1>11. ASSUME main[g].ev = {}
         PROVE  ReplayOK(g, rows', owner, gen, main[g].ev, live[g] \o Stored(g, recs, rows'))
    <2>1. \A r \in rows : r.seq <= nextSeq
      BY DEF Dense, SequencesDense, Table
    <2>2. \A i \in DOMAIN recs : recs[i] \in Events
      BY <1>6, <1>11
    <2>3. /\ RowsShown(g, rows, live[g]) /\ ShownBacked(g, rows, live[g])
          /\ \A j \in DOMAIN live[g] : OrderedAt(live[g], j)
      BY <1>10, Zenon DEF ReplayOK
    <2> DEFINE R == rows \cup NewRows(g, recs)
               o == Stored(g, recs, R)
    <2>4. /\ RowsShown(g, R, live[g] \o o) /\ ShownBacked(g, R, live[g] \o o)
          /\ \A j \in DOMAIN (live[g] \o o) : OrderedAt(live[g] \o o, j)
      BY <1>1, <1>4, <1>5, <2>1, <2>2, <2>3, ScriptChunk
    <2>5. R = rows' /\ o = Stored(g, recs, rows')
      BY <1>3
    <2> HIDE DEF R, o
    <2>6. LastOK(g, rows', owner, gen, main[g].ev)
      BY <1>11 DEF LastOK
    <2> QED
      BY <2>4, <2>5, <2>6 DEF ReplayOK
  <1>12. ASSUME main[g].ev # {}
         PROVE  ReplayOK(g, rows', owner, gen, main[g].ev, live[g] \o Stored(g, recs, rows'))
    <2>1. owner # g
      BY <1>10, <1>12 DEF ReplayOK, LastOK
    <2>2. \A i \in DOMAIN recs : recs[i].seq # 0
      BY <1>3, <2>1 DEF ToStore
    <2>3. \A i \in DOMAIN recs : recs[i] \in main[g].ev
      BY <1>6, <2>2, RecordFields
    <2>4. /\ NewRows(g, recs) = {}
          /\ ReplayOK(g, rows, owner, gen, main[g].ev, live[g] \o Stored(g, recs, rows))
      BY <1>1, <1>4, <1>5, <1>10, <2>3, SettledChunk
    <2>5. rows' = rows
      BY <1>3, <2>4
    <2> QED
      BY <2>4, <2>5
  <1>13. ReplayOK(g, rows', owner', gen', main'[g].ev, live'[g] \o bat'[g].out)
    <2>1. ReplayOK(g, rows', owner, gen, main[g].ev, live[g] \o Stored(g, recs, rows'))
      BY <1>11, <1>12, Zenon
    <2> QED
      BY <1>3, <1>7, <2>1
  <1>14. \A h \in Gens :
            ReplayOK(h, rows', owner', gen', main'[h].ev, live'[h] \o bat'[h].out)
    BY <1>9, <1>13, Zenon
  <1> QED
    BY <1>14, ReplayNext, Zenon

\* Every step keeps the live streams in agreement with the table.
LEMMA ReplayStep ==
    ASSUME IInv, Replay, [Next]_vars
    PROVE  Replay'
  <1>1. Table /\ Dense /\ Executions
    BY DEF IInv
  <1>2. ASSUME NEW g \in Gens,
               \/ \E t \in Threads : Dispatch(g, t)
               \/ TakeFirst(g) \/ CollectNext(g) \/ WindowEnds(g) \/ BatcherExits(g)
               \/ PersistFails(g) \/ Emit(g) \/ DispatchSettled(g) \/ Close(g) \/ CloseBatcher(g)
        PROVE  Replay'
    BY <1>1, <1>2, QuietActions, Zenon
  <1>3. ASSUME NEW g \in Gens, Persist(g) PROVE Replay'
    BY <1>1, <1>3, PersistReplay, Zenon
  <1>4. ASSUME NEW g \in Gens, NEW kind \in {"workflow_finished", "workflow_paused"}, Settle(g, kind)
        PROVE  Replay'
    BY <1>1, <1>4, SettleReplay DEF Ending
  <1>5. ASSUME Claim PROVE Replay'
    BY <1>1, <1>5, ClaimReplay, Zenon
  <1>6. ASSUME NEW x \in Forms, Outside(x) PROVE Replay'
    BY <1>1, <1>6, OutsideReplay, Zenon
  <1>7. ASSUME UNCHANGED vars PROVE Replay'
    <2>1. UNCHANGED <<rows, owner, gen, main, live, bat>>
      BY <1>7 DEF vars
    <2> QED
      BY <2>1, QuietStep
  <1> QED
    BY <1>2, <1>3, <1>4, <1>5, <1>6, <1>7, Zenon DEF Next

\* What is appended to a stream leaves its front alone.
LEMMA ConcatFront ==
    ASSUME NEW s \in Seq(Shown), NEW o \in Seq(Shown), NEW j \in DOMAIN s
    PROVE  j \in DOMAIN (s \o o) /\ \A i \in 1 .. j : (s \o o)[i] = s[i]
  <1>1. PICK S : S = s \o o
    OBVIOUS
  <1>2. PICK a \in Nat : a = Len(s)
    BY LenProperties
  <1>3. PICK b \in Nat : b = Len(o)
    BY LenProperties
  <1>4. /\ S \in Seq(Shown) /\ DOMAIN S = 1 .. (a + b) /\ DOMAIN s = 1 .. a
        /\ \A i \in 1 .. (a + b) : S[i] = IF i <= a THEN s[i] ELSE o[i - a]
    BY <1>1, <1>2, <1>3, ConcatProperties, LenProperties
  <1>5. j \in 1 .. (a + b) /\ \A i \in 1 .. j : i \in 1 .. (a + b) /\ i <= a
    BY <1>4
  <1> QED
    BY <1>1, <1>4, <1>5

\* The streams agree with the table in every reachable state.
THEOREM ReplayHolds == Spec => []Replay
  <1>1. Init => Replay
    <2> SUFFICES ASSUME Init, NEW g \in Gens
                 PROVE  ReplayOK(g, rows, owner, gen, main[g].ev, live[g] \o bat[g].out)
      BY DEF Replay
    <2>1. rows = {} /\ main[g].ev = {} /\ live[g] = <<>> /\ bat[g].out = <<>>
      BY DEF Init, NoBatch
    <2>2. live[g] \o bat[g].out = <<>> /\ DOMAIN (live[g] \o bat[g].out) = {}
      BY <2>1
    <2> QED
      BY <2>1, <2>2 DEF ReplayOK, LastOK, RowsShown, ShownBacked
  <1>2. IInv /\ Replay /\ [Next]_vars => Replay'
    BY ReplayStep, Zenon
  <1> QED
    BY <1>1, <1>2, Inductive, PTL DEF Spec

\* Durable before visible: what an execution has shown live is in the table under the
\* sequence it was shown with, and rows are first shown in the order of the log.
THEOREM LiveReplay == Spec => []LiveIsReplay
  <1>1. IInv /\ Replay => LiveIsReplay
    <2> SUFFICES ASSUME IInv, Replay, NEW g \in Gens, NEW j \in DOMAIN live[g]
                 PROVE  /\ \E r \in rows : r.seq = live[g][j].seq /\ r.ev.id = live[g][j].ev.id
                        /\ OrderedAt(live[g], j)
      BY Zenon DEF LiveIsReplay, OrderedAt
    <2>1. live[g] \in Seq(Shown) /\ bat[g].out \in Seq(Shown)
      BY DEF IInv, Executions, Bats
    <2>2. PICK s : s = live[g] \o bat[g].out
      OBVIOUS
    <2>3. /\ \A i \in DOMAIN s : \E r \in rows : r.seq = s[i].seq /\ r.ev.id = s[i].ev.id
          /\ \A i \in DOMAIN s : OrderedAt(s, i)
      <3>1. ReplayOK(g, rows, owner, gen, main[g].ev, live[g] \o bat[g].out)
        BY Zenon DEF Replay
      <3>2. ReplayOK(g, rows, owner, gen, main[g].ev, s)
        BY <2>2, <3>1
      <3> QED
        BY <3>2, Zenon DEF ReplayOK, ShownBacked
    <2>4. j \in DOMAIN s /\ \A i \in 1 .. j : s[i] = live[g][i]
      <3>1. /\ j \in DOMAIN (live[g] \o bat[g].out)
            /\ \A i \in 1 .. j : (live[g] \o bat[g].out)[i] = live[g][i]
        BY <2>1, ConcatFront, Zenon
      <3> QED
        BY <2>2, <3>1
    <2>5. s[j] = live[g][j] /\ j \in Nat
      BY <2>1, <2>4, LenProperties
    <2>6. OrderedAt(live[g], j)
      <3>1. OrderedAt(s, j)
        BY <2>3, <2>4
      <3> QED
        BY <2>4, <2>5, <3>1 DEF OrderedAt
    <2> QED
      BY <2>3, <2>4, <2>5, <2>6
  <1> QED
    BY <1>1, ReplayHolds, Inductive, PTL

-----------------------------------------------------------------------------
(* Who writes what into the log, and what a step appends to it.             *)

\* The event that a form handler or scanner appends.
FormEvent(f) ==
    [id |-> f, kind |-> "approval_expired", box |-> "none", round |-> 0, seq |-> 0]

\* Who may have written which row: no execution that is still to come, form handlers
\* under generation 0, and the event that ends an execution only when it settled.
Fenced ==
    /\ outside \subseteq Forms
    /\ over => owner = 0
    /\ \A r \in rows : /\ r.gen <= gen
                       /\ r.gen = 0 => \E f \in outside : r.ev = FormEvent(f)
                       /\ r.gen # 0 /\ r.ev.id \in Ending => main[r.gen].ev # {}
                       /\ r.ev.kind = "workflow_finished" => over

\* A step that appends nothing and settles nothing.
LEMMA FencedQuiet ==
    ASSUME Table, Fenced, UNCHANGED <<rows, owner, over, outside, gen>>,
           \A h \in Gens : main'[h].ev = main[h].ev
    PROVE  Fenced'
  <1>1. \A r \in rows : r.gen # 0 => r.gen \in Gens
    BY DEF Table
  <1> QED
    BY <1>1 DEF Fenced, FormEvent

\* Every step keeps the rows of the table with those who may have written them.
LEMMA FencedStep ==
    ASSUME IInv, Fenced, [Next]_vars
    PROVE  Fenced'
  <1>1. Table /\ Dense /\ Executions /\ Types
    BY TypesOf, Zenon DEF IInv
  <1>2. main \in [Gens -> Mains] /\ gen \in Nat /\ gen # 0 /\ Gens \subseteq Nat \ {0}
    BY <1>1, DispatchAssumption DEF Executions, Table
  <1>3. \A e \in Events : e.id \notin Ending /\ e.kind \notin Ending
    BY DispatchAssumption DEF Ending
  <1>4. ASSUME NEW g \in Gens, Answered(g) PROVE \A h \in Gens : main'[h].ev = main[h].ev
    BY <1>2, <1>4 DEF Answered, Mains
  <1>5. ASSUME NEW g \in Gens,
               \/ \E t \in Threads : Dispatch(g, t)
               \/ TakeFirst(g) \/ CollectNext(g) \/ WindowEnds(g) \/ BatcherExits(g)
               \/ PersistFails(g) \/ Emit(g) \/ DispatchSettled(g) \/ Close(g) \/ CloseBatcher(g)
        PROVE  Fenced'
    <2>1. UNCHANGED <<rows, owner, over, outside, gen>>
      BY <1>5 DEF Dispatch, TakeFirst, CollectNext, WindowEnds, BatcherExits, BatcherOnly,
                  PersistFails, Emit, DispatchSettled, Close, CloseBatcher
    <2>2. UNCHANGED main \/ Answered(g) \/ \E x : main' = [main EXCEPT ![g].stage = x]
      BY <1>5 DEF Dispatch, TakeFirst, CollectNext, WindowEnds, BatcherExits, BatcherOnly,
                  PersistFails, Emit, DispatchSettled, Close, CloseBatcher
    <2>3. ASSUME NEW x, main' = [main EXCEPT ![g].stage = x]
          PROVE  \A h \in Gens : main'[h].ev = main[h].ev
      BY <1>2, <2>3 DEF Mains
    <2>4. \A h \in Gens : main'[h].ev = main[h].ev
      BY <1>4, <2>2, <2>3, Zenon
    <2> QED
      BY <1>1, <2>1, <2>4, FencedQuiet, Zenon
  <1>6. ASSUME NEW g \in Gens, Persist(g) PROVE Fenced'
    <2>1. /\ Chunk(g) \in Seq(Records) /\ rows' = rows \cup NewRows(g, Chunk(g)) /\ nextSeq \in Nat
          /\ (ToStore(Chunk(g)) => owner = g) /\ UNCHANGED <<owner, over, outside, gen, main>>
      BY <1>1, <1>6, ChunkProperties DEF Persist, Table
    <2>2. ASSUME NEW r \in NewRows(g, Chunk(g))
          PROVE  r.gen = g /\ r.ev \in Events /\ g = gen
      <3>1. r.gen = g /\ r.ev \in Events
        BY <2>1, NewRowsProperties
      <3>2. PICK i \in FreshAt(g, Chunk(g)) : TRUE
        BY <2>1, NewRowsByRank, Zenon
      <3>3. i \in DOMAIN Chunk(g) /\ Chunk(g)[i].seq = 0
        BY <2>1, FreshProperties, Zenon
      <3>4. owner = g
        BY <2>1, <3>3, Zenon DEF ToStore
      <3> QED
        BY <1>1, <1>2, <3>1, <3>4 DEF Table
    <2>3. ASSUME NEW r \in rows'
          PROVE  /\ r.gen <= gen'
                 /\ r.gen = 0 => \E f \in outside' : r.ev = FormEvent(f)
                 /\ r.gen # 0 /\ r.ev.id \in Ending => main'[r.gen].ev # {}
                 /\ r.ev.kind = "workflow_finished" => over'
      <3>1. CASE r \in rows
        BY <2>1, <3>1 DEF Fenced
      <3>2. CASE r \in NewRows(g, Chunk(g))
        <4>1. r.gen = g /\ r.ev \in Events /\ g = gen
          BY <2>2, <3>2
        <4> QED
          BY <1>2, <1>3, <2>1, <4>1 DEF Ending
      <3> QED
        BY <2>1, <2>3, <3>1, <3>2, Zenon
    <2>4. outside' \subseteq Forms /\ (over' => owner' = 0)
      BY <2>1 DEF Fenced
    <2> QED
      BY <2>3, <2>4 DEF Fenced, FormEvent
  <1>7. ASSUME NEW g \in Gens, NEW kind \in Ending, Settle(g, kind) PROVE Fenced'
    <2> DEFINE r == [seq |-> nextSeq + 1, ev |-> Control(kind, g), gen |-> g]
    <2>1. /\ rows' = rows \cup {r} /\ owner = g /\ owner' = 0
          /\ kind = "workflow_finished" => over'
          /\ UNCHANGED <<outside, gen>>
      BY <1>7 DEF Settle
    <2>2. /\ \A h \in Gens : main[h].ev # {} => main'[h].ev # {}
          /\ main'[g].ev # {}
      BY <1>2, <1>7 DEF Settle, Mains
    <2>3. r.gen = g /\ r.ev.kind = kind /\ r.ev.id = kind
      BY DEF Control
    <2>4. g = gen /\ ~over
      BY <1>1, <1>2, <2>1 DEF Table, Fenced
    <2> HIDE DEF r
    <2>5. ASSUME NEW x \in rows
          PROVE  /\ x.gen <= gen'
                 /\ x.gen = 0 => \E f \in outside' : x.ev = FormEvent(f)
                 /\ x.gen # 0 /\ x.ev.id \in Ending => main'[x.gen].ev # {}
                 /\ x.ev.kind = "workflow_finished" => over'
      <3>1. x.gen # 0 => x.gen \in Gens
        BY <1>1 DEF Table
      <3> QED
        BY <2>1, <2>2, <2>4, <3>1 DEF Fenced
    <2>6. /\ r.gen <= gen' /\ r.gen # 0 /\ main'[r.gen].ev # {}
          /\ r.ev.kind = "workflow_finished" => over'
      BY <1>2, <2>1, <2>2, <2>3, <2>4
    <2>7. outside' \subseteq Forms /\ (over' => owner' = 0)
      BY <2>1 DEF Fenced
    <2> QED
      BY <2>1, <2>5, <2>6, <2>7 DEF Fenced, FormEvent
  <1>8. CASE Claim
    <2>1. /\ ~over /\ gen' = gen + 1 /\ UNCHANGED <<rows, over, outside, main>>
      BY <1>8 DEF Claim
    <2>2. \A r \in rows : r.gen \in Nat
      <3>1. \A r \in rows : r.gen \in Gens \cup {0}
        BY <1>1, Zenon DEF Table
      <3>2. \A x \in Gens \cup {0} : x \in Nat
        BY DispatchAssumption
      <3> QED
        BY <3>1, <3>2, Zenon
    <2> QED
      BY <1>2, <2>1, <2>2 DEF Fenced, FormEvent
  <1>9. ASSUME NEW x \in Forms, Outside(x) PROVE Fenced'
    <2> DEFINE r == [seq |-> nextSeq + 1, gen |-> 0, ev |-> FormEvent(x)]
    <2>1. /\ rows' = rows \cup {r} /\ outside' = outside \cup {x}
          /\ UNCHANGED <<owner, over, gen, main>>
      BY <1>9 DEF Outside, FormEvent
    <2>2. r.gen = 0 /\ r.ev = FormEvent(x) /\ r.ev.kind = "approval_expired"
      BY DEF FormEvent
    <2> HIDE DEF r
    <2>3. ASSUME NEW y \in rows'
          PROVE  /\ y.gen <= gen'
                 /\ y.gen = 0 => \E f \in outside' : y.ev = FormEvent(f)
                 /\ y.gen # 0 /\ y.ev.id \in Ending => main'[y.gen].ev # {}
                 /\ y.ev.kind = "workflow_finished" => over'
      <3>1. CASE y \in rows
        BY <2>1, <3>1 DEF Fenced
      <3>2. CASE y = r
        <4>1. 0 <= gen'
          BY <1>2, <2>1
        <4> QED
          BY <2>1, <2>2, <3>2, <4>1
      <3> QED
        BY <2>1, <2>3, <3>1, <3>2, Zenon
    <2>4. outside' \subseteq Forms /\ (over' => owner' = 0)
      BY <2>1 DEF Fenced
    <2> QED
      BY <2>3, <2>4 DEF Fenced, FormEvent
  <1>10. CASE UNCHANGED vars
    <2>1. UNCHANGED <<rows, owner, over, outside, gen, main>>
      BY <1>10 DEF vars
    <2>2. \A h \in Gens : main'[h].ev = main[h].ev
      BY <2>1
    <2> QED
      BY <1>1, <2>1, <2>2, FencedQuiet, Zenon
  <1> QED
    BY <1>5, <1>6, <1>7, <1>8, <1>9, <1>10, Zenon DEF Next, Ending

-----------------------------------------------------------------------------
(* The log as a sequence.                                                   *)

\* The entry of a row, and the log of table R: the entries in the order of the sequences.
EntryOf(r) == [id |-> r.ev.id, kind |-> r.ev.kind, gen |-> r.gen]
LogFrom(R) == [n \in 1 .. Cardinality(R) |-> EntryOf(CHOOSE x \in R : x.seq = n)]

\* A table whose sequences are dense lists every row once.
DenseIn(R, N) == IsFiniteSet(R) /\ Cardinality(R) = N /\ {r.seq : r \in R} = 1 .. N

\* The log of a dense table has the entry of a row at the row's sequence.
LEMMA LogEntries ==
    ASSUME NEW R, NEW N \in Nat, DenseIn(R, N)
    PROVE  /\ LogFrom(R) \in Seq({EntryOf(r) : r \in R}) /\ Len(LogFrom(R)) = N
           /\ DOMAIN LogFrom(R) = 1 .. N
           /\ \A r \in R : r.seq \in 1 .. N /\ LogFrom(R)[r.seq] = EntryOf(r)
           /\ \A n \in 1 .. N : \E r \in R : r.seq = n
  <1> DEFINE f == [r \in R |-> r.seq]
             T == 1 .. N
  <1>1. IsFiniteSet(R) /\ Cardinality(R) = N /\ \A r \in R : r.seq \in 1 .. N
    BY DEF DenseIn
  <1>2. \A n \in 1 .. N : \E r \in R : r.seq = n
    BY DEF DenseIn
  <1>3. Cardinality(T) = N
    <2>1. Cardinality(T) = IF 1 > N THEN 0 ELSE N - 1 + 1
      BY FS_Interval
    <2> QED
      BY <2>1
  <1>4. f \in [R -> T] /\ \A n \in T : \E r \in R : f[r] = n
    BY <1>1, <1>2
  <1>5. f \in Injection(R, T)
    <2> HIDE DEF f, T
    <2>1. f \in Surjection(R, T)
      BY <1>4, Zenon DEF Surjection
    <2> QED
      BY <1>1, <1>3, <2>1, FS_Surjection, Zenon
  <1>6. ASSUME NEW x \in R, NEW y \in R, x.seq = y.seq PROVE x = y
    <2>1. f[x] = f[y]
      BY <1>6
    <2> HIDE DEF f, T
    <2> QED
      BY <1>5, <2>1, Zenon DEF Injection, IsInjective
  <1>7. LogFrom(R) = [n \in 1 .. N |-> EntryOf(CHOOSE x \in R : x.seq = n)]
    BY <1>1, Zenon DEF LogFrom
  <1>8. ASSUME NEW r \in R PROVE (CHOOSE x \in R : x.seq = r.seq) = r
    <2>1. PICK y : y = CHOOSE x \in R : x.seq = r.seq
      OBVIOUS
    <2>2. y \in R /\ y.seq = r.seq
      BY <2>1, Zenon
    <2> QED
      BY <1>6, <2>1, <2>2, Zenon
  <1>9. \A r \in R : LogFrom(R)[r.seq] = EntryOf(r)
    <2> TAKE r \in R
    <2>1. LogFrom(R)[r.seq] = EntryOf(CHOOSE x \in R : x.seq = r.seq)
      BY <1>1, <1>7, Zenon
    <2> QED
      BY <1>8, <2>1, Zenon
  <1>10. \A n \in 1 .. N : LogFrom(R)[n] \in {EntryOf(r) : r \in R}
    BY <1>2, <1>9, Zenon
  <1>11. /\ LogFrom(R) \in Seq({EntryOf(r) : r \in R}) /\ Len(LogFrom(R)) = N
         /\ DOMAIN LogFrom(R) = 1 .. N
    <2>1. PICK l : l = LogFrom(R)
      OBVIOUS
    <2>2. PICK E : E = {EntryOf(r) : r \in R}
      OBVIOUS
    <2>3. /\ DOMAIN l = 1 .. N /\ l = [n \in 1 .. N |-> l[n]] /\ \A n \in 1 .. N : l[n] \in E
      BY <1>7, <1>10, <2>1, <2>2
    <2>4. l \in Seq(E) /\ Len(l) = N
      BY <2>3
    <2> QED
      BY <2>1, <2>2, <2>3, <2>4
  <1> QED
    BY <1>1, <1>2, <1>9, <1>11, Zenon

\* Row r may stand behind row x.
MayFollow(r, x, Rep) ==
    /\ EntryOf(x) = EntryOf(r) => EntryOf(r) \in Rep
    /\ r.gen # 0 => x.gen <= r.gen /\ x.ev.kind # "workflow_finished"

\* Log m is log l and more entries, each of which may stand behind those before it.
Extends(l, m, E, Rep) ==
    /\ Len(l) < Len(m) /\ SubSeq(m, 1, Len(l)) = l
    /\ \A n \in (Len(l) + 1) .. Len(m) :
          /\ m[n] \in E
          /\ \A k \in 1 .. (n - 1) :
                /\ m[k] = m[n] => m[n] \in Rep
                /\ m[n].gen # 0 => m[k].gen <= m[n].gen /\ m[k].kind # "workflow_finished"

\* Rows behind the end of a dense table that may follow all before them extend its log.
LEMMA LogGrows ==
    ASSUME NEW R, NEW N \in Nat, DenseIn(R, N), NEW R2, NEW N2 \in Nat, DenseIn(R2, N2),
           R \subseteq R2, N < N2, NEW E, NEW Rep,
           \A r \in R2 : EntryOf(r) \in E,
           \A r \in R2 \ R : \A x \in R2 : x.seq < r.seq => MayFollow(r, x, Rep)
    PROVE  Extends(LogFrom(R), LogFrom(R2), E, Rep)
  <1>1. PICK l : l = LogFrom(R)
    OBVIOUS
  <1>2. PICK m : m = LogFrom(R2)
    OBVIOUS
  <1>3. PICK F : F = {EntryOf(r) : r \in R}
    OBVIOUS
  <1>4. PICK F2 : F2 = {EntryOf(r) : r \in R2}
    OBVIOUS
  <1>5. /\ l \in Seq(F) /\ Len(l) = N /\ DOMAIN l = 1 .. N
        /\ \A r \in R : r.seq \in 1 .. N /\ l[r.seq] = EntryOf(r)
        /\ \A n \in 1 .. N : \E r \in R : r.seq = n
    BY <1>1, <1>3, LogEntries, Zenon
  <1>6. /\ m \in Seq(F2) /\ Len(m) = N2 /\ DOMAIN m = 1 .. N2
        /\ \A r \in R2 : r.seq \in 1 .. N2 /\ m[r.seq] = EntryOf(r)
        /\ \A n \in 1 .. N2 : \E r \in R2 : r.seq = n
    BY <1>2, <1>4, LogEntries, Zenon
  <1>7. \A n \in 1 .. N : m[n] = l[n]
    <2> TAKE n \in 1 .. N
    <2>1. PICK r \in R : r.seq = n
      BY <1>5, Zenon
    <2>2. r \in R2
      OBVIOUS
    <2> QED
      BY <1>5, <1>6, <2>1, <2>2, Zenon
  <1>8. SubSeq(m, 1, N) = l
    <2>1. \A i \in 1 .. N : m[i] \in F2
      <3>1. \A i \in 1 .. N : i \in DOMAIN m
        BY <1>6
      <3> QED
        BY <1>6, <3>1, ElementOfSeq, Zenon
    <2>2. PICK s : s = SubSeq(m, 1, N)
      OBVIOUS
    <2>3. s \in Seq(F2) /\ Len(s) = N /\ \A i \in 1 .. N : s[i] = m[i]
      BY <2>1, <2>2, SubSeqProperties
    <2>4. \A i \in 1 .. N : s[i] = l[i]
      BY <1>7, <2>3
    <2>5. Len(s) = Len(l) /\ \A i \in 1 .. Len(s) : s[i] = l[i]
      BY <1>5, <2>3, <2>4
    <2>6. l \in Seq(F \cup F2) /\ s \in Seq(F \cup F2)
      BY <1>5, <2>3
    <2>7. s = l
      BY <2>5, <2>6, SeqEqual
    <2> QED
      BY <2>2, <2>7
  <1>9. ASSUME NEW n \in (N + 1) .. N2
        PROVE  /\ m[n] \in E
               /\ \A k \in 1 .. (n - 1) :
                     /\ m[k] = m[n] => m[n] \in Rep
                     /\ m[n].gen # 0 => /\ m[k].gen <= m[n].gen
                                        /\ m[k].kind # "workflow_finished"
    <2>1. n \in 1 .. N2
      OBVIOUS
    <2>2. PICK r \in R2 : r.seq = n
      BY <1>6, <2>1, Zenon
    <2>3. r \in R2 \ R /\ m[n] = EntryOf(r)
      BY <1>5, <1>6, <2>2
    <2>4. ASSUME NEW k \in 1 .. (n - 1)
          PROVE  /\ m[k] = m[n] => m[n] \in Rep
                 /\ m[n].gen # 0 => /\ m[k].gen <= m[n].gen
                                    /\ m[k].kind # "workflow_finished"
      <3>1. k \in 1 .. N2 /\ k < n
        OBVIOUS
      <3>2. PICK x \in R2 : x.seq = k
        BY <1>6, <3>1, Zenon
      <3>3. m[k] = EntryOf(x) /\ MayFollow(r, x, Rep)
        BY <1>6, <2>2, <2>3, <3>1, <3>2, Zenon
      <3>4. /\ EntryOf(x).gen = x.gen /\ EntryOf(x).kind = x.ev.kind
            /\ EntryOf(r).gen = r.gen
        BY DEF EntryOf
      <3> QED
        BY <2>3, <3>3, <3>4, Zenon DEF MayFollow
    <2> QED
      BY <2>3, <2>4, Zenon
  <1> QED
    BY <1>1, <1>2, <1>5, <1>6, <1>8, <1>9 DEF Extends

\* What the log may hold, and its entries that may come again.
Entries ==
    [id : {e.id : e \in Events} \cup {"workflow_finished", "workflow_paused"} \cup Forms,
     kind : {e.kind : e \in Events} \cup
            {"workflow_finished", "workflow_paused", "approval_expired"},
     gen : Gens \cup {0}]
Unkeyed == {[id |-> e.id, kind |-> e.kind, gen |-> g] :
               e \in {x \in Events : ~Keyed(x)}, g \in Gens}

\* The rows of a table are entries of the log.
LEMMA RowsAreEntries ==
    Table /\ Fenced => \A r \in rows : EntryOf(r) \in Entries
  <1> SUFFICES ASSUME Table, Fenced, NEW r \in rows PROVE EntryOf(r) \in Entries
    OBVIOUS
  <1>1. r.gen \in Gens \cup {0}
    BY Zenon DEF Table
  <1>2. /\ r.ev.id \in {e.id : e \in Events} \cup {"workflow_finished", "workflow_paused"} \cup Forms
        /\ r.ev.kind \in {e.kind : e \in Events} \cup
                           {"workflow_finished", "workflow_paused", "approval_expired"}
    <2>1. CASE r.gen = 0
      <3>1. PICK f \in Forms : r.ev = FormEvent(f)
        BY <2>1 DEF Fenced
      <3> QED
        BY <3>1 DEF FormEvent
    <2>2. CASE r.gen # 0
      <3>1. r.ev \in Events \/ \E k \in Ending : r.ev = Control(k, 0)
        BY <2>2 DEF Table
      <3>2. ASSUME NEW k \in Ending, r.ev = Control(k, 0)
            PROVE  r.ev.id = k /\ r.ev.kind = k
        BY <3>2 DEF Control
      <3> QED
        BY <3>1, <3>2 DEF Ending
    <2> QED
      BY <2>1, <2>2
  <1> QED
    BY <1>1, <1>2 DEF EntryOf, Entries

\* The new rows of a chunk may follow the rows of the table and each other.
LEMMA ChunkFollows ==
    ASSUME Table, Dense, Fenced, Types, NEW g \in Gens, owner = g, NEW recs \in Seq(Records),
           NEW r \in NewRows(g, recs), NEW x \in rows \cup NewRows(g, recs), x.seq < r.seq
    PROVE  MayFollow(r, x, Unkeyed)
  <1>1. /\ nextSeq \in Nat /\ g = gen /\ ~over /\ g \in Nat /\ g # 0
    BY DispatchAssumption DEF Table, Fenced
  <1>2. \A y \in NewRows(g, recs) : y.gen = g /\ y.ev \in Events
    BY <1>1, NewRowsProperties
  <1>3. x.gen <= r.gen /\ x.ev.kind # "workflow_finished"
    <2>1. CASE x \in rows
      BY <1>1, <1>2, <2>1 DEF Fenced
    <2>2. CASE x \in NewRows(g, recs)
      BY <1>1, <1>2, <2>2, DispatchAssumption
    <2> QED
      BY <2>1, <2>2
  <1>4. ASSUME EntryOf(x) = EntryOf(r) PROVE EntryOf(r) \in Unkeyed
    <2>1. x.gen = g /\ x.ev.id = r.ev.id /\ r.ev \in Events /\ r.gen = g
      <3>1. EntryOf(x).id = x.ev.id /\ EntryOf(r).id = r.ev.id
            /\ EntryOf(x).gen = x.gen /\ EntryOf(r).gen = r.gen
        BY DEF EntryOf
      <3> QED
        BY <1>2, <1>4, <3>1
    <2>2. CASE ~Keyed(r.ev)
      BY <2>1, <2>2 DEF EntryOf, Unkeyed
    <2>3. CASE Keyed(r.ev)
      <3>1. PICK F : F = FreshAt(g, recs)
        OBVIOUS
      <3>2. /\ F \in SUBSET DOMAIN recs /\ F \in SUBSET Nat /\ IsFiniteSet(F)
            /\ \A i \in F : /\ recs[i] \in Events
                            /\ ~\E y \in rows : SameKey(y, g, recs[i])
                            /\ ~\E j \in 1 .. (i - 1) : Keyed(recs[i]) /\ recs[j] = recs[i]
        BY <3>1, FreshProperties, Zenon
      <3>3. NewRows(g, recs) = {NewRow(g, recs, i) : i \in F}
        BY <1>1, <3>1, NewRowsByRank, Zenon
      <3>4. \A i \in F : /\ NewRow(g, recs, i).seq = nextSeq + 1 + Rank(F, i)
                         /\ NewRow(g, recs, i).ev = recs[i]
        BY <3>1 DEF NewRow
      <3>5. PICK i \in F : r = NewRow(g, recs, i)
        BY <3>3
      <3>6. CASE x \in rows
        <4>1. SameKey(x, g, recs[i])
          BY <2>1, <2>3, <3>4, <3>5 DEF SameKey
        <4> QED
          BY <3>2, <3>6, <4>1, Zenon
      <3>7. CASE x \in NewRows(g, recs)
        <4>1. PICK j \in F : x = NewRow(g, recs, j)
          BY <3>3, <3>7
        <4>2. recs[j] = recs[i]
          BY <2>1, <3>2, <3>4, <3>5, <4>1, DispatchAssumption
        <4>3. Rank(F, j) \in Nat /\ Rank(F, i) \in Nat
          BY <3>2, RankBound, Zenon
        <4>4. nextSeq + 1 + Rank(F, j) < nextSeq + 1 + Rank(F, i)
          BY <3>4, <3>5, <4>1
        <4>5. i \in Nat /\ j \in Nat
          BY <3>2
        <4>6. i < j => Rank(F, i) < Rank(F, j)
          BY <3>2, RankLess, Zenon
        <4>7. j < i
          BY <1>1, <4>3, <4>4, <4>5, <4>6
        <4>8. j \in 1 .. (i - 1)
          <5>1. j \in DOMAIN recs /\ DOMAIN recs = 1 .. Len(recs)
            BY <3>2, LenProperties
          <5> QED
            BY <4>5, <4>7, <5>1
        <4> QED
          BY <2>3, <3>2, <3>4, <3>5, <4>2, <4>8
      <3> QED
        BY <3>6, <3>7
    <2> QED
      BY <2>2, <2>3
  <1> QED
    BY <1>3, <1>4 DEF MayFollow

\* Every step leaves the log as it is, or appends rows that may follow all before them.
LEMMA LogStep ==
    ASSUME IInv, Fenced, [Next]_vars, Dense', Table'
    PROVE  \/ rows' = rows
           \/ /\ rows \subseteq rows' /\ nextSeq < nextSeq'
              /\ \A r \in rows' \ rows : \A x \in rows' : x.seq < r.seq => MayFollow(r, x, Unkeyed)
  <1> DEFINE Goal == \/ rows' = rows
                     \/ /\ rows \subseteq rows' /\ nextSeq < nextSeq'
                        /\ \A r \in rows' \ rows : \A x \in rows' :
                              x.seq < r.seq => MayFollow(r, x, Unkeyed)
  <1>1. Table /\ Dense /\ Executions /\ Types /\ nextSeq \in Nat
    BY TypesOf DEF IInv, Table
  <1>2. ASSUME NEW g \in Gens, Persist(g) PROVE Goal
    <2>1. PICK recs : recs = Chunk(g)
      OBVIOUS
    <2>2. /\ recs \in Seq(Records) /\ rows' = rows \cup NewRows(g, recs)
          /\ nextSeq' = nextSeq + Cardinality(NewRows(g, recs)) /\ (ToStore(recs) => owner = g)
      BY <1>1, <1>2, <2>1, ChunkProperties DEF Persist
    <2>3. CASE NewRows(g, recs) = {}
      BY <2>2, <2>3
    <2>4. CASE NewRows(g, recs) # {}
      <3>1. PICK i \in FreshAt(g, recs) : TRUE
        BY <1>1, <2>2, <2>4, NewRowsByRank, Zenon
      <3>2. i \in DOMAIN recs /\ recs[i].seq = 0
        BY <2>2, FreshProperties, Zenon
      <3>3. owner = g
        BY <2>2, <3>2, Zenon DEF ToStore
      <3>4. IsFiniteSet(NewRows(g, recs)) /\ Cardinality(NewRows(g, recs)) \in Nat
        BY <1>1, <2>2, NewRowsProperties
      <3>5. Cardinality(NewRows(g, recs)) # 0
        BY <2>4, <3>4, FS_EmptySet, Zenon
      <3>6. nextSeq < nextSeq'
        BY <1>1, <2>2, <3>4, <3>5
      <3>7. ASSUME NEW r \in rows' \ rows, NEW x \in rows', x.seq < r.seq
            PROVE  MayFollow(r, x, Unkeyed)
        <4>1. r \in NewRows(g, recs) /\ x \in rows \cup NewRows(g, recs)
          BY <2>2
        <4> QED
          BY <1>1, <2>2, <3>3, <3>7, <4>1, ChunkFollows, Zenon
      <3> QED
        BY <2>2, <3>6, <3>7, Zenon
    <2> QED
      BY <2>3, <2>4
  <1>3. ASSUME NEW r, rows' = rows \cup {r}, nextSeq' = nextSeq + 1, r.seq = nextSeq + 1,
               \A x \in rows : MayFollow(r, x, Unkeyed)
        PROVE  Goal
    <2>1. \A x \in rows' : x.seq < r.seq => x \in rows
      BY <1>1, <1>3
    <2> QED
      BY <1>1, <1>3, <2>1
  <1>4. ASSUME NEW g \in Gens, NEW kind \in Ending, Settle(g, kind) PROVE Goal
    <2> DEFINE r == [seq |-> nextSeq + 1, ev |-> Control(kind, g), gen |-> g]
    <2>1. /\ rows' = rows \cup {r} /\ nextSeq' = nextSeq + 1 /\ owner = g
          /\ main[g].stage = "running"
      BY <1>4 DEF Settle
    <2>2. r.seq = nextSeq + 1 /\ r.gen = g /\ r.ev.id = kind
      BY DEF Control
    <2> HIDE DEF r
    <2>3. main[g].ev = {}
      <3>1. SentOK(queue[g], bat[g], main[g])
        BY <1>1, Zenon DEF Executions, Good, LocalOK
      <3> QED
        BY <2>1, <3>1 DEF SentOK
    <2>4. g = gen /\ ~over /\ g # 0
      BY <1>1, <2>1, DispatchAssumption DEF Table, Fenced
    <2>5. ASSUME NEW x \in rows PROVE MayFollow(r, x, Unkeyed)
      <3>1. x.gen <= r.gen /\ x.ev.kind # "workflow_finished"
        BY <2>2, <2>4 DEF Fenced
      <3>2. EntryOf(x) # EntryOf(r)
        <4> SUFFICES ASSUME EntryOf(x) = EntryOf(r) PROVE FALSE
          OBVIOUS
        <4>1. EntryOf(x).id = x.ev.id /\ EntryOf(r).id = r.ev.id
              /\ EntryOf(x).gen = x.gen /\ EntryOf(r).gen = r.gen
          BY DEF EntryOf
        <4> QED
          BY <2>2, <2>3, <2>4, <4>1 DEF Fenced
      <3> QED
        BY <3>1, <3>2 DEF MayFollow
    <2> HIDE DEF Goal
    <2> QED
      BY <1>3, <2>1, <2>2, <2>5, Zenon
  <1>5. ASSUME NEW f \in Forms, Outside(f) PROVE Goal
    <2> DEFINE r == [seq |-> nextSeq + 1, gen |-> 0, ev |-> FormEvent(f)]
    <2>1. rows' = rows \cup {r} /\ nextSeq' = nextSeq + 1 /\ f \notin outside
      BY <1>5 DEF Outside, FormEvent
    <2>2. r.seq = nextSeq + 1 /\ r.gen = 0 /\ r.ev.id = f
      BY DEF FormEvent
    <2> HIDE DEF r
    <2>3. ASSUME NEW x \in rows PROVE MayFollow(r, x, Unkeyed)
      <3>1. EntryOf(x) # EntryOf(r)
        <4> SUFFICES ASSUME EntryOf(x) = EntryOf(r) PROVE FALSE
          OBVIOUS
        <4>1. EntryOf(x).id = x.ev.id /\ EntryOf(r).id = r.ev.id
              /\ EntryOf(x).gen = x.gen /\ EntryOf(r).gen = r.gen
          BY DEF EntryOf
        <4>2. PICK f2 \in outside : x.ev = FormEvent(f2)
          BY <2>2, <4>1 DEF Fenced
        <4> QED
          BY <2>1, <2>2, <4>1, <4>2 DEF FormEvent
      <3> QED
        BY <2>2, <3>1 DEF MayFollow
    <2> HIDE DEF Goal
    <2> QED
      BY <1>3, <2>1, <2>2, <2>3, Zenon
  <1>6. ASSUME NEW g \in Gens,
               \/ \E t \in Threads : Dispatch(g, t)
               \/ TakeFirst(g) \/ CollectNext(g) \/ WindowEnds(g) \/ BatcherExits(g)
               \/ PersistFails(g) \/ Emit(g) \/ DispatchSettled(g) \/ Close(g) \/ CloseBatcher(g)
        PROVE  rows' = rows
    BY <1>6 DEF Dispatch, TakeFirst, CollectNext, WindowEnds, BatcherExits, BatcherOnly,
                PersistFails, Emit, DispatchSettled, Close, CloseBatcher
  <1>7. ASSUME Claim \/ UNCHANGED vars PROVE rows' = rows
    BY <1>7 DEF Claim, vars
  <1>8. rows' = rows => Goal
    OBVIOUS
  <1> HIDE DEF Goal
  <1>9. ASSUME NEW g \in Gens,
               \/ \E t \in Threads : Dispatch(g, t)
               \/ TakeFirst(g) \/ CollectNext(g) \/ WindowEnds(g) \/ BatcherExits(g)
               \/ PersistFails(g) \/ Emit(g) \/ DispatchSettled(g) \/ Close(g) \/ CloseBatcher(g)
        PROVE  Goal
    BY <1>6, <1>8, <1>9, Zenon
  <1>10. ASSUME Claim \/ UNCHANGED vars PROVE Goal
    BY <1>7, <1>8, <1>10, Zenon
  <1>11. Goal
    BY <1>2, <1>4, <1>5, <1>9, <1>10, Zenon DEF Next, Ending
  <1> QED
    BY <1>11 DEF Goal

\* The log of the model is the log of its table.
LEMMA LogIs == LogOf = LogFrom(rows)
  BY DEF LogOf, LogFrom, EntryOf

\* A step of the writers is a transaction of the log, or leaves it as it is.
LEMMA StepWrites ==
    ASSUME IInv, IInv', Fenced, Fenced', [Next]_vars
    PROVE  [Log!Grow]_LogOf
  <1>1. /\ Table /\ Dense /\ Table' /\ Dense' /\ nextSeq \in Nat /\ nextSeq' \in Nat
    BY DEF IInv, Table
  <1>2. DenseIn(rows, nextSeq) /\ DenseIn(rows', nextSeq')
    BY <1>1 DEF Dense, SequencesDense, DenseIn
  <1>3. LogOf = LogFrom(rows) /\ LogOf' = LogFrom(rows')
    BY LogIs DEF LogOf, LogFrom, EntryOf
  <1>4. CASE rows' = rows
    BY <1>3, <1>4
  <1>5. CASE /\ rows \subseteq rows' /\ nextSeq < nextSeq'
             /\ \A r \in rows' \ rows : \A x \in rows' : x.seq < r.seq => MayFollow(r, x, Unkeyed)
    <2>1. \A r \in rows' : EntryOf(r) \in Entries
      <3>1. (\A r \in rows : EntryOf(r) \in Entries)'
        BY <1>1, RowsAreEntries, PTL
      <3> QED
        BY <3>1 DEF EntryOf, Entries
    <2>2. Extends(LogFrom(rows), LogFrom(rows'), Entries, Unkeyed)
      BY <1>1, <1>2, <1>5, <2>1, LogGrows, Zenon
    <2>3. Extends(LogOf, LogOf', Entries, Unkeyed)
      BY <1>3, <2>2
    <2>6. Log!Grow
      BY <2>3 DEF Extends, Log!Grow, Log!Admissible, Entries, Unkeyed
    <2> QED
      BY <2>6
  <1> QED
    BY <1>1, <1>4, <1>5, LogStep, Zenon

\* No row is of an execution still to come, and none ends the run unless its execution
\* settled.
THEOREM Fence == Spec => []Fenced
  <1>1. Init => Fenced
    BY DEF Init, Fenced
  <1>2. IInv /\ Fenced /\ [Next]_vars => Fenced'
    BY FencedStep, Zenon
  <1> QED
    BY <1>1, <1>2, Inductive, PTL DEF Spec

\* The dispatchers, batchers and other writers of a run implement the append-only log:
\* whoever commits, an append extends the log by entries that it may take there.
THEOREM LogRefined == Spec => WritesTheLog
  <1>1. Init => LogOf = <<>>
    <2> SUFFICES ASSUME Init PROVE LogOf = <<>>
      OBVIOUS
    <2>1. rows = {}
      BY DEF Init
    <2>2. Cardinality(rows) = 0
      BY <2>1, FS_EmptySet
    <2> QED
      BY <2>2 DEF LogOf
  <1>2. IInv /\ IInv' /\ Fenced /\ Fenced' /\ [Next]_vars => [Log!Grow]_LogOf
    BY StepWrites, Zenon
  <1> QED
    BY <1>1, <1>2, Inductive, Fence, PTL DEF Spec, WritesTheLog, Log!LogSpec, Log!LogInit

-----------------------------------------------------------------------------
(* The order of a container's children.  R are the events an execution has stored, s *)
(* the records its batch has still to append and w the requests behind them.         *)

\* The events of execution g in table R, and what its batcher b and queue q hold.
StoredIn(R, g) == {r.ev : r \in {x \in R : x.gen = g}}
ToCome(b) == SubSeq(b.recs, Len(b.out) + 1, Len(b.recs))
Line(q, b) == b.carry \o q
Pipe(R, s, w) == R \cup ToSet(s) \cup Inside(w)

\* The records of the requests before the i-th.
Ahead(w, i) == UNION {ToSet(w[j].recs) : j \in 1 .. (i - 1)}

\* Every marker in P of a child in s is in S or before the child.
Behind(P, S, s) ==
    \A i \in DOMAIN s : Child(s[i]) =>
        \A m \in P : MarkerOf(m, s[i]) => m \in S \/ \E j \in 1 .. (i - 1) : s[j] = m

\* No child is stored, or on its way, before a marker of it.
InOrder(P, R, s, w) ==
    /\ \A e \in R : Child(e) => \A m \in P : MarkerOf(m, e) => m \in R
    /\ Behind(P, R, s)
    /\ \A i \in DOMAIN w : Behind(P, R \cup ToSet(s) \cup Ahead(w, i), w[i].recs)

\* What the threads of execution g report, and the children dispatcher d lets pass.
EventsOf(g) == UNION {ToSet(Script[g][t]) : t \in Threads}
Announced(d, e) == e.box \in d.opened /\ <<e.box, e.round>> \in d.rounds

\* What the dispatcher lets pass belongs to containers and rounds that it knows, and it
\* knows a container or round only after its marker; what it holds back are children.
MarksOK(g, d, P) ==
    /\ ~d.closed => \A e \in P : Child(e) => Announced(d, e)
    /\ \A m \in EventsOf(g) :
          /\ m.kind = "loop_started" /\ m.box \in d.opened => m \in P
          /\ m.kind = "loop_next" /\ <<m.box, m.round>> \in d.rounds => m \in P
    /\ \A e \in ToSet(d.pending) : Child(e)

\* What execution g has stored and will store is in order, and dispatcher d keeps it so.
RoundsOK(g, R, d, s, w) == InOrder(Pipe(R, s, w), R, s, w) /\ MarksOK(g, d, Pipe(R, s, w))

\* Children in a joined sequence follow their markers if they do in both parts.
LEMMA BehindConcat ==
    ASSUME NEW P, NEW S, NEW E, NEW s \in Seq(E), NEW t \in Seq(E)
    PROVE  Behind(P, S, s \o t) <=> Behind(P, S, s) /\ Behind(P, S \cup ToSet(s), t)
  <1>1. PICK a \in Nat : a = Len(s)
    BY LenProperties
  <1>2. PICK b \in Nat : b = Len(t)
    BY LenProperties
  <1>3. PICK u : u = s \o t
    OBVIOUS
  <1>4. /\ DOMAIN s = 1 .. a /\ DOMAIN t = 1 .. b /\ DOMAIN u = 1 .. (a + b)
        /\ \A i \in 1 .. a : u[i] = s[i]
        /\ \A i \in 1 .. b : u[i + a] = t[i]
    <2>1. u \in Seq(E) /\ Len(u) = a + b
      BY <1>1, <1>2, <1>3, ConcatProperties
    <2>2. \A i \in 1 .. (a + b) : u[i] = IF i <= a THEN s[i] ELSE t[i - a]
      BY <1>1, <1>2, <1>3, ConcatProperties
    <2>3. DOMAIN s = 1 .. a /\ DOMAIN t = 1 .. b /\ DOMAIN u = 1 .. (a + b)
      BY <1>1, <1>2, <2>1, LenProperties
    <2>4. \A i \in 1 .. a : u[i] = s[i]
      BY <2>2
    <2>5. ASSUME NEW i \in 1 .. b PROVE u[i + a] = t[i]
      <3>1. i + a \in 1 .. (a + b) /\ ~(i + a <= a) /\ (i + a) - a = i
        OBVIOUS
      <3> QED
        BY <2>2, <3>1
    <2> QED
      BY <2>3, <2>4, <2>5
  <1>5. ToSet(s) = {s[i] : i \in 1 .. a}
    BY <1>4 DEF ToSet
  <1>6. ASSUME Behind(P, S, s), Behind(P, S \cup ToSet(s), t) PROVE Behind(P, S, u)
    <2> SUFFICES ASSUME NEW i \in DOMAIN u, Child(u[i]), NEW m \in P, MarkerOf(m, u[i])
                 PROVE  m \in S \/ \E j \in 1 .. (i - 1) : u[j] = m
      BY Zenon DEF Behind
    <2>1. i \in Nat /\ i \in 1 .. (a + b)
      BY <1>4
    <2>2. CASE i <= a
      <3>1. i \in DOMAIN s /\ s[i] = u[i]
        BY <1>4, <2>1, <2>2
      <3>2. m \in S \/ \E j \in 1 .. (i - 1) : s[j] = m
        BY <1>6, <3>1, Zenon DEF Behind
      <3>3. \A j \in 1 .. (i - 1) : u[j] = s[j]
        BY <1>4, <2>1, <2>2
      <3> QED
        BY <3>2, <3>3
    <2>3. CASE i > a
      <3>1. PICK k \in 1 .. b : i = k + a
        <4>1. i - a \in 1 .. b /\ i = (i - a) + a
          BY <2>1, <2>3
        <4> QED
          BY <4>1
      <3>2. k \in DOMAIN t /\ t[k] = u[i]
        BY <1>4, <3>1
      <3>3. m \in S \cup ToSet(s) \/ \E j \in 1 .. (k - 1) : t[j] = m
        BY <1>6, <3>2, Zenon DEF Behind
      <3>4. ASSUME m \in ToSet(s) PROVE \E j \in 1 .. (i - 1) : u[j] = m
        <4>1. PICK j \in 1 .. a : s[j] = m
          BY <1>5, <3>4
        <4>2. j \in 1 .. (i - 1) /\ u[j] = m
          BY <1>4, <2>1, <2>3, <4>1
        <4> QED
          BY <4>2
      <3>5. ASSUME NEW j \in 1 .. (k - 1), t[j] = m PROVE \E n \in 1 .. (i - 1) : u[n] = m
        <4>1. j \in 1 .. b /\ j + a \in 1 .. (i - 1)
          BY <3>1
        <4>2. u[j + a] = m
          BY <1>4, <3>5, <4>1
        <4> QED
          BY <4>1, <4>2
      <3> QED
        BY <3>3, <3>4, <3>5
    <2> QED
      BY <2>1, <2>2, <2>3
  <1>7. ASSUME Behind(P, S, u) PROVE Behind(P, S, s)
    <2> SUFFICES ASSUME NEW i \in DOMAIN s, Child(s[i]), NEW m \in P, MarkerOf(m, s[i])
                 PROVE  m \in S \/ \E j \in 1 .. (i - 1) : s[j] = m
      BY Zenon DEF Behind
    <2>1. i \in DOMAIN u /\ u[i] = s[i] /\ \A j \in 1 .. (i - 1) : u[j] = s[j]
      BY <1>4
    <2>2. m \in S \/ \E j \in 1 .. (i - 1) : u[j] = m
      BY <1>7, <2>1, Zenon DEF Behind
    <2> QED
      BY <2>1, <2>2
  <1>8. ASSUME Behind(P, S, u) PROVE Behind(P, S \cup ToSet(s), t)
    <2> SUFFICES ASSUME NEW k \in DOMAIN t, Child(t[k]), NEW m \in P, MarkerOf(m, t[k])
                 PROVE  m \in S \cup ToSet(s) \/ \E j \in 1 .. (k - 1) : t[j] = m
      BY Zenon DEF Behind
    <2>1. PICK i \in DOMAIN u : i = k + a /\ u[i] = t[k]
      <3>1. k + a \in DOMAIN u /\ u[k + a] = t[k]
        BY <1>4
      <3> QED
        BY <3>1
    <2>2. m \in S \/ \E j \in 1 .. (i - 1) : u[j] = m
      BY <1>8, <2>1, Zenon DEF Behind
    <2>3. ASSUME NEW j \in 1 .. (i - 1), u[j] = m
          PROVE  m \in ToSet(s) \/ \E n \in 1 .. (k - 1) : t[n] = m
      <3>0. k \in 1 .. b
        BY <1>4
      <3>1. CASE j <= a
        <4>1. j \in 1 .. a /\ s[j] = m
          BY <1>4, <2>3, <3>1
        <4> QED
          BY <1>5, <4>1
      <3>2. CASE j > a
        <4>1. PICK n \in 1 .. (k - 1) : j = n + a
          <5>1. j - a \in 1 .. (k - 1) /\ j = (j - a) + a
            BY <2>1, <3>0, <3>2
          <5> QED
            BY <5>1
        <4>2. n \in 1 .. b
          BY <3>0
        <4>3. t[n] = m
          BY <1>4, <2>3, <4>1, <4>2
        <4> QED
          BY <4>3
      <3> QED
        BY <2>1, <3>0, <3>1, <3>2
    <2> QED
      BY <2>2, <2>3
  <1> QED
    BY <1>3, <1>6, <1>7, <1>8

\* More events before the sequence, and no new marker of its children, keep the order.
LEMMA BehindWider ==
    ASSUME NEW P, NEW P2, NEW S, NEW S2, NEW s, Behind(P, S, s), S \subseteq S2,
           \A i \in DOMAIN s : Child(s[i]) => \A m \in P2 : MarkerOf(m, s[i]) => m \in P
    PROVE  Behind(P2, S2, s)
  <1> SUFFICES ASSUME NEW i \in DOMAIN s, Child(s[i]), NEW m \in P2, MarkerOf(m, s[i])
               PROVE  m \in S2 \/ \E j \in 1 .. (i - 1) : s[j] = m
    BY Zenon DEF Behind
  <1>1. m \in P
    BY Zenon
  <1>2. m \in S \/ \E j \in 1 .. (i - 1) : s[j] = m
    BY <1>1, Zenon DEF Behind
  <1> QED
    BY <1>2, Zenon

\* More events before the sequence keep the order.
LEMMA BehindMore ==
    ASSUME NEW P, NEW S, NEW S2, NEW s, Behind(P, S, s), S \subseteq S2
    PROVE  Behind(P, S2, s)
  BY Zenon DEF Behind

\* The batcher takes the first request: nothing changes its place.
LEMMA HeadMoves ==
    ASSUME NEW P, NEW R, NEW s \in Seq(Records), NEW w \in Seq(ReqsOf), w # <<>>
    PROVE  /\ Pipe(R, s \o Head(w).recs, Tail(w)) = Pipe(R, s, w)
           /\ InOrder(P, R, s, w) => InOrder(P, R, s \o Head(w).recs, Tail(w))
  <1>1. PICK x : x = Head(w)
    OBVIOUS
  <1>2. PICK t : t = Tail(w)
    OBVIOUS
  <1>3. PICK n \in Nat : n = Len(w) /\ n > 0 /\ DOMAIN w = 1 .. n
    BY LenProperties
  <1>4. /\ x \in ReqsOf /\ x = w[1] /\ t \in Seq(ReqsOf) /\ DOMAIN t = 1 .. (n - 1)
        /\ \A i \in 1 .. (n - 1) : t[i] = w[i + 1]
    <2>1. t \in Seq(ReqsOf) /\ Len(t) = n - 1 /\ x = w[1]
      BY <1>1, <1>2, <1>3, HeadTailProperties
    <2>2. x \in ReqsOf
      BY <1>3, <2>1, ElementOfSeq
    <2>3. \A i \in 1 .. (n - 1) : t[i] = w[i + 1]
      BY <1>2, <1>3, <2>1
    <2>4. DOMAIN t = 1 .. (n - 1)
      BY <2>1, LenProperties
    <2> QED
      BY <2>1, <2>2, <2>3, <2>4
  <1>5. x.recs \in Seq(Records)
    BY <1>4 DEF ReqsOf
  <1>6. ToSet(s \o x.recs) = ToSet(s) \cup ToSet(x.recs)
    BY <1>5, Elements
  <1>7. Inside(w) = ToSet(x.recs) \cup Inside(t)
    BY <1>1, <1>2, InsideProperties, Zenon
  <1>8. Pipe(R, s \o x.recs, t) = Pipe(R, s, w)
    BY <1>6, <1>7 DEF Pipe
  <1>9. ASSUME InOrder(P, R, s, w) PROVE InOrder(P, R, s \o x.recs, t)
    <2>1. /\ \A e \in R : Child(e) => \A m \in P : MarkerOf(m, e) => m \in R
          /\ Behind(P, R, s)
          /\ \A i \in DOMAIN w : Behind(P, R \cup ToSet(s) \cup Ahead(w, i), w[i].recs)
      BY <1>9, Zenon DEF InOrder
    <2>2. Ahead(w, 1) = {}
      BY DEF Ahead
    <2>3. Behind(P, R \cup ToSet(s), x.recs)
      <3>1. 1 \in DOMAIN w
        BY <1>3
      <3>2. Behind(P, R \cup ToSet(s) \cup Ahead(w, 1), x.recs)
        BY <1>4, <2>1, <3>1, Zenon
      <3>3. R \cup ToSet(s) \cup Ahead(w, 1) = R \cup ToSet(s)
        BY <2>2, Zenon
      <3> QED
        BY <3>2, <3>3
    <2>4. Behind(P, R, s \o x.recs)
      BY <1>5, <2>1, <2>3, BehindConcat, Zenon
    <2>5. ASSUME NEW i \in DOMAIN t
          PROVE  Behind(P, R \cup ToSet(s \o x.recs) \cup Ahead(t, i), t[i].recs)
      <3>1. i \in 1 .. (n - 1) /\ i \in Nat
        BY <1>4
      <3>2. i + 1 \in DOMAIN w /\ t[i] = w[i + 1]
        BY <1>3, <1>4, <3>1
      <3>3. Ahead(w, i + 1) \subseteq ToSet(x.recs) \cup Ahead(t, i)
        <4> SUFFICES ASSUME NEW j \in 1 .. i, NEW e \in ToSet(w[j].recs)
                     PROVE  e \in ToSet(x.recs) \cup Ahead(t, i)
          BY <3>1 DEF Ahead
        <4>1. CASE j = 1
          BY <1>4, <4>1
        <4>2. CASE j # 1
          <5>1. PICK k \in 1 .. (i - 1) : j = k + 1
            <6>1. j - 1 \in 1 .. (i - 1) /\ j = (j - 1) + 1
              BY <3>1, <4>2
            <6> QED
              BY <6>1
          <5>2. t[k] = w[j]
            <6>1. k \in 1 .. (n - 1)
              BY <3>1
            <6> QED
              BY <1>4, <5>1, <6>1
          <5> QED
            BY <5>2, Zenon DEF Ahead
        <4> QED
          BY <4>1, <4>2
      <3>4. Behind(P, R \cup ToSet(s) \cup Ahead(w, i + 1), t[i].recs)
        BY <2>1, <3>2, Zenon
      <3>5. R \cup ToSet(s) \cup Ahead(w, i + 1) \subseteq R \cup ToSet(s \o x.recs) \cup Ahead(t, i)
        BY <1>6, <3>3, Zenon
      <3> QED
        BY <3>4, <3>5, BehindMore, Zenon
    <2> QED
      BY <2>1, <2>4, <2>5, Zenon DEF InOrder
  <1> QED
    BY <1>1, <1>2, <1>8, <1>9

\* The front of the batch is stored: it moves behind what was stored before.
LEMMA FrontMoves ==
    ASSUME NEW P, NEW R, NEW x \in Seq(Records), NEW y \in Seq(Records), NEW w
    PROVE  /\ Pipe(R \cup ToSet(x), y, w) = Pipe(R, x \o y, w)
           /\ InOrder(P, R, x \o y, w) => InOrder(P, R \cup ToSet(x), y, w)
  <1>1. ToSet(x \o y) = ToSet(x) \cup ToSet(y)
    BY Elements
  <1>2. Pipe(R \cup ToSet(x), y, w) = Pipe(R, x \o y, w)
    BY <1>1 DEF Pipe
  <1>3. ASSUME InOrder(P, R, x \o y, w) PROVE InOrder(P, R \cup ToSet(x), y, w)
    <2>1. /\ \A e \in R : Child(e) => \A m \in P : MarkerOf(m, e) => m \in R
          /\ Behind(P, R, x \o y)
          /\ \A i \in DOMAIN w : Behind(P, R \cup ToSet(x \o y) \cup Ahead(w, i), w[i].recs)
      BY <1>3, Zenon DEF InOrder
    <2>2. Behind(P, R, x) /\ Behind(P, R \cup ToSet(x), y)
      BY <2>1, BehindConcat, Zenon
    <2>3. ASSUME NEW e \in R \cup ToSet(x), Child(e), NEW m \in P, MarkerOf(m, e)
          PROVE  m \in R \cup ToSet(x)
      <3>1. CASE e \in R
        BY <2>1, <2>3, <3>1, Zenon
      <3>2. CASE e \in ToSet(x)
        <4>1. PICK i \in DOMAIN x : x[i] = e
          BY <3>2 DEF ToSet
        <4>2. m \in R \/ \E j \in 1 .. (i - 1) : x[j] = m
          BY <2>2, <2>3, <4>1, Zenon DEF Behind
        <4>3. \A j \in 1 .. (i - 1) : x[j] \in ToSet(x)
          <5>1. \A j \in 1 .. (i - 1) : j \in DOMAIN x
            BY LenProperties
          <5> QED
            BY <5>1 DEF ToSet
        <4> QED
          BY <4>2, <4>3
      <3> QED
        BY <3>1, <3>2
    <2>4. \A i \in DOMAIN w :
              Behind(P, (R \cup ToSet(x)) \cup ToSet(y) \cup Ahead(w, i), w[i].recs)
      <3>1. \A i : R \cup ToSet(x \o y) \cup Ahead(w, i)
                     = (R \cup ToSet(x)) \cup ToSet(y) \cup Ahead(w, i)
        BY <1>1
      <3> QED
        BY <2>1, <3>1
    <2> QED
      BY <2>2, <2>3, <2>4, Zenon DEF InOrder
  <1> QED
    BY <1>2, <1>3

\* Records x may come after the events P: their children find their markers in P or
\* among them, and they bring no new marker of a child in P.
FitsBehind(P, x) ==
    /\ Behind(P \cup ToSet(x), P, x)
    /\ \A c \in P : Child(c) => \A m \in P \cup ToSet(x) : MarkerOf(m, c) => m \in P

\* A request that fits joins the line.
LEMMA RequestJoins ==
    ASSUME NEW R, NEW s \in Seq(Records), NEW w \in Seq(ReqsOf), NEW r \in ReqsOf,
           InOrder(Pipe(R, s, w), R, s, w), FitsBehind(Pipe(R, s, w), r.recs)
    PROVE  /\ Pipe(R, s, Append(w, r)) = Pipe(R, s, w) \cup ToSet(r.recs)
           /\ InOrder(Pipe(R, s, Append(w, r)), R, s, Append(w, r))
  <1>a. PICK P : P = Pipe(R, s, w)
    OBVIOUS
  <1>b. PICK P2 : P2 = P \cup ToSet(r.recs)
    OBVIOUS
  <1>c. /\ InOrder(P, R, s, w) /\ Behind(P2, P, r.recs)
        /\ \A c \in P : Child(c) => \A m \in P2 : MarkerOf(m, c) => m \in P
    BY <1>a, <1>b DEF FitsBehind
  <1>1. PICK v : v = Append(w, r)
    OBVIOUS
  <1>2. PICK n \in Nat : n = Len(w) /\ DOMAIN w = 1 .. n
    BY LenProperties
  <1>3. v \in Seq(ReqsOf) /\ DOMAIN v = 1 .. (n + 1) /\ v[n + 1] = r /\ \A i \in 1 .. n : v[i] = w[i]
    <2>1. v \in Seq(ReqsOf) /\ Len(v) = n + 1 /\ v[n + 1] = r /\ \A i \in 1 .. n : v[i] = w[i]
      BY <1>1, <1>2, AppendProperties
    <2> QED
      BY <2>1, LenProperties
  <1>4. Inside(v) = Inside(w) \cup ToSet(r.recs)
    BY <1>1, InsideProperties, Zenon
  <1>5. Pipe(R, s, v) = P2
    BY <1>4, <1>a, <1>b DEF Pipe
  <1>6. /\ \A e \in R : Child(e) => \A m \in P : MarkerOf(m, e) => m \in R
        /\ Behind(P, R, s)
        /\ \A i \in DOMAIN w : Behind(P, R \cup ToSet(s) \cup Ahead(w, i), w[i].recs)
    BY <1>c, Zenon DEF InOrder
  <1>7. R \subseteq P /\ (\A i \in DOMAIN s : s[i] \in P)
        /\ \A k \in DOMAIN w : \A i \in DOMAIN w[k].recs : w[k].recs[i] \in P
    BY <1>a DEF Pipe, Inside, ToSet
  <1>8. \A e \in R : Child(e) => \A m \in P2 : MarkerOf(m, e) => m \in R
    BY <1>6, <1>7, <1>c, Zenon
  <1>9. Behind(P2, R, s)
    BY <1>6, <1>7, <1>c, BehindWider, Zenon
  <1>10. ASSUME NEW i \in DOMAIN v
         PROVE  Behind(P2, R \cup ToSet(s) \cup Ahead(v, i), v[i].recs)
    <2>1. CASE i \in 1 .. n
      <3>1. v[i] = w[i] /\ i \in DOMAIN w
        BY <1>2, <1>3, <2>1
      <3>2. \A j \in 1 .. (i - 1) : v[j] = w[j]
        BY <1>3, <2>1
      <3>3. Ahead(v, i) = Ahead(w, i)
        BY <3>2 DEF Ahead
      <3>4. Behind(P, R \cup ToSet(s) \cup Ahead(w, i), w[i].recs)
        BY <1>6, <3>1, Zenon
      <3>5. Behind(P2, R \cup ToSet(s) \cup Ahead(w, i), w[i].recs)
        <4>1. PICK x : x = w[i].recs
          OBVIOUS
        <4>2. PICK S : S = R \cup ToSet(s) \cup Ahead(w, i)
          OBVIOUS
        <4>3. \A k \in DOMAIN x : x[k] \in P
          BY <1>7, <3>1, <4>1
        <4>4. Behind(P, S, x)
          BY <3>4, <4>1, <4>2
        <4>5. Behind(P2, S, x)
          BY <1>c, <4>3, <4>4, BehindWider, Zenon
        <4> QED
          BY <4>1, <4>2, <4>5
      <3> QED
        BY <3>1, <3>3, <3>5
    <2>2. CASE i = n + 1
      <3>1. Ahead(v, i) = Inside(w)
        <4>1. (i - 1) = n
          BY <2>2
        <4>2. Ahead(v, i) = UNION {ToSet(v[j].recs) : j \in 1 .. n}
          BY <4>1 DEF Ahead
        <4>3. \A j \in 1 .. n : ToSet(v[j].recs) = ToSet(w[j].recs)
          BY <1>3
        <4> QED
          BY <1>2, <4>2, <4>3, Zenon DEF Inside
      <3>2. R \cup ToSet(s) \cup Ahead(v, i) = P
        BY <1>a, <3>1 DEF Pipe
      <3> QED
        BY <1>3, <1>c, <2>2, <3>2
    <2> QED
      BY <1>3, <2>1, <2>2
  <1>11. InOrder(P2, R, s, v)
    BY <1>8, <1>9, <1>10, Zenon DEF InOrder
  <1> QED
    BY <1>1, <1>5, <1>11, <1>a, <1>b

\* What the dispatcher learns from an event: its container, and the rounds it confirms.
LEMMA ObserveMarks ==
    ASSUME NEW d \in Disps, NEW e \in Events
    PROVE  LET o == ObserveContainerLifecycle(d, e)
           IN /\ o \in Disps /\ o.pending = d.pending /\ o.closed = d.closed
              /\ d.opened \subseteq o.opened /\ d.rounds \subseteq o.rounds
              /\ \A x \in o.opened : x \in d.opened \/
                    (x = e.box /\ e.kind \in {"loop_started", "loop_next", "loop_completed"})
              /\ \A p \in o.rounds : p \in d.rounds \/
                    \/ e.kind = "loop_next" /\ p = <<e.box, e.round>>
                    \/ e.kind = "loop_completed" /\ \E n \in 0 .. (e.round - 1) : p = <<e.box, n>>
  <1>1. PICK o : o = ObserveContainerLifecycle(d, e)
    OBVIOUS
  <1>2. o \in Disps /\ o.pending = d.pending /\ o.closed = d.closed
    BY <1>1, ObserveType DEF Records
  <1>3. CASE e.kind = "loop_started"
    <2>1. o.opened = d.opened \cup {e.box} /\ o.rounds = d.rounds
      BY <1>1, <1>3 DEF ObserveContainerLifecycle, Disps
    <2> QED
      BY <1>1, <1>2, <1>3, <2>1
  <1>4. CASE e.kind = "loop_next"
    <2>1. o.opened = d.opened \cup {e.box} /\ o.rounds = d.rounds \cup {<<e.box, e.round>>}
      BY <1>1, <1>4 DEF ObserveContainerLifecycle, Disps
    <2> QED
      BY <1>1, <1>2, <1>4, <2>1
  <1>5. CASE e.kind = "loop_completed"
    <2>1. /\ o.opened = d.opened \cup {e.box}
          /\ o.rounds = d.rounds \cup {<<e.box, n>> : n \in 0 .. (e.round - 1)}
      BY <1>1, <1>5 DEF ObserveContainerLifecycle, Disps
    <2> QED
      BY <1>1, <1>2, <1>5, <2>1
  <1>6. CASE e.kind \notin {"loop_started", "loop_next", "loop_completed"}
    <2>1. o = d
      BY <1>1, <1>6 DEF ObserveContainerLifecycle
    <2> QED
      BY <1>1, <1>2, <2>1
  <1> QED
    BY <1>3, <1>4, <1>5, <1>6

\* What an event of a script puts into the queue: itself and the children that it makes
\* ready, which follow it unless it completes their container.
LEMMA ReleasedParts ==
    ASSUME NEW d \in Disps, NEW e \in Events
    PROVE  LET o == ObserveContainerLifecycle(d, e)
               a == Released(d, e)
               ready == Ready(o, FALSE)
           IN /\ ready \in Seq(Events)
              /\ a.recs = IF BoxTerminal(e) THEN ready \o <<e>> ELSE <<e>> \o ready
              /\ a.disp.opened = o.opened /\ a.disp.rounds = o.rounds /\ a.disp.closed = o.closed
              /\ ToSet(a.disp.pending) \subseteq ToSet(d.pending)
              /\ \A x \in ToSet(ready) : x \in ToSet(d.pending) /\ ~ShouldBuffer(o, x)
  <1>1. PICK o : o = ObserveContainerLifecycle(d, e)
    OBVIOUS
  <1>2. PICK ready : ready = Ready(o, FALSE)
    OBVIOUS
  <1>3. PICK kept : kept = Kept(o, FALSE)
    OBVIOUS
  <1>4. o \in Disps /\ o.pending = d.pending /\ d.pending \in Seq(Events)
    BY <1>1, ObserveType DEF Records, Disps
  <1>5. ~RunTerminal(e)
    BY DispatchAssumption DEF RunTerminal
  <1>6. /\ Waits(o) \in SUBSET DOMAIN d.pending
        /\ \A i \in DOMAIN d.pending : i \in Waits(o) <=> ShouldBuffer(o, d.pending[i])
    BY <1>4 DEF Waits
  <1>7. /\ ready \in Seq(Events) /\ kept \in Seq(Events)
        /\ ToSet(ready) = {d.pending[i] : i \in DOMAIN d.pending \ Waits(o)}
        /\ ToSet(kept) = {d.pending[i] : i \in Waits(o)}
    <2>1. PICK s : s = d.pending
      OBVIOUS
    <2>2. PICK I : I = Waits(o)
      OBVIOUS
    <2>3. ready = Pick(s, DOMAIN s \ I) /\ kept = Pick(s, I)
      BY <1>2, <1>3, <1>4, <2>1, <2>2 DEF Ready, Kept
    <2>4. s \in Seq(Events) /\ I \in SUBSET DOMAIN s /\ DOMAIN s \ I \in SUBSET DOMAIN s
      BY <1>4, <1>6, <2>1, <2>2
    <2>5. /\ ready \in Seq(Events) /\ ToSet(ready) = {s[i] : i \in DOMAIN s \ I}
          /\ kept \in Seq(Events) /\ ToSet(kept) = {s[i] : i \in I}
      BY <2>3, <2>4, PickProperties, Zenon
    <2> QED
      BY <2>1, <2>2, <2>5
  <1>8. /\ Released(d, e).recs = IF BoxTerminal(e) THEN <<>> \o ready \o <<e>>
                                 ELSE <<>> \o <<e>> \o ready
        /\ Released(d, e).disp = [o EXCEPT !.pending = kept]
    BY <1>1, <1>2, <1>3, <1>5 DEF Released
  <1>9. <<>> \o ready = ready /\ <<>> \o <<e>> = <<e>>
    BY <1>7, ConcatEmptySeq
  <1>10. LET p == [o EXCEPT !.pending = kept]
         IN p.opened = o.opened /\ p.rounds = o.rounds /\ p.closed = o.closed /\ p.pending = kept
    BY <1>4 DEF Disps
  <1>11. ToSet(d.pending) = {d.pending[i] : i \in DOMAIN d.pending}
    BY DEF ToSet
  <1>12. ToSet(kept) \subseteq ToSet(d.pending)
    BY <1>6, <1>7, <1>11
  <1>13. \A x \in ToSet(ready) : x \in ToSet(d.pending) /\ ~ShouldBuffer(o, x)
    BY <1>6, <1>7, <1>11
  <1>14. Released(d, e).recs = IF BoxTerminal(e) THEN ready \o <<e>> ELSE <<e>> \o ready
    BY <1>8, <1>9
  <1>15. /\ Released(d, e).disp.opened = o.opened /\ Released(d, e).disp.rounds = o.rounds
         /\ Released(d, e).disp.closed = o.closed /\ Released(d, e).disp.pending = kept
    BY <1>8, <1>10
  <1> QED
    BY <1>1, <1>2, <1>7, <1>12, <1>13, <1>14, <1>15

\* Children are no markers.
LEMMA NoMarker ==
    \A e, c : Child(e) => ~MarkerOf(e, c)
  BY DEF Child, MarkerOf

\* What an event confirms, its thread has reported at or before it.
LEMMA Reported ==
    ASSUME NEW g \in Gens, NEW t \in Threads, NEW n \in DOMAIN Script[g][t]
    PROVE  \A m \in EventsOf(g) :
              Confirms(Script[g][t][n], m) => \E j \in 1 .. n : Script[g][t][j] = m
  <1>1. \A u \in Threads : \A m \in ToSet(Script[g][u]) :
            Confirms(Script[g][t][n], m) => \E j \in 1 .. n : Script[g][t][j] = m
    BY LifecycleAssumption
  <1> QED
    BY <1>1 DEF EventsOf

\* Request r carries what dispatcher d releases for event e, the n-th that thread t
\* reports; the thread's earlier events are pending or in the line.
Sends(g, t, n, e, R, d, s, w, r) ==
    /\ e = Script[g][t][n] /\ ~d.closed /\ ~ShouldBuffer(d, e)
    /\ r.recs = Released(d, e).recs
    /\ \A j \in 1 .. (n - 1) : Script[g][t][j] \in ToSet(d.pending) \cup Pipe(R, s, w)

\* An event that is not held back joins the line with the children it makes ready.
LEMMA EventJoins ==
    ASSUME NEW g \in Gens, NEW t \in Threads, NEW n \in DOMAIN Script[g][t], NEW e,
           NEW R, NEW d \in Disps, NEW s \in Seq(Records), NEW w \in Seq(ReqsOf),
           NEW r \in ReqsOf, RoundsOK(g, R, d, s, w), Sends(g, t, n, e, R, d, s, w, r)
    PROVE  RoundsOK(g, R, Released(d, e).disp, s, Append(w, r))
  <1>0. /\ e = Script[g][t][n] /\ ~d.closed /\ ~ShouldBuffer(d, e)
        /\ r.recs = Released(d, e).recs
        /\ \A j \in 1 .. (n - 1) : Script[g][t][j] \in ToSet(d.pending) \cup Pipe(R, s, w)
    BY Zenon DEF Sends
  <1>1. PICK P : P = Pipe(R, s, w)
    OBVIOUS
  <1>2. PICK o : o = ObserveContainerLifecycle(d, e)
    OBVIOUS
  <1>3. PICK ready : ready = Ready(o, FALSE)
    OBVIOUS
  <1>4. PICK d2 : d2 = Released(d, e).disp
    OBVIOUS
  <1>5. e \in Events /\ e \in EventsOf(g)
    <2>1. e \in ToSet(Script[g][t])
      BY <1>0 DEF ToSet
    <2> QED
      BY <2>1 DEF Events, EventsOf
  <1>6. /\ d.opened \subseteq o.opened /\ d.rounds \subseteq o.rounds
        /\ o.pending = d.pending /\ o.closed = d.closed
        /\ \A x \in o.opened : x \in d.opened \/
              (x = e.box /\ e.kind \in {"loop_started", "loop_next", "loop_completed"})
        /\ \A p \in o.rounds : p \in d.rounds \/
              \/ e.kind = "loop_next" /\ p = <<e.box, e.round>>
              \/ e.kind = "loop_completed" /\ \E k \in 0 .. (e.round - 1) : p = <<e.box, k>>
    BY <1>2, <1>5, ObserveMarks
  <1>7. /\ ready \in Seq(Events)
        /\ r.recs = IF BoxTerminal(e) THEN ready \o <<e>> ELSE <<e>> \o ready
        /\ d2.opened = o.opened /\ d2.rounds = o.rounds /\ d2.closed = o.closed
        /\ ToSet(d2.pending) \subseteq ToSet(d.pending)
        /\ \A x \in ToSet(ready) : x \in ToSet(d.pending) /\ ~ShouldBuffer(o, x)
    BY <1>0, <1>2, <1>3, <1>4, <1>5, ReleasedParts
  <1>8. InOrder(P, R, s, w) /\ MarksOK(g, d, P)
    BY <1>1, Zenon DEF RoundsOK
  <1>9. /\ \A c \in P : Child(c) => Announced(d, c)
        /\ \A m \in EventsOf(g) :
              /\ m.kind = "loop_started" /\ m.box \in d.opened => m \in P
              /\ m.kind = "loop_next" /\ <<m.box, m.round>> \in d.rounds => m \in P
        /\ \A c \in ToSet(d.pending) : Child(c)
    BY <1>0, <1>8 DEF MarksOK
  <1>10. \A c \in ToSet(ready) : Child(c) /\ Announced(o, c)
    BY <1>7, <1>9 DEF ShouldBuffer, Announced, Child
  <1>11. Child(e) => Announced(d, e)
    BY <1>0 DEF ShouldBuffer, Announced, Child
  <1>12. <<e>> \in Seq(Events) /\ ToSet(<<e>>) = {e}
    BY <1>5 DEF ToSet
  <1>13. ToSet(r.recs) = {e} \cup ToSet(ready)
    <2>1. PICK one : one = <<e>>
      OBVIOUS
    <2>2. one \in Seq(Events) /\ ToSet(one) = {e}
      BY <1>12, <2>1
    <2>3. /\ ToSet(ready \o one) = ToSet(ready) \cup ToSet(one)
          /\ ToSet(one \o ready) = ToSet(one) \cup ToSet(ready)
      BY <1>7, <2>2, Elements
    <2> QED
      BY <1>7, <2>1, <2>2, <2>3
  <1>14. PICK P2 : P2 = P \cup ToSet(r.recs)
    OBVIOUS
  <1>15. ASSUME NEW c \in P, Child(c), NEW m \in P2, MarkerOf(m, c) PROVE m \in P
    <2>1. m \in P \/ m = e
      BY <1>10, <1>13, <1>14, <1>15, NoMarker
    <2>2. CASE m = e
      <3>1. c.box \in d.opened /\ <<c.box, c.round>> \in d.rounds
        BY <1>9, <1>15 DEF Announced
      <3> QED
        BY <1>5, <1>9, <1>15, <2>2, <3>1 DEF MarkerOf
    <2> QED
      BY <2>1, <2>2
  <1>16. Behind(P2, P, r.recs)
    <2> SUFFICES ASSUME NEW i \in DOMAIN r.recs, Child(r.recs[i]), NEW m \in P2,
                        MarkerOf(m, r.recs[i])
                 PROVE  m \in P \/ \E j \in 1 .. (i - 1) : r.recs[j] = m
      BY Zenon DEF Behind
    <2>1. m \in P \/ m = e
      BY <1>10, <1>13, <1>14, NoMarker
    <2>2. CASE m = e
      <3>1. ~BoxTerminal(e) /\ ~Child(e)
        BY <2>2 DEF MarkerOf, BoxTerminal, Child
      <3>2. r.recs = <<e>> \o ready
        BY <1>7, <3>1
      <3>3. r.recs[1] = e
        <4>1. PICK one : one = <<e>>
          OBVIOUS
        <4>2. one \in Seq(Events) /\ Len(one) = 1 /\ one[1] = e
          BY <1>12, <4>1
        <4>3. (one \o ready)[1] = one[1]
          <5>1. 1 \in 1 .. (Len(one) + Len(ready))
            BY <1>7, <4>2, LenProperties
          <5>2. (one \o ready)[1] = IF 1 <= Len(one) THEN one[1] ELSE ready[1 - Len(one)]
            BY <1>7, <4>2, <5>1, ConcatProperties
          <5> QED
            BY <4>2, <5>2
        <4> QED
          BY <3>2, <4>1, <4>2, <4>3
      <3>4. r.recs \in Seq(Records)
        BY DEF ReqsOf
      <3>5. i \in Nat /\ i >= 1 /\ i # 1
        BY <3>1, <3>3, <3>4, LenProperties
      <3> QED
        BY <2>2, <3>3, <3>5
    <2> QED
      BY <2>1, <2>2
  <1>17. /\ Pipe(R, s, Append(w, r)) = P2 /\ InOrder(P2, R, s, Append(w, r))
    <2>1. \A c \in P : Child(c) => \A m \in P2 : MarkerOf(m, c) => m \in P
      BY <1>15, Zenon
    <2>2. InOrder(Pipe(R, s, w), R, s, w) /\ FitsBehind(Pipe(R, s, w), r.recs)
      BY <1>1, <1>8, <1>14, <1>16, <2>1 DEF FitsBehind
    <2>3. /\ Pipe(R, s, Append(w, r)) = Pipe(R, s, w) \cup ToSet(r.recs)
          /\ InOrder(Pipe(R, s, Append(w, r)), R, s, Append(w, r))
      BY <2>2, RequestJoins, Zenon
    <2> QED
      BY <1>1, <1>14, <2>3
  <1>18. ASSUME NEW m \in EventsOf(g), Confirms(e, m) PROVE m \in P2
    <2>1. \A x \in EventsOf(g) :
              Confirms(Script[g][t][n], x) => \E j \in 1 .. n : Script[g][t][j] = x
      BY Reported, Zenon
    <2>2. PICK j \in 1 .. n : Script[g][t][j] = m
      BY <1>0, <1>18, <2>1
    <2>3. CASE j = n
      BY <1>0, <1>13, <1>14, <2>2, <2>3
    <2>4. CASE j # n
      <3>1. j \in 1 .. (n - 1)
        <4>1. n \in Nat
          <5>1. Script[g][t] \in Seq(Events)
            BY DispatchAssumption
          <5> QED
            BY <5>1, LenProperties
        <4> QED
          BY <2>4, <4>1
      <3>2. m \in ToSet(d.pending) \cup P
        BY <1>0, <1>1, <2>2, <3>1
      <3>3. ~Child(m)
        BY <1>18 DEF Confirms, Child
      <3> QED
        BY <1>9, <1>14, <3>2, <3>3
    <2> QED
      BY <2>3, <2>4
  <1>19. ASSUME NEW m \in EventsOf(g)
         PROVE  /\ m.kind = "loop_started" /\ m.box \in d2.opened => m \in P2
                /\ m.kind = "loop_next" /\ <<m.box, m.round>> \in d2.rounds => m \in P2
    <2>1. ASSUME m.kind = "loop_started", m.box \in d2.opened PROVE m \in P2
      <3>1. CASE m.box \in d.opened
        BY <1>9, <1>14, <2>1, <3>1
      <3>2. CASE m.box \notin d.opened
        <4>1. e.box = m.box /\ e.kind \in {"loop_started", "loop_next", "loop_completed"}
          BY <1>6, <1>7, <2>1, <3>2
        <4>2. Confirms(e, m)
          BY <2>1, <4>1 DEF Confirms
        <4> QED
          BY <1>18, <4>2
      <3> QED
        BY <3>1, <3>2
    <2>2. ASSUME m.kind = "loop_next", <<m.box, m.round>> \in d2.rounds PROVE m \in P2
      <3>1. CASE <<m.box, m.round>> \in d.rounds
        BY <1>9, <1>14, <2>2, <3>1
      <3>2. CASE <<m.box, m.round>> \notin d.rounds
        <4>1. \/ e.kind = "loop_next" /\ <<m.box, m.round>> = <<e.box, e.round>>
              \/ /\ e.kind = "loop_completed"
                 /\ \E k \in 0 .. (e.round - 1) : <<m.box, m.round>> = <<e.box, k>>
          BY <1>6, <1>7, <2>2, <3>2
        <4>2. e.round \in Nat
          BY <1>5, RecordFields
        <4>3. Confirms(e, m)
          BY <2>2, <4>1, <4>2 DEF Confirms
        <4> QED
          BY <1>18, <4>3
      <3> QED
        BY <3>1, <3>2
    <2> QED
      BY <2>1, <2>2
  <1>20. ASSUME NEW c \in P2, Child(c) PROVE Announced(d2, c)
    <2>1. CASE c \in P
      BY <1>6, <1>7, <1>9, <1>20, <2>1 DEF Announced
    <2>2. CASE c = e
      BY <1>6, <1>7, <1>11, <1>20, <2>2 DEF Announced
    <2>3. CASE c \in ToSet(ready)
      BY <1>7, <1>10, <2>3 DEF Announced
    <2> QED
      BY <1>13, <1>14, <2>1, <2>2, <2>3
  <1>21. \A c \in ToSet(d2.pending) : Child(c)
    BY <1>7, <1>9
  <1>22. MarksOK(g, d2, P2)
    BY <1>19, <1>20, <1>21 DEF MarksOK
  <1> QED
    BY <1>0, <1>4, <1>17, <1>22 DEF RoundsOK

-----------------------------------------------------------------------------
(* The order of every execution, step by step.                              *)

\* Every marker in table R of a child of execution g has a smaller sequence.
Ordered(R, g) ==
    \A r, q \in R : r.gen = g /\ q.gen = g /\ Child(r.ev) /\ MarkerOf(q.ev, r.ev) => q.seq < r.seq

\* The same of an execution whose batcher is b and whose queue is q.
RoundsAt(g, R, d, q, b) == RoundsOK(g, StoredIn(R, g), d, ToCome(b), Line(q, b))

\* An execution without a failure has its rows in order, and until it settles an event of
\* its own also what it will store next.
SortedOK(g, R, d, q, b, m, f) ==
    ~f => Ordered(R, g) /\ (m.ev = {} => RoundsAt(g, R, d, q, b))

\* Every execution is in order.
Sorted == \A g \in Gens : SortedOK(g, rows, disp[g], queue[g], bat[g], main[g], failed[g])

\* The table keeps the rows it had; those that are new are of execution g.
RowsOf(g) == rows \subseteq rows' /\ \A r \in rows' \ rows : r.gen = g

\* Rows of others change nothing for an execution.
LEMMA SortedElsewhere ==
    ASSUME NEW h, NEW R, NEW R2, NEW d, NEW q, NEW b, NEW m, NEW f,
           SortedOK(h, R, d, q, b, m, f), R \subseteq R2, \A r \in R2 : r.gen = h => r \in R
    PROVE  SortedOK(h, R2, d, q, b, m, f)
  <1>1. {x \in R2 : x.gen = h} = {x \in R : x.gen = h}
    BY Zenon
  <1>2. StoredIn(R2, h) = StoredIn(R, h)
    BY <1>1, Zenon DEF StoredIn
  <1>3. Ordered(R, h) => Ordered(R2, h)
    BY Zenon DEF Ordered
  <1> QED
    BY <1>2, <1>3, Zenon DEF SortedOK, RoundsAt

\* A step after which every execution is in order.
LEMMA SortedNext ==
    ASSUME \A h \in Gens :
              SortedOK(h, rows', disp'[h], queue'[h], bat'[h], main'[h], failed'[h])
    PROVE  Sorted'
  BY DEF Sorted, SortedOK, Ordered, RoundsAt, RoundsOK, StoredIn, ToCome, Line, Pipe, Inside,
         InOrder, Behind, Ahead, MarksOK, Announced

\* A step of one execution to values in order keeps all executions in order.
LEMMA SortedOfOne ==
    ASSUME Executions, Sorted, NEW g \in Gens,
           NEW d, NEW q, NEW b, NEW th, NEW m, NEW f, NEW lv,
           Becomes(g, d, q, b, th, m, f, lv), RowsOf(g), SortedOK(g, rows', d, q, b, m, f)
    PROVE  Sorted'
  <1>1. ASSUME NEW h \in Gens
        PROVE  SortedOK(h, rows', disp'[h], queue'[h], bat'[h], main'[h], failed'[h])
    <2>1. CASE h = g
      <3>1. /\ disp'[g] = d /\ queue'[g] = q /\ bat'[g] = b /\ main'[g] = m /\ failed'[g] = f
        BY DEF Executions, Becomes
      <3> QED
        BY <2>1, <3>1, Zenon
    <2>2. CASE h # g
      <3>1. /\ disp'[h] = disp[h] /\ queue'[h] = queue[h] /\ bat'[h] = bat[h]
            /\ main'[h] = main[h] /\ failed'[h] = failed[h]
        BY <2>2 DEF Executions, Becomes
      <3>2. SortedOK(h, rows, disp[h], queue[h], bat[h], main[h], failed[h])
        BY Zenon DEF Sorted
      <3>3. rows \subseteq rows' /\ \A r \in rows' : r.gen = h => r \in rows
        BY <2>2, Zenon DEF RowsOf
      <3>4. SortedOK(h, rows', disp[h], queue[h], bat[h], main[h], failed[h])
        BY <3>2, <3>3, SortedElsewhere, Zenon
      <3> QED
        BY <3>1, <3>4, Zenon
    <2> QED
      BY <2>1, <2>2
  <1> QED
    BY <1>1, SortedNext, Zenon

\* A step of one execution that appends no row.
LEMMA SortedQuiet ==
    ASSUME Executions, Sorted, NEW g \in Gens,
           NEW d, NEW q, NEW b, NEW th, NEW m, NEW f, NEW lv,
           Becomes(g, d, q, b, th, m, f, lv), rows' = rows, SortedOK(g, rows, d, q, b, m, f)
    PROVE  Sorted'
  <1>1. RowsOf(g)
    BY Zenon DEF RowsOf
  <1>2. SortedOK(g, rows', d, q, b, m, f)
    BY Zenon
  <1> QED
    BY <1>1, <1>2, SortedOfOne, Zenon

\* After a failure nothing is promised.
LEMMA SortedFailed ==
    \A g, R, d, q, b, m : SortedOK(g, R, d, q, b, m, TRUE)
  BY DEF SortedOK

\* What stands in the same places stays in order.
LEMMA SortedSame ==
    ASSUME NEW g, NEW R, NEW d, NEW q, NEW b, NEW m, NEW f, SortedOK(g, R, d, q, b, m, f),
           NEW q2, NEW b2, NEW m2, ToCome(b2) = ToCome(b), Line(q2, b2) = Line(q, b),
           m2.ev = m.ev
    PROVE  SortedOK(g, R, d, q2, b2, m2, f)
  BY Zenon DEF SortedOK, RoundsAt

\* The batcher takes the first request of the line into its batch.
LEMMA SortedHead ==
    ASSUME NEW g, NEW R, NEW d, NEW q, NEW b, NEW m, NEW f, SortedOK(g, R, d, q, b, m, f),
           NEW q2, NEW b2, ToCome(b) \in Seq(Records), Line(q, b) \in Seq(ReqsOf),
           Line(q, b) # <<>>, ToCome(b2) = ToCome(b) \o Head(Line(q, b)).recs,
           Line(q2, b2) = Tail(Line(q, b))
    PROVE  SortedOK(g, R, d, q2, b2, m, f)
  <1> SUFFICES ASSUME ~f PROVE Ordered(R, g) /\ (m.ev = {} => RoundsAt(g, R, d, q2, b2))
    BY Zenon DEF SortedOK
  <1>1. Ordered(R, g) /\ (m.ev = {} => RoundsAt(g, R, d, q, b))
    BY Zenon DEF SortedOK
  <1>2. PICK s \in Seq(Records) : s = ToCome(b)
    OBVIOUS
  <1>3. PICK w \in Seq(ReqsOf) : w = Line(q, b)
    OBVIOUS
  <1>4. PICK S : S = StoredIn(R, g)
    OBVIOUS
  <1>5. /\ Pipe(S, s \o Head(w).recs, Tail(w)) = Pipe(S, s, w)
        /\ InOrder(Pipe(S, s, w), S, s, w) => InOrder(Pipe(S, s, w), S, s \o Head(w).recs, Tail(w))
    BY <1>3, HeadMoves
  <1>6. RoundsOK(g, S, d, s, w) => RoundsOK(g, S, d, s \o Head(w).recs, Tail(w))
    BY <1>5, Zenon DEF RoundsOK
  <1>7. RoundsAt(g, R, d, q, b) <=> RoundsOK(g, S, d, s, w)
    BY <1>2, <1>3, <1>4 DEF RoundsAt
  <1>8. RoundsAt(g, R, d, q2, b2) <=> RoundsOK(g, S, d, s \o Head(w).recs, Tail(w))
    BY <1>2, <1>3, <1>4 DEF RoundsAt
  <1> QED
    BY <1>1, <1>6, <1>7, <1>8

\* The records a batcher has to store are all it holds, once what it has shown is gone.
LEMMA ToComeAll ==
    ASSUME NEW b \in Bats, b.out = <<>>
    PROVE  ToCome(b) = b.recs /\ ToCome(b) \in Seq(Records)
  <1>1. b.recs \in Seq(Records) /\ Len(b.out) = 0
    BY EmptySeq DEF Bats
  <1>2. ToCome(b) = SubSeq(b.recs, 1, Len(b.recs))
    BY <1>1 DEF ToCome
  <1> QED
    BY <1>1, <1>2, SubSeqFull

\* One request, and what is behind it.
LEMMA OneAndRest ==
    /\ \A c \in ReqsOf, q \in Seq(ReqsOf) :
          <<c>> \o q # <<>> /\ Head(<<c>> \o q) = c /\ Tail(<<c>> \o q) = q
    /\ \A q \in Seq(ReqsOf) : q # <<>> => <<Head(q)>> \o Tail(q) = q
  <1>1. ASSUME NEW c \in ReqsOf, NEW q \in Seq(ReqsOf)
        PROVE  <<c>> \o q # <<>> /\ Head(<<c>> \o q) = c /\ Tail(<<c>> \o q) = q
    <2>1. PICK o \in Seq(ReqsOf) : o = <<c>> /\ Len(o) = 1 /\ o[1] = c
      <3>1. <<c>> \in Seq(ReqsOf) /\ Len(<<c>>) = 1 /\ <<c>>[1] = c
        OBVIOUS
      <3> QED
        BY <3>1, Zenon
    <2>2. PICK n \in Nat : n = Len(q)
      BY LenProperties
    <2>3. PICK w : w = o \o q
      OBVIOUS
    <2>4. /\ w \in Seq(ReqsOf) /\ Len(w) = 1 + n
          /\ \A i \in 1 .. (1 + n) : w[i] = IF i <= 1 THEN o[i] ELSE q[i - 1]
      BY <2>1, <2>2, <2>3, ConcatProperties
    <2>5. w # <<>> /\ Head(w) = w[1] /\ w[1] = c
      BY <2>1, <2>2, <2>4
    <2>6. /\ Tail(w) \in Seq(ReqsOf) /\ Len(Tail(w)) = n
          /\ \A i \in 1 .. n : Tail(w)[i] = w[i + 1]
      BY <2>2, <2>4, <2>5, HeadTailProperties
    <2>7. \A i \in 1 .. n : w[i + 1] = q[i]
      <3> TAKE i \in 1 .. n
      <3>1. i + 1 \in 1 .. (1 + n) /\ ~(i + 1 <= 1) /\ (i + 1) - 1 = i
        BY <2>2
      <3> QED
        BY <2>4, <3>1
    <2>8. Tail(w) = q
      BY <2>2, <2>6, <2>7, SeqEqual
    <2> QED
      BY <2>1, <2>3, <2>5, <2>8
  <1>2. ASSUME NEW q \in Seq(ReqsOf), q # <<>> PROVE <<Head(q)>> \o Tail(q) = q
    <2>1. PICK n \in Nat : n = Len(q) /\ n > 0
      BY <1>2, LenProperties
    <2>2. SubSeq(q, 1, n) = <<q[1]>> \o SubSeq(q, 2, n)
      <3>1. 1 \in 1 .. Len(q) /\ n \in 1 .. Len(q)
        BY <2>1
      <3>2. SubSeq(q, 1, n) = <<q[1]>> \o SubSeq(q, 1 + 1, n)
        BY <3>1, SubSeqRecursiveFirst
      <3> QED
        BY <3>2
    <2>3. SubSeq(q, 1, n) = q /\ Tail(q) = SubSeq(q, 2, n) /\ Head(q) = q[1]
      BY <1>2, <2>1, SubSeqFull, TailIsSubSeq
    <2> QED
      BY <2>2, <2>3
  <1> QED
    BY <1>1, <1>2, Zenon

\* The values at one execution are in order.
LEMMA SortedAt ==
    ASSUME Sorted, NEW g \in Gens
    PROVE  SortedOK(g, rows, disp[g], queue[g], bat[g], main[g], failed[g])
  BY Zenon DEF Sorted

\* TakeFirst: the first of the line starts a batch.
LEMMA TakeFirstSorted ==
    ASSUME Executions, Sorted, NEW g \in Gens, TakeFirst(g)
    PROVE  Sorted'
  <1> DEFINE d == disp[g]
             q == queue[g]
             b == bat[g]
             th == thr[g]
             m == main[g]
             f == failed[g]
             lv == live[g]
             first == IF b.carry # <<>> THEN b.carry[1] ELSE Head(q)
             q2 == IF b.carry # <<>> THEN q ELSE Tail(q)
             ph == IF first.barrier \/ Len(first.recs) >= BatchCount THEN "flush" ELSE "collect"
             b2 == [Grow(b, first) EXCEPT !.carry = <<>>, !.phase = ph]
  <1>1. Good(g, d, q, b, th, m, f, lv) /\ SortedOK(g, rows, d, q, b, m, f)
    BY AtOne, SortedAt, Zenon
  <1>2. b.phase = "idle" /\ (b.carry # <<>> \/ q # <<>>) /\ rows' = rows
    BY DEF TakeFirst, BatcherOnly
  <1>3. Becomes(g, d, q2, b2, th, m, f, lv)
    BY AtOne DEF Becomes, TakeFirst, BatcherOnly
  <1> HIDE DEF d, q, b, th, m, f, lv
  <1>4. /\ q \in Seq(ReqsOf) /\ b \in Bats /\ b.carry \in Seq(ReqsOf) /\ Len(b.carry) <= 1
    BY <1>1 DEF Good, Bats
  <1>5. b.recs = <<>> /\ b.out = <<>>
    BY <1>1, <1>2 DEF Good, LocalOK, PhaseOK
  <1>6. ph \in PhaseOf
    BY DEF PhaseOf
  <1> HIDE DEF ph
  <1>7. /\ first \in ReqsOf /\ q2 \in Seq(ReqsOf) /\ Line(q, b) \in Seq(ReqsOf)
        /\ Line(q, b) # <<>> /\ Head(Line(q, b)) = first /\ Tail(Line(q, b)) = q2
    <2>1. CASE b.carry # <<>>
      <3>1. first = b.carry[1] /\ q2 = q /\ first \in ReqsOf /\ b.carry = <<first>>
        BY <1>4, <2>1
      <3> HIDE DEF first, q2
      <3>2. Line(q, b) = <<first>> \o q
        BY <3>1 DEF Line
      <3>3. <<first>> \o q # <<>> /\ Head(<<first>> \o q) = first /\ Tail(<<first>> \o q) = q
        BY <1>4, <3>1, OneAndRest, Zenon
      <3>4. Line(q, b) \in Seq(ReqsOf)
        BY <1>4, ConcatProperties DEF Line
      <3> QED
        BY <1>4, <3>1, <3>2, <3>3, <3>4
    <2>2. CASE b.carry = <<>>
      <3>1. first = Head(q) /\ q2 = Tail(q) /\ q # <<>>
        BY <1>2, <2>2
      <3>2. Line(q, b) = q
        BY <1>4, <2>2, ConcatEmptySeq DEF Line
      <3> QED
        BY <1>4, <3>1, <3>2, HeadTailProperties
    <2> QED
      BY <2>1, <2>2
  <1> HIDE DEF first, q2
  <1>8. /\ Grow(b, first) \in Bats /\ Grow(b, first).out = b.out
        /\ Grow(b, first).recs = b.recs \o first.recs
    BY <1>4, <1>7, GrowType, Zenon
  <1>9. b2 \in Bats /\ b2.carry = <<>> /\ b2.out = <<>> /\ b2.recs = b.recs \o first.recs
    <2>1. PICK x, y : x = b2 /\ y = Grow(b, first) /\ x = [y EXCEPT !.carry = <<>>, !.phase = ph]
      OBVIOUS
    <2>2. <<>> \in Seq(ReqsOf)
      OBVIOUS
    <2>3. x \in Bats /\ x.carry = <<>> /\ x.out = y.out /\ x.recs = y.recs
      BY <1>6, <1>8, <2>1, <2>2 DEF Bats
    <2> HIDE DEF b2
    <2> QED
      BY <1>5, <1>8, <2>1, <2>3
  <1> HIDE DEF b2
  <1>10. ToCome(b2) = b2.recs /\ ToCome(b) = b.recs /\ ToCome(b) \in Seq(Records)
    BY <1>4, <1>5, <1>9, ToComeAll
  <1>11. Line(q2, b2) = q2
    BY <1>7, <1>9, ConcatEmptySeq DEF Line
  <1>12. SortedOK(g, rows, d, q2, b2, m, f)
    <2>1. ToCome(b2) = ToCome(b) \o Head(Line(q, b)).recs /\ Line(q2, b2) = Tail(Line(q, b))
      BY <1>7, <1>9, <1>10, <1>11
    <2> QED
      BY <1>1, <1>7, <1>10, <2>1, SortedHead, Zenon
  <1> QED
    BY <1>2, <1>3, <1>12, SortedQuiet, Zenon

\* CollectNext: the first of the line joins the batch or, carried over, stays the first.
LEMMA CollectNextSorted ==
    ASSUME Executions, Sorted, NEW g \in Gens, CollectNext(g)
    PROVE  Sorted'
  <1> DEFINE d == disp[g]
             q == queue[g]
             b == bat[g]
             th == thr[g]
             m == main[g]
             f == failed[g]
             lv == live[g]
             next == Head(q)
             size == Len(b.recs) + Len(next.recs)
             ph == IF size = BatchCount THEN "flush" ELSE "collect"
             carries == [b EXCEPT !.carry = <<next>>, !.phase = "flush"]
             grows == [Grow(b, next) EXCEPT !.phase = ph]
             b2 == IF next.barrier \/ size > BatchCount THEN carries ELSE grows
             q2 == Tail(q)
  <1>1. Good(g, d, q, b, th, m, f, lv) /\ SortedOK(g, rows, d, q, b, m, f)
    BY AtOne, SortedAt, Zenon
  <1>2. b.phase = "collect" /\ q # <<>> /\ rows' = rows
    BY DEF CollectNext, BatcherOnly
  <1>3. bat' = [bat EXCEPT ![g] = b2]
    BY DEF CollectNext
  <1>4. Becomes(g, d, q2, b2, th, m, f, lv)
    BY <1>3, AtOne DEF Becomes, CollectNext, BatcherOnly
  <1> HIDE DEF d, q, b, th, m, f, lv
  <1>5. q \in Seq(ReqsOf) /\ b \in Bats
    BY <1>1 DEF Good
  <1>6. b.carry = <<>> /\ b.out = <<>>
    BY <1>1, <1>2 DEF Good, LocalOK, PhaseOK
  <1>7. next \in ReqsOf /\ q2 \in Seq(ReqsOf)
    BY <1>2, <1>5, HeadTailProperties
  <1>8. Line(q, b) = q
    BY <1>5, <1>6, ConcatEmptySeq DEF Line
  <1>9. ToCome(b) = b.recs /\ ToCome(b) \in Seq(Records)
    BY <1>5, <1>6, ToComeAll
  <1>10. ph \in PhaseOf
    BY DEF PhaseOf
  <1> HIDE DEF ph, size
  <1>11. CASE b2 = carries
    <2>1. b2 \in Bats /\ b2.recs = b.recs /\ b2.carry = <<next>> /\ b2.out = <<>>
      <3>1. <<next>> \in Seq(ReqsOf) /\ "flush" \in PhaseOf
        BY <1>7 DEF PhaseOf
      <3>2. PICK x, c : x = carries /\ c = <<next>> /\ x = [b EXCEPT !.carry = c, !.phase = "flush"]
        OBVIOUS
      <3>3. x \in Bats /\ x.carry = c /\ x.out = b.out /\ x.recs = b.recs
        BY <1>5, <3>1, <3>2 DEF Bats
      <3> HIDE DEF b2, carries
      <3> QED
        BY <1>6, <1>11, <3>2, <3>3
    <2> HIDE DEF b2
    <2>2. ToCome(b2) = ToCome(b)
      BY <1>9, <2>1, ToComeAll
    <2>3. <<next>> \o q2 = q
      BY <1>2, <1>5, OneAndRest, Zenon
    <2>4. Line(q2, b2) = Line(q, b)
      BY <1>8, <2>1, <2>3 DEF Line
    <2>5. SortedOK(g, rows, d, q2, b2, m, f)
      BY <1>1, <2>2, <2>4, SortedSame, Zenon
    <2> QED
      BY <1>2, <1>4, <2>5, SortedQuiet, Zenon
  <1>12. CASE b2 = grows
    <2> HIDE DEF next
    <2>1. /\ Grow(b, next) \in Bats /\ Grow(b, next).out = b.out /\ Grow(b, next).carry = b.carry
          /\ Grow(b, next).recs = b.recs \o next.recs
      BY <1>5, <1>7, GrowType, Zenon
    <2>2. b2 \in Bats /\ b2.carry = <<>> /\ b2.out = <<>> /\ b2.recs = b.recs \o next.recs
      <3>1. PICK x, y : x = grows /\ y = Grow(b, next) /\ x = [y EXCEPT !.phase = ph]
        OBVIOUS
      <3>2. x \in Bats /\ x.carry = y.carry /\ x.out = y.out /\ x.recs = y.recs
        BY <1>10, <2>1, <3>1 DEF Bats
      <3> HIDE DEF b2, grows
      <3> QED
        BY <1>6, <1>12, <2>1, <3>1, <3>2
    <2> HIDE DEF b2, q2
    <2>3. ToCome(b2) = b2.recs
      BY <2>2, ToComeAll
    <2>4. Line(q2, b2) = q2
      BY <1>7, <2>2, ConcatEmptySeq DEF Line
    <2>5. /\ ToCome(b2) = ToCome(b) \o Head(Line(q, b)).recs /\ Line(q2, b2) = Tail(Line(q, b))
          /\ Line(q, b) # <<>> /\ Line(q, b) \in Seq(ReqsOf)
      BY <1>2, <1>5, <1>8, <1>9, <2>2, <2>3, <2>4 DEF q2, next
    <2>6. SortedOK(g, rows, d, q2, b2, m, f)
      BY <1>1, <1>9, <2>5, SortedHead, Zenon
    <2> QED
      BY <1>2, <1>4, <2>6, SortedQuiet, Zenon
  <1> QED
    BY <1>11, <1>12

\* WindowEnds, BatcherExits and CloseBatcher move nothing.
LEMMA BatcherSorted ==
    ASSUME Executions, Sorted, NEW g \in Gens,
           WindowEnds(g) \/ BatcherExits(g) \/ CloseBatcher(g)
    PROVE  Sorted'
  <1>1. /\ Good(g, disp[g], queue[g], bat[g], thr[g], main[g], failed[g], live[g])
        /\ SortedOK(g, rows, disp[g], queue[g], bat[g], main[g], failed[g])
    BY AtOne, SortedAt, Zenon
  <1>2. rows' = rows
    BY DEF WindowEnds, BatcherExits, CloseBatcher, BatcherOnly
  <1>3. \/ \E y : Becomes(g, disp[g], queue[g], [bat[g] EXCEPT !.phase = y], thr[g], main[g],
                          failed[g], live[g])
        \/ \E y : Becomes(g, disp[g], queue[g], [bat[g] EXCEPT !.closed = y], thr[g], main[g],
                          failed[g], live[g])
    BY AtOne DEF Becomes, WindowEnds, BatcherExits, CloseBatcher, BatcherOnly
  <1>4. PICK b2 : /\ Becomes(g, disp[g], queue[g], b2, thr[g], main[g], failed[g], live[g])
                  /\ b2.carry = bat[g].carry /\ b2.recs = bat[g].recs /\ b2.out = bat[g].out
    <2>0. bat[g] \in Bats
      BY <1>1 DEF Good
    <2> DEFINE Fits(x) ==
                  /\ Becomes(g, disp[g], queue[g], x, thr[g], main[g], failed[g], live[g])
                  /\ x.carry = bat[g].carry /\ x.recs = bat[g].recs /\ x.out = bat[g].out
    <2>1. ASSUME NEW y, NEW x, x = [bat[g] EXCEPT !.phase = y] \/ x = [bat[g] EXCEPT !.closed = y]
          PROVE  x.carry = bat[g].carry /\ x.recs = bat[g].recs /\ x.out = bat[g].out
      BY <2>0, <2>1 DEF Bats
    <2>2. PICK x, y : /\ Becomes(g, disp[g], queue[g], x, thr[g], main[g], failed[g], live[g])
                      /\ \/ x = [bat[g] EXCEPT !.phase = y]
                         \/ x = [bat[g] EXCEPT !.closed = y]
      BY <1>3, Zenon
    <2>3. Fits(x)
      BY <2>1, <2>2
    <2> QED
      BY <2>3
  <1>5. ToCome(b2) = ToCome(bat[g]) /\ Line(queue[g], b2) = Line(queue[g], bat[g])
    BY <1>4 DEF ToCome, Line
  <1>6. SortedOK(g, rows, disp[g], queue[g], b2, main[g], failed[g])
    BY <1>1, <1>5, SortedSame, Zenon
  <1> QED
    BY <1>2, <1>4, <1>6, SortedQuiet, Zenon

\* PersistFails: the failure is noted.
LEMMA PersistFailsSorted ==
    ASSUME Executions, Sorted, NEW g \in Gens, PersistFails(g)
    PROVE  Sorted'
  <1> DEFINE b2 == [bat[g] EXCEPT !.phase = "idle", !.reqs = <<>>, !.recs = <<>>]
             th2 == ServedThr(thr[g], By(bat[g].reqs))
             m2 == ServedMain(main[g], By(bat[g].reqs))
  <1>1. thr' = [thr EXCEPT ![g] = th2] /\ main' = [main EXCEPT ![g] = m2] /\ rows' = rows
    BY DEF PersistFails, Answered, ServedThr, ServedMain, By
  <1>2. Becomes(g, disp[g], queue[g], b2, th2, m2, TRUE, live[g])
    BY <1>1, AtOne DEF Becomes, PersistFails
  <1>3. SortedOK(g, rows, disp[g], queue[g], b2, m2, TRUE)
    BY SortedFailed, Zenon
  <1> QED
    BY <1>1, <1>2, <1>3, SortedQuiet, Zenon

\* Emit: what is to come stays.
LEMMA EmitSorted ==
    ASSUME Executions, Sorted, NEW g \in Gens, Emit(g)
    PROVE  Sorted'
  <1> DEFINE d == disp[g]
             q == queue[g]
             b == bat[g]
             th == thr[g]
             m == main[g]
             f == failed[g]
             lv == live[g]
             rest == SubSeq(b.recs, Len(b.out) + 1, Len(b.recs))
             lv2 == lv \o b.out
             more == [b EXCEPT !.phase = "flush", !.recs = rest, !.out = <<>>]
             done == [b EXCEPT !.phase = "idle", !.reqs = <<>>, !.recs = <<>>, !.out = <<>>]
             th2 == ServedThr(th, By(b.reqs))
             m2 == ServedMain(m, By(b.reqs))
  <1>1. Good(g, d, q, b, th, m, f, lv) /\ SortedOK(g, rows, d, q, b, m, f) /\ rows' = rows
    BY AtOne, SortedAt DEF Emit
  <1>2. rest # <<>> => Becomes(g, d, q, more, th, m, f, lv2)
    BY AtOne DEF Becomes, Emit
  <1>3. rest = <<>> => Becomes(g, d, q, done, th2, m2, f, lv2)
    BY AtOne DEF Becomes, Emit, Answered, ServedThr, ServedMain, By
  <1>4. ToCome(b) = rest
    BY DEF ToCome
  <1> HIDE DEF d, q, b, th, m, f, lv
  <1>5. b \in Bats /\ m \in Mains /\ b.recs \in Seq(Records) /\ b.out \in Seq(Shown)
    BY <1>1 DEF Good, Bats
  <1>6. rest \in Seq(Records)
    <2>1. Len(b.out) \in Nat /\ Len(b.recs) \in Nat /\ Len(b.out) \in 0 .. Len(b.recs)
      BY <1>1, <1>5, LenProperties DEF Good, LocalOK, FrontOK
    <2> QED
      BY <1>5, <2>1, RestProperties
  <1> HIDE DEF rest, lv2
  <1>7. CASE rest # <<>>
    <2>1. more \in Bats /\ more.carry = b.carry /\ more.recs = rest /\ more.out = <<>>
      <3>1. "flush" \in PhaseOf /\ <<>> \in Seq(Shown)
        BY DEF PhaseOf
      <3> QED
        BY <1>5, <1>6, <3>1 DEF Bats
    <2> HIDE DEF more
    <2>2. ToCome(more) = ToCome(b)
      BY <1>4, <2>1, ToComeAll
    <2>3. Line(q, more) = Line(q, b)
      BY <2>1 DEF Line
    <2>4. SortedOK(g, rows, d, q, more, m, f)
      BY <1>1, <2>2, <2>3, SortedSame, Zenon
    <2> QED
      BY <1>1, <1>2, <1>7, <2>4, SortedQuiet, Zenon
  <1>8. CASE rest = <<>>
    <2>1. done \in Bats /\ done.carry = b.carry /\ done.recs = <<>> /\ done.out = <<>>
      <3>1. "idle" \in PhaseOf /\ <<>> \in Seq(Shown) /\ <<>> \in Seq(ReqsOf) /\ <<>> \in Seq(Records)
        BY DEF PhaseOf
      <3> QED
        BY <1>5, <3>1 DEF Bats
    <2> HIDE DEF done
    <2>2. ToCome(done) = ToCome(b)
      BY <1>4, <1>8, <2>1, ToComeAll
    <2>3. Line(q, done) = Line(q, b)
      BY <2>1 DEF Line
    <2>4. m2.ev = m.ev
      BY <1>5 DEF ServedMain, Mains
    <2> HIDE DEF m2, th2
    <2>5. SortedOK(g, rows, d, q, done, m2, f)
      BY <1>1, <2>2, <2>3, <2>4, SortedSame, Zenon
    <2> QED
      BY <1>1, <1>3, <1>8, <2>5, SortedQuiet, Zenon
  <1> QED
    BY <1>7, <1>8

\* Joining lines of requests is associative.
LEMMA Regroup ==
    \A u \in Seq(ReqsOf), v \in Seq(ReqsOf), w \in Seq(ReqsOf) : (u \o v) \o w = u \o (v \o w)
  <1> TAKE u \in Seq(ReqsOf), v \in Seq(ReqsOf), w \in Seq(ReqsOf)
  <1> QED
    OBVIOUS

\* What a good execution holds has its type, and the line takes a request at its end.
LEMMA LineType ==
    ASSUME NEW g, NEW d, NEW q, NEW b, NEW th, NEW m, NEW f, NEW lv,
           Good(g, d, q, b, th, m, f, lv)
    PROVE  /\ ToCome(b) \in Seq(Records) /\ Line(q, b) \in Seq(ReqsOf)
           /\ Inside(Line(q, b)) = Inside(b.carry) \cup Inside(q)
           /\ \A r \in ReqsOf : Line(Append(q, r), b) = Append(Line(q, b), r)
           /\ \A i \in DOMAIN b.recs : \/ b.recs[i] \in ToSet(ToCome(b))
                                       \/ \E j \in DOMAIN b.out : b.out[j].ev = b.recs[i]
  <1>1. /\ b \in Bats /\ q \in Seq(ReqsOf) /\ b.recs \in Seq(Records) /\ b.out \in Seq(Shown)
        /\ b.carry \in Seq(ReqsOf) /\ Len(b.carry) <= 1
    BY DEF Good, Bats
  <1>2. PICK k \in Nat : k = Len(b.out) /\ DOMAIN b.out = 1 .. k
    BY <1>1, LenProperties
  <1>3. PICK n \in Nat : n = Len(b.recs) /\ DOMAIN b.recs = 1 .. n
    BY <1>1, LenProperties
  <1>4. k \in 0 .. n /\ \A i \in 1 .. k : b.out[i].ev = b.recs[i]
    BY <1>2, <1>3 DEF Good, LocalOK, FrontOK
  <1>5. PICK rest : rest = ToCome(b)
    OBVIOUS
  <1>6. rest \in Seq(Records) /\ ToSet(b.recs) \subseteq {b.recs[i] : i \in 1 .. k} \cup ToSet(rest)
    BY <1>1, <1>2, <1>3, <1>4, <1>5, RestProperties DEF ToCome
  <1>7. ASSUME NEW i \in DOMAIN b.recs
        PROVE  b.recs[i] \in ToSet(rest) \/ \E j \in DOMAIN b.out : b.out[j].ev = b.recs[i]
    <2>1. b.recs[i] \in ToSet(b.recs)
      BY DEF ToSet
    <2>2. b.recs[i] \in ToSet(rest) \/ \E j \in 1 .. k : b.recs[i] = b.recs[j]
      BY <1>6, <2>1
    <2> QED
      BY <1>2, <1>4, <2>2
  <1>8. Line(q, b) \in Seq(ReqsOf)
    BY <1>1, ConcatProperties DEF Line
  <1>9. Inside(Line(q, b)) = Inside(b.carry) \cup Inside(q)
    <2>1. CASE b.carry = <<>>
      <3>1. Line(q, b) = q
        BY <1>1, <2>1, ConcatEmptySeq DEF Line
      <3>2. Inside(b.carry) = {}
        BY <2>1, InsideProperties
      <3> QED
        BY <3>1, <3>2
    <2>2. CASE b.carry # <<>>
      <3>1. PICK c \in ReqsOf : b.carry = <<c>>
        <4>1. b.carry[1] \in ReqsOf /\ b.carry = <<b.carry[1]>>
          BY <1>1, <2>2
        <4> QED
          BY <4>1
      <3>2. PICK w : w = Line(q, b)
        OBVIOUS
      <3>3. w = <<c>> \o q
        BY <3>1, <3>2 DEF Line
      <3>4. w \in Seq(ReqsOf) /\ w # <<>> /\ Head(w) = c /\ Tail(w) = q
        BY <1>1, <1>8, <3>2, <3>3, OneAndRest
      <3>5. Inside(w) = ToSet(Head(w).recs) \cup Inside(Tail(w))
        BY <3>4, InsideProperties, Zenon
      <3>6. Inside(b.carry) = ToSet(c.recs)
        BY <3>1, InsideProperties
      <3> QED
        BY <3>2, <3>4, <3>5, <3>6
    <2> QED
      BY <2>1, <2>2
  <1>10. ASSUME NEW r \in ReqsOf PROVE Line(Append(q, r), b) = Append(Line(q, b), r)
    <2>1. PICK o \in Seq(ReqsOf) : o = <<r>>
      <3>1. <<r>> \in Seq(ReqsOf)
        OBVIOUS
      <3> QED
        BY <3>1, Zenon
    <2>2. Append(q, r) = q \o o /\ Append(Line(q, b), r) = Line(q, b) \o o
      <3>1. Append(q, r) = q \o <<r>>
        BY <1>1, AppendIsConcat, Zenon
      <3>2. Append(Line(q, b), r) = Line(q, b) \o <<r>>
        BY <1>8, AppendIsConcat, Zenon
      <3> QED
        BY <2>1, <3>1, <3>2, Zenon
    <2>3. (b.carry \o q) \o o = b.carry \o (q \o o)
      <3>1. PICK c \in Seq(ReqsOf) : c = b.carry
        BY <1>1, Zenon
      <3>2. (c \o q) \o o = c \o (q \o o)
        BY <1>1, <2>1, Regroup, Zenon
      <3> QED
        BY <3>1, <3>2, Zenon
    <2>4. /\ Line(Append(q, r), b) = b.carry \o Append(q, r)
          /\ Append(Line(q, b), r) = (b.carry \o q) \o o
      BY <2>2, Zenon DEF Line
    <2> QED
      BY <2>2, <2>3, <2>4, Zenon
  <1> QED
    BY <1>5, <1>6, <1>7, <1>8, <1>9, <1>10

\* A row with the identity of an event of the scripts is a row of it.
LEMMA RowOfEvent ==
    ASSUME Table, NEW g \in Gens, NEW e \in Events, NEW r \in rows, r.gen = g, r.ev.id = e.id
    PROVE  r.ev = e /\ e \in StoredIn(rows, g)
  <1>1. e.id \notin Ending /\ g # 0
    BY DispatchAssumption DEF Ending
  <1>2. r.ev \in Events \cup {Control(k, 0) : k \in Ending}
    BY <1>1 DEF Table
  <1>3. \A k \in Ending : Control(k, 0).id \in Ending
    BY DEF Control
  <1>4. r.ev = e
    BY <1>1, <1>2, <1>3, DispatchAssumption
  <1> QED
    BY <1>4 DEF StoredIn

\* What an execution knows is pending, in the line, to be stored next, or stored.
LEMMA Onward ==
    ASSUME Table, NEW g \in Gens, NEW d, NEW q, NEW b, NEW th, NEW m, NEW f, NEW lv,
           Good(g, d, q, b, th, m, f, lv), ShownBacked(g, rows, lv \o b.out),
           NEW e \in Events, e \in Known(d, q, b, lv)
    PROVE  e \in ToSet(d.pending) \cup Pipe(StoredIn(rows, g), ToCome(b), Line(q, b))
  <1>1. lv \in Seq(Shown) /\ b.out \in Seq(Shown)
    BY DEF Good, Bats
  <1>0. /\ Inside(Line(q, b)) = Inside(b.carry) \cup Inside(q)
        /\ \A i \in DOMAIN b.recs : \/ b.recs[i] \in ToSet(ToCome(b))
                                    \/ \E j \in DOMAIN b.out : b.out[j].ev = b.recs[i]
    BY LineType
  <1>2. PICK s : s = lv \o b.out
    OBVIOUS
  <1>3. ToSet(s) = ToSet(lv) \cup ToSet(b.out)
    BY <1>1, <1>2, Elements
  <1>4. ASSUME NEW x \in ToSet(lv) \cup ToSet(b.out), x.ev = e PROVE e \in StoredIn(rows, g)
    <2>1. PICK i \in DOMAIN s : s[i] = x
      BY <1>3 DEF ToSet
    <2>2. PICK r \in rows : r.gen = g /\ r.ev.id = s[i].ev.id
      BY <1>2, <2>1 DEF ShownBacked
    <2> QED
      BY <1>4, <2>1, <2>2, RowOfEvent
  <1>5. CASE e \in ToSet(d.pending) \cup Inside(q) \cup Inside(b.carry)
    BY <1>0, <1>5 DEF Pipe
  <1>6. CASE e \in ToSet(b.recs)
    <2>1. PICK i \in DOMAIN b.recs : b.recs[i] = e
      BY <1>6 DEF ToSet
    <2>2. b.recs[i] \in ToSet(ToCome(b)) \/ \E j \in DOMAIN b.out : b.out[j].ev = b.recs[i]
      BY <1>0
    <2>3. CASE b.recs[i] \in ToSet(ToCome(b))
      BY <2>1, <2>3 DEF Pipe
    <2>4. CASE \E j \in DOMAIN b.out : b.out[j].ev = b.recs[i]
      <3>1. PICK j \in DOMAIN b.out : b.out[j].ev = e
        BY <2>1, <2>4
      <3>2. b.out[j] \in ToSet(b.out)
        BY DEF ToSet
      <3>3. e \in StoredIn(rows, g)
        BY <1>4, <3>1, <3>2, Zenon
      <3> QED
        BY <3>3, Zenon DEF Pipe
    <2> QED
      BY <2>2, <2>3, <2>4
  <1>7. CASE e \in {lv[i].ev : i \in DOMAIN lv}
    <2>1. PICK i \in DOMAIN lv : lv[i].ev = e
      BY <1>7
    <2>2. lv[i] \in ToSet(lv)
      BY DEF ToSet
    <2>3. e \in StoredIn(rows, g)
      BY <1>4, <2>1, <2>2, Zenon
    <2> QED
      BY <2>3, Zenon DEF Pipe
  <1> QED
    BY <1>5, <1>6, <1>7, Zenon DEF Known

\* A step that keeps the order of what is on its way, for an execution that still counts.
LEMMA SortedBy ==
    ASSUME NEW g, NEW R, NEW d, NEW q, NEW b, NEW m, NEW f, SortedOK(g, R, d, q, b, m, f),
           NEW d2, NEW q2, NEW b2, NEW m2, m2.ev = m.ev,
           ~f /\ m.ev = {} /\ RoundsAt(g, R, d, q, b) => RoundsAt(g, R, d2, q2, b2)
    PROVE  SortedOK(g, R, d2, q2, b2, m2, f)
  BY Zenon DEF SortedOK

\* A child that waits changes nothing on the way.
LEMMA ChildWaits ==
    ASSUME NEW g, NEW R, NEW d \in Disps, NEW q, NEW b, NEW e \in Events, Child(e),
           NEW d2, d2 = [d EXCEPT !.pending = Append(@, e)], RoundsAt(g, R, d, q, b)
    PROVE  RoundsAt(g, R, d2, q, b)
  <1>1. PICK P : P = Pipe(StoredIn(R, g), ToCome(b), Line(q, b))
    OBVIOUS
  <1>2. /\ d2.opened = d.opened /\ d2.rounds = d.rounds /\ d2.closed = d.closed
        /\ d2.pending = Append(d.pending, e) /\ d.pending \in Seq(Events)
    BY DEF Disps
  <1>3. ToSet(d2.pending) = ToSet(d.pending) \cup {e}
    BY <1>2, AppendElement
  <1>4. MarksOK(g, d, P) => MarksOK(g, d2, P)
    BY <1>2, <1>3 DEF MarksOK, Announced
  <1> QED
    BY <1>1, <1>4 DEF RoundsAt, RoundsOK

\* Dispatch: the event is refused, waits as a child, joins the line, or is noted as lost.
LEMMA DispatchSorted ==
    ASSUME Table, Executions, Replay, Sorted, NEW g \in Gens, NEW t \in Threads, Dispatch(g, t)
    PROVE  Sorted'
  <1> DEFINE d == disp[g]
             q == queue[g]
             b == bat[g]
             th == thr[g]
             m == main[g]
             f == failed[g]
             lv == live[g]
             n == th[t].pos + 1
             e == Script[g][t][n]
             Adv(taken, w) == [th EXCEPT ![t] = [pos |-> n, taken |-> taken, waiting |-> w]]
  <1>1. Good(g, d, q, b, th, m, f, lv) /\ SortedOK(g, rows, d, q, b, m, f)
    BY AtOne, SortedAt, Zenon
  <1>2. d \in Disps /\ q \in Seq(ReqsOf) /\ th \in Thrs /\ rows' = rows
    BY <1>1 DEF Good, Dispatch
  <1>3. th[t].pos \in Nat
    BY <1>2 DEF Thrs
  <1>4. n \in DOMAIN Script[g][t] /\ e \in Events /\ e \in Records
    <2>1. Script[g][t] \in Seq(Events)
      BY DispatchAssumption
    <2>2. n \in 1 .. Len(Script[g][t])
      BY <1>3, <2>1, LenProperties DEF Dispatch
    <2> QED
      BY <2>1, <2>2, ElementOfSeq, LenProperties DEF Records
  <1>5. /\ bat' = [bat EXCEPT ![g] = b] /\ main' = [main EXCEPT ![g] = m]
        /\ live' = [live EXCEPT ![g] = lv]
        /\ queue = [queue EXCEPT ![g] = q] /\ disp = [disp EXCEPT ![g] = d]
        /\ failed = [failed EXCEPT ![g] = f]
    BY AtOne DEF Dispatch
  <1>6. \/ /\ d.closed
           /\ thr' = [thr EXCEPT ![g] = Adv(th[t].taken, FALSE)]
           /\ UNCHANGED <<disp, queue, failed>>
        \/ Buffer(g, e) /\ thr' = [thr EXCEPT ![g] = Adv(n, FALSE)] /\ UNCHANGED failed
        \/ Enqueue(g, e, t) /\ thr' = [thr EXCEPT ![g] = Adv(n, TRUE)] /\ UNCHANGED failed
        \/ /\ Cancelled(g, Released(d, e).disp)
           /\ thr' = [thr EXCEPT ![g] = Adv(th[t].taken, FALSE)]
    BY DEF Dispatch
  <1>7. ASSUME thr' = [thr EXCEPT ![g] = Adv(th[t].taken, FALSE)],
               UNCHANGED <<disp, queue, failed>>
        PROVE  Sorted'
    <2>1. Becomes(g, d, q, b, Adv(th[t].taken, FALSE), m, f, lv)
      BY <1>5, <1>7 DEF Becomes
    <2> QED
      BY <1>1, <1>2, <2>1, SortedQuiet, Zenon
  <1>8. ASSUME Buffer(g, e), thr' = [thr EXCEPT ![g] = Adv(n, FALSE)], UNCHANGED failed
        PROVE  Sorted'
    <2> DEFINE d2 == [d EXCEPT !.pending = Append(@, e)]
    <2>1. Becomes(g, d2, q, b, Adv(n, FALSE), m, f, lv) /\ Child(e)
      BY <1>5, <1>8 DEF Becomes, Buffer, ShouldBuffer, Child
    <2> HIDE DEF d, q, b, th, m, f, lv, e, n
    <2>2. RoundsAt(g, rows, d, q, b) => RoundsAt(g, rows, d2, q, b)
      BY <1>2, <1>4, <2>1, ChildWaits
    <2> HIDE DEF d2
    <2>3. SortedOK(g, rows, d2, q, b, m, f)
      BY <1>1, <2>2, SortedBy, Zenon
    <2> QED
      BY <1>2, <2>1, <2>3, SortedQuiet, Zenon
  <1>9. ASSUME Enqueue(g, e, t), thr' = [thr EXCEPT ![g] = Adv(n, TRUE)], UNCHANGED failed
        PROVE  Sorted'
    <2> DEFINE rel == Released(d, e)
               r == Request(rel.recs, Barrier(e), t)
               q2 == Append(q, r)
               S == StoredIn(rows, g)
    <2>1. ~d.closed /\ ~ShouldBuffer(d, e) /\ Becomes(g, rel.disp, q2, b, Adv(n, TRUE), m, f, lv)
      BY <1>5, <1>9 DEF Becomes, Enqueue
    <2>2. rel.recs \in Seq(Records)
      BY <1>2, <1>4, ReleasedType
    <2>3. r \in ReqsOf /\ r.recs = rel.recs
      <3> HIDE DEF rel
      <3> QED
        BY <2>2 DEF Request, ReqsOf, Barrier, RunTerminal, BoxTerminal
    <2>4. ShownBacked(g, rows, lv \o b.out)
      BY Zenon DEF Replay, ReplayOK
    <2>5. ASSUME ~f, NEW j \in 1 .. (n - 1)
          PROVE  Script[g][t][j] \in ToSet(d.pending) \cup Pipe(S, ToCome(b), Line(q, b))
      <3>1. j \in 1 .. th[t].taken
        <4> HIDE DEF d, q, b, th, m, f, lv, e
        <4>1. th[t].taken = th[t].pos
          BY <1>1, <2>1, <2>5, Zenon DEF Good, LocalOK, TakenOK
        <4> QED
          BY <1>3, <4>1
      <3>2. Script[g][t][j] \in Known(d, q, b, lv)
        BY <1>1, <2>5, <3>1 DEF Good, LocalOK, KeptOK
      <3>3. Script[g][t][j] \in Events
        <4>1. Script[g][t] \in Seq(Events)
          BY DispatchAssumption
        <4>2. j \in 1 .. Len(Script[g][t])
          BY <1>3, <1>4, <4>1, LenProperties
        <4> QED
          BY <4>1, <4>2, ElementOfSeq
      <3> HIDE DEF d, q, b, th, m, f, lv
      <3>4. PICK x \in Events : x = Script[g][t][j]
        BY <3>3
      <3>5. x \in ToSet(d.pending) \cup Pipe(StoredIn(rows, g), ToCome(b), Line(q, b))
        BY <1>1, <2>4, <3>2, <3>4, Onward, Zenon
      <3> QED
        BY <3>4, <3>5
    <2> HIDE DEF d, q, b, th, m, f, lv, r, rel
    <2>6. /\ ToCome(b) \in Seq(Records) /\ Line(q, b) \in Seq(ReqsOf)
          /\ Line(q2, b) = Append(Line(q, b), r)
      <3>1. /\ ToCome(b) \in Seq(Records) /\ Line(q, b) \in Seq(ReqsOf)
            /\ \A x \in ReqsOf : Line(Append(q, x), b) = Append(Line(q, b), x)
        BY <1>1, LineType
      <3> QED
        BY <2>3, <3>1, Zenon
    <2> HIDE DEF e, n, S
    <2>7. ASSUME ~f, RoundsAt(g, rows, d, q, b) PROVE RoundsAt(g, rows, rel.disp, q2, b)
      <3>1. Sends(g, t, n, e, S, d, ToCome(b), Line(q, b), r)
        BY <2>1, <2>3, <2>5, <2>7 DEF Sends, rel, e
      <3>2. RoundsOK(g, S, d, ToCome(b), Line(q, b))
        BY <2>7 DEF RoundsAt, S
      <3>3. RoundsOK(g, S, Released(d, e).disp, ToCome(b), Append(Line(q, b), r))
        BY <1>2, <1>4, <2>3, <2>6, <3>1, <3>2, EventJoins, Zenon
      <3> QED
        BY <2>6, <3>3 DEF RoundsAt, S, rel
    <2>8. SortedOK(g, rows, rel.disp, q2, b, m, f)
      BY <1>1, <2>7, SortedBy, Zenon
    <2> QED
      BY <1>2, <2>1, <2>8, SortedQuiet, Zenon
  <1>10. ASSUME Cancelled(g, Released(d, e).disp),
                thr' = [thr EXCEPT ![g] = Adv(th[t].taken, FALSE)]
         PROVE  Sorted'
    <2>1. Becomes(g, Released(d, e).disp, q, b, Adv(th[t].taken, FALSE), m, TRUE, lv)
      BY <1>5, <1>10 DEF Becomes, Cancelled
    <2>2. SortedOK(g, rows, Released(d, e).disp, q, b, m, TRUE)
      BY SortedFailed, Zenon
    <2> QED
      BY <1>2, <2>1, <2>2, SortedQuiet, Zenon
  <1> QED
    BY <1>6, <1>7, <1>8, <1>9, <1>10

\* A row that is neither a child nor a marker changes no order.
LEMMA OrderedMore ==
    ASSUME NEW R, NEW g, NEW r, Ordered(R, g), ~Child(r.ev), \A e : ~MarkerOf(r.ev, e)
    PROVE  Ordered(R \cup {r}, g)
  BY Zenon DEF Ordered

\* Settle: the event of its own is no child and no marker, and ends what is promised of
\* the events on their way.
LEMMA SettleSorted ==
    ASSUME Executions, Sorted, NEW g \in Gens, NEW kind \in Ending, Settle(g, kind)
    PROVE  Sorted'
  <1>1. PICK r : r = [seq |-> nextSeq + 1, ev |-> Control(kind, g), gen |-> g]
    OBVIOUS
  <1>2. PICK m2 : m2 = [stage |-> "stored", ev |-> {[Control(kind, g) EXCEPT !.seq = nextSeq + 1]}]
    OBVIOUS
  <1>3. rows' = rows \cup {r}
    BY <1>1 DEF Settle
  <1>4. Becomes(g, disp[g], queue[g], bat[g], thr[g], m2, failed[g], live[g])
    BY <1>2, AtOne DEF Becomes, Settle
  <1>5. r.gen = g /\ ~Child(r.ev) /\ \A e : ~MarkerOf(r.ev, e)
    BY <1>1 DEF Control, Child, MarkerOf, Ending
  <1>6. RowsOf(g)
    BY <1>3, <1>5 DEF RowsOf
  <1>7. m2.ev # {}
    BY <1>2
  <1>8. SortedOK(g, rows, disp[g], queue[g], bat[g], main[g], failed[g])
    BY SortedAt, Zenon
  <1>9. SortedOK(g, rows', disp[g], queue[g], bat[g], m2, failed[g])
    BY <1>3, <1>5, <1>7, <1>8, OrderedMore, Zenon DEF SortedOK
  <1> QED
    BY <1>4, <1>6, <1>9, SortedOfOne, Zenon

\* DispatchSettled: the execution has settled, so that its rows are all that counts.
LEMMA DispatchSettledSorted ==
    ASSUME Executions, Sorted, NEW g \in Gens, DispatchSettled(g)
    PROVE  Sorted'
  <1> DEFINE d == disp[g]
             q == queue[g]
             b == bat[g]
             th == thr[g]
             m == main[g]
             f == failed[g]
             lv == live[g]
  <1>1. Good(g, d, q, b, th, m, f, lv) /\ SortedOK(g, rows, d, q, b, m, f)
    BY AtOne, SortedAt, Zenon
  <1>2. PICK e \in m.ev :
        \/ Enqueue(g, e, Main) /\ main' = [main EXCEPT ![g].stage = "dispatched"] /\ UNCHANGED failed
        \/ Cancelled(g, Released(d, e).disp) /\ main' = [main EXCEPT ![g].stage = "answered"]
    BY DEF DispatchSettled
  <1>3. /\ bat' = [bat EXCEPT ![g] = b] /\ thr' = [thr EXCEPT ![g] = th]
        /\ live' = [live EXCEPT ![g] = lv] /\ queue = [queue EXCEPT ![g] = q]
        /\ failed = [failed EXCEPT ![g] = f] /\ rows' = rows
    BY AtOne DEF DispatchSettled
  <1>4. m \in Mains
    BY <1>1 DEF Good
  <1>5. ASSUME Enqueue(g, e, Main), main' = [main EXCEPT ![g].stage = "dispatched"], UNCHANGED failed
        PROVE  Sorted'
    <2> DEFINE m2 == [m EXCEPT !.stage = "dispatched"]
               d2 == Released(d, e).disp
               q2 == Append(q, Request(Released(d, e).recs, Barrier(e), Main))
    <2>1. Becomes(g, d2, q2, b, th, m2, f, lv)
      BY <1>3, <1>5 DEF Becomes, Enqueue
    <2>2. m2.ev = m.ev
      BY <1>4 DEF Mains
    <2> HIDE DEF d, q, b, th, m, f, lv, d2, q2, m2
    <2>3. SortedOK(g, rows, d2, q2, b, m2, f)
      BY <1>1, <1>2, <2>2, Zenon DEF SortedOK
    <2> QED
      BY <1>3, <2>1, <2>3, SortedQuiet, Zenon
  <1>6. ASSUME Cancelled(g, Released(d, e).disp), main' = [main EXCEPT ![g].stage = "answered"]
        PROVE  Sorted'
    <2> DEFINE m2 == [m EXCEPT !.stage = "answered"]
               d2 == Released(d, e).disp
    <2>1. Becomes(g, d2, q, b, th, m2, TRUE, lv)
      BY <1>3, <1>6 DEF Becomes, Cancelled
    <2>2. SortedOK(g, rows, d2, q, b, m2, TRUE)
      BY SortedFailed, Zenon
    <2> QED
      BY <1>3, <2>1, <2>2, SortedQuiet, Zenon
  <1> QED
    BY <1>2, <1>5, <1>6

\* A dispatcher that closes sends all the children it holds back, whatever their markers.
LEMMA ChildrenClose ==
    ASSUME NEW g, NEW R, NEW d \in Disps, NEW s \in Seq(Records), NEW w \in Seq(ReqsOf),
           NEW d2, d2 = [d EXCEPT !.closed = TRUE, !.pending = <<>>], RoundsOK(g, R, d, s, w)
    PROVE  /\ d.pending = <<>> => RoundsOK(g, R, d2, s, w)
           /\ \A r \in ReqsOf : r.recs = d.pending => RoundsOK(g, R, d2, s, Append(w, r))
  <1>1. PICK P : P = Pipe(R, s, w)
    OBVIOUS
  <1>2. InOrder(P, R, s, w) /\ MarksOK(g, d, P)
    BY <1>1, Zenon DEF RoundsOK
  <1>3. /\ d2.opened = d.opened /\ d2.rounds = d.rounds /\ d2.closed = TRUE
        /\ d2.pending = <<>> /\ d.pending \in Seq(Events)
    BY DEF Disps
  <1>4. ToSet(d2.pending) = {}
    BY <1>3 DEF ToSet
  <1>5. ASSUME NEW P2, P \subseteq P2 PROVE MarksOK(g, d2, P2)
    BY <1>2, <1>3, <1>4, <1>5, Zenon DEF MarksOK
  <1>6. RoundsOK(g, R, d2, s, w)
    BY <1>1, <1>2, <1>5, Zenon DEF RoundsOK
  <1>7. ASSUME NEW r \in ReqsOf, r.recs = d.pending PROVE RoundsOK(g, R, d2, s, Append(w, r))
    <2>1. \A x \in ToSet(r.recs) : Child(x)
      BY <1>2, <1>7, Zenon DEF MarksOK
    <2>2. ASSUME NEW m \in P \cup ToSet(r.recs), NEW c, MarkerOf(m, c) PROVE m \in P
      BY <2>1, <2>2, NoMarker, Zenon
    <2>3. Behind(P \cup ToSet(r.recs), P, r.recs)
      BY <2>2, Zenon DEF Behind
    <2>4. FitsBehind(P, r.recs)
      BY <2>2, <2>3, Zenon DEF FitsBehind
    <2>5. InOrder(Pipe(R, s, w), R, s, w) /\ FitsBehind(Pipe(R, s, w), r.recs)
      BY <1>1, <1>2, <2>4, Zenon
    <2>6. /\ Pipe(R, s, Append(w, r)) = Pipe(R, s, w) \cup ToSet(r.recs)
          /\ InOrder(Pipe(R, s, Append(w, r)), R, s, Append(w, r))
      BY <2>5, RequestJoins, Zenon
    <2>7. MarksOK(g, d2, Pipe(R, s, Append(w, r)))
      <3>1. P \subseteq Pipe(R, s, Append(w, r))
        BY <1>1, <2>6
      <3> QED
        BY <1>5, <3>1, Zenon
    <2> QED
      BY <2>6, <2>7, Zenon DEF RoundsOK
  <1> QED
    BY <1>6, <1>7, Zenon

\* Close: the children that waited join the line, unless there are none or they are noted
\* as lost.
LEMMA CloseSorted ==
    ASSUME Executions, Sorted, NEW g \in Gens, Close(g)
    PROVE  Sorted'
  <1> DEFINE d == disp[g]
             q == queue[g]
             b == bat[g]
             th == thr[g]
             m == main[g]
             f == failed[g]
             lv == live[g]
             d2 == [d EXCEPT !.closed = TRUE, !.pending = <<>>]
             M(s) == [m EXCEPT !.stage = s]
             r == Request(d.pending, TRUE, Main)
  <1>1. Good(g, d, q, b, th, m, f, lv) /\ SortedOK(g, rows, d, q, b, m, f)
    BY AtOne, SortedAt, Zenon
  <1>2. /\ d \in Disps /\ m \in Mains /\ d.pending \in Seq(Events) /\ rows' = rows
    BY <1>1 DEF Good, Close, Disps
  <1>3. /\ bat' = [bat EXCEPT ![g] = b] /\ thr' = [thr EXCEPT ![g] = th]
        /\ live' = [live EXCEPT ![g] = lv] /\ queue = [queue EXCEPT ![g] = q]
        /\ failed = [failed EXCEPT ![g] = f]
    BY AtOne DEF Close
  <1>4. \/ d.pending = <<>> /\ Becomes(g, d2, q, b, th, M("flushed"), f, lv)
        \/ Becomes(g, d2, Append(q, r), b, th, M("closing"), f, lv)
        \/ Becomes(g, d2, q, b, th, M("flushed"), TRUE, lv)
    BY <1>3 DEF Close, Becomes, Cancelled
  <1> HIDE DEF d, q, b, th, m, f, lv
  <1>5. r \in ReqsOf /\ r.recs = d.pending
    <2>1. d.pending \in Seq(Records)
      BY <1>2 DEF Records
    <2> QED
      BY <2>1 DEF Request, ReqsOf
  <1>6. M("flushed").ev = m.ev /\ M("closing").ev = m.ev
    BY <1>2 DEF Mains
  <1> HIDE DEF r, M
  <1>7. /\ ToCome(b) \in Seq(Records) /\ Line(q, b) \in Seq(ReqsOf)
        /\ \A x \in ReqsOf : Line(Append(q, x), b) = Append(Line(q, b), x)
    BY <1>1, LineType
  <1>8. ASSUME RoundsAt(g, rows, d, q, b)
        PROVE  /\ d.pending = <<>> => RoundsAt(g, rows, d2, q, b)
               /\ RoundsAt(g, rows, d2, Append(q, r), b)
    <2>1. PICK S : S = StoredIn(rows, g)
      OBVIOUS
    <2>2. RoundsOK(g, S, d, ToCome(b), Line(q, b))
      BY <1>8, <2>1 DEF RoundsAt
    <2> HIDE DEF d2
    <2>3. /\ d.pending = <<>> => RoundsOK(g, S, d2, ToCome(b), Line(q, b))
          /\ RoundsOK(g, S, d2, ToCome(b), Append(Line(q, b), r))
      BY <1>2, <1>5, <1>7, <2>2, ChildrenClose DEF d2
    <2>4. Line(Append(q, r), b) = Append(Line(q, b), r)
      BY <1>5, <1>7, Zenon
    <2> QED
      BY <2>1, <2>3, <2>4, Zenon DEF RoundsAt
  <1> HIDE DEF d2
  <1>9. ASSUME d.pending = <<>>, Becomes(g, d2, q, b, th, M("flushed"), f, lv) PROVE Sorted'
    <2>1. SortedOK(g, rows, d2, q, b, M("flushed"), f)
      BY <1>1, <1>6, <1>8, <1>9, SortedBy, Zenon
    <2> QED
      BY <1>2, <1>9, <2>1, SortedQuiet, Zenon
  <1>10. ASSUME Becomes(g, d2, Append(q, r), b, th, M("closing"), f, lv) PROVE Sorted'
    <2>1. SortedOK(g, rows, d2, Append(q, r), b, M("closing"), f)
      BY <1>1, <1>6, <1>8, SortedBy, Zenon
    <2> QED
      BY <1>2, <1>10, <2>1, SortedQuiet, Zenon
  <1>11. ASSUME Becomes(g, d2, q, b, th, M("flushed"), TRUE, lv) PROVE Sorted'
    <2>1. SortedOK(g, rows, d2, q, b, M("flushed"), TRUE)
      BY SortedFailed, Zenon
    <2> QED
      BY <1>2, <1>11, <2>1, SortedQuiet, Zenon
  <1> QED
    BY <1>4, <1>9, <1>10, <1>11, Zenon

\* What no execution does: a claim and an event of a form touch the rows of none.
LEMMA OthersSorted ==
    ASSUME Sorted, UNCHANGED <<disp, queue, bat, main, failed>>,
           rows \subseteq rows', \A r \in rows' \ rows : r.gen = 0
    PROVE  Sorted'
  <1>1. ASSUME NEW h \in Gens
        PROVE  SortedOK(h, rows', disp'[h], queue'[h], bat'[h], main'[h], failed'[h])
    <2>1. SortedOK(h, rows, disp[h], queue[h], bat[h], main[h], failed[h])
      BY SortedAt, Zenon
    <2>2. h # 0
      BY DispatchAssumption
    <2>3. \A r \in rows' : r.gen = h => r \in rows
      BY <2>2
    <2>4. SortedOK(h, rows', disp[h], queue[h], bat[h], main[h], failed[h])
      BY <2>1, <2>3, SortedElsewhere, Zenon
    <2> QED
      BY <2>4
  <1> QED
    BY <1>1, SortedNext, Zenon

\* A chunk, and what is left of the records behind it.
LEMMA FrontAndRest ==
    ASSUME NEW E, NEW s \in Seq(E), NEW x \in Seq(E), Len(x) <= Len(s),
           \A i \in 1 .. Len(x) : x[i] = s[i]
    PROVE  /\ SubSeq(s, Len(x) + 1, Len(s)) \in Seq(E)
           /\ x \o SubSeq(s, Len(x) + 1, Len(s)) = s
  <1>1. PICK k \in Nat : k = Len(x)
    BY LenProperties
  <1>2. PICK n \in Nat : n = Len(s)
    BY LenProperties
  <1>3. PICK y : y = SubSeq(s, k + 1, n)
    OBVIOUS
  <1>4. k \in 0 .. Len(s) /\ k <= n
    BY <1>1, <1>2
  <1>5. y \in Seq(E) /\ Len(y) = n - k /\ \A i \in 1 .. (n - k) : y[i] = s[k + i]
    BY <1>2, <1>3, <1>4, RestProperties
  <1>6. PICK z : z = x \o y
    OBVIOUS
  <1>7. /\ z \in Seq(E) /\ Len(z) = k + (n - k)
        /\ \A i \in 1 .. (k + (n - k)) : z[i] = IF i <= k THEN x[i] ELSE y[i - k]
    BY <1>1, <1>5, <1>6, ConcatProperties
  <1>8. ASSUME NEW i \in 1 .. n PROVE z[i] = s[i]
    <2>1. i \in 1 .. (k + (n - k))
      BY <1>4
    <2>2. CASE i <= k
      <3>1. z[i] = x[i] /\ i \in 1 .. k
        BY <1>7, <2>1, <2>2
      <3> QED
        BY <1>1, <3>1
    <2>3. CASE ~(i <= k)
      <3>1. i - k \in 1 .. (n - k) /\ k + (i - k) = i
        BY <1>4, <2>3
      <3>2. z[i] = y[i - k]
        BY <1>7, <2>1, <2>3
      <3> QED
        BY <1>5, <3>1, <3>2
    <2> QED
      BY <2>2, <2>3
  <1>9. z = s
    <2>1. Len(z) = n
      BY <1>4, <1>7
    <2> QED
      BY <1>2, <1>7, <1>8, <2>1, SeqEqual
  <1> QED
    BY <1>1, <1>2, <1>3, <1>5, <1>6, <1>9

\* Everything in a chunk of script events is stored after its append: in a row of its own,
\* or already before.
LEMMA ChunkStored ==
    ASSUME Types, NEW g \in Gens, NEW recs \in Seq(Records), \A i \in DOMAIN recs : recs[i] \in Events
    PROVE  StoredIn(rows \cup NewRows(g, recs), g) = StoredIn(rows, g) \cup ToSet(recs)
  <1> DEFINE F == FreshAt(g, recs)
             N == NewRows(g, recs)
  <1>1. F \in SUBSET DOMAIN recs /\ N = {NewRow(g, recs, i) : i \in F}
    BY FreshProperties, NewRowsByRank DEF Types
  <1>2. \A i \in F : NewRow(g, recs, i).ev = recs[i] /\ NewRow(g, recs, i).gen = g
    BY DEF NewRow
  <1> HIDE DEF F, N
  <1>3. ASSUME NEW r \in rows \cup N, r.gen = g PROVE r.ev \in StoredIn(rows, g) \cup ToSet(recs)
    <2>1. CASE r \in rows
      BY <1>3, <2>1 DEF StoredIn
    <2>2. CASE r \in N
      <3>1. PICK i \in F : r = NewRow(g, recs, i)
        BY <1>1, <2>2
      <3>2. r.ev = recs[i] /\ i \in DOMAIN recs
        BY <1>1, <1>2, <3>1
      <3> QED
        BY <3>2 DEF ToSet
    <2> QED
      BY <2>1, <2>2
  <1>4. ASSUME NEW i \in F PROVE recs[i] \in StoredIn(rows \cup N, g)
    <2>1. /\ NewRow(g, recs, i) \in rows \cup N /\ NewRow(g, recs, i).gen = g
          /\ NewRow(g, recs, i).ev = recs[i]
      BY <1>1, <1>2
    <2> QED
      BY <2>1, Zenon DEF StoredIn
  <1>5. ASSUME NEW i \in DOMAIN recs PROVE recs[i] \in StoredIn(rows \cup N, g)
    <2>1. CASE i \in F
      BY <1>4, <2>1
    <2>2. CASE i \notin F
      <3>1. recs[i].seq = 0
        BY DispatchAssumption
      <3>2. \/ \E r \in rows : SameKey(r, g, recs[i])
            \/ \E m \in F : m < i /\ recs[m] = recs[i]
        BY <2>2, <3>1, RepeatedEvent, Zenon DEF F
      <3>3. ASSUME NEW r \in rows, SameKey(r, g, recs[i]) PROVE recs[i] \in StoredIn(rows \cup N, g)
        <4>1. r.gen = g /\ r.ev = recs[i]
          BY <3>3, SameEvent, Zenon
        <4> QED
          BY <4>1 DEF StoredIn
      <3>4. ASSUME NEW m \in F, recs[m] = recs[i] PROVE recs[i] \in StoredIn(rows \cup N, g)
        BY <1>4, <3>4
      <3> QED
        BY <3>2, <3>3, <3>4
    <2> QED
      BY <2>1, <2>2
  <1>6. \A e \in StoredIn(rows, g) : e \in StoredIn(rows \cup N, g)
    BY DEF StoredIn
  <1>7. \A e \in StoredIn(rows \cup N, g) : e \in StoredIn(rows, g) \cup ToSet(recs)
    BY <1>3 DEF StoredIn
  <1>8. \A e \in ToSet(recs) : e \in StoredIn(rows \cup N, g)
    BY <1>5 DEF ToSet
  <1> QED
    BY <1>6, <1>7, <1>8 DEF N

\* A marker that is stored gets no second row.
LEMMA MarkerOnce ==
    ASSUME NEW g \in Gens, NEW recs \in Seq(Records), NEW i \in FreshAt(g, recs),
           NEW e, MarkerOf(recs[i], e)
    PROVE  /\ recs[i] \notin StoredIn(rows, g)
           /\ \A j \in 1 .. (i - 1) : recs[j] # recs[i]
  <1>1. i \in DOMAIN recs /\ Keyed(recs[i])
    BY FreshProperties DEF MarkerOf, Keyed
  <1>2. /\ ~\E r \in rows : SameKey(r, g, recs[i])
        /\ ~\E j \in 1 .. (i - 1) : Keyed(recs[i]) /\ recs[j] = recs[i]
    BY <1>1, FreshProperties, Zenon
  <1>3. ASSUME recs[i] \in StoredIn(rows, g) PROVE FALSE
    <2>1. PICK r \in rows : r.gen = g /\ r.ev = recs[i]
      BY <1>3 DEF StoredIn
    <2>2. SameKey(r, g, recs[i])
      BY <1>1, <2>1 DEF SameKey
    <2> QED
      BY <1>2, <2>2
  <1> QED
    BY <1>1, <1>2, <1>3

\* The rows of a chunk in which children follow their markers keep the table in order.
LEMMA ChunkOrdered ==
    ASSUME Types, \A r \in rows : r.seq <= nextSeq, NEW g \in Gens, NEW recs \in Seq(Records),
           NEW P, ToSet(recs) \subseteq P, Behind(P, StoredIn(rows, g), recs),
           \A e \in StoredIn(rows, g) :
              Child(e) => \A m \in P : MarkerOf(m, e) => m \in StoredIn(rows, g),
           Ordered(rows, g)
    PROVE  Ordered(rows \cup NewRows(g, recs), g)
  <1> DEFINE F == FreshAt(g, recs)
             N == NewRows(g, recs)
             S == StoredIn(rows, g)
             new(i) == NewRow(g, recs, i)
  <1>1. /\ F \in SUBSET DOMAIN recs /\ F \in SUBSET Nat /\ IsFiniteSet(F) /\ nextSeq \in Nat
        /\ DOMAIN recs = 1 .. Len(recs) /\ Len(recs) \in Nat
    BY FreshProperties, LenProperties DEF Types
  <1>2. N = {new(i) : i \in F}
    BY <1>1, NewRowsByRank, Zenon
  <1>3. \A i \in F : /\ new(i).ev = recs[i] /\ new(i).gen = g
                     /\ new(i).seq = nextSeq + 1 + Rank(F, i) /\ Rank(F, i) \in Nat
    <2>1. \A i \in F : Rank(F, i) \in Nat
      BY <1>1, RankBound, Zenon
    <2> QED
      BY <2>1 DEF NewRow
  <1>4. \A i \in F : \A e : MarkerOf(recs[i], e) => /\ recs[i] \notin S
                                                    /\ \A j \in 1 .. (i - 1) : recs[j] # recs[i]
    BY MarkerOnce, Zenon
  <1>5. \A i \in F : recs[i] \in P
    BY <1>1 DEF ToSet
  <1>6. \A r \in rows : r.seq \in Nat /\ (r.gen = g => r.ev \in S)
    BY DEF Types, StoredIn
  <1> HIDE DEF F, N, S, new
  <1> SUFFICES ASSUME NEW r \in rows \cup N, NEW q \in rows \cup N, r.gen = g, q.gen = g,
                      Child(r.ev), MarkerOf(q.ev, r.ev)
               PROVE  q.seq < r.seq
    BY Zenon DEF Ordered, N
  <1>7. CASE r \in rows /\ q \in rows
    BY <1>7, Zenon DEF Ordered
  <1>8. CASE r \in N /\ q \in rows
    <2>1. PICK i \in F : r = new(i)
      BY <1>2, <1>8
    <2>2. q.seq \in Nat /\ q.seq <= nextSeq
      BY <1>6, <1>8
    <2> QED
      BY <1>1, <1>3, <2>1, <2>2
  <1>9. CASE r \in rows /\ q \in N
    <2>1. PICK j \in F : q = new(j)
      BY <1>2, <1>9
    <2>2. q.ev = recs[j] /\ recs[j] \in P /\ r.ev \in S
      BY <1>3, <1>5, <1>6, <1>9, <2>1
    <2>3. recs[j] \notin S
      BY <1>4, <2>2, Zenon
    <2>4. recs[j] \in S
      BY <2>2, Zenon DEF S
    <2> QED
      BY <2>3, <2>4
  <1>10. CASE r \in N /\ q \in N
    <2>1. PICK i \in F : r = new(i)
      BY <1>2, <1>10
    <2>2. PICK j \in F : q = new(j)
      BY <1>2, <1>10
    <2>3. /\ r.ev = recs[i] /\ q.ev = recs[j] /\ recs[j] \in P /\ i \in DOMAIN recs
          /\ i \in Nat /\ j \in Nat
      BY <1>1, <1>3, <1>5, <2>1, <2>2
    <2>4. recs[j] \notin S /\ \A k \in 1 .. (j - 1) : recs[k] # recs[j]
      BY <1>4, <2>3, Zenon
    <2>5. recs[j] \in S \/ \E k \in 1 .. (i - 1) : recs[k] = recs[j]
      BY <2>3, Zenon DEF Behind, S
    <2>6. PICK k \in 1 .. (i - 1) : recs[k] = recs[j]
      BY <2>4, <2>5
    <2>7. j < i
      <3>1. ~(k \in 1 .. (j - 1))
        BY <2>4, <2>6, Zenon
      <3> QED
        BY <2>3, <2>6, <3>1
    <2>8. Rank(F, j) < Rank(F, i)
      BY <1>1, <2>7, RankLess, Zenon
    <2> QED
      BY <1>1, <1>3, <2>1, <2>2, <2>8
  <1> QED
    BY <1>7, <1>8, <1>9, <1>10

\* Persist: the chunk moves from the front of the batch behind what was stored before.
LEMMA PersistSorted ==
    ASSUME Table, Dense, Executions, Replay, Sorted, NEW g \in Gens, Persist(g)
    PROVE  Sorted'
  <1> DEFINE d == disp[g]
             q == queue[g]
             b == bat[g]
             m == main[g]
             f == failed[g]
  <1>1. PICK recs : recs = Chunk(g)
    OBVIOUS
  <1>2. PICK o : o = Stored(g, recs, rows')
    OBVIOUS
  <1>3. PICK b2 : b2 = [b EXCEPT !.phase = "emit", !.out = o]
    OBVIOUS
  <1>4. /\ rows' = rows \cup NewRows(g, recs) /\ (ToStore(recs) => owner = g)
        /\ b.phase = "flush"
        /\ Becomes(g, d, q, b2, thr[g], m, f, live[g])
    BY <1>1, <1>2, <1>3, AtOne DEF Persist, Becomes
  <1>5. /\ Types /\ Good(g, d, q, b, thr[g], m, f, live[g])
        /\ SortedOK(g, rows, d, q, b, m, f)
        /\ ReplayOK(g, rows, owner, gen, m.ev, live[g] \o b.out)
    BY TypesOf, SortedAt, Zenon DEF Executions, Replay
  <1>6. /\ recs \in Seq(Records) /\ DOMAIN recs = 1 .. Len(recs) /\ Len(recs) <= Len(b.recs)
        /\ \A i \in 1 .. Len(recs) : recs[i] = b.recs[i]
    BY <1>1, <1>5, ChunkProperties, Zenon
  <1>7. /\ RowsOf(g) /\ nextSeq \in Nat /\ \A r \in rows : r.seq <= nextSeq
    <2>1. \A r \in NewRows(g, recs) : r.gen = g
      BY <1>6, NewRowsProperties DEF Table
    <2> QED
      BY <1>4, <2>1 DEF RowsOf, Dense, SequencesDense, Table
  <1> HIDE DEF d, q, b, m, f
  <1>8. b \in Bats /\ b.recs \in Seq(Records) /\ m \in Mains
    BY <1>5 DEF Good, Bats
  <1>9. b.out = <<>> /\ \A i \in DOMAIN recs : recs[i] \in Events \cup m.ev
    <2>1. LocalOK(g, d, q, b, thr[g], m, f, live[g])
      BY <1>5, Zenon DEF Good
    <2>2. b.out = <<>>
      BY <1>4, <2>1 DEF LocalOK, PhaseOK
    <2>3. ToSet(b.recs) \subseteq Events \cup m.ev
      BY <2>1 DEF LocalOK, SentOK, Queued
    <2>4. \A i \in DOMAIN recs : i \in DOMAIN b.recs
      BY <1>6, <1>8, LenProperties
    <2>5. \A i \in DOMAIN b.recs : b.recs[i] \in ToSet(b.recs)
      BY DEF ToSet
    <2> QED
      BY <1>6, <2>2, <2>3, <2>4, <2>5
  <1>10. /\ StoredOK(g, recs, o) /\ Len(o) = Len(recs)
    <2>1. StoredOK(g, recs, Stored(g, recs, rows'))
      BY <1>4, <1>5, <1>6, StoredProperties, Zenon
    <2> QED
      BY <1>2, <2>1 DEF StoredOK
  <1>11. b2.recs = b.recs /\ b2.out = o /\ b2.carry = b.carry
    BY <1>3, <1>8 DEF Bats
  <1>12. /\ ToCome(b2) \in Seq(Records) /\ recs \o ToCome(b2) = b.recs
         /\ ToCome(b) = b.recs /\ Line(q, b2) = Line(q, b)
    <2>1. ToCome(b2) = SubSeq(b.recs, Len(recs) + 1, Len(b.recs))
      BY <1>10, <1>11 DEF ToCome
    <2>2. ToCome(b2) \in Seq(Records) /\ recs \o ToCome(b2) = b.recs
      BY <1>6, <1>8, <2>1, FrontAndRest
    <2>3. ToCome(b) = b.recs
      BY <1>8, <1>9, ToComeAll
    <2>4. Line(q, b2) = Line(q, b)
      BY <1>11 DEF Line
    <2> QED
      BY <2>2, <2>3, <2>4
  <1>13. ASSUME ~f, m.ev = {} PROVE Ordered(rows', g) /\ RoundsAt(g, rows', d, q, b2)
    <2>1. PICK S : S = StoredIn(rows, g)
      OBVIOUS
    <2>2. PICK y \in Seq(Records) : y = ToCome(b2)
      BY <1>12
    <2>3. PICK w : w = Line(q, b)
      OBVIOUS
    <2>4. PICK P : P = Pipe(S, recs \o y, w)
      OBVIOUS
    <2>5. Ordered(rows, g) /\ RoundsAt(g, rows, d, q, b)
      BY <1>5, <1>13, Zenon DEF SortedOK
    <2>6. RoundsOK(g, S, d, recs \o y, w)
      BY <1>12, <2>1, <2>2, <2>3, <2>5 DEF RoundsAt
    <2>7. InOrder(P, S, recs \o y, w) /\ MarksOK(g, d, P)
      BY <2>4, <2>6, Zenon DEF RoundsOK
    <2>8. /\ \A e \in S : Child(e) => \A x \in P : MarkerOf(x, e) => x \in S
          /\ Behind(P, S, recs)
      <3>1. /\ \A e \in S : Child(e) => \A x \in P : MarkerOf(x, e) => x \in S
            /\ Behind(P, S, recs \o y)
        BY <2>7, Zenon DEF InOrder
      <3> QED
        BY <1>6, <3>1, BehindConcat, Zenon
    <2>9. ToSet(recs) \subseteq P
      <3>1. ToSet(recs \o y) = ToSet(recs) \cup ToSet(y)
        BY <1>6, Elements
      <3> QED
        BY <2>4, <3>1 DEF Pipe
    <2>10. \A i \in DOMAIN recs : recs[i] \in Events
      BY <1>9, <1>13
    <2>11. Ordered(rows', g)
      <3>1. Ordered(rows \cup NewRows(g, recs), g)
        BY <1>5, <1>6, <1>7, <2>1, <2>5, <2>8, <2>9, <2>10, ChunkOrdered
      <3> QED
        BY <1>4, <3>1
    <2>12. StoredIn(rows', g) = S \cup ToSet(recs)
      <3>1. StoredIn(rows \cup NewRows(g, recs), g) = StoredIn(rows, g) \cup ToSet(recs)
        BY <1>5, <1>6, <2>10, ChunkStored
      <3> QED
        BY <1>4, <2>1, <3>1
    <2>13. Pipe(S \cup ToSet(recs), y, w) = P /\ InOrder(P, S \cup ToSet(recs), y, w)
      <3>1. /\ Pipe(S \cup ToSet(recs), y, w) = Pipe(S, recs \o y, w)
            /\ InOrder(P, S, recs \o y, w) => InOrder(P, S \cup ToSet(recs), y, w)
        BY <1>6, FrontMoves, Zenon
      <3> QED
        BY <2>4, <2>7, <3>1, Zenon
    <2>14. RoundsOK(g, S \cup ToSet(recs), d, y, w)
      BY <2>7, <2>13, Zenon DEF RoundsOK
    <2>15. RoundsAt(g, rows', d, q, b2)
      BY <1>12, <2>2, <2>3, <2>12, <2>14 DEF RoundsAt
    <2> QED
      BY <2>11, <2>15
  <1>14. ASSUME ~f, m.ev # {} PROVE Ordered(rows', g)
    <2>1. owner # g
      BY <1>5, <1>14 DEF ReplayOK, LastOK
    <2>2. \A i \in DOMAIN recs : recs[i].seq # 0
      BY <1>4, <2>1 DEF ToStore
    <2>3. FreshAt(g, recs) = {}
      BY <1>6, <2>2, FreshProperties
    <2>4. NewRows(g, recs) = {NewRow(g, recs, i) : i \in FreshAt(g, recs)}
      BY <1>6, <1>7, NewRowsByRank, Zenon
    <2>5. rows' = rows
      BY <1>4, <2>3, <2>4
    <2>6. Ordered(rows, g)
      BY <1>5, <1>14, Zenon DEF SortedOK
    <2> QED
      BY <2>5, <2>6
  <1>15. SortedOK(g, rows', d, q, b2, m, f)
    BY <1>13, <1>14, Zenon DEF SortedOK
  <1> QED
    BY <1>4, <1>7, <1>15, SortedOfOne, Zenon

\* Every step keeps the rows of every execution, and what it will store, in order.
LEMMA SortedStep ==
    ASSUME IInv, Replay, Sorted, [Next]_vars
    PROVE  Sorted'
  <1>1. Table /\ Dense /\ Executions
    BY Zenon DEF IInv
  <1>2. ASSUME NEW g \in Gens, NEW t \in Threads, Dispatch(g, t) PROVE Sorted'
    BY <1>1, <1>2, DispatchSorted, Zenon
  <1>3. ASSUME NEW g \in Gens, TakeFirst(g) PROVE Sorted'
    BY <1>1, <1>3, TakeFirstSorted, Zenon
  <1>4. ASSUME NEW g \in Gens, CollectNext(g) PROVE Sorted'
    BY <1>1, <1>4, CollectNextSorted, Zenon
  <1>5. ASSUME NEW g \in Gens, WindowEnds(g) \/ BatcherExits(g) \/ CloseBatcher(g) PROVE Sorted'
    BY <1>1, <1>5, BatcherSorted, Zenon
  <1>6. ASSUME NEW g \in Gens, Persist(g) PROVE Sorted'
    BY <1>1, <1>6, PersistSorted, Zenon
  <1>7. ASSUME NEW g \in Gens, PersistFails(g) PROVE Sorted'
    BY <1>1, <1>7, PersistFailsSorted, Zenon
  <1>8. ASSUME NEW g \in Gens, Emit(g) PROVE Sorted'
    BY <1>1, <1>8, EmitSorted, Zenon
  <1>9. ASSUME NEW g \in Gens, NEW kind \in {"workflow_finished", "workflow_paused"}, Settle(g, kind)
        PROVE  Sorted'
    BY <1>1, <1>9, SettleSorted DEF Ending
  <1>10. ASSUME NEW g \in Gens, DispatchSettled(g) PROVE Sorted'
    BY <1>1, <1>10, DispatchSettledSorted, Zenon
  <1>11. ASSUME NEW g \in Gens, Close(g) PROVE Sorted'
    BY <1>1, <1>11, CloseSorted, Zenon
  <1>12. ASSUME Claim \/ UNCHANGED vars PROVE Sorted'
    <2>1. UNCHANGED <<disp, queue, bat, main, failed>> /\ rows' = rows
      BY <1>12 DEF Claim, vars
    <2>2. rows \subseteq rows' /\ rows' \ rows = {}
      BY <2>1
    <2> QED
      BY <2>1, <2>2, OthersSorted
  <1>13. ASSUME NEW x \in Forms, Outside(x) PROVE Sorted'
    <2>1. /\ UNCHANGED <<disp, queue, bat, main, failed>>
          /\ rows \subseteq rows' /\ \A r \in rows' \ rows : r.gen = 0
      BY <1>13 DEF Outside
    <2> QED
      BY <2>1, OthersSorted
  <1> QED
    BY <1>2, <1>3, <1>4, <1>5, <1>6, <1>7, <1>8, <1>9, <1>10, <1>11, <1>12, <1>13, Zenon DEF Next

\* At first nothing is stored or on its way.
LEMMA InitSorted == Init => Sorted
  <1> SUFFICES ASSUME Init, NEW g \in Gens
               PROVE  SortedOK(g, rows, disp[g], queue[g], bat[g], main[g], failed[g])
    BY Zenon DEF Sorted
  <1>1. /\ rows = {} /\ disp[g].opened = {} /\ disp[g].rounds = {} /\ disp[g].pending = <<>>
        /\ queue[g] = <<>> /\ bat[g] = NoBatch
    BY DEF Init
  <1>2. ToCome(bat[g]) = <<>> /\ bat[g].carry = <<>>
    <2>1. NoBatch.recs = <<>> /\ NoBatch.out = <<>> /\ NoBatch.carry = <<>>
      BY DEF NoBatch
    <2> QED
      BY <1>1, <2>1 DEF ToCome
  <1>3. Line(queue[g], bat[g]) = <<>>
    BY <1>1, <1>2 DEF Line
  <1>4. StoredIn(rows, g) = {} /\ Ordered(rows, g)
    BY <1>1 DEF StoredIn, Ordered
  <1>5. \A P : InOrder(P, {}, <<>>, <<>>)
    BY DEF InOrder, Behind
  <1>6. Pipe({}, <<>>, <<>>) = {}
    BY DEF Pipe, Inside, ToSet
  <1>7. MarksOK(g, disp[g], {})
    <2>1. ToSet(disp[g].pending) = {}
      BY <1>1 DEF ToSet
    <2> QED
      BY <1>1, <2>1 DEF MarksOK
  <1>8. RoundsOK(g, {}, disp[g], <<>>, <<>>)
    BY <1>5, <1>6, <1>7 DEF RoundsOK
  <1>9. RoundsAt(g, rows, disp[g], queue[g], bat[g])
    BY <1>2, <1>3, <1>4, <1>8 DEF RoundsAt
  <1> QED
    BY <1>4, <1>9, Zenon DEF SortedOK

\* Replay shows a container before its children: whatever threads report at the same
\* time, however the batches are cut and whoever else appends, an execution without a
\* failure stores no child before the start of its container and the marker of its round.
THEOREM ChildrenInOrder == Spec => []ChildrenFollowTheirRound
  <1>1. IInv /\ Replay /\ Sorted /\ [Next]_vars => Sorted'
    BY SortedStep, Zenon
  <1>2. IInv /\ Sorted => ChildrenFollowTheirRound
    <2> SUFFICES ASSUME IInv, Sorted, NEW r \in rows, NEW q \in rows, r.gen = q.gen, r.gen # 0,
                        ~failed[r.gen], Child(r.ev), MarkerOf(q.ev, r.ev)
                 PROVE  q.seq < r.seq
      BY Zenon DEF ChildrenFollowTheirRound
    <2>1. PICK g \in Gens : g = r.gen
      BY DEF IInv, Table
    <2>2. SortedOK(g, rows, disp[g], queue[g], bat[g], main[g], failed[g]) /\ ~failed[g]
      BY <2>1, SortedAt
    <2>3. Ordered(rows, g)
      BY <2>2, Zenon DEF SortedOK
    <2>4. r.gen = g /\ q.gen = g
      BY <2>1
    <2> QED
      BY <2>3, <2>4, Zenon DEF Ordered
  <1> QED
    BY <1>1, <1>2, InitSorted, ReplayHolds, Inductive, PTL DEF Spec
=============================================================================
