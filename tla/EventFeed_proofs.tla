-------------------------- MODULE EventFeed_proofs --------------------------
(***************************************************************************)
(* What a subscriber of a run's event stream receives, for any number of   *)
(* API processes and clients, any batches and every size of the queues,    *)
(* the cached tail, its window and a read.                                 *)
(*                                                                         *)
(* The cache is never trusted: the argument needs only that what is queued *)
(* for it, and what it holds, are sequences of committed events.           *)
(***************************************************************************)
EXTENDS EventFeed, FiniteSetTheorems, SequenceTheorems, TLAPS

\* The writers, the queues and the tail hold only committed sequences.
Committed ==
    /\ log \in Seq(Entry)
    /\ commits \in [Instances -> Seq(SUBSET (1 .. Len(log)))]
    /\ pubq \in [Instances -> Seq(SUBSET (1 .. Len(log)))]
    /\ tail \in SUBSET (1 .. Len(log))

\* A connection that does not read yet has sent nothing.
NotStarted ==
    \A c \in Clients :
        conn[c].pc \in {"idle", "latest", "snapshot"} => got[c] = <<>> /\ from[c] = 0 /\ cursor[c] = 0

IInv == TypeOK /\ Committed /\ NotStarted /\ ReceivesLogInOrder /\ EndsAtTerminal

-----------------------------------------------------------------------------
(* Batches are intervals.                                                   *)

\* The types of the bounds.
LEMMA Limits ==
    /\ QueueSize \in Nat /\ TailLimit \in Nat /\ Window \in Nat /\ MaxLog \in Nat /\ MaxCuts \in Nat
    /\ ReadLimit \in Nat /\ ReadLimit > 0 /\ Batches \subseteq Seq(Entry)
BY FeedAssumption

\* The size of an interval behind a.
LEMMA CardInterval ==
    ASSUME NEW a \in Nat, NEW j \in Nat
    PROVE  IsFiniteSet((a + 1) .. (a + j)) /\ Cardinality((a + 1) .. (a + j)) = j
  <1>1. a + 1 \in Int /\ a + j \in Int
    OBVIOUS
  <1>2. /\ IsFiniteSet((a + 1) .. (a + j))
        /\ Cardinality((a + 1) .. (a + j)) = IF a + 1 > a + j THEN 0 ELSE (a + j) - (a + 1) + 1
    BY <1>1, FS_Interval
  <1> QED
    BY <1>2

\* A set of sequences behind a that contains, with one, all those before it has no gap.
LEMMA NoGap ==
    ASSUME NEW a \in Nat, NEW k \in Nat, NEW S \in SUBSET ((a + 1) .. (a + k)),
           \A n \in S : \A m \in (a + 1) .. n : m \in S
    PROVE  \E j \in 0 .. k : S = (a + 1) .. (a + j)
  <1>1. IsFiniteSet(S) /\ Cardinality(S) \in Nat /\ Cardinality(S) <= k
    <2>1. IsFiniteSet((a + 1) .. (a + k)) /\ Cardinality((a + 1) .. (a + k)) = k
      BY CardInterval
    <2> DEFINE T == (a + 1) .. (a + k)
    <2>2. S \in SUBSET T /\ IsFiniteSet(T) /\ Cardinality(T) = k
      BY <2>1
    <2> HIDE DEF T
    <2>3. IsFiniteSet(S) /\ Cardinality(S) <= Cardinality(T)
      BY <2>2, FS_Subset, Zenon
    <2> QED
      BY <2>2, <2>3, FS_CardinalityType
  <1>2. PICK j \in 0 .. k : j = Cardinality(S)
    BY <1>1
  <1>3. ASSUME NEW n \in S PROVE n \in (a + 1) .. (a + j)
    <2>1. PICK x \in Nat : n = a + x
      <3>1. n - a \in Nat /\ n = a + (n - a)
        OBVIOUS
      <3> QED
        BY <3>1
    <2>2. (a + 1) .. (a + x) \in SUBSET S
      BY <2>1
    <2>3. x <= j
      <3>1. Cardinality((a + 1) .. (a + x)) = x
        BY CardInterval
      <3>2. Cardinality((a + 1) .. (a + x)) <= Cardinality(S)
        BY <1>1, <2>2, FS_Subset, Zenon
      <3> QED
        BY <1>2, <3>1, <3>2
    <2> QED
      BY <2>1, <2>3
  <1>4. Cardinality((a + 1) .. (a + j)) = j /\ IsFiniteSet((a + 1) .. (a + j))
    <2>1. j \in Nat
      OBVIOUS
    <2> QED
      BY <2>1, CardInterval
  <1>5. S \in SUBSET ((a + 1) .. (a + j))
    BY <1>3
  <1>6. S = (a + 1) .. (a + j)
    BY <1>2, <1>4, <1>5, FS_Subset
  <1> QED
    BY <1>6

\* An interval in ascending order is the sequence of its elements.
LEMMA AscendingInterval ==
    ASSUME NEW a \in Nat, NEW j \in Nat
    PROVE  Ascending((a + 1) .. (a + j)) = [k \in 1 .. j |-> a + k]
  <1> DEFINE s == (a + 1) .. (a + j)
             below(n) == {m \in s : m < n}
  <1>1. Cardinality(s) = j
    BY CardInterval
  <1>2. ASSUME NEW n \in s PROVE Cardinality(below(n)) = n - a - 1
    <2>1. PICK x \in Nat : n = a + x + 1
      <3>1. n - a - 1 \in Nat /\ n = a + (n - a - 1) + 1
        OBVIOUS
      <3> QED
        BY <3>1
    <2>2. below(n) = (a + 1) .. (a + x)
      BY <2>1
    <2>3. Cardinality((a + 1) .. (a + x)) = x
      BY CardInterval
    <2>4. x = n - a - 1
      BY <2>1
    <2> QED
      BY <2>2, <2>3, <2>4
  <1>3. ASSUME NEW k \in 1 .. j PROVE (CHOOSE n \in s : Cardinality(below(n)) = k - 1) = a + k
    <2>1. a + k \in s /\ Cardinality(below(a + k)) = k - 1
      <3>1. a + k \in s /\ a + k - a - 1 = k - 1
        OBVIOUS
      <3> QED
        BY <1>2, <3>1
    <2>2. ASSUME NEW n \in s, Cardinality(below(n)) = k - 1 PROVE n = a + k
      <3>1. n - a - 1 = k - 1
        BY <1>2, <2>2
      <3> QED
        BY <3>1
    <2> HIDE DEF s, below
    <2> QED
      BY <2>1, <2>2
  <1>4. Ascending(s) = [k \in 1 .. j |-> CHOOSE n \in s : Cardinality(below(n)) = k - 1]
    BY <1>1 DEF Ascending
  <1> HIDE DEF s, below
  <1>5. Ascending(s) = [k \in 1 .. j |-> a + k]
    BY <1>3, <1>4
  <1> QED
    BY <1>5 DEF s

\* The last element of an interval behind a.
LEMMA MaxInterval ==
    ASSUME NEW a \in Nat, NEW j \in Nat \ {0}
    PROVE  Max((a + 1) .. (a + j)) = a + j
  <1>1. a + j \in (a + 1) .. (a + j) /\ \A y \in (a + 1) .. (a + j) : a + j >= y
    OBVIOUS
  <1>2. \A x \in (a + 1) .. (a + j) : (\A y \in (a + 1) .. (a + j) : x >= y) => x = a + j
    BY <1>1
  <1> QED
    BY <1>1, <1>2 DEF Max

\* What is sent of a batch is its beginning, and only its last event may end the stream.
LEMMA SentInterval ==
    ASSUME NEW a \in Nat, NEW k \in Nat \ {0}, NEW pauses
    PROVE  \E j \in 1 .. k : /\ Sent((a + 1) .. (a + k), pauses) = (a + 1) .. (a + j)
                             /\ \A m \in (a + 1) .. (a + j) : StopsAt(m, pauses) => m = a + j
  <1> DEFINE batch == (a + 1) .. (a + k)
             sent == Sent(batch, pauses)
  <1>1. sent \in SUBSET batch /\ \A n \in sent : \A m \in (a + 1) .. n : m \in sent
    BY DEF Sent
  <1>2. PICK j \in 0 .. k : sent = (a + 1) .. (a + j)
    <2>1. k \in Nat
      OBVIOUS
    <2>2. sent \in SUBSET ((a + 1) .. (a + k))
      BY <1>1
    <2>3. \A n \in sent : \A m \in (a + 1) .. n : m \in sent
      BY <1>1
    <2> HIDE DEF sent
    <2>4. \A T \in SUBSET ((a + 1) .. (a + k)) :
              (\A n \in T : \A m \in (a + 1) .. n : m \in T) => \E j \in 0 .. k : T = (a + 1) .. (a + j)
      BY <2>1, NoGap, Zenon
    <2>5. \E j \in 0 .. k : sent = (a + 1) .. (a + j)
      BY <2>2, <2>3, <2>4, Zenon
    <2> QED
      BY <2>5
  <1>3. a + 1 \in sent
    BY DEF Sent
  <1>4. j \in 1 .. k
    BY <1>2, <1>3
  <1>5. ASSUME NEW m \in (a + 1) .. (a + j), StopsAt(m, pauses) PROVE m = a + j
    <2>1. m \in batch /\ a + j \in sent
      BY <1>2, <1>4
    <2>2. ~(m < a + j)
      BY <1>5, <2>1 DEF Sent
    <2> QED
      BY <2>2
  <1> QED
    BY <1>2, <1>4, <1>5

-----------------------------------------------------------------------------
(* Reading.                                                                 *)

\* The sequences a client holds lie behind its start and inside the log.
LEMMA GotBounds ==
    ASSUME IInv, NEW c \in Clients
    PROVE  /\ Len(log) \in Nat /\ from[c] \in Nat /\ cursor[c] \in Nat /\ Len(got[c]) \in Nat
           /\ DOMAIN got[c] = 1 .. Len(got[c])
           /\ cursor[c] = from[c] + Len(got[c]) /\ cursor[c] <= Len(log) /\ from[c] <= Len(log)
           /\ \A k \in 1 .. Len(got[c]) : got[c][k] = from[c] + k /\ got[c][k] \in 1 .. Len(log)
  <1>1. /\ Len(log) \in Nat /\ from[c] \in Nat /\ cursor[c] \in Nat
        /\ Len(got[c]) \in Nat /\ DOMAIN got[c] = 1 .. Len(got[c])
    BY LenProperties DEF IInv, TypeOK, Committed
  <1>2. /\ cursor[c] = from[c] + Len(got[c]) /\ cursor[c] <= Len(log)
        /\ \A k \in 1 .. Len(got[c]) : got[c][k] = from[c] + k
    BY <1>1 DEF IInv, ReceivesLogInOrder
  <1> QED
    BY <1>1, <1>2

\* A view that is extended by the next j sequences.
LEMMA Extended ==
    ASSUME NEW s \in Seq(Nat), NEW f \in Nat, NEW j \in Nat, \A k \in 1 .. Len(s) : s[k] = f + k,
           NEW a, a = f + Len(s), NEW t, t = s \o [k \in 1 .. j |-> a + k]
    PROVE  /\ t \in Seq(Nat) /\ Len(t) = Len(s) + j
           /\ \A k \in 1 .. Len(t) : t[k] = f + k
  <1> DEFINE e == [k \in 1 .. j |-> a + k]
  <1>1. Len(s) \in Nat /\ a \in Nat
    BY LenProperties
  <1>2. e \in Seq(Nat) /\ Len(e) = j /\ \A k \in 1 .. j : e[k] = a + k
    BY <1>1
  <1>2a. t = s \o e
    OBVIOUS
  <1> HIDE DEF e
  <1>3. /\ t \in Seq(Nat) /\ Len(t) = Len(s) + Len(e)
        /\ \A k \in 1 .. Len(s) + Len(e) : t[k] = IF k <= Len(s) THEN s[k] ELSE e[k - Len(s)]
    <2>1. /\ s \o e \in Seq(Nat) /\ Len(s \o e) = Len(s) + Len(e)
          /\ \A k \in 1 .. Len(s) + Len(e) :
                (s \o e)[k] = IF k <= Len(s) THEN s[k] ELSE e[k - Len(s)]
      BY <1>2, ConcatProperties, Zenon
    <2> QED
      BY <1>2a, <2>1, Zenon
  <1>4. ASSUME NEW k \in 1 .. Len(t) PROVE t[k] = f + k
    <2>1. CASE k <= Len(s)
      <3>1. k \in 1 .. Len(s) /\ k \in 1 .. Len(s) + Len(e)
        BY <1>1, <1>2, <1>3, <2>1
      <3>2. t[k] = s[k]
        BY <1>3, <2>1, <3>1
      <3> QED
        BY <3>1, <3>2
    <2>2. CASE ~(k <= Len(s))
      <3>1. k - Len(s) \in 1 .. j /\ t[k] = e[k - Len(s)]
        BY <1>1, <1>2, <1>3, <2>2
      <3>2. t[k] = a + (k - Len(s))
        BY <1>2, <3>1
      <3> QED
        BY <1>1, <3>2
    <2> QED
      BY <2>1, <2>2
  <1>5. t \in Seq(Nat) /\ Len(t) = Len(s) + j
    BY <1>2, <1>3
  <1> QED
    BY <1>4, <1>5

\* The steps of one client leave the log, the cache and the other clients alone.
LEMMA ClientStep ==
    ASSUME IInv, UNCHANGED <<log, feedVars>>, NEW c \in Clients,
           NEW pc \in {"latest", "snapshot", "reading", "done"}, NEW pauses \in BOOLEAN,
           NEW f \in Nat, NEW g \in Seq(Nat), NEW n \in Nat,
           conn' = [conn EXCEPT ![c] = [pc |-> pc, pauses |-> pauses]],
           from' = [from EXCEPT ![c] = f], got' = [got EXCEPT ![c] = g], cursor' = [cursor EXCEPT ![c] = n],
           cuts' \in 0 .. MaxCuts,
           pc \in {"latest", "snapshot"} => g = <<>> /\ f = 0 /\ n = 0,
           n = f + Len(g), n <= Len(log), \A k \in 1 .. Len(g) : g[k] = f + k,
           \A k \in 1 .. Len(g) : StopsAt(g[k], pauses) => k = Len(g) /\ pc = "done",
           pc = "done" => \/ g # <<>> /\ StopsAt(g[Len(g)], pauses)
                          \/ g = <<>> /\ \E m \in 1 .. f : log[m].kind = "workflow_finished"
    PROVE  IInv'
  <1>1. /\ log' = log /\ conn'[c].pc = pc /\ conn'[c].pauses = pauses /\ from'[c] = f /\ got'[c] = g /\ cursor'[c] = n
        /\ \A d \in Clients \ {c} :
              conn'[d] = conn[d] /\ from'[d] = from[d] /\ got'[d] = got[d] /\ cursor'[d] = cursor[d]
    BY DEF IInv, TypeOK
  <1>2. TypeOK'
    BY DEF IInv, TypeOK, feedVars
  <1>3. Committed'
    BY DEF IInv, Committed, feedVars
  <1>4. NotStarted'
    BY <1>1 DEF IInv, NotStarted
  <1>5. DOMAIN g = 1 .. Len(g)
    BY LenProperties
  <1>6. ReceivesLogInOrder'
    <2>1. ASSUME NEW d \in Clients
          PROVE  /\ cursor'[d] = from'[d] + Len(got'[d]) /\ cursor'[d] <= Len(log')
                 /\ \A k \in DOMAIN got'[d] : got'[d][k] = from'[d] + k
      <3>1. CASE d = c
        <4>1. cursor'[c] = from'[c] + Len(got'[c])
          BY <1>1
        <4>2. cursor'[c] <= Len(log')
          BY <1>1
        <4>3. \A k \in DOMAIN got'[c] : got'[c][k] = from'[c] + k
          BY <1>1, <1>5
        <4> QED
          BY <3>1, <4>1, <4>2, <4>3, Zenon
      <3>2. CASE d # c
        BY <1>1, <3>2 DEF IInv, ReceivesLogInOrder
      <3> QED
        BY <3>1, <3>2
    <2> QED
      BY <2>1 DEF ReceivesLogInOrder
  <1>7. EndsAtTerminal'
    <2>1. ASSUME NEW d \in Clients
          PROVE  /\ \A k \in DOMAIN got'[d] : EndsStream(got[d][k], d)' => k = Len(got'[d]) /\ conn'[d].pc = "done"
                 /\ conn'[d].pc = "done" =>
                       \/ got'[d] # <<>> /\ EndsStream(got[d][Len(got[d])], d)'
                       \/ got'[d] = <<>> /\ \E m \in 1 .. from'[d] : log'[m].kind = "workflow_finished"
      <3>1. CASE d = c
        <4>2. \A k \in DOMAIN got'[c] : EndsStream(got[c][k], c)' => k = Len(got'[c]) /\ conn'[c].pc = "done"
          BY <1>1, <1>5, ZenonT(40) DEF EndsStream, StopsAt
        <4>3. conn'[c].pc = "done" =>
                 \/ got'[c] # <<>> /\ EndsStream(got[c][Len(got[c])], c)'
                 \/ got'[c] = <<>> /\ \E m \in 1 .. from'[c] : log'[m].kind = "workflow_finished"
          BY <1>1 DEF EndsStream, StopsAt
        <4> QED
          BY <3>1, <4>2, <4>3, Zenon
      <3>2. CASE d # c
        BY <1>1, <3>2 DEF IInv, EndsAtTerminal, EndsStream
      <3> QED
        BY <3>1, <3>2
    <2> QED
      BY <2>1 DEF EndsAtTerminal
  <1> QED
    BY <1>2, <1>3, <1>4, <1>6, <1>7 DEF IInv

\* A client that still reads has seen no end of its stream.
LEMMA ReadsOn ==
    ASSUME IInv, NEW c \in Clients, conn[c].pc = "reading"
    PROVE  \A k \in 1 .. Len(got[c]) : ~StopsAt(got[c][k], conn[c].pauses)
  <1>1. DOMAIN got[c] = 1 .. Len(got[c])
    BY GotBounds
  <1> QED
    BY <1>1 DEF IInv, EndsAtTerminal, EndsStream, StopsAt

\* The bounds of a view of L events behind f that grows by j of the k events at hand.
LEMMA EndOfBatch ==
    ASSUME NEW f \in Nat, NEW L \in Nat, NEW N \in Nat, NEW k \in Nat, NEW j \in 1 .. k, f + L + k <= N
    PROVE  /\ f + L + j = f + (L + j) /\ f + L + j <= N /\ f + L + j \in Nat /\ L + j \in 1 .. (L + j)
           /\ \A i \in 1 .. (L + j) : /\ i <= L \/ f + i \in (f + L + 1) .. (f + L + j)
                                     /\ f + i = f + L + j => i = L + j
OBVIOUS

\* The handler delivers the next events of the log, up to an end of the stream.
LEMMA DeliverStep ==
    ASSUME IInv, NEW c \in Clients, conn[c].pc = "reading", NEW k \in Nat \ {0}, cursor[c] + k <= Len(log),
           Deliver(c, (cursor[c] + 1) .. (cursor[c] + k))
    PROVE  IInv'
  <1>0. PICK a \in Nat : a = cursor[c]
    BY GotBounds
  <1> DEFINE pauses == conn[c].pauses
             sent == Sent((a + 1) .. (a + k), pauses)
             pc == IF \E n \in sent : StopsAt(n, pauses) THEN "done" ELSE "reading"
  <1>1. a \in Nat /\ Len(log) \in Nat /\ from[c] \in Nat /\ Len(got[c]) \in Nat /\ a = from[c] + Len(got[c])
        /\ got[c] \in Seq(Nat) /\ pauses \in BOOLEAN /\ a + k <= Len(log) /\ \A i \in 1 .. Len(got[c]) : got[c][i] = from[c] + i
    BY <1>0, GotBounds DEF IInv, TypeOK
  <1>1a. PICK f \in Nat, L \in Nat, N \in Nat : f = from[c] /\ L = Len(got[c]) /\ N = Len(log) /\ a = f + L /\ a + k <= N
    BY <1>1
  <1>2. PICK j \in 1 .. k : sent = (a + 1) .. (a + j) /\ \A m \in (a + 1) .. (a + j) : StopsAt(m, pauses) => m = a + j
    <2> HIDE DEF pauses
    <2> QED
      BY <1>1, SentInterval
  <1>3. /\ got' = [got EXCEPT ![c] = @ \o Ascending(sent)]
        /\ cursor' = [cursor EXCEPT ![c] = Max(sent)]
        /\ conn' = [conn EXCEPT ![c].pc = IF \E n \in sent : StopsAt(n, pauses) THEN "done" ELSE @]
        /\ UNCHANGED <<log, feedVars, from, cuts>>
    BY <1>0 DEF Deliver
  <1> HIDE DEF sent, pauses
  <1> DEFINE e == [i \in 1 .. j |-> a + i]
             g == got[c] \o e
  <1>4. Ascending(sent) = e /\ Max(sent) = a + j
    <2>1. j \in Nat /\ j \in Nat \ {0}
      OBVIOUS
    <2>2. Ascending((a + 1) .. (a + j)) = e
      BY <1>1, <2>1, AscendingInterval
    <2>3. Max((a + 1) .. (a + j)) = a + j
      BY <1>1, <2>1, MaxInterval
    <2> HIDE DEF e
    <2> QED
      BY <1>2, <2>2, <2>3, Zenon
  <1>5. /\ g \in Seq(Nat) /\ Len(g) = L + j
        /\ \A i \in 1 .. Len(g) : g[i] = f + i
    <2>1. g = got[c] \o [i \in 1 .. j |-> a + i] /\ j \in Nat
      OBVIOUS
    <2>2. got[c] \in Seq(Nat) /\ a = f + Len(got[c]) /\ \A i \in 1 .. Len(got[c]) : got[c][i] = f + i
      BY <1>1, <1>1a
    <2> HIDE DEF g, e
    <2>3. g \in Seq(Nat) /\ Len(g) = Len(got[c]) + j /\ \A i \in 1 .. Len(g) : g[i] = f + i
      BY <2>1, <2>2, Extended
    <2> QED
      BY <1>1a, <2>3
  <1>6. conn' = [conn EXCEPT ![c] = [pc |-> pc, pauses |-> pauses]]
    <2>1. conn[c] \in [pc : {"idle", "latest", "snapshot", "reading", "done"}, pauses : BOOLEAN]
      BY DEF IInv, TypeOK
    <2>2. conn' = [conn EXCEPT ![c] = [conn[c] EXCEPT !.pc = pc]]
      BY <1>3
    <2>3. [conn[c] EXCEPT !.pc = pc] = [pc |-> pc, pauses |-> pauses]
      <3> HIDE DEF pc
      <3> QED
        BY <2>1 DEF pauses
    <2> QED
      BY <2>2, <2>3, Zenon
  <1>7. got' = [got EXCEPT ![c] = g] /\ cursor' = [cursor EXCEPT ![c] = a + j] /\ from' = [from EXCEPT ![c] = f]
    BY <1>1a, <1>3, <1>4 DEF IInv, TypeOK
  <1> HIDE DEF e, g
  <1>7a. /\ a + j = f + (L + j) /\ a + j <= N /\ a + j \in Nat /\ L + j \in 1 .. (L + j)
         /\ \A i \in 1 .. (L + j) : /\ i <= L \/ f + i \in (a + 1) .. (a + j)
                                   /\ f + i = a + j => i = L + j
    <2>1. k \in Nat /\ f + L + k <= N
      BY <1>1a
    <2>2. /\ f + L + j = f + (L + j) /\ f + L + j <= N /\ f + L + j \in Nat /\ L + j \in 1 .. (L + j)
          /\ \A i \in 1 .. (L + j) : /\ i <= L \/ f + i \in (f + L + 1) .. (f + L + j)
                                    /\ f + i = f + L + j => i = L + j
      BY <2>1, EndOfBatch
    <2> QED
      BY <1>1a, <2>2, Zenon
  <1>8. a + j = f + Len(g) /\ a + j <= Len(log) /\ a + j \in Nat
    <2>1. a + j = f + (L + j) /\ a + j <= N /\ a + j \in Nat
      BY <1>7a, Zenon
    <2> QED
      BY <1>1a, <1>5, <2>1
  <1>9. ASSUME NEW i \in 1 .. Len(g), StopsAt(g[i], pauses) PROVE i = Len(g) /\ pc = "done"
    <2>0. i \in 1 .. (L + j) /\ g[i] = f + i
      BY <1>5
    <2>1. CASE i <= L
      <3>1. i \in 1 .. Len(got[c])
        BY <1>1a, <2>0, <2>1
      <3>2. g[i] = got[c][i]
        BY <1>1, <1>1a, <2>0, <3>1
      <3> QED
        BY <1>9, <3>1, <3>2, ReadsOn DEF pauses
    <2>2. CASE ~(i <= L)
      <3>1. f + i \in (a + 1) .. (a + j)
        <4>1. a = f + L
          BY <1>1a
        <4>2. i \in 1 .. (L + j)
          BY <2>0
        <4> QED
          BY <2>2, <4>1, <4>2
      <3>2. f + i = a + j /\ pc = "done"
        BY <1>2, <1>9, <2>0, <3>1
      <3>3. i = L + j
        BY <1>7a, <2>0, <3>2
      <3> QED
        BY <1>5, <3>2, <3>3
    <2> QED
      BY <2>0, <2>1, <2>2
  <1>10. pc = "done" => g # <<>> /\ StopsAt(g[Len(g)], pauses)
    <2> SUFFICES ASSUME pc = "done" PROVE g # <<>> /\ StopsAt(g[Len(g)], pauses)
      OBVIOUS
    <2>1. StopsAt(a + j, pauses)
      BY <1>2
    <2>2. L + j \in 1 .. (L + j) /\ f + (L + j) = a + j
      BY <1>7a
    <2>3. g[Len(g)] = a + j
      BY <1>5, <2>2
    <2>4. g # <<>>
      <3>1. Len(g) # 0
        BY <1>5, <2>2
      <3> QED
        BY <3>1
    <2> QED
      BY <2>1, <2>3, <2>4
  <1>11. pc \in {"reading", "done"} /\ cuts' \in 0 .. MaxCuts /\ UNCHANGED <<log, feedVars>>
    BY <1>3 DEF IInv, TypeOK
  <1> HIDE DEF pc
  <1> QED
    <2>1. pauses \in BOOLEAN /\ pc \in {"latest", "snapshot", "reading", "done"} /\ pc \notin {"latest", "snapshot"}
      BY <1>1, <1>11
    <2> QED
      BY <2>1, <1>5, <1>6, <1>7, <1>8, <1>9, <1>10, <1>11, ClientStep, ZenonT(40)

-----------------------------------------------------------------------------
(* The invariant.                                                           *)

\* The invariant holds at the start.
LEMMA InitInv == Init => IInv
  <1> SUFFICES ASSUME Init PROVE IInv
    OBVIOUS
  <1> USE DEF Init, LogInit, Idle
  <1>1. TypeOK
    BY Limits DEF TypeOK
  <1>2. Committed
    BY DEF Committed
  <1>3. NotStarted /\ ReceivesLogInOrder /\ EndsAtTerminal
    BY DEF NotStarted, ReceivesLogInOrder, EndsAtTerminal
  <1> QED
    BY <1>1, <1>2, <1>3 DEF IInv

\* Behind a committed batch the log is the one before: readers keep what they saw.
LEMMA CommitStep ==
    ASSUME IInv, NEW i \in Instances, NEW es \in Batches, Commit(i, es)
    PROVE  IInv'
  <1>1. /\ log' = log \o es /\ Len(log) < Len(log')
        /\ commits' = [commits EXCEPT ![i] = Append(@, (Len(log) + 1) .. Len(log'))]
        /\ UNCHANGED <<pubq, tail, conn, from, got, cursor, cuts>>
    BY DEF Commit, AppendBatch, Grow, readVars
  <1>2. log \in Seq(Entry) /\ es \in Seq(Entry)
    BY Limits DEF IInv, Committed
  <1>3. /\ log' \in Seq(Entry) /\ Len(log') = Len(log) + Len(es)
        /\ \A n \in 1 .. Len(log) + Len(es) : log'[n] = IF n <= Len(log) THEN log[n] ELSE es[n - Len(log)]
    BY <1>1, <1>2, ConcatProperties
  <1>4. Len(log) \in Nat /\ Len(log') \in Nat
    BY <1>2, <1>3, LenProperties
  <1>5. \A n \in 1 .. Len(log) : log'[n] = log[n] /\ n \in 1 .. Len(log')
    <2>1. Len(es) \in Nat
      BY <1>2, LenProperties
    <2> QED
      BY <1>3, <1>4, <2>1
  <1>6. SUBSET (1 .. Len(log)) \subseteq SUBSET (1 .. Len(log')) /\ SUBSET (1 .. Len(log')) \subseteq SUBSET Nat
    BY <1>4, <1>5
  <1>7. Committed'
    <2> DEFINE T == SUBSET (1 .. Len(log'))
               r == (Len(log) + 1) .. Len(log')
    <2>1. commits \in [Instances -> Seq(T)] /\ pubq \in [Instances -> Seq(T)]
      <3>1. \A s \in Seq(SUBSET (1 .. Len(log))) : s \in Seq(T)
        <4> HIDE DEF T
        <4> QED
          BY <1>6, SeqMonotonic DEF T
      <3> QED
        BY <3>1 DEF IInv, Committed
    <2>2. r \in T
      BY <1>4
    <2>3. tail \in T
      BY <1>6 DEF IInv, Committed
    <2> HIDE DEF T, r
    <2>4. commits' \in [Instances -> Seq(T)]
      BY <1>1, <2>1, <2>2 DEF r
    <2> QED
      BY <1>1, <1>3, <2>1, <2>3, <2>4 DEF T, Committed
  <1>8. TypeOK'
    <2>1. commits' \in [Instances -> Seq(SUBSET Nat)]
      <3>1. (Len(log) + 1) .. Len(log') \in SUBSET Nat
        BY <1>4
      <3> QED
        BY <1>1, <3>1 DEF IInv, TypeOK
    <2> QED
      BY <1>1, <2>1 DEF IInv, TypeOK
  <1>9. NotStarted'
    BY <1>1 DEF IInv, NotStarted
  <1>10. ReceivesLogInOrder'
    <2>1. \A c \in Clients : cursor[c] <= Len(log')
      <3> SUFFICES ASSUME NEW c \in Clients PROVE cursor[c] <= Len(log')
        OBVIOUS
      <3>1. cursor[c] \in Nat /\ cursor[c] <= Len(log)
        BY GotBounds
      <3> QED
        BY <1>1, <1>4, <3>1
    <2> QED
      BY <1>1, <2>1 DEF IInv, ReceivesLogInOrder
  <1>11. EndsAtTerminal'
    <2> SUFFICES ASSUME NEW c \in Clients
                 PROVE  /\ \A k \in DOMAIN got[c] : EndsStream(got[c][k], c)' => k = Len(got[c]) /\ conn[c].pc = "done"
                        /\ conn[c].pc = "done" =>
                              \/ got[c] # <<>> /\ EndsStream(got[c][Len(got[c])], c)'
                              \/ got[c] = <<>> /\ \E m \in 1 .. from[c] : log'[m].kind = "workflow_finished"
      BY <1>1 DEF EndsAtTerminal
    <2>1. \A k \in DOMAIN got[c] : EndsStream(got[c][k], c)' <=> EndsStream(got[c][k], c)
      <3>1. \A k \in DOMAIN got[c] : got[c][k] \in 1 .. Len(log)
        BY GotBounds
      <3> QED
        BY <1>1, <1>5, <3>1 DEF EndsStream
    <2>2. \A m \in 1 .. from[c] : log'[m] = log[m]
      <3>1. from[c] \in Nat /\ from[c] <= Len(log)
        BY GotBounds
      <3> QED
        BY <1>4, <1>5, <3>1
    <2>3. got[c] # <<>> => Len(got[c]) \in DOMAIN got[c]
      <3>1. got[c] \in Seq(Nat)
        BY DEF IInv, TypeOK
      <3> QED
        BY <3>1, EmptySeq, LenProperties
    <2>4. /\ \A k \in DOMAIN got[c] : EndsStream(got[c][k], c) => k = Len(got[c]) /\ conn[c].pc = "done"
          /\ conn[c].pc = "done" =>
                \/ got[c] # <<>> /\ EndsStream(got[c][Len(got[c])], c)
                \/ got[c] = <<>> /\ \E m \in 1 .. from[c] : log[m].kind = "workflow_finished"
      BY DEF IInv, EndsAtTerminal
    <2>5. \A k \in DOMAIN got[c] : EndsStream(got[c][k], c)' => k = Len(got[c]) /\ conn[c].pc = "done"
      BY <2>1, <2>4, Zenon
    <2>6. got[c] # <<>> /\ EndsStream(got[c][Len(got[c])], c) => EndsStream(got[c][Len(got[c])], c)'
      <3>1. got' = got
        BY <1>1
      <3>2. got[c] # <<>> /\ EndsStream(got[c][Len(got[c])], c) => EndsStream(got[c][Len(got[c])], c)'
        BY <2>1, <2>3, <3>1 DEF EndsStream
      <3> QED
        BY <3>2
    <2>7. (\E m \in 1 .. from[c] : log[m].kind = "workflow_finished")
             => \E m \in 1 .. from[c] : log'[m].kind = "workflow_finished"
      BY <2>2
    <2> QED
      BY <2>4, <2>5, <2>6, <2>7, Zenon
  <1> QED
    BY <1>7, <1>8, <1>9, <1>10, <1>11 DEF IInv

\* What the publishers and the cache do is invisible to the invariant.
LEMMA CacheStep ==
    ASSUME IInv, UNCHANGED <<log, readVars>>,
           commits' \in [Instances -> Seq(SUBSET (1 .. Len(log)))],
           pubq' \in [Instances -> Seq(SUBSET (1 .. Len(log)))],
           tail' \in SUBSET (1 .. Len(log))
    PROVE  IInv'
  <1>1. UNCHANGED <<log, conn, from, got, cursor, cuts>>
    BY DEF readVars
  <1>2. TypeOK'
    <2>1. Len(log) \in Nat
      BY LenProperties DEF IInv, Committed
    <2>2. SUBSET (1 .. Len(log)) \subseteq SUBSET Nat
      BY <2>1
    <2>3. \A s \in Seq(SUBSET (1 .. Len(log))) : s \in Seq(SUBSET Nat)
      BY <2>2, SeqMonotonic
    <2>4. commits' \in [Instances -> Seq(SUBSET Nat)] /\ pubq' \in [Instances -> Seq(SUBSET Nat)] /\ tail' \in SUBSET Nat
      BY <2>2, <2>3
    <2> QED
      BY <1>1, <2>4 DEF IInv, TypeOK
  <1>3. Committed'
    BY <1>1 DEF IInv, Committed
  <1>4. NotStarted' /\ ReceivesLogInOrder'
    BY <1>1 DEF IInv, NotStarted, ReceivesLogInOrder
  <1>5. EndsAtTerminal'
    BY <1>1 DEF IInv, EndsAtTerminal, EndsStream
  <1> QED
    BY <1>2, <1>3, <1>4, <1>5 DEF IInv

\* A window of committed sequences.
LEMMA WindowCommitted ==
    ASSUME NEW n \in Nat, NEW through \in 1 .. n
    PROVE  Max({1, through - Window + 1}) .. through \in SUBSET (1 .. n)
  <1>1. Window \in Nat /\ through - Window + 1 \in Int
    BY Limits
  <1>2. \E x \in {1, through - Window + 1} : \A y \in {1, through - Window + 1} : x >= y
    BY <1>1
  <1>3. Max({1, through - Window + 1}) \in {1, through - Window + 1} /\ Max({1, through - Window + 1}) >= 1
    BY <1>1, <1>2 DEF Max
  <1> QED
    BY <1>1, <1>3

\* Every step of writers, processes and clients keeps the invariant.
LEMMA StepInv == IInv /\ [Next]_vars => IInv'
  <1> SUFFICES ASSUME IInv, [Next]_vars PROVE IInv'
    OBVIOUS
  <1> DEFINE T == SUBSET (1 .. Len(log))
  <1>0. /\ Len(log) \in Nat /\ DOMAIN log = 1 .. Len(log)
        /\ commits \in [Instances -> Seq(T)] /\ pubq \in [Instances -> Seq(T)] /\ tail \in T
    BY LenProperties DEF IInv, Committed
  <1>00. \A q \in Seq(T), r \in T : Offered(q, r) \in Seq(T)
    <2> HIDE DEF T
    <2> QED
      BY DEF Offered
  <1>1. ASSUME NEW i \in Instances, NEW es \in Batches, Commit(i, es) PROVE IInv'
    BY <1>1, CommitStep
  <1>2. ASSUME NEW i \in Instances, Offer(i) PROVE IInv'
    <2>1. Head(commits[i]) \in T /\ Tail(commits[i]) \in Seq(T) /\ pubq[i] \in Seq(T)
      BY <1>0, <1>2, HeadTailProperties DEF Offer
    <2>2. /\ commits' = [commits EXCEPT ![i] = Tail(commits[i])] /\ tail' = tail /\ UNCHANGED <<log, readVars>>
          /\ pubq' = [pubq EXCEPT ![i] = Offered(pubq[i], Head(commits[i]))]
      BY <1>2 DEF Offer
    <2> HIDE DEF T
    <2>3. commits' \in [Instances -> Seq(T)] /\ pubq' \in [Instances -> Seq(T)] /\ tail' \in T
      BY <1>0, <1>00, <2>1, <2>2
    <2> QED
      BY <2>2, <2>3, CacheStep DEF T
  <1>3. ASSUME NEW i \in Instances, Crash(i) PROVE IInv'
    <2>1. /\ commits' = [commits EXCEPT ![i] = <<>>] /\ pubq' = [pubq EXCEPT ![i] = <<>>] /\ tail' = tail
          /\ UNCHANGED <<log, readVars>>
      BY <1>3 DEF Crash
    <2> HIDE DEF T
    <2>2. commits' \in [Instances -> Seq(T)] /\ pubq' \in [Instances -> Seq(T)] /\ tail' \in T
      BY <1>0, <2>1
    <2> QED
      BY <2>1, <2>2, CacheStep DEF T
  <1>4. ASSUME NEW i \in Instances, Publish(i) \/ PublishFails(i) PROVE IInv'
    <2>1. Head(pubq[i]) \in T /\ Tail(pubq[i]) \in Seq(T)
      BY <1>0, <1>4, HeadTailProperties DEF Publish, PublishFails
    <2>2. /\ pubq' = [pubq EXCEPT ![i] = Tail(pubq[i])] /\ UNCHANGED <<log, commits, readVars>>
          /\ tail' = tail \/ tail' = Trimmed(tail \cup Head(pubq[i]))
      BY <1>4 DEF Publish, PublishFails
    <2>3. tail' \in T
      BY <1>0, <2>1, <2>2 DEF Trimmed
    <2> HIDE DEF T
    <2>4. commits' \in [Instances -> Seq(T)] /\ pubq' \in [Instances -> Seq(T)]
      BY <1>0, <2>1, <2>2
    <2> QED
      BY <2>2, <2>3, <2>4, CacheStep DEF T
  <1>5. ASSUME NEW i \in Instances, NEW through \in 1 .. Len(log), HydrateWindow(i, through) PROVE IInv'
    <2> DEFINE r == Max({1, through - Window + 1}) .. through
    <2>1. r \in T
      BY <1>0, WindowCommitted
    <2>2. pubq' = [pubq EXCEPT ![i] = Offered(pubq[i], r)] /\ UNCHANGED <<log, commits, tail, readVars>>
      BY <1>5 DEF HydrateWindow
    <2> HIDE DEF r, T
    <2>3. commits' \in [Instances -> Seq(T)] /\ pubq' \in [Instances -> Seq(T)] /\ tail' \in T
      BY <1>0, <1>00, <2>1, <2>2
    <2> QED
      BY <2>2, <2>3, CacheStep DEF T
  <1>6. CASE TailExpires
    <2>1. tail' = {} /\ UNCHANGED <<log, commits, pubq, readVars>>
      BY <1>6 DEF TailExpires
    <2> QED
      BY <1>0, <2>1, CacheStep
  <1>7. ASSUME NEW c \in Clients, NEW start \in {"after", "latest", "snapshot"}, NEW pauses \in BOOLEAN,
               Connect(c, start, pauses)
        PROVE IInv'
    <2>1. PICK pc \in {"reading", "latest", "snapshot"} :
            conn' = [conn EXCEPT ![c] = [pc |-> pc, pauses |-> pauses]]
      BY <1>7 DEF Connect
    <2>2. got[c] = <<>> /\ from[c] = 0 /\ cursor[c] = 0 /\ UNCHANGED <<log, feedVars, from, got, cursor, cuts>>
      BY <1>7 DEF Connect, IInv, NotStarted
    <2>3. from' = [from EXCEPT ![c] = 0] /\ got' = [got EXCEPT ![c] = <<>>] /\ cursor' = [cursor EXCEPT ![c] = 0]
      BY <2>2 DEF IInv, TypeOK
    <2>4. cuts' \in 0 .. MaxCuts /\ UNCHANGED <<log, feedVars>>
      BY <2>2 DEF IInv, TypeOK
    <2>5. /\ <<>> \in Seq(Nat) /\ 0 \in Nat /\ 0 = 0 + Len(<<>>) /\ 0 <= Len(log)
          /\ \A k \in 1 .. Len(<<>>) : FALSE
      BY <1>0
    <2> QED
      BY <2>1, <2>3, <2>4, <2>5, ClientStep
  <1>8. ASSUME NEW c \in Clients, StartAtLatest(c) \/ StartAtSnapshot(c) PROVE IInv'
    <2> DEFINE pauses == conn[c].pauses
    <2>1. conn[c].pc \in {"latest", "snapshot"} /\ got[c] = <<>> /\ pauses \in BOOLEAN
          /\ UNCHANGED <<log, feedVars, got, cuts>>
      BY <1>8 DEF StartAtLatest, StartAtSnapshot, IInv, TypeOK, NotStarted
    <2>2. PICK n \in {0, Len(log)}, pc \in {"reading", "done"} :
             /\ from' = [from EXCEPT ![c] = n] /\ cursor' = [cursor EXCEPT ![c] = n]
             /\ conn' = [conn EXCEPT ![c].pc = pc]
             /\ pc = "done" => n = Len(log) /\ Finished(log)
      BY <1>8 DEF StartAtLatest, StartAtSnapshot
    <2>3. conn' = [conn EXCEPT ![c] = [pc |-> pc, pauses |-> pauses]]
      <3>1. conn[c] \in [pc : {"idle", "latest", "snapshot", "reading", "done"}, pauses : BOOLEAN]
        BY DEF IInv, TypeOK
      <3>2. [conn[c] EXCEPT !.pc = pc] = [pc |-> pc, pauses |-> pauses]
        BY <3>1
      <3> QED
        BY <2>2, <3>2
    <2>4. got' = [got EXCEPT ![c] = <<>>] /\ cuts' \in 0 .. MaxCuts /\ UNCHANGED <<log, feedVars>>
      BY <2>1 DEF IInv, TypeOK
    <2>5. /\ <<>> \in Seq(Nat) /\ n \in Nat /\ n = n + Len(<<>>) /\ n <= Len(log)
          /\ \A k \in 1 .. Len(<<>>) : FALSE
      BY <1>0, <2>2
    <2>6. pc = "done" => \E m \in 1 .. n : log[m].kind = "workflow_finished"
      BY <1>0, <2>2 DEF Finished
    <2> HIDE DEF pauses
    <2> QED
      BY <2>1, <2>2, <2>3, <2>4, <2>5, <2>6, ClientStep
  <1>9. ASSUME NEW c \in Clients, ReadTail(c) PROVE IInv'
    <2> DEFINE hits == Cached(cursor[c])
    <2>1. /\ conn[c].pc = "reading" /\ hits # {} /\ hits = (cursor[c] + 1) .. (cursor[c] + Cardinality(hits))
          /\ Deliver(c, hits)
      BY <1>9 DEF ReadTail, TailHit
    <2>2. hits \in SUBSET (1 .. Len(log)) /\ cursor[c] \in Nat
      BY <1>0, GotBounds DEF Cached
    <2> HIDE DEF hits
    <2>3. PICK k \in Nat : k = Cardinality(hits)
      <3>1. IsFiniteSet(1 .. Len(log))
        BY <1>0, FS_Interval
      <3>2. IsFiniteSet(hits)
        BY <2>2, <3>1, FS_Subset
      <3> QED
        BY <3>2, FS_CardinalityType
    <2>4. k # 0
      BY <2>1, <2>2, <2>3
    <2>5. cursor[c] + k <= Len(log)
      <3>1. cursor[c] + k \in hits
        BY <2>1, <2>2, <2>3, <2>4
      <3> QED
        BY <1>0, <2>2, <3>1
    <2>6. Deliver(c, (cursor[c] + 1) .. (cursor[c] + k))
      BY <2>1, <2>3
    <2> QED
      BY <2>1, <2>4, <2>5, <2>6, DeliverStep
  <1>10. ASSUME NEW c \in Clients, ReadLog(c) PROVE IInv'
    <2>1. PICK a \in Nat, N \in Nat, R \in Nat \ {0} : a = cursor[c] /\ N = Len(log) /\ R = ReadLimit
      <3>1. cursor[c] \in Nat /\ Len(log) \in Nat /\ ReadLimit \in Nat \ {0}
        BY <1>0, GotBounds, Limits
      <3> QED
        BY <3>1
    <2>2. /\ conn[c].pc = "reading" /\ a < N /\ Deliver(c, {n \in 1 .. N : a < n /\ n <= a + R})
      BY <1>0, <1>10, <2>1 DEF ReadLog
    <2>3. \E k \in Nat \ {0} : a + k <= N /\ {n \in 1 .. N : a < n /\ n <= a + R} = (a + 1) .. (a + k)
      <3>1. CASE a + R <= N
        <4>1. {n \in 1 .. N : a < n /\ n <= a + R} = (a + 1) .. (a + R)
          BY <3>1
        <4> QED
          BY <3>1, <4>1
      <3>2. CASE ~(a + R <= N)
        <4>1. {n \in 1 .. N : a < n /\ n <= a + R} = (a + 1) .. (a + (N - a)) /\ N - a \in Nat \ {0} /\ a + (N - a) <= N
          BY <2>2, <3>2
        <4> QED
          BY <4>1
      <3> QED
        BY <3>1, <3>2
    <2>4. PICK k \in Nat \ {0} : a + k <= N /\ {n \in 1 .. N : a < n /\ n <= a + R} = (a + 1) .. (a + k)
      BY <2>3
    <2>5. cursor[c] + k <= Len(log) /\ Deliver(c, (cursor[c] + 1) .. (cursor[c] + k))
      BY <2>1, <2>2, <2>4
    <2> QED
      BY <2>2, <2>5, DeliverStep
  <1>11. ASSUME NEW c \in Clients, NEW seen \in 0 .. Len(got[c]), Reconnect(c, seen) PROVE IInv'
    <2> DEFINE pauses == conn[c].pauses
               g == SubSeq(got[c], 1, seen)
    <2>1. PICK f \in Nat, L \in Nat : f = from[c] /\ L = Len(got[c]) /\ f + L <= Len(log)
      BY GotBounds
    <2>2. got[c] \in Seq(Nat) /\ pauses \in BOOLEAN /\ \A k \in 1 .. L : got[c][k] = f + k
      BY <2>1, GotBounds DEF IInv, TypeOK
    <2>3. /\ conn[c].pc = "reading" /\ cuts < MaxCuts /\ cuts' = cuts + 1
          /\ got' = [got EXCEPT ![c] = g] /\ cursor' = [cursor EXCEPT ![c] = f + seen]
          /\ UNCHANGED <<log, feedVars, conn, from>>
      BY <1>11, <2>1 DEF Reconnect
    <2>4. seen \in Nat /\ seen <= L
      BY <2>1
    <2>5. /\ g \in Seq(Nat) /\ Len(g) = seen /\ \A k \in 1 .. seen : g[k] = got[c][k]
      BY <2>1, <2>2, <2>4, SMTT(30)
    <2> HIDE DEF g
    <2>6. \A k \in 1 .. seen : k \in 1 .. Len(got[c]) /\ g[k] = f + k /\ g[k] = got[c][k]
      <3> SUFFICES ASSUME NEW k \in 1 .. seen PROVE k \in 1 .. Len(got[c]) /\ g[k] = f + k /\ g[k] = got[c][k]
        OBVIOUS
      <3>1. k \in 1 .. L /\ g[k] = got[c][k]
        BY <2>4, <2>5
      <3> QED
        BY <2>1, <2>2, <3>1
    <2>7. \A k \in 1 .. seen : ~StopsAt(g[k], pauses)
      BY <2>3, <2>6, ReadsOn
    <2>8. conn' = [conn EXCEPT ![c] = [pc |-> "reading", pauses |-> pauses]] /\ from' = [from EXCEPT ![c] = f]
      <3>1. conn[c] \in [pc : {"idle", "latest", "snapshot", "reading", "done"}, pauses : BOOLEAN]
        BY DEF IInv, TypeOK
      <3>2. conn[c] = [pc |-> "reading", pauses |-> pauses]
        BY <2>3, <3>1
      <3>3. conn' = [conn EXCEPT ![c] = conn[c]] /\ from' = [from EXCEPT ![c] = from[c]]
        BY <2>3 DEF IInv, TypeOK
      <3> QED
        BY <2>1, <3>2, <3>3
    <2> HIDE DEF pauses
    <2>9. cuts' \in 0 .. MaxCuts
      <3>1. cuts \in 0 .. MaxCuts
        BY DEF IInv, TypeOK
      <3> QED
        BY <2>3, <3>1, Limits
    <2>10. f + seen \in Nat /\ f + seen <= Len(log) /\ f + seen = f + Len(g)
      BY <1>0, <2>1, <2>4, <2>5
    <2>11. /\ \A k \in 1 .. Len(g) : g[k] = f + k
           /\ \A k \in 1 .. Len(g) : ~StopsAt(g[k], pauses)
           /\ UNCHANGED <<log, feedVars>>
      BY <2>3, <2>5, <2>6, <2>7
    <2> QED
      <3>1. /\ pauses \in BOOLEAN /\ g \in Seq(Nat) /\ got' = [got EXCEPT ![c] = g]
            /\ cursor' = [cursor EXCEPT ![c] = f + seen]
        BY <2>2, <2>3, <2>5
      <3> HIDE DEF T
      <3> QED
        BY <3>1, <2>8, <2>9, <2>10, <2>11, ClientStep
  <1>12. CASE UNCHANGED vars
    <2>1. UNCHANGED <<log, commits, pubq, tail, readVars>>
      BY <1>12 DEF vars, readVars
    <2> QED
      BY <1>0, <2>1, CacheStep
  <1> QED
    BY <1>1, <1>2, <1>3, <1>4, <1>5, <1>6, <1>7, <1>8, <1>9, <1>10, <1>11, <1>12 DEF Next

\* The inductive invariant, in every reachable state.
LEMMA Invariant == Spec => []IInv
BY InitInv, StepInv, PTL DEF Spec

\* The feed is well typed.
THEOREM TypeCorrect == Spec => []TypeOK
BY Invariant, PTL DEF IInv

\* A client receives the committed events behind its start once and in order, for every
\* state of the cache: late, trimmed, expired or with gaps, and across reconnects.
THEOREM InOrder == Spec => []ReceivesLogInOrder
BY Invariant, PTL DEF IInv

\* A stream shows nothing behind an event that ends it, and ends at such an event or
\* with a terminal snapshot only.
THEOREM EndsThere == Spec => []EndsAtTerminal
BY Invariant, PTL DEF IInv
=============================================================================
