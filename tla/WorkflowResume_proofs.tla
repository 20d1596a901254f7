----------------------- MODULE WorkflowResume_proofs -----------------------
(***************************************************************************)
(* Safety of a paused and resumed run, for every graph, every finite set   *)
(* of nodes and every outcome a node may have.                             *)
(*                                                                         *)
(* The heart of it is what the snapshot and the queue loop keep between    *)
(* them: a node is completed, with a status its downstreams may rely on,   *)
(* or it has not run to its end and is still queued.                       *)
(***************************************************************************)
EXTENDS WorkflowResume, FiniteSetTheorems, SequenceTheorems, TLAPS

Settled == {"succeeded", "exception", "skipped"}

Occurs(q, n) == \E i \in 1 .. Len(q) : q[i] = n

\* Until the pause the loop has no state, and an unfinished node has not run to an end.
EngineOnly ==
    mode = "engine" =>
        /\ queue = <<>> /\ completed = {} /\ skippedBefore = {}
        /\ \A n \in Node : status[n] \in {"pending", "running", "paused"} => runs[n] = 0

\* The snapshot and the loop partition the nodes.
Partition ==
    mode \in {"saved", "resumed"} =>
        \A n \in Node :
            /\ n \in completed => status[n] \in Settled
            /\ n \notin completed => runs[n] = 0 /\ failedNodes[n] = "ok" /\ Occurs(queue, n)

\* No node ran twice, and a run that ended normally has dealt with every node.
Inv == TypeOK /\ EngineOnly /\ Partition /\ RunsToEndOnce

-----------------------------------------------------------------------------
(* Orders and queues.                                                       *)

\* An order of a finite set is a sequence in which each of its elements occurs.
LEMMA OrdersCover ==
    ASSUME NEW S, IsFiniteSet(S), NEW q \in Orders(S)
    PROVE  q \in Seq(S) /\ Len(q) = Cardinality(S) /\ \A x \in S : Occurs(q, x)
  <1>1. PICK k \in Nat : k = Cardinality(S)
    BY FS_CardinalityType
  <1>2. q \in [1 .. k -> S] /\ \A i, j \in 1 .. k : q[i] = q[j] => i = j
    BY <1>1 DEF Orders
  <1>3. q \in Seq(S) /\ Len(q) = k
    BY <1>2
  <1> DEFINE R == {q[i] : i \in 1 .. k}
  <1>4. q \in Bijection(1 .. k, R)
    BY <1>2 DEF Bijection, Injection, IsInjective, Surjection
  <1>5. IsFiniteSet(1 .. k) /\ Cardinality(1 .. k) = k
    <2>1. 1 \in Int /\ k \in Int
      OBVIOUS
    <2>2. IsFiniteSet(1 .. k) /\ Cardinality(1 .. k) = IF 1 > k THEN 0 ELSE k - 1 + 1
      BY <2>1, FS_Interval
    <2> QED
      BY <2>2
  <1>6. Cardinality(R) = k
    <2> HIDE DEF R
    <2>1. ExistsBijection(1 .. k, R)
      BY <1>4 DEF ExistsBijection
    <2> QED
      BY <1>5, <2>1, FS_Bijection
  <1>7. R \in SUBSET S
    BY <1>2
  <1>8. R = S
    <2> HIDE DEF R
    <2> QED
      BY <1>1, <1>6, <1>7, FS_Subset, Zenon
  <1> QED
    BY <1>1, <1>3, <1>8 DEF Occurs

\* What occurs in a queue, but not at its head, occurs behind the head.
LEMMA TailOccurs ==
    ASSUME NEW q \in Seq(Node), q # <<>>, NEW n \in Node, Occurs(q, n), n # Head(q)
    PROVE  Tail(q) \in Seq(Node) /\ Occurs(Tail(q), n)
  <1>1. PICK i \in 1 .. Len(q) : q[i] = n
    BY DEF Occurs
  <1>2. /\ Tail(q) \in Seq(Node) /\ Len(Tail(q)) = Len(q) - 1 /\ Len(q) \in Nat
        /\ \A j \in 1 .. Len(Tail(q)) : Tail(q)[j] = q[j + 1]
    BY HeadTailProperties, LenProperties
  <1>3. i # 1
    BY <1>1
  <1>4. i - 1 \in 1 .. Len(Tail(q)) /\ (i - 1) + 1 = i
    BY <1>1, <1>2, <1>3
  <1> QED
    BY <1>1, <1>2, <1>4 DEF Occurs

\* Queues that are joined lose nothing.
LEMMA ConcatOccurs ==
    ASSUME NEW s \in Seq(Node), NEW t \in Seq(Node)
    PROVE  s \o t \in Seq(Node) /\ \A n \in Node : Occurs(s, n) \/ Occurs(t, n) => Occurs(s \o t, n)
  <1>1. /\ s \o t \in Seq(Node) /\ Len(s \o t) = Len(s) + Len(t) /\ Len(s) \in Nat /\ Len(t) \in Nat
        /\ \A i \in 1 .. Len(s) + Len(t) : (s \o t)[i] = IF i <= Len(s) THEN s[i] ELSE t[i - Len(s)]
    BY ConcatProperties, LenProperties
  <1>2. ASSUME NEW n \in Node, NEW i \in 1 .. Len(s), s[i] = n PROVE Occurs(s \o t, n)
    <2>1. i \in 1 .. Len(s \o t) /\ (s \o t)[i] = n
      BY <1>1, <1>2
    <2> QED
      BY <2>1 DEF Occurs
  <1>3. ASSUME NEW n \in Node, NEW i \in 1 .. Len(t), t[i] = n PROVE Occurs(s \o t, n)
    <2>1. Len(s) + i \in 1 .. Len(s) + Len(t) /\ ~(Len(s) + i <= Len(s)) /\ (Len(s) + i) - Len(s) = i
      BY <1>1
    <2>2. (s \o t)[Len(s) + i] = n
      BY <1>1, <1>3, <2>1
    <2> QED
      BY <1>1, <2>1, <2>2 DEF Occurs
  <1> QED
    BY <1>1, <1>2, <1>3 DEF Occurs

\* An appended node occurs, and so do those that did.
LEMMA AppendOccurs ==
    ASSUME NEW s \in Seq(Node), NEW n \in Node
    PROVE  /\ Append(s, n) \in Seq(Node) /\ Occurs(Append(s, n), n)
           /\ \A m \in Node : Occurs(s, m) => Occurs(Append(s, n), m)
  <1>1. /\ Append(s, n) \in Seq(Node) /\ Len(s) \in Nat /\ Len(Append(s, n)) = Len(s) + 1
        /\ \A i \in 1 .. Len(s) : Append(s, n)[i] = s[i]
        /\ Append(s, n)[Len(s) + 1] = n
    BY LenProperties
  <1>2. Len(s) + 1 \in 1 .. Len(Append(s, n)) /\ \A i \in 1 .. Len(s) : i \in 1 .. Len(Append(s, n))
    BY <1>1
  <1> QED
    BY <1>1, <1>2 DEF Occurs

\* What EnqueueDownstreams appends is a sequence of nodes.
LEMMA EnqueuedNodes ==
    ASSUME NEW n, NEW done, NEW q \in Enqueued(n, done)
    PROVE  q \in Seq(Node)
  <1> DEFINE out == OutEdges(n, done)
  <1>1. out \in SUBSET (Handle \X Node)
    BY DEF OutEdges
  <1>2. IsFiniteSet(Handle \X Node)
    BY GraphAssumption, ResumeAssumption, FS_Product
  <1>3. IsFiniteSet(out)
    <2> HIDE DEF out
    <2> QED
      BY <1>1, <1>2, FS_Subset
  <1>4. PICK p \in Orders(out) : q = [i \in DOMAIN p |-> p[i][2]]
    BY DEF Enqueued
  <1> HIDE DEF out
  <1>5. p \in Seq(out)
    BY <1>3, OrdersCover
  <1>6. \A i \in 1 .. Len(p) : p[i][2] \in Node
    <2> SUFFICES ASSUME NEW i \in 1 .. Len(p) PROVE p[i][2] \in Node
      OBVIOUS
    <2>1. p[i] \in Handle \X Node
      BY <1>1, <1>5
    <2> QED
      BY <2>1
  <1>7. Len(p) \in Nat /\ DOMAIN p = 1 .. Len(p)
    BY <1>5, LenProperties
  <1> QED
    BY <1>4, <1>6, <1>7

-----------------------------------------------------------------------------
(* The invariant.                                                           *)

\* The invariant holds at the start.
LEMMA InitInv == Init => Inv
  <1> SUFFICES ASSUME Init PROVE Inv
    OBVIOUS
  <1>1. /\ edges \in Graph /\ status = [n \in Node |-> "pending"] /\ handle = [n \in Node |-> NoHandle]
        /\ mode = "engine" /\ queue = <<>> /\ completed = {} /\ skippedBefore = {}
        /\ failedNodes = [n \in Node |-> "ok"] /\ runs = [n \in Node |-> 0]
    BY ResumeAssumption DEF Init, Dag!Init, Dag!NoHandle, NoHandle
  <1> QED
    BY <1>1 DEF Inv, TypeOK, Status, Modes, EngineOnly, Partition, RunsToEndOnce

\* An outcome is a terminal status and a handle.
LEMMA OutcomeType ==
    ASSUME NEW o \in Outcomes
    PROVE  o.status \in TerminalStatus /\ o.status \in Status /\ o.handle \in Handle \cup {NoHandle}
BY ResumeAssumption DEF Status

\* The engine's steps before the pause keep the invariant.
LEMMA EngineKeeps ==
    ASSUME Inv, EngineStep
    PROVE  Inv'
  <1> USE DEF Inv
  <1>1. mode = "engine" /\ UNCHANGED <<mode, queue, completed, failedNodes, skippedBefore>>
    BY DEF EngineStep, loopVars
  <1>2. \A n \in Node : status[n] \in {"pending", "running", "paused"} => runs[n] = 0
    BY <1>1 DEF EngineOnly
  <1>3. ASSUME NEW S \in SUBSET Node, Dag!Start(S), UNCHANGED runs PROVE Inv'
    <2>1. /\ status' = [n \in Node |-> IF n \in S THEN "running" ELSE status[n]] /\ UNCHANGED <<edges, handle>>
          /\ \A n \in S : status[n] = "pending"
      BY <1>3 DEF Dag!Start, Dag!Decidable
    <2> QED
      BY <1>1, <1>2, <1>3, <2>1 DEF TypeOK, Status, EngineOnly, Partition, RunsToEndOnce
  <1>4. ASSUME NEW n \in Node, Dag!Skip(n), UNCHANGED runs PROVE Inv'
    <2>1. status' = [status EXCEPT ![n] = "skipped"] /\ UNCHANGED <<edges, handle>>
      BY <1>4 DEF Dag!Skip
    <2> QED
      BY <1>1, <1>2, <1>4, <2>1 DEF TypeOK, Status, TerminalStatus, EngineOnly, Partition, RunsToEndOnce
  <1>5. ASSUME NEW n \in Node, NEW o \in Outcomes, Dag!Finish(n, o),
               runs' = [runs EXCEPT ![n] = IF o.status = "paused" THEN @ ELSE @ + 1]
        PROVE Inv'
    <2>1. /\ status[n] = "running" /\ status' = [status EXCEPT ![n] = o.status]
          /\ handle' = [handle EXCEPT ![n] = o.handle] /\ edges' = edges
      BY <1>5 DEF Dag!Finish, Dag!Record
    <2>2. o.status \in TerminalStatus /\ o.status \in Status /\ o.handle \in Handle \cup {NoHandle}
      BY OutcomeType
    <2>3. runs[n] = 0 /\ runs' = [runs EXCEPT ![n] = IF o.status = "paused" THEN 0 ELSE 1]
      <3>1. runs[n] = 0
        BY <1>2, <2>1
      <3>2. (IF o.status = "paused" THEN runs[n] ELSE runs[n] + 1) = IF o.status = "paused" THEN 0 ELSE 1
        BY <3>1
      <3>3. runs' = [runs EXCEPT ![n] = IF o.status = "paused" THEN runs[n] ELSE runs[n] + 1]
        BY <1>5
      <3> QED
        BY <3>1, <3>2, <3>3, Zenon
    <2>4. TypeOK'
      BY <1>1, <2>1, <2>2, <2>3 DEF TypeOK
    <2>5. /\ \A m \in Node : runs'[m] <= 1
          /\ \A m \in Node : status'[m] \in {"pending", "running", "paused"} => runs'[m] = 0
      BY <1>2, <2>1, <2>2, <2>3 DEF TypeOK, TerminalStatus, RunsToEndOnce
    <2> QED
      BY <1>1, <2>4, <2>5 DEF EngineOnly, Partition, RunsToEndOnce
  <1> QED
    BY <1>3, <1>4, <1>5 DEF EngineStep

\* The snapshot keeps every node: it is completed, or it is queued again.
LEMMA SaveKeeps ==
    ASSUME Inv, SavePause
    PROVE  Inv'
  <1> DEFINE P == WithStatus({"paused"})
             Q == WithStatus({"pending"})
  <1>1. /\ mode = "engine" /\ WithStatus({"running", "failed"}) = {}
        /\ completed' = WithStatus(Settled) /\ skippedBefore' = WithStatus({"skipped"})
        /\ failedNodes' = [n \in Node |-> IF status[n] = "exception" THEN "error" ELSE "ok"]
        /\ mode' \in {"saved", "lost"} /\ UNCHANGED <<edges, status, handle, runs>>
    BY DEF SavePause, Settled, WithStatus
  <1>2. PICK p \in Orders(P), q \in Orders(Q) : queue' = p \o q
    BY DEF SavePause, LeftPending
  <1>3. P \in SUBSET Node /\ Q \in SUBSET Node /\ IsFiniteSet(P) /\ IsFiniteSet(Q)
    <2>1. P \in SUBSET Node /\ Q \in SUBSET Node
      BY DEF WithStatus
    <2> QED
      BY <2>1, GraphAssumption, FS_Subset
  <1>4. p \in Seq(P) /\ q \in Seq(Q) /\ (\A x \in P : Occurs(p, x)) /\ \A x \in Q : Occurs(q, x)
    <2> HIDE DEF P, Q
    <2> QED
      BY <1>3, OrdersCover
  <1>5. p \in Seq(Node) /\ q \in Seq(Node)
    <2> HIDE DEF P, Q
    <2> QED
      BY <1>3, <1>4, SeqMonotonic
  <1>6. queue' \in Seq(Node) /\ \A n \in Node : n \in P \/ n \in Q => Occurs(queue', n)
    BY <1>2, <1>4, <1>5, ConcatOccurs
  <1>7. TypeOK'
    BY <1>1, <1>6 DEF Inv, TypeOK, Modes, WithStatus
  <1>8. \A n \in Node : /\ n \in completed' => status'[n] \in Settled
                        /\ n \notin completed' => status[n] \in {"pending", "paused"}
    BY <1>1 DEF Inv, TypeOK, Status, TerminalStatus, Settled, WithStatus
  <1>9. ASSUME NEW n \in Node, n \notin completed'
        PROVE  runs'[n] = 0 /\ failedNodes'[n] = "ok" /\ Occurs(queue', n)
    <2>1. status[n] \in {"pending", "paused"}
      BY <1>8, <1>9
    <2>2. n \in P \/ n \in Q
      BY <2>1 DEF WithStatus
    <2> QED
      BY <1>1, <1>6, <2>1, <2>2 DEF Inv, EngineOnly
  <1>10. Partition'
    BY <1>8, <1>9 DEF Partition, Occurs
  <1>11. EngineOnly' /\ RunsToEndOnce'
    BY <1>1 DEF Inv, EngineOnly, RunsToEndOnce
  <1> QED
    BY <1>7, <1>10, <1>11 DEF Inv

\* A step of the loop that completes the node at the head, which gets status s and runs
\* r times in all, and appends nodes to the rest of the queue.
LEMMA CompleteKeeps ==
    ASSUME Inv, NEW n \in Node, AtHead(n), n \notin completed,
           completed' = completed \cup {n}, skippedBefore' = skippedBefore, edges' = edges,
           NEW s \in Settled, status' = [status EXCEPT ![n] = s],
           NEW h \in Handle \cup {NoHandle}, handle' = [handle EXCEPT ![n] = h],
           NEW r \in {0, 1}, runs' = [runs EXCEPT ![n] = r],
           NEW f \in {"ok", "skipped"}, failedNodes' = [failedNodes EXCEPT ![n] = f],
           NEW q \in Seq(Node), queue' = Tail(queue) \o q,
           mode' \in {"resumed", "stopped"}
    PROVE  Inv'
  <1>1. queue \in Seq(Node) /\ queue # <<>> /\ Head(queue) = n /\ mode = "resumed"
    BY DEF Inv, TypeOK, AtHead
  <1>2. Tail(queue) \in Seq(Node)
    BY <1>1, HeadTailProperties
  <1>3. queue' \in Seq(Node) /\ \A m \in Node : Occurs(Tail(queue), m) => Occurs(queue', m)
    BY <1>2, ConcatOccurs
  <1>4. TypeOK'
    BY <1>3 DEF Inv, TypeOK, Modes, Status, TerminalStatus, Settled
  <1>5. /\ n \in completed' /\ status'[n] \in Settled
        /\ \A m \in Node \ {n} : /\ status'[m] = status[m] /\ runs'[m] = runs[m] /\ failedNodes'[m] = failedNodes[m]
                                 /\ m \in completed' <=> m \in completed
    BY DEF Inv, TypeOK
  <1>6. ASSUME NEW m \in Node, m \notin completed' PROVE runs'[m] = 0 /\ failedNodes'[m] = "ok" /\ Occurs(queue', m)
    <2>1. m # n /\ m \notin completed
      BY <1>5, <1>6
    <2>2. runs[m] = 0 /\ failedNodes[m] = "ok" /\ Occurs(queue, m)
      BY <1>1, <2>1 DEF Inv, Partition
    <2>3. Occurs(queue', m)
      BY <1>1, <1>3, <2>1, <2>2, TailOccurs
    <2> QED
      BY <1>5, <2>1, <2>2, <2>3
  <1>7. \A m \in Node : m \in completed' => status'[m] \in Settled
    BY <1>1, <1>5 DEF Inv, Partition
  <1>8. Partition'
    BY <1>6, <1>7 DEF Partition, Occurs
  <1>9. EngineOnly' /\ RunsToEndOnce'
    BY DEF Inv, TypeOK, EngineOnly, RunsToEndOnce
  <1> QED
    BY <1>4, <1>8, <1>9 DEF Inv

\* Every step, of the engine, the snapshot or the queue loop, keeps the invariant.
LEMMA StepInv == Inv /\ [Next]_vars => Inv'
  <1> SUFFICES ASSUME Inv, [Next]_vars PROVE Inv'
    OBVIOUS
  <1>1. CASE EngineStep
    BY <1>1, EngineKeeps
  <1>2. CASE SavePause
    BY <1>2, SaveKeeps
  <1>3. CASE EndWithoutPause
    <2>1. /\ WithStatus({"running"}) = {} /\ mode' \in {"failed", "done"}
          /\ mode' = "done" => WithStatus({"failed", "exception"}) = {}
          /\ UNCHANGED <<edges, status, handle, queue, completed, failedNodes, runs, skippedBefore>>
      BY <1>3 DEF EndWithoutPause, loopVars
    <2>2. mode' = "done" => WithStatus({"paused"}) = {} /\ WithStatus({"pending"}) = {}
      BY <1>3 DEF EndWithoutPause, WithStatus
    <2>3. mode' = "done" => \A n \in Node : status'[n] \in Settled
      BY <2>1, <2>2 DEF Inv, TypeOK, Status, TerminalStatus, Settled, WithStatus
    <2> QED
      BY <2>1, <2>3 DEF Inv, TypeOK, Modes, EngineOnly, Partition, RunsToEndOnce, Settled
  <1>4. CASE Resume
    BY <1>4 DEF Resume, loopVars, Inv, TypeOK, Modes, EngineOnly, Partition, RunsToEndOnce, Occurs
  <1>5. ASSUME NEW n \in Node, Requeue(n) PROVE Inv'
    <2>1. /\ queue \in Seq(Node) /\ queue # <<>> /\ Head(queue) = n /\ mode = "resumed"
          /\ UNCHANGED <<edges, status, handle, mode, completed, failedNodes, runs, skippedBefore>>
          /\ queue' = IF n \in completed THEN Tail(queue) ELSE Append(Tail(queue), n)
      BY <1>5 DEF Requeue, Behind, AtHead, Inv, TypeOK
    <2>2. Tail(queue) \in Seq(Node)
      BY <2>1, HeadTailProperties
    <2>3. queue' \in Seq(Node)
      BY <2>1, <2>2
    <2>4. ASSUME NEW m \in Node, m \notin completed PROVE Occurs(queue', m)
      <3>1. Occurs(queue, m)
        BY <2>1, <2>4 DEF Inv, Partition
      <3>2. CASE m = n
        BY <2>1, <2>2, <2>4, <3>2, AppendOccurs
      <3>3. CASE m # n
        <4>1. Occurs(Tail(queue), m)
          BY <2>1, <3>1, <3>3, TailOccurs
        <4> QED
          BY <2>1, <2>2, <4>1, AppendOccurs
      <3> QED
        BY <3>2, <3>3
    <2>5. TypeOK' /\ EngineOnly' /\ RunsToEndOnce'
      BY <2>1, <2>3 DEF Inv, TypeOK, EngineOnly, RunsToEndOnce
    <2>6. Partition'
      BY <2>1, <2>4 DEF Inv, Partition, Occurs
    <2> QED
      BY <2>5, <2>6 DEF Inv
  <1>6. ASSUME NEW n \in Node, SkipInactive(n) PROVE Inv'
    <2>1. /\ AtHead(n) /\ n \notin completed /\ completed' = completed \cup {n}
          /\ failedNodes' = [failedNodes EXCEPT ![n] = "skipped"] /\ status' = [status EXCEPT ![n] = "skipped"]
          /\ UNCHANGED <<edges, handle, mode, runs, skippedBefore>>
      BY <1>6 DEF SkipInactive, Ready
    <2>2. PICK q \in Enqueued(n, completed') : queue' = Tail(queue) \o q
      BY <1>6 DEF SkipInactive
    <2>3. q \in Seq(Node)
      BY EnqueuedNodes
    <2>4. runs[n] = 0 /\ mode = "resumed"
      BY <2>1 DEF AtHead, Inv, Partition
    <2>5. handle[n] \in Handle \cup {NoHandle} /\ handle' = [handle EXCEPT ![n] = handle[n]] /\ runs' = [runs EXCEPT ![n] = 0]
      BY <2>1, <2>4 DEF Inv, TypeOK
    <2> QED
      BY <2>1, <2>2, <2>3, <2>4, <2>5, CompleteKeeps DEF Settled
  <1>7. ASSUME NEW n \in Node, NEW o \in Outcomes, FailNode(n, o) PROVE Inv'
    <2>1. /\ AtHead(n) /\ n \notin completed /\ completed' = completed \cup {n} /\ mode' = "failed"
          /\ status' = [status EXCEPT ![n] = o.status] /\ handle' = [handle EXCEPT ![n] = o.handle]
          /\ failedNodes' = [failedNodes EXCEPT ![n] = "error"] /\ queue' = Tail(queue)
          /\ runs' = [runs EXCEPT ![n] = @ + 1] /\ UNCHANGED <<edges, skippedBefore>>
      BY <1>7 DEF FailNode, ExecuteNode, Ready
    <2>2. queue' \in Seq(Node) /\ runs[n] = 0
      BY <2>1, HeadTailProperties DEF AtHead, Inv, TypeOK, Partition
    <2>3. runs' = [runs EXCEPT ![n] = 1]
      BY <2>1, <2>2
    <2>4. o.status \in Status /\ o.handle \in Handle \cup {NoHandle}
      BY OutcomeType
    <2> QED
      BY <2>1, <2>2, <2>3, <2>4 DEF Inv, TypeOK, Modes, EngineOnly, Partition, RunsToEndOnce
  <1>8. ASSUME NEW n \in Node, NEW o \in Outcomes, PauseNode(n, o) PROVE Inv'
    <2>1. /\ AtHead(n) /\ n \notin completed /\ mode' \in {"saved", "lost"}
          /\ status' = [status EXCEPT ![n] = o.status] /\ handle' = [handle EXCEPT ![n] = o.handle]
          /\ UNCHANGED <<edges, skippedBefore, queue, failedNodes, completed, runs>>
      BY <1>8 DEF PauseNode, ExecuteNode, Ready
    <2>2. o.status \in Status /\ o.handle \in Handle \cup {NoHandle}
      BY OutcomeType
    <2>3. TypeOK' /\ EngineOnly' /\ RunsToEndOnce'
      BY <2>1, <2>2 DEF Inv, TypeOK, Modes, EngineOnly, RunsToEndOnce
    <2>4. mode = "resumed" /\ \A m \in Node : m \in completed => status'[m] = status[m]
      BY <2>1 DEF AtHead, Inv, TypeOK
    <2>5. Partition'
      BY <2>1, <2>4 DEF Inv, Partition, Occurs
    <2> QED
      BY <2>3, <2>5 DEF Inv
  <1>9. ASSUME NEW n \in Node, NEW o \in Outcomes, EndNode(n, o) PROVE Inv'
    <2>1. /\ AtHead(n) /\ n \notin completed /\ completed' = completed \cup {n} /\ mode' \in {"resumed", "stopped"}
          /\ status' = [status EXCEPT ![n] = o.status] /\ handle' = [handle EXCEPT ![n] = o.handle]
          /\ runs' = [runs EXCEPT ![n] = @ + 1] /\ UNCHANGED <<edges, skippedBefore, failedNodes>>
      BY <1>9 DEF EndNode, ExecuteNode, Ready
    <2>2. PICK q \in Enqueued(n, completed') : queue' = Tail(queue) \o q
      BY <1>9 DEF EndNode
    <2>3. q \in Seq(Node)
      BY EnqueuedNodes
    <2>4. runs[n] = 0 /\ failedNodes[n] = "ok"
      BY <2>1 DEF AtHead, Inv, Partition
    <2>5. runs' = [runs EXCEPT ![n] = 1] /\ failedNodes' = [failedNodes EXCEPT ![n] = "ok"]
      BY <2>1, <2>4 DEF Inv, TypeOK
    <2>6. o.status \in Settled /\ o.handle \in Handle \cup {NoHandle}
      BY <1>9, OutcomeType DEF EndNode, TerminalStatus, Settled
    <2> QED
      BY <2>1, <2>2, <2>3, <2>5, <2>6, CompleteKeeps
  <1>10. ASSUME NEW n \in Node, StopSeen(n) \/ NotStarted(n) PROVE Inv'
    BY <1>10 DEF StopSeen, NotStarted, loopVars, Inv, TypeOK, Modes, EngineOnly, Partition, RunsToEndOnce
  <1>11. CASE Drained
    <2>1. /\ mode = "resumed" /\ queue = <<>> /\ mode' \in {"failed", "done"}
          /\ UNCHANGED <<edges, status, handle, queue, completed, failedNodes, runs, skippedBefore>>
      BY <1>11 DEF Drained, loopVars
    <2>2. \A n \in Node : status[n] \in Settled
      <3>1. \A n : ~Occurs(queue, n)
        BY <2>1 DEF Occurs
      <3> QED
        BY <2>1, <3>1 DEF Inv, Partition
    <2> QED
      BY <2>1, <2>2 DEF Inv, TypeOK, Modes, EngineOnly, Partition, RunsToEndOnce, Settled
  <1>12. CASE UNCHANGED vars
    BY <1>12 DEF vars, loopVars, Inv, TypeOK, EngineOnly, Partition, RunsToEndOnce, Occurs
  <1> QED
    BY <1>1, <1>2, <1>3, <1>4, <1>5, <1>6, <1>7, <1>8, <1>9, <1>10, <1>11, <1>12 DEF Next, LoopStep, Ended

\* The partition of the nodes by snapshot and queue, in every reachable state.
LEMMA Invariant == Spec => []Inv
BY InitInv, StepInv, PTL DEF Spec

\* The run, its snapshot and its queue are well typed.
THEOREM TypeCorrect == Spec => []TypeOK
BY Invariant, PTL DEF Inv

\* On every graph, across the engine, the snapshot and any number of further pauses, no
\* node runs to an end twice, and a run that ends normally has run or skipped every node.
THEOREM RunsOnce == Spec => []RunsToEndOnce
BY Invariant, PTL DEF Inv

-----------------------------------------------------------------------------
(* What the loop decides.                                                   *)

\* Only the node at the head of the queue is completed, when it is ready: either it is
\* skipped, or it was executed.
LEMMA CompletesReady ==
    ASSUME Inv, [Next]_vars, NEW n \in Node, n \in completed' \ completed, mode = "resumed"
    PROVE  /\ Ready(n)
           /\ \/ MaySkip(n) /\ failedNodes'[n] = "skipped"
              \/ MayRun(n) /\ failedNodes'[n] # "skipped"
  <1>1. failedNodes \in [Node -> {"ok", "skipped", "error"}] /\ failedNodes[n] = "ok"
    BY DEF Inv, TypeOK, Partition
  <1>2. ASSUME NEW m \in Node, SkipInactive(m) PROVE Ready(n) /\ MaySkip(n) /\ failedNodes'[n] = "skipped"
    <2>1. Ready(m) /\ MaySkip(m) /\ completed' = completed \cup {m} /\ failedNodes' = [failedNodes EXCEPT ![m] = "skipped"]
      BY <1>2 DEF SkipInactive
    <2>2. n = m
      BY <2>1
    <2> QED
      BY <1>1, <2>1, <2>2
  <1>3. ASSUME NEW m \in Node, NEW o \in Outcomes, FailNode(m, o) \/ EndNode(m, o)
        PROVE Ready(n) /\ MayRun(n) /\ failedNodes'[n] # "skipped"
    <2>1. /\ Ready(m) /\ MayRun(m) /\ completed' = completed \cup {m}
          /\ failedNodes' = [failedNodes EXCEPT ![m] = "error"] \/ failedNodes' = failedNodes
      BY <1>3 DEF FailNode, EndNode, ExecuteNode
    <2>2. n = m
      BY <2>1
    <2> QED
      BY <1>1, <2>1, <2>2
  <1>4. ~EngineStep /\ ~SavePause /\ ~EndWithoutPause /\ ~Resume /\ ~Drained /\ ~Ended /\ ~(UNCHANGED vars)
    BY DEF EngineStep, SavePause, EndWithoutPause, Resume, Drained, Ended, vars, loopVars
  <1>5. \A m \in Node : ~Requeue(m) /\ ~StopSeen(m) /\ ~NotStarted(m) /\ \A o \in Outcomes : ~PauseNode(m, o)
    BY DEF Requeue, StopSeen, NotStarted, PauseNode, loopVars
  <1> QED
    BY <1>2, <1>3, <1>4, <1>5 DEF Next, LoopStep

\* The loop runs or skips a node only when all its upstreams have ended, none of them
\* failed or waiting for an answer.
THEOREM DecidesLate == Spec => DecidesAfterUpstreams
  <1>1. ASSUME Inv, [Next]_vars, NEW n \in Node, n \in completed' \ completed, mode = "resumed"
        PROVE  \A u \in Upstreams(edges, n) : status[u] \in {"succeeded", "exception", "skipped"}
    <2>1. Upstreams(edges, n) \subseteq completed /\ Upstreams(edges, n) \subseteq Node
      BY <1>1, CompletesReady DEF Ready, Upstreams
    <2> QED
      BY <1>1, <2>1 DEF Inv, Partition, Settled
  <1>2. Inv /\ [Next]_vars =>
          [\A n \in Node : n \in completed' \ completed /\ mode = "resumed" =>
              \A u \in Upstreams(edges, n) : status[u] \in {"succeeded", "exception", "skipped"}]_vars
    BY <1>1
  <1> QED
    BY <1>2, Invariant, PTL DEF Spec, DecidesAfterUpstreams

\* No node reports that it was skipped: only the engine and the loop decide that.
NodesNeverSkip == \A o \in Outcomes : o.status # "skipped"

\* Where the engine had skipped nothing, the loop knows of every skipped node.
SkipsKnown ==
    mode \in {"saved", "resumed"} /\ skippedBefore = {} =>
        \A n \in completed : status[n] = "skipped" <=> failedNodes[n] = "skipped"

\* When nodes never report skipped themselves, skips stay known to the snapshot.
LEMMA StepSkipsKnown ==
    ASSUME NodesNeverSkip, Inv, SkipsKnown, [Next]_vars
    PROVE  SkipsKnown'
  <1>0. completed \subseteq Node
    BY DEF Inv, TypeOK
  <1>1. CASE EngineStep \/ EndWithoutPause \/ Drained \/ Ended
    BY <1>1 DEF EngineStep, EndWithoutPause, Drained, Ended, vars, loopVars, SkipsKnown
  <1>2. CASE SavePause
    <2>1. /\ completed' \subseteq Node /\ skippedBefore' = WithStatus({"skipped"}) /\ status' = status
          /\ \A n \in Node : failedNodes'[n] # "skipped"
      BY <1>2 DEF SavePause, WithStatus
    <2> QED
      BY <2>1 DEF SkipsKnown, WithStatus
  <1>3. CASE Resume
    BY <1>3 DEF Resume, loopVars, SkipsKnown
  <1>4. ASSUME NEW n \in Node, Requeue(n) \/ StopSeen(n) \/ NotStarted(n) PROVE SkipsKnown'
    BY <1>4 DEF Requeue, StopSeen, NotStarted, loopVars, SkipsKnown
  <1>5. ASSUME NEW n \in Node, SkipInactive(n) PROVE SkipsKnown'
    <2>1. /\ mode = "resumed" /\ completed' = completed \cup {n} /\ skippedBefore' = skippedBefore
          /\ status'[n] = "skipped" /\ failedNodes'[n] = "skipped"
          /\ \A m \in Node \ {n} : status'[m] = status[m] /\ failedNodes'[m] = failedNodes[m]
      BY <1>5 DEF SkipInactive, AtHead, Inv, TypeOK
    <2> QED
      BY <1>0, <2>1 DEF SkipsKnown
  <1>6. ASSUME NEW n \in Node, NEW o \in Outcomes, PauseNode(n, o) PROVE SkipsKnown'
    <2>1. /\ mode = "resumed" /\ n \notin completed /\ UNCHANGED <<completed, skippedBefore, failedNodes>>
          /\ \A m \in Node \ {n} : status'[m] = status[m]
      BY <1>6 DEF PauseNode, ExecuteNode, AtHead, Ready, Inv, TypeOK
    <2> QED
      BY <1>0, <2>1 DEF SkipsKnown
  <1>7. ASSUME NEW n \in Node, NEW o \in Outcomes, FailNode(n, o) PROVE SkipsKnown'
    BY <1>7 DEF FailNode, SkipsKnown
  <1>8. ASSUME NEW n \in Node, NEW o \in Outcomes, EndNode(n, o) PROVE SkipsKnown'
    <2>1. /\ mode = "resumed" /\ n \notin completed /\ completed' = completed \cup {n}
          /\ UNCHANGED <<skippedBefore, failedNodes>> /\ status'[n] = o.status
          /\ \A m \in Node \ {n} : status'[m] = status[m]
      BY <1>8 DEF EndNode, ExecuteNode, AtHead, Ready, Inv, TypeOK
    <2>2. failedNodes[n] = "ok" /\ o.status # "skipped"
      BY <2>1 DEF NodesNeverSkip, Inv, Partition
    <2> QED
      BY <1>0, <2>1, <2>2 DEF SkipsKnown
  <1>9. CASE UNCHANGED vars
    BY <1>9 DEF vars, loopVars, SkipsKnown
  <1> QED
    BY <1>1, <1>2, <1>3, <1>4, <1>5, <1>6, <1>7, <1>8, <1>9 DEF Next, LoopStep

\* On unambiguous edges the loop and the engine activate the same edges.
LEMMA SameActivation ==
    ASSUME Inv, Unambiguous, NEW n \in Node, NEW u \in Upstreams(edges, n), status[u] \in Settled,
           status[u] = "skipped" <=> failedNodes[u] = "skipped"
    PROVE  /\ MayActivate(u, n) <=> ActivatesDownstream(edges, status, handle, u, n)
           /\ MayNotActivate(u, n) <=> ~ActivatesDownstream(edges, status, handle, u, n)
  <1>1. u \in Node /\ handle[u] \in Handle \cup {NoHandle} /\ edges[n][u] \in SUBSET Handle
    BY DEF Upstreams, Inv, TypeOK, Graph
  <1>2. PICK x : edges[n][u] = {x}
    <2>1. Cardinality(edges[n][u]) = 1
      BY DEF Unambiguous
    <2>2. IsFiniteSet(edges[n][u])
      BY <1>1, ResumeAssumption, FS_Subset
    <2> QED
      BY <2>1, <2>2, FS_Singleton
  <1>3. "source" \in edges[n][u] => handle[u] \in {NoHandle, "source"}
    BY DEF Unambiguous
  <1>4. SelectedHandle(u) \in edges[n][u] <=> "source" \in edges[n][u] \/ handle[u] \in edges[n][u]
    BY <1>1, <1>2, <1>3, GraphAssumption DEF SelectedHandle
  <1> QED
    BY <1>2, <1>4 DEF MayActivate, MayNotActivate, ActivatesDownstream, Settled

\* On every graph, if no node reports itself skipped: a run that resumes where the engine
\* had skipped nothing skips, at unambiguous edges, exactly what the engine would skip.
THEOREM SameBranches == NodesNeverSkip => (Spec => BranchesAsEngine)
  <1> SUFFICES ASSUME NodesNeverSkip PROVE Spec => BranchesAsEngine
    OBVIOUS
  <1>1. Init => SkipsKnown
    BY DEF Init, SkipsKnown
  <1>2. Inv /\ SkipsKnown /\ [Next]_vars => SkipsKnown'
    BY StepSkipsKnown
  <1>3. ASSUME Inv, SkipsKnown, [Next]_vars, NEW n \in Node, n \in completed' \ completed, mode = "resumed",
               skippedBefore = {}, Unambiguous
        PROVE  failedNodes'[n] = "skipped" <=> MustSkip(edges, status, handle, n)
    <2>1. /\ Ready(n)
          /\ \/ MaySkip(n) /\ failedNodes'[n] = "skipped"
             \/ MayRun(n) /\ failedNodes'[n] # "skipped"
      BY <1>3, CompletesReady
    <2>2. \A u \in Upstreams(edges, n) :
             u \in Node /\ status[u] \in Settled /\ (status[u] = "skipped" <=> failedNodes[u] = "skipped")
      BY <1>3, <2>1 DEF Ready, Upstreams, Inv, Partition, SkipsKnown
    <2>3. \A u \in Upstreams(edges, n) :
             /\ MayActivate(u, n) <=> ActivatesDownstream(edges, status, handle, u, n)
             /\ MayNotActivate(u, n) <=> ~ActivatesDownstream(edges, status, handle, u, n)
      BY <1>3, <2>2, SameActivation
    <2>4. MaySkip(n) => MustSkip(edges, status, handle, n)
      BY <2>3 DEF MaySkip, MustSkip, HasAnyActiveUpstreamEdge
    <2>5. MayRun(n) => ~MustSkip(edges, status, handle, n)
      BY <2>3 DEF MayRun, MustSkip, HasAnyActiveUpstreamEdge
    <2> QED
      BY <2>1, <2>4, <2>5
  <1>4. Inv /\ SkipsKnown /\ [Next]_vars =>
          [\A n \in Node :
              n \in completed' \ completed /\ mode = "resumed" /\ skippedBefore = {} /\ Unambiguous =>
                 (failedNodes'[n] = "skipped" <=> MustSkip(edges, status, handle, n))]_vars
    BY <1>3
  <1> QED
    BY <1>1, <1>2, <1>4, Invariant, PTL DEF Spec, BranchesAsEngine
=============================================================================
