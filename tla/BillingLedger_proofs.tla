------------------------ MODULE BillingLedger_proofs ------------------------
(***************************************************************************)
(* Safety of the local billing lane, for every finite set of attempts, any *)
(* number of recovery workers, calls of any length, and every estimate,    *)
(* cost, balance and quota.                                                *)
(*                                                                         *)
(* Every step works on one attempt.  The invariant says of each attempt    *)
(* what is known of it always (Known), as long as no two actors were at it *)
(* (Alone), and as long as it did not go stale under its call (Paid); the  *)
(* first part of the proof carries it from step to step, the second one    *)
(* counts the money.                                                       *)
(***************************************************************************)
EXTENDS BillingLedger, FiniteSetTheorems, TLAPS

ReqPlaces == {"new", "calling", "succeeded", "failed", "over", "charged", "unpaid"}
WorkerPc == {"idle", "claimed", "scheduling", "retry", "dead letter"}

\* A worker has an attempt unless it rests.
Resting == \A w \in Workers : wrk[w].pc = "idle" <=> wrk[w].at = NoAttempt

\* Nothing is known of an attempt before its request, no worker has tried one that is
\* only reserved, and whoever is at an attempt works on one that was made.
Known(a) ==
    /\ req[a] = "new" => status[a] = "NONE" /\ tries[a] = 0 /\ released[a] = 0
    /\ status[a] = "PREDEDUCTED" => tries[a] = 0
    /\ InFlight(a) => a \in Made
    /\ \A w \in Workers : wrk[w].at = a => a \in Made

\* An attempt that no two actors were at: the request has it, then one worker at a
\* time, and its reservation is released by the step that finalizes it.
Alone(a) ==
    /\ InFlight(a) => status[a] = "PREDEDUCTED" /\ \A w \in Workers : wrk[w].at # a
    /\ \A v, w \in Workers : wrk[v].at = a /\ wrk[w].at = a => v = w
    /\ \A w \in Workers : wrk[w].at = a =>
          \/ status[a] = "SETTLE_PENDING"
          \/ wrk[w].pc = "scheduling" /\ status[a] = "PARTIAL_SETTLED"
    /\ status[a] \in Final => released[a] = 1
    /\ status[a] \notin Final => released[a] = 0

\* An attempt whose call did not outlast the timeout: no worker is at it before its
\* request has ended, nor after it was charged.
Paid(a) ==
    /\ req[a] # "unpaid"
    /\ InFlight(a) => status[a] = "PREDEDUCTED" /\ ~stale[a] /\ \A w \in Workers : wrk[w].at # a
    /\ req[a] = "charged" =>
          status[a] = "SETTLED" /\ actual[a] = cost[a] /\ \A w \in Workers : wrk[w].at # a

Inv ==
    /\ TypeOK /\ Resting
    /\ \A a \in Attempts : Known(a) /\ (a \in shared \/ Alone(a)) /\ (a \in late \/ Paid(a))

-----------------------------------------------------------------------------
USE DEF Final, ledger, money, history, vars

(* What one transaction or one move does.                                   *)

\* What the arithmetic needs of the constants and of typing.
LEMMA Amounts ==
    /\ Estimate \in Nat /\ Balance0 \in Nat /\ Quota0 \in Nat /\ MaxRetries \in Nat /\ MaxRetries > 0
    /\ MaxCrashes \in Nat /\ \A c \in Costs \cup {0} : c \in Nat
BY BillingAssumption

\* The types of the amounts and counters.
LEMMA Numbers ==
    ASSUME TypeOK
    PROVE  /\ balance \in Int /\ remain \in Nat /\ used \in Nat /\ crashes \in 0 .. MaxCrashes
           /\ \A a \in Attempts : tries[a] \in 0 .. MaxRetries /\ released[a] \in Nat
           /\ \A a \in Attempts : cost[a] \in Costs \cup {0} /\ actual[a] \in Costs \cup {0}
           /\ \A a \in Attempts : cost[a] \in Nat
BY Amounts DEF TypeOK

\* updateAttemptStatus changes one row.
LEMMA MarkEffect ==
    ASSUME TypeOK, NEW a \in Attempts, NEW s \in AttemptStatus, Mark(a, s)
    PROVE  /\ status' \in [Attempts -> AttemptStatus] /\ stale' \in [Attempts -> BOOLEAN]
           /\ status'[a] = s /\ stale'[a] = FALSE
           /\ \A b \in Attempts : b # a => status'[b] = status[b] /\ stale'[b] = stale[b]
BY DEF Mark, TypeOK

\* A request moves one place on.
LEMMA StepEffect ==
    ASSUME TypeOK, NEW a \in Attempts, NEW pc \in ReqPlaces, NEW c \in Costs \cup {0}, Step(a, pc, c)
    PROVE  /\ req' \in [Attempts -> ReqPlaces] /\ cost' \in [Attempts -> Costs \cup {0}]
           /\ req'[a] = pc /\ cost'[a] = c
           /\ \A b \in Attempts : b # a => req'[b] = req[b] /\ cost'[b] = cost[b]
           /\ UNCHANGED <<wrk, crashes, shared, late>>
BY DEF Step, TypeOK, ReqPlaces

\* A worker moves one place on.
LEMMA WorkerEffect ==
    ASSUME TypeOK, NEW w \in Workers, NEW pc \in WorkerPc, NEW a \in Attempts \cup {NoAttempt},
           wrk' = [wrk EXCEPT ![w] = [pc |-> pc, at |-> a]]
    PROVE  /\ wrk' \in [Workers -> [pc : WorkerPc, at : Attempts \cup {NoAttempt}]]
           /\ wrk'[w].pc = pc /\ wrk'[w].at = a
           /\ \A v \in Workers : v # w => wrk'[v] = wrk[v]
BY DEF TypeOK, WorkerPc

\* The settle transaction finds the attempt finalized, or releases its reservation.
LEMMA SettleEffect ==
    ASSUME TypeOK, NEW a \in Attempts, NEW c \in Costs \cup {0}, NEW outcome \in Final, SettleTx(a, c, outcome)
    PROVE  /\ status' \in [Attempts -> AttemptStatus] /\ stale' \in [Attempts -> BOOLEAN]
           /\ actual' \in [Attempts -> Costs \cup {0}] /\ tries' = tries
           /\ released' \in [Attempts -> Nat]
           /\ balance' \in Int /\ remain' \in Nat /\ used' \in Nat
           /\ \A b \in Attempts : b # a => /\ status'[b] = status[b] /\ stale'[b] = stale[b]
                                           /\ actual'[b] = actual[b] /\ released'[b] = released[b]
           /\ status[a] \in Final => UNCHANGED <<status, stale, actual, released>>
           /\ status[a] \notin Final => /\ status'[a] = outcome /\ stale'[a] = FALSE /\ actual'[a] = c
                                        /\ released'[a] = released[a] + 1
           /\ status'[a] \in Final
  <1>1. c \in Nat /\ Estimate \in Nat
    BY Amounts
  <1>2. CASE status[a] \in Final
    BY <1>2 DEF SettleTx, TypeOK
  <1>3. CASE status[a] \notin Final
    <2>1. /\ balance \in Int /\ remain \in Nat /\ used \in Nat
          /\ status \in [Attempts -> AttemptStatus] /\ stale \in [Attempts -> BOOLEAN]
          /\ actual \in [Attempts -> Costs \cup {0}] /\ released \in [Attempts -> Nat]
      BY DEF TypeOK
    <2>2. /\ remain' = ClampQuotaRemainAtZero(remain + Estimate - c)
          /\ used' = used + c
          /\ balance' = balance + Estimate - c
          /\ actual' = [actual EXCEPT ![a] = c]
          /\ released' = [released EXCEPT ![a] = @ + 1]
          /\ Mark(a, outcome)
          /\ tries' = tries
      BY <1>3, Zenon DEF SettleTx
    <2>3. balance' \in Int /\ remain' \in Nat /\ used' \in Nat
      BY <1>1, <2>1, <2>2 DEF ClampQuotaRemainAtZero
    <2>4. outcome \in AttemptStatus
      BY DEF AttemptStatus
    <2>5. /\ status' \in [Attempts -> AttemptStatus] /\ stale' \in [Attempts -> BOOLEAN]
          /\ status'[a] = outcome /\ stale'[a] = FALSE
          /\ \A b \in Attempts : b # a => status'[b] = status[b] /\ stale'[b] = stale[b]
      BY <2>2, <2>4, MarkEffect
    <2>6. /\ actual' \in [Attempts -> Costs \cup {0}] /\ actual'[a] = c
          /\ \A b \in Attempts : b # a => actual'[b] = actual[b]
      BY <2>1, <2>2
    <2>7. /\ released' \in [Attempts -> Nat] /\ released'[a] = released[a] + 1
          /\ \A b \in Attempts : b # a => released'[b] = released[b]
      BY <2>1, <2>2
    <2> QED
      BY <1>3, <2>2, <2>3, <2>5, <2>6, <2>7
  <1> QED
    BY <1>2, <1>3

-----------------------------------------------------------------------------
(* Every step works on one attempt.                                         *)

\* A step leaves attempt b and the workers at it alone.
Untouched(b) ==
    /\ status'[b] = status[b] /\ tries'[b] = tries[b] /\ actual'[b] = actual[b]
    /\ stale'[b] = stale[b] /\ released'[b] = released[b]
    /\ req'[b] = req[b] /\ cost'[b] = cost[b]
    /\ \A w \in Workers : wrk'[w].at = b => wrk'[w] = wrk[w]

\* What is known of an attempt stays true while it is left alone.
LEMMA UntouchedKept ==
    ASSUME NEW b \in Attempts, Untouched(b)
    PROVE  /\ Known(b) => Known(b)'
           /\ Alone(b) => Alone(b)'
           /\ Paid(b) => Paid(b)'
BY DEF Untouched, Known, Alone, Paid, InFlight, Made

\* It is enough to look at the attempt a step works on.
LEMMA OneAttempt ==
    ASSUME Inv, TypeOK', Resting', shared \subseteq shared', late \subseteq late', NEW a \in Attempts,
           \A b \in Attempts : b # a => Untouched(b),
           Known(a)', a \in shared' \/ Alone(a)', a \in late' \/ Paid(a)'
    PROVE  Inv'
  <1>1. ASSUME NEW b \in Attempts, b # a
        PROVE  Known(b)' /\ (b \in shared' \/ Alone(b)') /\ (b \in late' \/ Paid(b)')
    BY <1>1, UntouchedKept DEF Inv
  <1> QED
    BY <1>1 DEF Inv

-----------------------------------------------------------------------------
(* The invariant, step by step.                                             *)

\* At the start nothing has happened.
LEMMA InitInv == Init => Inv
  <1> SUFFICES ASSUME Init PROVE Inv
    OBVIOUS
  <1>1. TypeOK
    BY Amounts, BillingAssumption DEF Init, AtRest, TypeOK, AttemptStatus
  <1>2. Resting
    BY DEF Init, AtRest, Resting
  <1>3. ASSUME NEW a \in Attempts PROVE Known(a) /\ Alone(a) /\ Paid(a)
    BY BillingAssumption DEF Init, AtRest, Known, Alone, Paid, InFlight
  <1> QED
    BY <1>1, <1>2, <1>3 DEF Inv

\* The reservation.
LEMMA PreDeductKeeps ==
    ASSUME Inv, NEW a \in Attempts, PreDeduct(a)
    PROVE  Inv'
  <1>1. TypeOK /\ Resting /\ Known(a) /\ req[a] = "new"
    BY DEF Inv, PreDeduct
  <1>2. /\ req' \in [Attempts -> ReqPlaces] /\ cost' \in [Attempts -> Costs \cup {0}]
        /\ req'[a] = "calling" /\ cost'[a] = 0
        /\ \A b \in Attempts : b # a => req'[b] = req[b] /\ cost'[b] = cost[b]
        /\ UNCHANGED <<wrk, crashes, shared, late>>
    BY <1>1, StepEffect DEF PreDeduct, ReqPlaces
  <1>3. /\ status' \in [Attempts -> AttemptStatus] /\ stale' \in [Attempts -> BOOLEAN]
        /\ status'[a] = "PREDEDUCTED" /\ stale'[a] = FALSE
        /\ \A b \in Attempts : b # a => status'[b] = status[b] /\ stale'[b] = stale[b]
    BY <1>1, MarkEffect DEF PreDeduct, AttemptStatus
  <1>4. remain' \in Nat /\ balance' \in Int /\ UNCHANGED <<used, tries, actual, released>>
    BY <1>1, Numbers, Amounts DEF PreDeduct
  <1>5. TypeOK'
    BY <1>1, <1>2, <1>3, <1>4 DEF TypeOK, ReqPlaces
  <1>6. \A b \in Attempts : b # a => Untouched(b)
    BY <1>2, <1>3, <1>4 DEF Untouched
  <1>7. \A w \in Workers : wrk'[w].at # a
    BY <1>1, <1>2 DEF Known, Made
  <1>8. Known(a)' /\ Alone(a)' /\ Paid(a)'
    BY <1>1, <1>2, <1>3, <1>4, <1>7 DEF Known, Alone, Paid, InFlight, Made
  <1>9. Resting' /\ shared \subseteq shared' /\ late \subseteq late'
    BY <1>1, <1>2 DEF Resting
  <1> QED
    BY <1>5, <1>6, <1>8, <1>9, OneAttempt

\* A refused reservation.
LEMMA PreDeductFailsKeeps ==
    ASSUME Inv, NEW a \in Attempts, PreDeductFails(a)
    PROVE  Inv'
  <1>1. TypeOK /\ Resting /\ Known(a) /\ req[a] = "new"
    BY DEF Inv, PreDeductFails
  <1>2. /\ req' \in [Attempts -> ReqPlaces] /\ cost' \in [Attempts -> Costs \cup {0}]
        /\ req'[a] = "over" /\ cost'[a] = 0
        /\ \A b \in Attempts : b # a => req'[b] = req[b] /\ cost'[b] = cost[b]
        /\ UNCHANGED <<wrk, crashes, shared, late>>
    BY <1>1, StepEffect DEF PreDeductFails, ReqPlaces
  <1>3. /\ status' \in [Attempts -> AttemptStatus] /\ stale' \in [Attempts -> BOOLEAN]
        /\ status'[a] \in {"NONE", "PREDEDUCT_FAILED"}
        /\ \A b \in Attempts : b # a => status'[b] = status[b] /\ stale'[b] = stale[b]
    <2>1. CASE Mark(a, "PREDEDUCT_FAILED")
      BY <1>1, <2>1, MarkEffect DEF AttemptStatus
    <2>2. CASE UNCHANGED <<status, stale>>
      BY <1>1, <2>2 DEF Known, TypeOK
    <2> QED
      BY <2>1, <2>2 DEF PreDeductFails
  <1>4. UNCHANGED <<tries, actual, money, released>>
    BY DEF PreDeductFails
  <1>5. TypeOK'
    BY <1>1, <1>2, <1>3, <1>4 DEF TypeOK, ReqPlaces
  <1>6. \A b \in Attempts : b # a => Untouched(b)
    BY <1>2, <1>3, <1>4 DEF Untouched
  <1>7. \A w \in Workers : wrk'[w].at # a
    BY <1>1, <1>2 DEF Known, Made
  <1>8. Known(a)' /\ Alone(a)' /\ Paid(a)'
    BY <1>1, <1>2, <1>3, <1>4, <1>7 DEF Known, Alone, Paid, InFlight, Made
  <1>9. Resting' /\ shared \subseteq shared' /\ late \subseteq late'
    BY <1>1, <1>2 DEF Resting
  <1> QED
    BY <1>5, <1>6, <1>8, <1>9, OneAttempt

\* The provider's answer.
LEMMA AnswerKeeps ==
    ASSUME Inv, NEW a \in Attempts, NEW c \in Costs \cup {0}, NEW pc \in {"succeeded", "failed"},
           ProviderAnswers(a, c, pc)
    PROVE  Inv'
  <1>1. TypeOK /\ Resting /\ Known(a) /\ (a \in shared \/ Alone(a)) /\ (a \in late \/ Paid(a)) /\ InFlight(a)
    BY DEF Inv, ProviderAnswers, InFlight
  <1>2. /\ req' \in [Attempts -> ReqPlaces] /\ cost' \in [Attempts -> Costs \cup {0}]
        /\ req'[a] = pc /\ cost'[a] = c
        /\ \A b \in Attempts : b # a => req'[b] = req[b] /\ cost'[b] = cost[b]
        /\ UNCHANGED <<wrk, crashes, shared, late>>
    BY <1>1, StepEffect DEF ProviderAnswers, ReqPlaces
  <1>3. UNCHANGED <<ledger, money, released>>
    BY DEF ProviderAnswers
  <1>4. TypeOK'
    BY <1>1, <1>2, <1>3 DEF TypeOK, ReqPlaces
  <1>5. \A b \in Attempts : b # a => Untouched(b)
    BY <1>2, <1>3 DEF Untouched
  <1>6. Known(a)' /\ (a \in shared' \/ Alone(a)') /\ (a \in late' \/ Paid(a)')
    BY <1>1, <1>2, <1>3 DEF Known, Alone, Paid, InFlight, Made
  <1>7. Resting' /\ shared \subseteq shared' /\ late \subseteq late'
    BY <1>1, <1>2 DEF Resting
  <1> QED
    BY <1>4, <1>5, <1>6, <1>7, OneAttempt

\* The request's settle transaction: of a success ...
LEMMA SettleSuccess ==
    ASSUME TypeOK, NEW a \in Attempts, Settle(a), req[a] = "succeeded"
    PROVE  /\ SettleTx(a, cost[a], "SETTLED") /\ cost[a] \in Costs \cup {0}
           /\ status[a] \in Final => Step(a, "unpaid", 0)
           /\ status[a] \notin Final => Step(a, "charged", cost[a])
BY Numbers DEF Settle

\* ... and of a failed call.
LEMMA SettleFailure ==
    ASSUME NEW a \in Attempts, Settle(a), req[a] # "succeeded"
    PROVE  req[a] = "failed" /\ SettleTx(a, 0, "ROLLED_BACK") /\ Step(a, "over", 0)
BY DEF Settle

\* The settle transaction of the request.
LEMMA SettleKeeps ==
    ASSUME Inv, NEW a \in Attempts, Settle(a)
    PROVE  Inv'
  <1>1. TypeOK /\ Resting /\ Known(a) /\ (a \in shared \/ Alone(a)) /\ (a \in late \/ Paid(a)) /\ InFlight(a)
    BY DEF Inv, Settle, InFlight
  <1>2. PICK c \in Costs \cup {0}, outcome \in Final, pc \in ReqPlaces, d \in Costs \cup {0} :
            /\ SettleTx(a, c, outcome) /\ Step(a, pc, d)
            /\ pc \in {"over", "charged", "unpaid"}
            /\ pc = "unpaid" => status[a] \in Final
            /\ pc = "charged" => status[a] \notin Final /\ d = c /\ outcome = "SETTLED"
    <2>1. CASE req[a] = "succeeded"
      <3>1. SettleTx(a, cost[a], "SETTLED") /\ cost[a] \in Costs \cup {0}
        BY <1>1, <2>1, SettleSuccess
      <3>2. CASE status[a] \in Final
        BY <1>1, <2>1, <3>1, <3>2, SettleSuccess DEF ReqPlaces
      <3>3. CASE status[a] \notin Final
        BY <1>1, <2>1, <3>1, <3>3, SettleSuccess DEF ReqPlaces
      <3> QED
        BY <3>2, <3>3
    <2>2. CASE req[a] # "succeeded"
      BY <2>2, SettleFailure DEF ReqPlaces
    <2> QED
      BY <2>1, <2>2
  <1>3. /\ req' \in [Attempts -> ReqPlaces] /\ cost' \in [Attempts -> Costs \cup {0}]
        /\ req'[a] = pc /\ cost'[a] = d
        /\ \A b \in Attempts : b # a => req'[b] = req[b] /\ cost'[b] = cost[b]
        /\ UNCHANGED <<wrk, crashes, shared, late>>
    BY <1>1, <1>2, StepEffect
  <1>4. /\ status' \in [Attempts -> AttemptStatus] /\ stale' \in [Attempts -> BOOLEAN]
        /\ actual' \in [Attempts -> Costs \cup {0}] /\ tries' = tries
        /\ released' \in [Attempts -> Nat]
        /\ balance' \in Int /\ remain' \in Nat /\ used' \in Nat
        /\ \A b \in Attempts : b # a => /\ status'[b] = status[b] /\ stale'[b] = stale[b]
                                        /\ actual'[b] = actual[b] /\ released'[b] = released[b]
        /\ status[a] \in Final => UNCHANGED <<status, stale, actual, released>>
        /\ status[a] \notin Final => /\ status'[a] = outcome /\ stale'[a] = FALSE /\ actual'[a] = c
                                     /\ released'[a] = released[a] + 1
        /\ status'[a] \in Final
    BY <1>1, <1>2, SettleEffect
  <1>5. TypeOK'
    BY <1>1, <1>3, <1>4 DEF TypeOK, ReqPlaces
  <1>6. \A b \in Attempts : b # a => Untouched(b)
    BY <1>3, <1>4 DEF Untouched
  <1>7. Known(a)'
    BY <1>1, <1>2, <1>3, <1>4 DEF Known, InFlight, Made
  <1>8. a \in shared' \/ Alone(a)'
    BY <1>1, <1>2, <1>3, <1>4 DEF Alone, InFlight
  <1>9. a \in late' \/ Paid(a)'
    BY <1>1, <1>2, <1>3, <1>4 DEF Paid, InFlight
  <1>10. Resting' /\ shared \subseteq shared' /\ late \subseteq late'
    BY <1>1, <1>3 DEF Resting
  <1> QED
    BY <1>5, <1>6, <1>7, <1>8, <1>9, <1>10, OneAttempt

\* What the mark after a failed settle does to the rows.
LEMMA MarkPartialEffect ==
    ASSUME TypeOK, NEW a \in Attempts, MarkPartialTx(a)
    PROVE  /\ status' \in [Attempts -> AttemptStatus] /\ stale' \in [Attempts -> BOOLEAN]
           /\ actual' \in [Attempts -> Costs \cup {0}] /\ UNCHANGED <<tries, money, released>>
           /\ status'[a] = "PARTIAL_SETTLED" /\ stale'[a] = FALSE
           /\ \A b \in Attempts : b # a => status'[b] = status[b] /\ stale'[b] = stale[b] /\ actual'[b] = actual[b]
  <1>1. "PARTIAL_SETTLED" \in AttemptStatus
    BY DEF AttemptStatus
  <1>2. Mark(a, "PARTIAL_SETTLED") /\ actual' = [actual EXCEPT ![a] = 0] /\ UNCHANGED <<tries, money, released>>
    BY DEF MarkPartialTx
  <1>3. actual' \in [Attempts -> Costs \cup {0}] /\ \A b \in Attempts : b # a => actual'[b] = actual[b]
    BY <1>2 DEF TypeOK
  <1> QED
    BY <1>1, <1>2, <1>3, MarkEffect

\* A failed settle and its mark.
LEMMA SettleFailsKeeps ==
    ASSUME Inv, NEW a \in Attempts, SettleFails(a)
    PROVE  Inv'
  <1>1. TypeOK /\ Resting /\ Known(a) /\ (a \in shared \/ Alone(a)) /\ (a \in late \/ Paid(a)) /\ InFlight(a)
    BY DEF Inv, SettleFails, InFlight
  <1>2. /\ req' \in [Attempts -> ReqPlaces] /\ cost' \in [Attempts -> Costs \cup {0}]
        /\ req'[a] = "over" /\ cost'[a] = 0
        /\ \A b \in Attempts : b # a => req'[b] = req[b] /\ cost'[b] = cost[b]
        /\ UNCHANGED <<wrk, crashes, shared, late>>
    BY <1>1, StepEffect DEF SettleFails, ReqPlaces
  <1>3. /\ status' \in [Attempts -> AttemptStatus] /\ stale' \in [Attempts -> BOOLEAN]
        /\ actual' \in [Attempts -> Costs \cup {0}] /\ UNCHANGED <<tries, money, released>>
        /\ status'[a] = "PARTIAL_SETTLED" /\ stale'[a] = FALSE
        /\ \A b \in Attempts : b # a => status'[b] = status[b] /\ stale'[b] = stale[b] /\ actual'[b] = actual[b]
    BY <1>1, MarkPartialEffect DEF SettleFails
  <1>4. TypeOK'
    BY <1>1, <1>2, <1>3 DEF TypeOK, ReqPlaces
  <1>5. \A b \in Attempts : b # a => Untouched(b)
    BY <1>2, <1>3 DEF Untouched
  <1>6. Known(a)' /\ (a \in shared' \/ Alone(a)') /\ (a \in late' \/ Paid(a)')
    BY <1>1, <1>2, <1>3 DEF Known, Alone, Paid, InFlight, Made
  <1>7. Resting' /\ shared \subseteq shared' /\ late \subseteq late'
    BY <1>1, <1>2 DEF Resting
  <1> QED
    BY <1>4, <1>5, <1>6, <1>7, OneAttempt

\* A request that dies leaves its row as it is.
LEMMA RequestDiesKeeps ==
    ASSUME Inv, NEW a \in Attempts, RequestDies(a)
    PROVE  Inv'
  <1>1. TypeOK /\ Resting /\ Known(a) /\ (a \in shared \/ Alone(a)) /\ (a \in late \/ Paid(a)) /\ InFlight(a)
    BY DEF Inv, RequestDies
  <1>2. /\ req' \in [Attempts -> ReqPlaces] /\ cost' \in [Attempts -> Costs \cup {0}]
        /\ req'[a] = "over" /\ cost'[a] = 0
        /\ \A b \in Attempts : b # a => req'[b] = req[b] /\ cost'[b] = cost[b]
        /\ UNCHANGED <<wrk, crashes, shared, late>>
    BY <1>1, StepEffect DEF RequestDies, ReqPlaces
  <1>3. UNCHANGED <<ledger, money, released>>
    BY DEF RequestDies
  <1>4. TypeOK'
    BY <1>1, <1>2, <1>3 DEF TypeOK, ReqPlaces
  <1>5. \A b \in Attempts : b # a => Untouched(b)
    BY <1>2, <1>3 DEF Untouched
  <1>6. Known(a)' /\ (a \in shared' \/ Alone(a)') /\ (a \in late' \/ Paid(a)')
    BY <1>1, <1>2, <1>3 DEF Known, Alone, Paid, InFlight, Made
  <1>7. Resting' /\ shared \subseteq shared' /\ late \subseteq late'
    BY <1>1, <1>2 DEF Resting
  <1> QED
    BY <1>4, <1>5, <1>6, <1>7, OneAttempt

\* Ten minutes pass: an attempt in flight becomes late.
LEMMA GoesStaleKeeps ==
    ASSUME Inv, NEW a \in Attempts, GoesStale(a)
    PROVE  Inv'
  <1>1. TypeOK /\ Resting /\ Known(a) /\ (a \in shared \/ Alone(a)) /\ (a \in late \/ Paid(a))
    BY DEF Inv
  <1>2. /\ status[a] = "PREDEDUCTED" /\ stale' = [stale EXCEPT ![a] = TRUE]
        /\ late' = IF InFlight(a) THEN late \cup {a} ELSE late
        /\ UNCHANGED <<status, tries, actual, money, req, cost, wrk, crashes, released, shared>>
    BY DEF GoesStale
  <1>3. TypeOK'
    BY <1>1, <1>2 DEF TypeOK
  <1>4. \A b \in Attempts : b # a => Untouched(b)
    BY <1>1, <1>2 DEF Untouched, TypeOK
  <1>5. Known(a)' /\ (a \in shared' \/ Alone(a)')
    BY <1>1, <1>2 DEF Known, Alone, InFlight, Made
  <1>6. a \in late' \/ Paid(a)'
    BY <1>1, <1>2 DEF Paid, InFlight
  <1>7. Resting' /\ shared \subseteq shared' /\ late \subseteq late'
    BY <1>1, <1>2 DEF Resting
  <1> QED
    BY <1>3, <1>4, <1>5, <1>6, <1>7, OneAttempt

\* A claim: the attempt is shared from now on unless nobody else was at it.
LEMMA ClaimKeeps ==
    ASSUME Inv, NEW w \in Workers, NEW a \in Attempts, ClaimStale(w, a)
    PROVE  Inv'
  <1>1. TypeOK /\ Resting /\ Known(a) /\ (a \in shared \/ Alone(a)) /\ (a \in late \/ Paid(a))
    BY DEF Inv
  <1>2. /\ wrk[w].pc = "idle" /\ Mark(a, "SETTLE_PENDING")
        /\ tries' = [tries EXCEPT ![a] = @ + 1] /\ tries[a] < MaxRetries
        /\ (status[a] = "PREDEDUCTED" /\ stale[a]) \/ status[a] = "PARTIAL_SETTLED"
        /\ shared' = IF InFlight(a) \/ \E v \in Workers : wrk[v].at = a THEN shared \cup {a} ELSE shared
        /\ wrk' = [wrk EXCEPT ![w] = [pc |-> "claimed", at |-> a]]
        /\ UNCHANGED <<actual, money, req, cost, crashes, released, late>>
    BY <1>1, Amounts DEF ClaimStale, Take, Worker, Known
  <1>3. /\ status' \in [Attempts -> AttemptStatus] /\ stale' \in [Attempts -> BOOLEAN]
        /\ status'[a] = "SETTLE_PENDING" /\ stale'[a] = FALSE
        /\ \A b \in Attempts : b # a => status'[b] = status[b] /\ stale'[b] = stale[b]
    BY <1>1, <1>2, MarkEffect DEF AttemptStatus
  <1>4. /\ wrk' \in [Workers -> [pc : WorkerPc, at : Attempts \cup {NoAttempt}]]
        /\ wrk'[w].pc = "claimed" /\ wrk'[w].at = a
        /\ \A v \in Workers : v # w => wrk'[v] = wrk[v]
    BY <1>1, <1>2, WorkerEffect DEF WorkerPc
  <1>5. tries' \in [Attempts -> 0 .. MaxRetries] /\ \A b \in Attempts : b # a => tries'[b] = tries[b]
    <2>1. tries[a] + 1 \in 0 .. MaxRetries
      BY <1>1, <1>2, Numbers, Amounts
    <2> QED
      BY <1>1, <1>2, <2>1 DEF TypeOK
  <1>6. TypeOK'
    BY <1>1, <1>2, <1>3, <1>4, <1>5 DEF TypeOK, WorkerPc
  <1>7. \A b \in Attempts : b # a => Untouched(b)
    BY <1>2, <1>3, <1>4, <1>5 DEF Untouched
  <1>8. Resting'
    BY <1>1, <1>4, BillingAssumption DEF Resting
  <1>9. Known(a)'
    BY <1>1, <1>2, <1>3, <1>4 DEF Known, InFlight, Made
  <1>10. a \in shared' \/ Alone(a)'
    <2>1. CASE a \in shared'
      BY <2>1
    <2>2. CASE a \notin shared'
      <3>1. Alone(a) /\ ~InFlight(a) /\ \A v \in Workers : wrk[v].at # a
        BY <1>1, <1>2, <2>2
      <3>2. \A v \in Workers : wrk'[v].at = a => v = w
        BY <1>4, <3>1
      <3>3. ~InFlight(a)' /\ status[a] \notin Final
        BY <1>2, <3>1 DEF InFlight
      <3> QED
        BY <1>2, <1>3, <3>1, <3>2, <3>3 DEF Alone
    <2> QED
      BY <2>1, <2>2
  <1>11. a \in late' \/ Paid(a)'
    <2>1. CASE a \in late
      BY <1>2, <2>1
    <2>2. CASE a \notin late
      <3>1. Paid(a)
        BY <1>1, <2>2
      <3>2. ~InFlight(a) /\ req[a] # "charged" /\ req[a] # "unpaid"
        BY <1>2, <3>1 DEF Paid
      <3> QED
        BY <1>2, <3>2 DEF Paid, InFlight
    <2> QED
      BY <2>1, <2>2
  <1>12. shared \subseteq shared' /\ late \subseteq late'
    BY <1>2
  <1> QED
    BY <1>6, <1>7, <1>8, <1>9, <1>10, <1>11, <1>12, OneAttempt

\* A worker that is not at rest has an attempt, with everything known of it.
LEMMA WorkerHasAttempt ==
    ASSUME Inv, NEW w \in Workers, wrk[w].pc # "idle"
    PROVE  \E a \in Attempts : /\ a = wrk[w].at
                               /\ TypeOK /\ Resting /\ Known(a) /\ a \in Made
                               /\ a \in shared \/ Alone(a)
                               /\ a \in late \/ Paid(a)
  <1>1. wrk[w].at \in Attempts
    BY DEF Inv, TypeOK, Resting
  <1> QED
    BY <1>1 DEF Inv, Known

\* The steps of a worker at its attempt, by what they do to it: to keep the invariant the
\* row must be one that the worker's next place may see, and the request must be over
\* unless other actors have been at the attempt.
LEMMA WorkerAtAttempt ==
    ASSUME Inv, NEW w \in Workers, NEW a \in Attempts, wrk[w].at = a,
           TypeOK', NEW pc \in WorkerPc, NEW x \in {a, NoAttempt}, pc = "idle" <=> x = NoAttempt,
           wrk' = [wrk EXCEPT ![w] = [pc |-> pc, at |-> x]],
           UNCHANGED <<req, cost, tries, shared, late>>,
           \A b \in Attempts : b # a => /\ status'[b] = status[b] /\ stale'[b] = stale[b]
                                        /\ actual'[b] = actual[b] /\ released'[b] = released[b],
           status'[a] \notin {"NONE", "PREDEDUCT_FAILED"},
           status'[a] = "PREDEDUCTED" => status[a] = "PREDEDUCTED",
           a \in shared \/ Alone(a)'
    PROVE  Inv'
  <1>1. TypeOK /\ Resting /\ Known(a) /\ a \in Made /\ (a \in late \/ Paid(a))
    BY DEF Inv, Known
  <1>2. /\ wrk'[w].pc = pc /\ wrk'[w].at = x
        /\ \A v \in Workers : v # w => wrk'[v] = wrk[v]
    BY <1>1, WorkerEffect
  <1>3. \A b \in Attempts : b # a => Untouched(b)
    BY <1>2, BillingAssumption DEF Untouched
  <1>4. Resting'
    BY <1>1, <1>2 DEF Resting
  <1>5. Known(a)'
    BY <1>1, <1>2 DEF Known, InFlight, Made
  <1>6. a \in late' \/ Paid(a)'
    <2>1. CASE a \in late
      BY <2>1
    <2>2. CASE a \notin late
      <3>1. ~InFlight(a) /\ req[a] # "charged" /\ req[a] # "unpaid"
        BY <1>1, <2>2 DEF Paid
      <3> QED
        BY <3>1 DEF Paid, InFlight
    <2> QED
      BY <2>1, <2>2
  <1>7. shared \subseteq shared' /\ late \subseteq late' /\ (a \in shared' \/ Alone(a)')
    OBVIOUS
  <1> QED
    BY <1>3, <1>4, <1>5, <1>6, <1>7, OneAttempt

\* The rollback.
LEMMA RollBackKeeps ==
    ASSUME Inv, NEW w \in Workers, RollBack(w)
    PROVE  Inv'
  <1>1. PICK a \in Attempts : /\ a = wrk[w].at
                              /\ TypeOK /\ Resting /\ Known(a) /\ a \in Made
                              /\ a \in shared \/ Alone(a)
                              /\ a \in late \/ Paid(a)
    BY WorkerHasAttempt DEF RollBack
  <1>2. /\ SettleTx(a, 0, "ROLLED_BACK") /\ wrk[w].pc = "claimed"
        /\ wrk' = [wrk EXCEPT ![w] = [pc |-> "idle", at |-> NoAttempt]]
        /\ UNCHANGED <<req, cost, crashes, shared, late>>
    BY <1>1 DEF RollBack, Worker
  <1>3. /\ status' \in [Attempts -> AttemptStatus] /\ stale' \in [Attempts -> BOOLEAN]
        /\ actual' \in [Attempts -> Costs \cup {0}] /\ tries' = tries
        /\ released' \in [Attempts -> Nat]
        /\ balance' \in Int /\ remain' \in Nat /\ used' \in Nat
        /\ \A b \in Attempts : b # a => /\ status'[b] = status[b] /\ stale'[b] = stale[b]
                                        /\ actual'[b] = actual[b] /\ released'[b] = released[b]
        /\ status[a] \in Final => UNCHANGED <<status, stale, actual, released>>
        /\ status[a] \notin Final => /\ status'[a] = "ROLLED_BACK" /\ stale'[a] = FALSE /\ actual'[a] = 0
                                     /\ released'[a] = released[a] + 1
        /\ status'[a] \in Final
    BY <1>1, <1>2, SettleEffect
  <1>4. /\ wrk' \in [Workers -> [pc : WorkerPc, at : Attempts \cup {NoAttempt}]]
        /\ wrk'[w].pc = "idle" /\ wrk'[w].at = NoAttempt
        /\ \A v \in Workers : v # w => wrk'[v] = wrk[v]
    BY <1>1, <1>2, WorkerEffect DEF WorkerPc
  <1>5. TypeOK'
    BY <1>1, <1>2, <1>3, <1>4 DEF TypeOK, WorkerPc
  <1>6. a \in shared \/ Alone(a)'
    <2>1. SUFFICES ASSUME Alone(a) PROVE Alone(a)'
      BY <1>1
    <2>2. ~InFlight(a) /\ status[a] = "SETTLE_PENDING" /\ released[a] = 0
      BY <1>1, <1>2, <2>1 DEF Alone
    <2>3. \A v \in Workers : wrk'[v].at # a
      BY <1>1, <1>4, <2>1, BillingAssumption DEF Alone
    <2> QED
      BY <1>2, <1>3, <2>2, <2>3 DEF Alone, InFlight
  <1>7. status'[a] \notin {"NONE", "PREDEDUCT_FAILED", "PREDEDUCTED"}
    BY <1>3
  <1> QED
    BY <1>1, <1>2, <1>3, <1>5, <1>6, <1>7, WorkerAtAttempt DEF WorkerPc

\* The failed rollback, with its mark or without.
LEMMA RollBackFailsKeeps ==
    ASSUME Inv, NEW w \in Workers, RollBackFails(w)
    PROVE  Inv'
  <1>1. PICK a \in Attempts : /\ a = wrk[w].at
                              /\ TypeOK /\ Resting /\ Known(a) /\ a \in Made
                              /\ a \in shared \/ Alone(a)
                              /\ a \in late \/ Paid(a)
    BY WorkerHasAttempt DEF RollBackFails
  <1>2. /\ MarkPartialTx(a) \/ UNCHANGED <<ledger, money, released>>
        /\ wrk[w].pc = "claimed" /\ wrk' = [wrk EXCEPT ![w] = [pc |-> "scheduling", at |-> a]]
        /\ UNCHANGED <<req, cost, crashes, shared, late>>
    BY <1>1 DEF RollBackFails, Worker
  <1>3. /\ status' \in [Attempts -> AttemptStatus] /\ stale' \in [Attempts -> BOOLEAN]
        /\ actual' \in [Attempts -> Costs \cup {0}] /\ UNCHANGED <<tries, money, released>>
        /\ status'[a] \in {status[a], "PARTIAL_SETTLED"}
        /\ \A b \in Attempts : b # a => status'[b] = status[b] /\ stale'[b] = stale[b] /\ actual'[b] = actual[b]
    <2>1. CASE MarkPartialTx(a)
      BY <1>1, <2>1, MarkPartialEffect
    <2>2. CASE UNCHANGED <<ledger, money, released>>
      BY <1>1, <2>2 DEF TypeOK
    <2> QED
      BY <1>2, <2>1, <2>2
  <1>4. /\ wrk' \in [Workers -> [pc : WorkerPc, at : Attempts \cup {NoAttempt}]]
        /\ wrk'[w].pc = "scheduling" /\ wrk'[w].at = a
        /\ \A v \in Workers : v # w => wrk'[v] = wrk[v]
    BY <1>1, <1>2, WorkerEffect DEF WorkerPc
  <1>5. TypeOK'
    BY <1>1, <1>2, <1>3, <1>4 DEF TypeOK, WorkerPc
  <1>6. a \in shared \/ Alone(a)'
    <2>1. SUFFICES ASSUME Alone(a) PROVE Alone(a)'
      BY <1>1
    <2>2. ~InFlight(a) /\ status[a] = "SETTLE_PENDING" /\ released[a] = 0
      BY <1>1, <1>2, <2>1 DEF Alone
    <2>3. \A v \in Workers : wrk'[v].at = a => v = w
      BY <1>1, <1>4, <2>1 DEF Alone
    <2> QED
      BY <1>2, <1>3, <1>4, <2>2, <2>3 DEF Alone, InFlight
  <1>7. status'[a] \notin {"NONE", "PREDEDUCT_FAILED"} /\ (status'[a] = "PREDEDUCTED" => status[a] = "PREDEDUCTED")
    BY <1>1, <1>3 DEF Made
  <1>8. "scheduling" \in WorkerPc /\ a # NoAttempt
    BY BillingAssumption DEF WorkerPc
  <1> QED
    BY <1>1, <1>2, <1>3, <1>5, <1>6, <1>7, <1>8, WorkerAtAttempt

\* The scheduling of a failure reads the row.
LEMMA ReadKeeps ==
    ASSUME Inv, NEW w \in Workers, ReadForSchedule(w)
    PROVE  Inv'
  <1>1. PICK a \in Attempts : /\ a = wrk[w].at
                              /\ TypeOK /\ Resting /\ Known(a) /\ a \in Made
                              /\ a \in shared \/ Alone(a)
                              /\ a \in late \/ Paid(a)
    BY WorkerHasAttempt DEF ReadForSchedule
  <1>2. UNCHANGED <<ledger, money, req, cost, crashes, released, shared, late>>
    BY DEF ReadForSchedule, Worker
  <1>3. PICK pc \in WorkerPc, x \in {a, NoAttempt} :
            /\ wrk' = [wrk EXCEPT ![w] = [pc |-> pc, at |-> x]]
            /\ pc = "idle" <=> x = NoAttempt
            /\ pc # "idle" => status[a] = "SETTLE_PENDING"
    <2>1. CASE status[a] = "SETTLE_PENDING"
      BY <1>1, <2>1, BillingAssumption DEF ReadForSchedule, Worker, WorkerPc
    <2>2. CASE status[a] # "SETTLE_PENDING"
      BY <1>1, <2>2 DEF ReadForSchedule, Worker, WorkerPc
    <2> QED
      BY <2>1, <2>2
  <1>4. /\ wrk' \in [Workers -> [pc : WorkerPc, at : Attempts \cup {NoAttempt}]]
        /\ wrk'[w].pc = pc /\ wrk'[w].at = x
        /\ \A v \in Workers : v # w => wrk'[v] = wrk[v]
    BY <1>1, <1>3, WorkerEffect
  <1>5. TypeOK'
    BY <1>1, <1>2, <1>4 DEF TypeOK, WorkerPc
  <1>6. a \in shared \/ Alone(a)'
    <2>1. SUFFICES ASSUME Alone(a) PROVE Alone(a)'
      BY <1>1
    <2>2. ~InFlight(a)
      BY <1>1, <2>1 DEF Alone
    <2>3. \A v \in Workers : wrk'[v].at = a => v = w /\ status[a] = "SETTLE_PENDING"
      BY <1>1, <1>3, <1>4, <2>1, BillingAssumption DEF Alone
    <2> QED
      BY <1>2, <2>1, <2>2, <2>3 DEF Alone, InFlight
  <1>7. status'[a] \notin {"NONE", "PREDEDUCT_FAILED"} /\ (status'[a] = "PREDEDUCTED" => status[a] = "PREDEDUCTED")
    BY <1>1, <1>2 DEF Made
  <1>8. \A b \in Attempts : b # a => /\ status'[b] = status[b] /\ stale'[b] = stale[b]
                                     /\ actual'[b] = actual[b] /\ released'[b] = released[b]
    BY <1>2
  <1> QED
    BY <1>1, <1>2, <1>3, <1>5, <1>6, <1>7, <1>8, WorkerAtAttempt

\* ... and writes it.
LEMMA WriteKeeps ==
    ASSUME Inv, NEW w \in Workers, WriteSchedule(w)
    PROVE  Inv'
  <1>1. PICK a \in Attempts : /\ a = wrk[w].at
                              /\ TypeOK /\ Resting /\ Known(a) /\ a \in Made
                              /\ a \in shared \/ Alone(a)
                              /\ a \in late \/ Paid(a)
    BY WorkerHasAttempt DEF WriteSchedule
  <1>2. PICK s \in {"PARTIAL_SETTLED", "DEAD_LETTER"} : Mark(a, s)
    BY <1>1 DEF WriteSchedule
  <1>3. /\ wrk[w].pc \in {"retry", "dead letter"}
        /\ wrk' = [wrk EXCEPT ![w] = [pc |-> "idle", at |-> NoAttempt]]
        /\ UNCHANGED <<tries, actual, money, req, cost, crashes, released, shared, late>>
    BY <1>1 DEF WriteSchedule, Worker
  <1>4. /\ status' \in [Attempts -> AttemptStatus] /\ stale' \in [Attempts -> BOOLEAN]
        /\ status'[a] = s /\ stale'[a] = FALSE
        /\ \A b \in Attempts : b # a => status'[b] = status[b] /\ stale'[b] = stale[b]
    BY <1>1, <1>2, MarkEffect DEF AttemptStatus
  <1>5. /\ wrk' \in [Workers -> [pc : WorkerPc, at : Attempts \cup {NoAttempt}]]
        /\ wrk'[w].pc = "idle" /\ wrk'[w].at = NoAttempt
        /\ \A v \in Workers : v # w => wrk'[v] = wrk[v]
    BY <1>1, <1>3, WorkerEffect DEF WorkerPc
  <1>6. TypeOK'
    BY <1>1, <1>3, <1>4, <1>5 DEF TypeOK, WorkerPc
  <1>7. a \in shared \/ Alone(a)'
    <2>1. SUFFICES ASSUME Alone(a) PROVE Alone(a)'
      BY <1>1
    <2>2. ~InFlight(a) /\ status[a] = "SETTLE_PENDING" /\ released[a] = 0
      BY <1>1, <1>3, <2>1 DEF Alone
    <2>3. \A v \in Workers : wrk'[v].at # a
      BY <1>1, <1>5, <2>1, BillingAssumption DEF Alone
    <2> QED
      BY <1>3, <1>4, <2>2, <2>3 DEF Alone, InFlight
  <1>8. status'[a] \notin {"NONE", "PREDEDUCT_FAILED", "PREDEDUCTED"}
    BY <1>4
  <1> QED
    BY <1>1, <1>3, <1>4, <1>6, <1>7, <1>8, WorkerAtAttempt DEF WorkerPc

\* A worker dies and leaves its attempt as it is.
LEMMA WorkerDiesKeeps ==
    ASSUME Inv, NEW w \in Workers, WorkerDies(w)
    PROVE  Inv'
  <1>1. PICK a \in Attempts : /\ a = wrk[w].at
                              /\ TypeOK /\ Resting /\ Known(a) /\ a \in Made
                              /\ a \in shared \/ Alone(a)
                              /\ a \in late \/ Paid(a)
    BY WorkerHasAttempt DEF WorkerDies
  <1>2. /\ UNCHANGED <<ledger, money, req, cost, released, shared, late>>
        /\ wrk' = [wrk EXCEPT ![w] = [pc |-> "idle", at |-> NoAttempt]]
        /\ crashes < MaxCrashes /\ crashes' = crashes + 1
    BY DEF WorkerDies, AtRest
  <1>3. /\ wrk' \in [Workers -> [pc : WorkerPc, at : Attempts \cup {NoAttempt}]]
        /\ wrk'[w].pc = "idle" /\ wrk'[w].at = NoAttempt
        /\ \A v \in Workers : v # w => wrk'[v] = wrk[v]
    BY <1>1, <1>2, WorkerEffect DEF WorkerPc
  <1>4. crashes' \in 0 .. MaxCrashes
    BY <1>1, <1>2, Numbers, Amounts
  <1>5. TypeOK'
    BY <1>1, <1>2, <1>3, <1>4 DEF TypeOK, WorkerPc
  <1>6. a \in shared \/ Alone(a)'
    <2>1. SUFFICES ASSUME Alone(a) PROVE Alone(a)'
      BY <1>1
    <2>2. ~InFlight(a)
      BY <1>1, <2>1 DEF Alone
    <2>3. \A v \in Workers : wrk'[v].at # a
      BY <1>1, <1>3, <2>1, BillingAssumption DEF Alone
    <2> QED
      BY <1>2, <2>1, <2>2, <2>3 DEF Alone, InFlight
  <1>7. status'[a] \notin {"NONE", "PREDEDUCT_FAILED"} /\ (status'[a] = "PREDEDUCTED" => status[a] = "PREDEDUCTED")
    BY <1>1, <1>2 DEF Made
  <1>8. \A b \in Attempts : b # a => /\ status'[b] = status[b] /\ stale'[b] = stale[b]
                                     /\ actual'[b] = actual[b] /\ released'[b] = released[b]
    BY <1>2
  <1> QED
    BY <1>1, <1>2, <1>5, <1>6, <1>7, <1>8, WorkerAtAttempt DEF WorkerPc

\* Every step of requests, workers and the clock keeps the invariant.
LEMMA StepInv == Inv /\ [Next]_vars => Inv'
  <1> SUFFICES ASSUME Inv, [Next]_vars PROVE Inv'
    OBVIOUS
  <1>1. CASE UNCHANGED vars
    <2>1. TypeOK' /\ Resting'
      BY <1>1 DEF Inv, TypeOK, Resting
    <2>2. \A b \in Attempts : Untouched(b)
      BY <1>1 DEF Untouched
    <2>3. \A b \in Attempts : (Known(b) => Known(b)') /\ (Alone(b) => Alone(b)') /\ (Paid(b) => Paid(b)')
      BY <2>2, UntouchedKept
    <2>4. shared' = shared /\ late' = late
      BY <1>1
    <2> QED
      BY <2>1, <2>3, <2>4 DEF Inv
  <1>2. CASE Next
    BY <1>2, PreDeductKeeps, PreDeductFailsKeeps, AnswerKeeps, SettleKeeps, SettleFailsKeeps,
       RequestDiesKeeps, GoesStaleKeeps, ClaimKeeps, RollBackKeeps, RollBackFailsKeeps, ReadKeeps,
       WriteKeeps, WorkerDiesKeeps, Zenon DEF Next
  <1> QED
    BY <1>1, <1>2

\* The invariant, in every reachable state.
LEMMA Invariance == Spec => []Inv
BY InitInv, StepInv, PTL DEF Spec

\* The ledger, the wallet, the quota and the workers are well typed: in particular the
\* quota never falls below zero, and no attempt is tried more often than the limit.
THEOREM TypeCorrect == Spec => []TypeOK
BY Invariance, PTL DEF Inv

\* A success is charged in full and stays charged, with any number of recovery workers,
\* however settlements fail and processes die, unless its call outlasted the timeout.
THEOREM SuccessCharged == Spec => []SuccessIsCharged
  <1>1. Inv => SuccessIsCharged
    BY DEF Inv, Paid, SuccessIsCharged
  <1> QED
    BY <1>1, Invariance, PTL

-----------------------------------------------------------------------------
(* Counting credits.                                                        *)

\* Finitely many attempts have finitely many credits.
LEMMA CreditsFinite ==
    ASSUME NEW f, NEW S \in SUBSET Attempts, \A a \in S : f[a] \in Nat
    PROVE  IsFiniteSet(Credits(f, S))
  <1> DEFINE T == {{a} \X (1 .. f[a]) : a \in S}
             h == [a \in S |-> {a} \X (1 .. f[a])]
  <1>1. IsFiniteSet(S)
    BY BillingAssumption, FS_Subset
  <1>2. h \in Surjection(S, T)
    BY DEF Surjection
  <1>3. IsFiniteSet(T)
    BY <1>1, <1>2, FS_Surjection
  <1>4. ASSUME NEW U \in T PROVE IsFiniteSet(U)
    <2>1. PICK a \in S : U = {a} \X (1 .. f[a])
      OBVIOUS
    <2>2. IsFiniteSet({a}) /\ IsFiniteSet(1 .. f[a])
      <3>1. 1 \in Int /\ f[a] \in Int
        OBVIOUS
      <3> QED
        BY <3>1, FS_Singleton, FS_Interval
    <2> QED
      BY <2>1, <2>2, FS_Product
  <1> QED
    BY <1>3, <1>4, FS_UNION DEF Credits

\* An attempt that cost n adds n credits.
LEMMA CreditsAdd ==
    ASSUME NEW f, NEW g, NEW S \in SUBSET Attempts, NEW a \in Attempts \ S,
           \A b \in S : f[b] \in Nat /\ g[b] = f[b], g[a] \in Nat
    PROVE  /\ Cardinality(Credits(f, S)) \in Nat
           /\ Cardinality(Credits(g, S \cup {a})) = Cardinality(Credits(f, S)) + g[a]
  <1> DEFINE new == {a} \X (1 .. g[a])
  <1>1. Credits(g, S \cup {a}) = Credits(f, S) \cup new
    BY DEF Credits
  <1>2. Credits(f, S) \cap new = {}
    BY DEF Credits
  <1>3. IsFiniteSet(Credits(f, S)) /\ Cardinality(Credits(f, S)) \in Nat
    BY CreditsFinite, FS_CardinalityType
  <1>4. IsFiniteSet(new) /\ Cardinality(new) = g[a]
    <2>1. /\ IsFiniteSet({a}) /\ IsFiniteSet(1 .. g[a]) /\ Cardinality({a}) = 1
          /\ Cardinality(1 .. g[a]) = g[a]
      <3>1. 1 \in Int /\ g[a] \in Int
        OBVIOUS
      <3>2. IsFiniteSet(1 .. g[a]) /\ Cardinality(1 .. g[a]) = IF 1 > g[a] THEN 0 ELSE g[a] - 1 + 1
        BY <3>1, FS_Interval
      <3>3. IsFiniteSet({a}) /\ Cardinality({a}) = 1
        BY FS_Singleton
      <3> QED
        BY <3>2, <3>3
    <2>2. IsFiniteSet(new) /\ Cardinality(new) = Cardinality({a}) * Cardinality(1 .. g[a])
      BY <2>1, FS_Product
    <2> QED
      BY <2>1, <2>2
  <1> HIDE DEF new
  <1>5. Cardinality(Credits(f, S) \cup new) = Cardinality(Credits(f, S)) + Cardinality(new) - Cardinality({})
    BY <1>2, <1>3, <1>4, FS_Union
  <1>6. Cardinality({}) = 0
    BY FS_EmptySet
  <1>7. ASSUME NEW n \in Nat, NEW m \in Nat, NEW k, k = n + m - 0 PROVE k = n + m
    BY <1>7
  <1>8. Cardinality(Credits(g, S \cup {a})) = Cardinality(Credits(f, S)) + g[a] - 0
    BY <1>1, <1>4, <1>5, <1>6, Zenon
  <1>9. Cardinality(Credits(g, S \cup {a})) = Cardinality(Credits(f, S)) + g[a]
    BY <1>3, <1>7, <1>8
  <1> QED
    BY <1>3, <1>9

-----------------------------------------------------------------------------
(* The money.                                                               *)

\* BooksBalance for n reservations held and ch credits spent.
Books(n, ch, b, r, u) ==
    /\ b = Balance0 - Estimate * n - ch
    /\ u = ch
    /\ r >= Quota0 - Estimate * n - ch
    /\ (\A c \in Costs : c <= Estimate) => r = Quota0 - Estimate * n - ch

\* The product by one more and one less.
LEMMA OneMore ==
    ASSUME NEW n \in Int
    PROVE  Estimate * n \in Int /\ Estimate * (n + 1) = Estimate * n + Estimate
  <1>1. Estimate \in Nat
    BY Amounts
  <1> QED
    BY <1>1

\* A reservation is taken from wallet and quota ...
LEMMA BooksReserve ==
    ASSUME NEW n \in Int, NEW ch \in Nat, NEW b \in Int, NEW r \in Nat, NEW u \in Nat, Books(n, ch, b, r, u)
    PROVE  Books(n + 1, ch, b - Estimate, r - Estimate, u)
  <1>1. PICK p \in Int : p = Estimate * n /\ Estimate * (n + 1) = p + Estimate
    BY OneMore
  <1>2. Estimate \in Nat /\ Balance0 \in Nat /\ Quota0 \in Nat
    BY Amounts
  <1>3. /\ b = Balance0 - p - ch /\ u = ch /\ r >= Quota0 - p - ch
        /\ (\A c \in Costs : c <= Estimate) => r = Quota0 - p - ch
    BY <1>1, Zenon DEF Books
  <1>4. /\ b - Estimate = Balance0 - (p + Estimate) - ch /\ u = ch
        /\ r - Estimate >= Quota0 - (p + Estimate) - ch
    BY <1>2, <1>3
  <1>5. ASSUME \A c \in Costs : c <= Estimate PROVE r - Estimate = Quota0 - (p + Estimate) - ch
    <2>1. r = Quota0 - p - ch
      BY <1>3, <1>5
    <2> QED
      BY <1>2, <2>1
  <1> QED
    BY <1>1, <1>4, <1>5, Zenon DEF Books

\* ... and exchanged for the cost, of which the quota forgives what it cannot cover.
LEMMA BooksSettle ==
    ASSUME NEW n \in Int, NEW ch \in Nat, NEW b \in Int, NEW r \in Nat, NEW u \in Nat,
           NEW c \in Costs \cup {0}, Books(n + 1, ch, b, r, u)
    PROVE  Books(n, ch + c, b + Estimate - c, ClampQuotaRemainAtZero(r + Estimate - c), u + c)
  <1> DEFINE r2 == ClampQuotaRemainAtZero(r + Estimate - c)
  <1>1. PICK p \in Int : p = Estimate * n /\ Estimate * (n + 1) = p + Estimate
    BY OneMore
  <1>2. Estimate \in Nat /\ Balance0 \in Nat /\ Quota0 \in Nat /\ c \in Nat
    BY Amounts
  <1>3. /\ b = Balance0 - (p + Estimate) - ch /\ u = ch /\ r >= Quota0 - (p + Estimate) - ch
        /\ (\A d \in Costs : d <= Estimate) => r = Quota0 - (p + Estimate) - ch
    BY <1>1, Zenon DEF Books
  <1>4. r2 >= r + Estimate - c /\ (c <= Estimate => r2 = r + Estimate - c)
    BY <1>2 DEF ClampQuotaRemainAtZero
  <1>5. r2 \in Int
    BY <1>2 DEF ClampQuotaRemainAtZero
  <1> HIDE DEF r2
  <1>6. /\ b + Estimate - c = Balance0 - p - (ch + c) /\ u + c = ch + c
        /\ r2 >= Quota0 - p - (ch + c)
    BY <1>2, <1>3, <1>4, <1>5
  <1>7. ASSUME \A d \in Costs : d <= Estimate PROVE r2 = Quota0 - p - (ch + c)
    <2>1. r = Quota0 - (p + Estimate) - ch
      BY <1>3, <1>7
    <2>2. c <= Estimate
      BY <1>2, <1>7
    <2> QED
      BY <1>2, <1>4, <1>5, <2>1, <2>2
  <1> QED
    BY <1>1, <1>6, <1>7, Zenon DEF Books, r2

\* The successes that were charged.
Paying == {a \in Attempts : req[a] = "charged"}

\* BooksBalance, by its numbers.
LEMMA BalanceIsBooks ==
    BooksBalance <=> Books(Cardinality(Made) - Cardinality(Credits(released, Attempts)),
                           Cardinality(Credits(cost, Paying)), balance, remain, used)
BY Zenon DEF BooksBalance, Held, Spent, Books, Paying

\* ... and after a step.
LEMMA BalanceIsBooksNext ==
    BooksBalance' <=> Books(Cardinality(Made') - Cardinality(Credits(released', Attempts)),
                            Cardinality(Credits(cost', Paying')), balance', remain', used')
BY Zenon DEF BooksBalance, Held, Spent, Books, Paying, Credits

\* The numbers of the books are natural numbers.
LEMMA Countable ==
    ASSUME TypeOK
    PROVE  /\ IsFiniteSet(Made) /\ Cardinality(Made) \in Nat
           /\ Cardinality(Credits(released, Attempts)) \in Nat
           /\ Cardinality(Credits(cost, Paying)) \in Nat
  <1>1. Made \in SUBSET Attempts /\ Paying \in SUBSET Attempts /\ Attempts \in SUBSET Attempts
    BY DEF Made, Paying
  <1>2. IsFiniteSet(Made)
    BY <1>1, BillingAssumption, FS_Subset
  <1>3. (\A a \in Attempts : released[a] \in Nat) /\ \A a \in Attempts : cost[a] \in Nat
    BY Numbers
  <1>4. IsFiniteSet(Credits(released, Attempts)) /\ IsFiniteSet(Credits(cost, Paying))
    BY <1>1, <1>3, CreditsFinite
  <1> QED
    BY <1>2, <1>4, FS_CardinalityType

\* The steps that move no money.
LEMMA BalanceKept ==
    ASSUME BooksBalance, UNCHANGED <<money, released>>, Made' = Made, Paying' = Paying,
           \A b \in Paying : cost'[b] = cost[b]
    PROVE  BooksBalance'
  <1>1. Credits(cost', Paying') = Credits(cost, Paying)
    BY DEF Credits
  <1>2. Books(Cardinality(Made) - Cardinality(Credits(released, Attempts)),
              Cardinality(Credits(cost, Paying)), balance, remain, used)
    BY BalanceIsBooks
  <1>3. Books(Cardinality(Made') - Cardinality(Credits(released', Attempts)),
              Cardinality(Credits(cost', Paying')), balance', remain', used')
    BY <1>1, <1>2
  <1> QED
    BY <1>3, BalanceIsBooksNext

\* One attempt more has released its reservation, or has released it once more.
LEMMA OneReleased ==
    ASSUME TypeOK, NEW a \in Attempts, released'[a] = released[a] + 1,
           \A b \in Attempts : b # a => released'[b] = released[b]
    PROVE  Cardinality(Credits(released', Attempts)) = Cardinality(Credits(released, Attempts)) + 1
  <1> DEFINE S == Attempts \ {a}
  <1>1. S \in SUBSET Attempts /\ a \in Attempts \ S /\ S \cup {a} = Attempts
    OBVIOUS
  <1>2. /\ \A b \in S : released[b] \in Nat /\ released[b] = released[b] /\ released'[b] = released[b]
        /\ released[a] \in Nat /\ released'[a] \in Nat
    BY Numbers
  <1> HIDE DEF S
  <1>3. /\ Cardinality(Credits(released, S)) \in Nat
        /\ Cardinality(Credits(released, S \cup {a})) = Cardinality(Credits(released, S)) + released[a]
    BY <1>1, <1>2, CreditsAdd
  <1>4. Cardinality(Credits(released', S \cup {a})) = Cardinality(Credits(released, S)) + released'[a]
    BY <1>1, <1>2, CreditsAdd
  <1>5. PICK n \in Nat : n = Cardinality(Credits(released, S))
    BY <1>3
  <1>6. /\ Cardinality(Credits(released, Attempts)) = n + released[a]
        /\ Cardinality(Credits(released', Attempts)) = n + released'[a]
    BY <1>1, <1>3, <1>4, <1>5
  <1> QED
    BY <1>2, <1>6

\* A settle transaction that finds the attempt unfinished and charges c.
LEMMA BalanceSettles ==
    ASSUME TypeOK, BooksBalance, NEW a \in Attempts, NEW c \in Costs \cup {0},
           remain' = ClampQuotaRemainAtZero(remain + Estimate - c), used' = used + c,
           balance' = balance + Estimate - c,
           released'[a] = released[a] + 1, \A b \in Attempts : b # a => released'[b] = released[b],
           Made' = Made,
           Cardinality(Credits(cost', Paying')) = Cardinality(Credits(cost, Paying)) + c
    PROVE  BooksBalance'
  <1>1. PICK m \in Nat, k \in Nat, ch \in Nat :
            /\ m = Cardinality(Made) /\ k = Cardinality(Credits(released, Attempts))
            /\ ch = Cardinality(Credits(cost, Paying))
    BY Countable
  <1>2. Cardinality(Credits(released', Attempts)) = k + 1
    BY <1>1, OneReleased
  <1>3. PICK n \in Int : n = m - (k + 1)
    OBVIOUS
  <1>4. m - k = n + 1
    BY <1>3
  <1>5. Books(n + 1, ch, balance, remain, used) /\ balance \in Int /\ remain \in Nat /\ used \in Nat
    BY <1>1, <1>4, BalanceIsBooks, Numbers
  <1>6. Books(n, ch + c, balance', remain', used')
    BY <1>5, BooksSettle
  <1>7. Books(Cardinality(Made') - Cardinality(Credits(released', Attempts)),
              Cardinality(Credits(cost', Paying')), balance', remain', used')
    BY <1>1, <1>2, <1>3, <1>6
  <1> QED
    BY <1>7, BalanceIsBooksNext

\* What the settle transaction books.
LEMMA SettleBooks ==
    ASSUME NEW a \in Attempts, NEW c, NEW outcome, SettleTx(a, c, outcome)
    PROVE  /\ status[a] \in Final => UNCHANGED <<money, released>>
           /\ status[a] \notin Final => /\ remain' = ClampQuotaRemainAtZero(remain + Estimate - c)
                                        /\ used' = used + c /\ balance' = balance + Estimate - c
BY DEF SettleTx

\* The reservation of an attempt.
LEMMA PreDeductBalances ==
    ASSUME Inv, BooksBalance, NEW a \in Attempts, PreDeduct(a)
    PROVE  BooksBalance'
  <1>1. TypeOK /\ Known(a) /\ req[a] = "new"
    BY DEF Inv, PreDeduct
  <1>2. /\ remain' = remain - Estimate /\ balance' = balance - Estimate /\ used' = used /\ released' = released
        /\ status' = [status EXCEPT ![a] = "PREDEDUCTED"] /\ status[a] = "NONE"
        /\ req' = [req EXCEPT ![a] = "calling"] /\ cost' = [cost EXCEPT ![a] = 0]
    BY <1>1 DEF PreDeduct, Mark, Step, Known
  <1>3. Made' = Made \cup {a} /\ a \notin Made
    BY <1>1, <1>2 DEF TypeOK, Made
  <1>4. Paying' = Paying /\ \A b \in Paying : cost'[b] = cost[b]
    BY <1>1, <1>2 DEF TypeOK, Paying
  <1>5. PICK m \in Nat, k \in Nat, ch \in Nat :
            /\ m = Cardinality(Made) /\ k = Cardinality(Credits(released, Attempts))
            /\ ch = Cardinality(Credits(cost, Paying))
    BY <1>1, Countable
  <1>6. Cardinality(Made') = m + 1
    BY <1>1, <1>3, <1>5, Countable, FS_AddElement
  <1>7. Cardinality(Credits(cost', Paying')) = ch
    BY <1>4, <1>5 DEF Credits
  <1>8. PICK n \in Int : n = m - k
    OBVIOUS
  <1>9. Books(n, ch, balance, remain, used) /\ balance \in Int /\ remain \in Nat /\ used \in Nat
    BY <1>1, <1>5, <1>8, BalanceIsBooks, Numbers
  <1>10. Books(n + 1, ch, balance', remain', used')
    BY <1>2, <1>9, BooksReserve
  <1>11. n + 1 = m + 1 - k
    BY <1>8
  <1>12. Books(Cardinality(Made') - Cardinality(Credits(released', Attempts)),
               Cardinality(Credits(cost', Paying')), balance', remain', used')
    BY <1>2, <1>5, <1>6, <1>7, <1>10, <1>11
  <1> QED
    BY <1>12, BalanceIsBooksNext

\* A rollback, by the request or by a worker: nothing is charged.
LEMMA RollBackBalances ==
    ASSUME TypeOK, BooksBalance, NEW a \in Attempts, a \in Made, SettleTx(a, 0, "ROLLED_BACK"),
           Paying' = Paying, \A b \in Paying : cost'[b] = cost[b]
    PROVE  BooksBalance'
  <1>1. CASE status[a] \in Final
    <2>1. UNCHANGED <<status, money, released>>
      BY <1>1 DEF SettleTx
    <2>2. Made' = Made
      BY <2>1 DEF Made
    <2> QED
      BY <2>1, <2>2, BalanceKept
  <1>2. CASE status[a] \notin Final
    <2>1. /\ status'[a] = "ROLLED_BACK" /\ released'[a] = released[a] + 1
          /\ \A b \in Attempts : b # a => status'[b] = status[b] /\ released'[b] = released[b]
      BY <1>2, SettleEffect
    <2>2. Made' = Made
      BY <2>1 DEF Made
    <2>3. Credits(cost', Paying') = Credits(cost, Paying)
      BY DEF Credits
    <2>4. PICK ch \in Nat : ch = Cardinality(Credits(cost, Paying))
      BY Countable
    <2>5. Cardinality(Credits(cost', Paying')) = Cardinality(Credits(cost, Paying)) + 0
      BY <2>3, <2>4
    <2>6. /\ remain' = ClampQuotaRemainAtZero(remain + Estimate - 0)
          /\ used' = used + 0 /\ balance' = balance + Estimate - 0
      BY <1>2, SettleBooks
    <2>7. 0 \in Costs \cup {0}
      OBVIOUS
    <2> QED
      BY <2>1, <2>2, <2>5, <2>6, <2>7, BalanceSettles
  <1> QED
    BY <1>1, <1>2

\* The settlement of an attempt by its request.
LEMMA SettleBalances ==
    ASSUME Inv, BooksBalance, NEW a \in Attempts, Settle(a)
    PROVE  BooksBalance'
  <1>1. TypeOK /\ Known(a) /\ InFlight(a) /\ a \in Made /\ req[a] # "charged"
    BY DEF Inv, Known, Settle, InFlight
  <1>2. \A b \in Attempts : cost[b] \in Nat
    BY <1>1, Numbers
  <1>3. CASE req[a] = "succeeded" /\ status[a] \notin Final
    <2>1. SettleTx(a, cost[a], "SETTLED") /\ cost[a] \in Costs \cup {0} /\ Step(a, "charged", cost[a])
      BY <1>1, <1>3, SettleSuccess
    <2>2. /\ req'[a] = "charged" /\ cost'[a] = cost[a]
          /\ \A b \in Attempts : b # a => req'[b] = req[b] /\ cost'[b] = cost[b]
      BY <1>1, <2>1, StepEffect DEF ReqPlaces
    <2>3. /\ status'[a] = "SETTLED" /\ released'[a] = released[a] + 1
          /\ \A b \in Attempts : b # a => status'[b] = status[b] /\ released'[b] = released[b]
      BY <1>1, <1>3, <2>1, SettleEffect
    <2>4. Made' = Made
      BY <1>1, <2>3 DEF Made
    <2>5. Paying' = Paying \cup {a} /\ a \in Attempts \ Paying /\ Paying \in SUBSET Attempts
      BY <1>1, <2>2 DEF Paying
    <2>6. /\ \A b \in Paying : cost[b] \in Nat /\ cost'[b] = cost[b]
          /\ cost'[a] \in Nat
      BY <1>2, <2>2, <2>5
    <2>7. Cardinality(Credits(cost', Paying \cup {a})) = Cardinality(Credits(cost, Paying)) + cost'[a]
      BY <2>5, <2>6, CreditsAdd
    <2>8. Cardinality(Credits(cost', Paying')) = Cardinality(Credits(cost, Paying)) + cost[a]
      BY <2>2, <2>5, <2>7
    <2>9. /\ remain' = ClampQuotaRemainAtZero(remain + Estimate - cost[a])
          /\ used' = used + cost[a] /\ balance' = balance + Estimate - cost[a]
      BY <1>3, <2>1, SettleBooks
    <2> QED
      BY <1>1, <2>1, <2>3, <2>4, <2>8, <2>9, BalanceSettles
  <1>4. CASE req[a] = "succeeded" /\ status[a] \in Final
    <2>1. SettleTx(a, cost[a], "SETTLED") /\ Step(a, "unpaid", 0)
      BY <1>1, <1>4, SettleSuccess
    <2>2. /\ req'[a] = "unpaid" /\ \A b \in Attempts : b # a => req'[b] = req[b] /\ cost'[b] = cost[b]
      BY <1>1, <2>1, StepEffect DEF ReqPlaces
    <2>3. UNCHANGED <<status, money, released>>
      BY <1>4, <2>1 DEF SettleTx
    <2>4. Made' = Made
      BY <2>3 DEF Made
    <2>5. Paying' = Paying /\ \A b \in Paying : cost'[b] = cost[b]
      BY <1>1, <2>2 DEF Paying
    <2> QED
      BY <2>3, <2>4, <2>5, BalanceKept
  <1>5. CASE req[a] # "succeeded"
    <2>1. SettleTx(a, 0, "ROLLED_BACK") /\ Step(a, "over", 0)
      BY <1>5, SettleFailure
    <2>2. /\ req'[a] = "over" /\ \A b \in Attempts : b # a => req'[b] = req[b] /\ cost'[b] = cost[b]
      BY <1>1, <2>1, StepEffect DEF ReqPlaces
    <2>3. Paying' = Paying /\ \A b \in Paying : cost'[b] = cost[b]
      BY <1>1, <2>2 DEF Paying
    <2> QED
      BY <1>1, <2>1, <2>3, RollBackBalances
  <1> QED
    BY <1>3, <1>4, <1>5

\* Every step books what it moves.
LEMMA StepBalances == Inv /\ BooksBalance /\ [Next]_vars => BooksBalance'
  <1> SUFFICES ASSUME Inv, BooksBalance, [Next]_vars PROVE BooksBalance'
    OBVIOUS
  <1>0. TypeOK
    BY DEF Inv
  <1>1. ASSUME NEW a \in Attempts, PreDeductFails(a) PROVE BooksBalance'
    <2>1. /\ UNCHANGED <<money, released>> /\ req[a] = "new" /\ req' = [req EXCEPT ![a] = "over"]
          /\ cost' = [cost EXCEPT ![a] = 0] /\ status[a] = "NONE"
          /\ status' = status \/ status' = [status EXCEPT ![a] = "PREDEDUCT_FAILED"]
      BY <1>1 DEF PreDeductFails, Mark, Step, Inv, Known
    <2>2. Made' = Made
      BY <1>0, <2>1 DEF TypeOK, Made
    <2>3. Paying' = Paying /\ \A b \in Paying : cost'[b] = cost[b]
      BY <1>0, <2>1 DEF TypeOK, Paying
    <2> QED
      BY <2>1, <2>2, <2>3, BalanceKept
  <1>2. ASSUME NEW a \in Attempts, NEW c \in Costs \cup {0}, NEW pc \in {"succeeded", "failed"},
               ProviderAnswers(a, c, pc)
        PROVE BooksBalance'
    <2>1. /\ UNCHANGED <<status, money, released>> /\ req[a] = "calling" /\ req' = [req EXCEPT ![a] = pc]
          /\ cost' = [cost EXCEPT ![a] = c]
      BY <1>2 DEF ProviderAnswers, Step
    <2>2. Made' = Made
      BY <2>1 DEF Made
    <2>3. Paying' = Paying /\ \A b \in Paying : cost'[b] = cost[b]
      BY <1>0, <2>1 DEF TypeOK, Paying
    <2> QED
      BY <2>1, <2>2, <2>3, BalanceKept
  <1>3. ASSUME NEW a \in Attempts, SettleFails(a) \/ RequestDies(a) PROVE BooksBalance'
    <2>1. InFlight(a) /\ a \in Made /\ UNCHANGED <<money, released>>
      BY <1>3 DEF SettleFails, MarkPartialTx, RequestDies, InFlight, Inv, Known
    <2>2. req' = [req EXCEPT ![a] = "over"] /\ cost' = [cost EXCEPT ![a] = 0]
      BY <1>3 DEF SettleFails, RequestDies, Step
    <2>3. status' = status \/ status' = [status EXCEPT ![a] = "PARTIAL_SETTLED"]
      BY <1>3 DEF SettleFails, MarkPartialTx, RequestDies, Mark
    <2>4. Made' = Made
      BY <1>0, <2>1, <2>3 DEF TypeOK, Made
    <2>5. Paying' = Paying /\ \A b \in Paying : cost'[b] = cost[b]
      BY <1>0, <2>1, <2>2 DEF TypeOK, Paying, InFlight
    <2> QED
      BY <2>1, <2>4, <2>5, BalanceKept
  <1>4. ASSUME NEW w \in Workers, NEW a \in Attempts, ClaimStale(w, a) PROVE BooksBalance'
    <2>1. /\ UNCHANGED <<money, released, req, cost>> /\ a \in Made
          /\ status' = [status EXCEPT ![a] = "SETTLE_PENDING"]
      BY <1>4 DEF ClaimStale, Take, Worker, Mark, Made
    <2>2. Made' = Made
      BY <1>0, <2>1 DEF TypeOK, Made
    <2>3. Paying' = Paying /\ \A b \in Paying : cost'[b] = cost[b]
      BY <2>1 DEF Paying
    <2> QED
      BY <2>1, <2>2, <2>3, BalanceKept
  <1>5. ASSUME NEW w \in Workers, RollBack(w) PROVE BooksBalance'
    <2>1. PICK a \in Attempts : a = wrk[w].at /\ a \in Made
      BY <1>5, WorkerHasAttempt DEF RollBack
    <2>2. SettleTx(a, 0, "ROLLED_BACK") /\ UNCHANGED <<req, cost>>
      BY <1>5, <2>1 DEF RollBack, Worker
    <2>3. Paying' = Paying /\ \A b \in Paying : cost'[b] = cost[b]
      BY <2>2 DEF Paying
    <2> QED
      BY <1>0, <2>1, <2>2, <2>3, RollBackBalances
  <1>6. ASSUME NEW w \in Workers, RollBackFails(w) \/ WriteSchedule(w) PROVE BooksBalance'
    <2>1. PICK a \in Attempts : a = wrk[w].at /\ a \in Made
      BY <1>6, WorkerHasAttempt DEF RollBackFails, WriteSchedule
    <2>2. /\ UNCHANGED <<money, released, req, cost>>
          /\ \/ status' = status
             \/ \E s \in {"PARTIAL_SETTLED", "DEAD_LETTER"} : status' = [status EXCEPT ![a] = s]
      BY <1>6, <2>1 DEF RollBackFails, MarkPartialTx, WriteSchedule, Mark, Worker
    <2>3. Made' = Made
      BY <1>0, <2>1, <2>2 DEF TypeOK, Made
    <2>4. Paying' = Paying /\ \A b \in Paying : cost'[b] = cost[b]
      BY <2>2 DEF Paying
    <2> QED
      BY <2>2, <2>3, <2>4, BalanceKept
  <1>7. ASSUME UNCHANGED <<status, money, released, req, cost>> PROVE BooksBalance'
    <2>1. Made' = Made /\ Paying' = Paying /\ \A b \in Paying : cost'[b] = cost[b]
      BY <1>7 DEF Made, Paying
    <2> QED
      BY <1>7, <2>1, BalanceKept
  <1>8. ASSUME NEW a \in Attempts, GoesStale(a) PROVE BooksBalance'
    BY <1>7, <1>8 DEF GoesStale
  <1>9. ASSUME NEW w \in Workers, ReadForSchedule(w) \/ WorkerDies(w) PROVE BooksBalance'
    BY <1>7, <1>9 DEF ReadForSchedule, WorkerDies, Worker
  <1>10. CASE UNCHANGED vars
    BY <1>7, <1>10
  <1>11. CASE Next
    BY <1>1, <1>2, <1>3, <1>4, <1>5, <1>6, <1>8, <1>9, <1>11, PreDeductBalances, SettleBalances, Zenon
       DEF Next
  <1> QED
    BY <1>10, <1>11

\* What is missing from wallet and quota was reserved and not released, or was spent on
\* successes that were charged; and each reservation is released once, when its attempt
\* is finalized, unless a worker took the attempt from another actor: with any number
\* of workers, however transactions fail and processes die.
THEOREM MoneyMatches == Spec => []MoneyMatchesLedger
  <1>1. Init => BooksBalance
    <2> SUFFICES ASSUME Init PROVE BooksBalance
      OBVIOUS
    <2>1. Made = {} /\ Paying = {}
      BY DEF Init, Made, Paying
    <2>2. Credits(released, Attempts) = {} /\ Credits(cost, Paying) = {}
      <3>1. \A a \in Attempts : released[a] = 0
        BY DEF Init
      <3>2. 1 .. 0 = {}
        OBVIOUS
      <3> QED
        BY <2>1, <3>1, <3>2 DEF Credits
    <2>3. Cardinality({}) = 0
      BY FS_EmptySet
    <2>4. Books(0 - 0, 0, balance, remain, used)
      BY Amounts DEF Init, Books
    <2> QED
      BY <2>1, <2>2, <2>3, <2>4, BalanceIsBooks
  <1>2. Inv /\ BooksBalance => MoneyMatchesLedger
    BY DEF Inv, Alone, ReleasedOnce, MoneyMatchesLedger
  <1> QED
    BY <1>1, <1>2, StepBalances, Invariance, PTL DEF Spec
=============================================================================
