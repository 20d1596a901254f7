---------------------------- MODULE BillingLedger ----------------------------
(***************************************************************************)
(* The private (local) billing lane of the LLM gateway: a request reserves *)
(* its estimate from a quota subject and a channel wallet in one           *)
(* transaction, calls the provider, and settles the actual cost in another *)
(* (billing.go, billing_ledger_internal.go).  Recovery workers roll back   *)
(* reservations whose request never settled (billing_local_recovery.go).   *)
(*                                                                         *)
(* All attempts here use one channel wallet and one limited quota subject. *)
(* Any transaction may fail; requests and workers may die between two      *)
(* transactions.                                                           *)
(***************************************************************************)
EXTENDS Integers, FiniteSets

CONSTANTS
    Attempts,        \* billing attempts, one per request
    Workers,         \* recovery workers, one per BillingService: a process has several
    Estimate,        \* EstimatedCredits of an attempt
    Costs,           \* possible ActualCredits of a successful call
    Balance0,        \* initial balance of the wallet
    Quota0,          \* initial remaining quota
    MaxRetries,      \* defaultLocalRecoverMaxRetries
    MaxCrashes,      \* bound on workers that die
    NoAttempt        \* what a worker at rest works on

ASSUME BillingAssumption ==
    /\ IsFiniteSet(Attempts)
    /\ Estimate \in Nat /\ Costs \subseteq Nat /\ Costs # {}
    /\ Balance0 \in Nat /\ Quota0 \in Nat
    /\ MaxRetries \in Nat \ {0} /\ MaxCrashes \in Nat
    /\ NoAttempt \notin Attempts

VARIABLES
    status,          \* billing_attempts.status ("NONE": no row)
    tries,           \* reconcile_attempts
    actual,          \* actual_amount of the attempt's entries
    stale,           \* stale[a]: the row was last updated before the cutoff
    balance,         \* channel wallet
    remain, used,    \* quota subject
    req,             \* req[a]: where the request goroutine is
    cost,            \* cost[a]: the ActualCredits the request is to settle, or has charged
    wrk,             \* wrk[w]: where worker w is, and its attempt
    crashes,         \* workers that died so far
    released,        \* released[a]: settle transactions that gave a's reservation back (history)
    shared,          \* attempts a worker claimed while another actor was at them (history)
    late             \* attempts that went stale while their request was in flight (history)

ledger  == <<status, tries, actual, stale>>
money   == <<balance, remain, used>>
history == <<shared, late>>
vars    == <<ledger, money, req, cost, wrk, crashes, released, history>>

Final == {"SETTLED", "ROLLED_BACK"}

AtRest == [pc |-> "idle", at |-> NoAttempt]

Init ==
    /\ status = [a \in Attempts |-> "NONE"]
    /\ tries = [a \in Attempts |-> 0]
    /\ actual = [a \in Attempts |-> 0]
    /\ stale = [a \in Attempts |-> FALSE]
    /\ balance = Balance0
    /\ remain = Quota0
    /\ used = 0
    /\ req = [a \in Attempts |-> "new"]
    /\ cost = [a \in Attempts |-> 0]
    /\ wrk = [w \in Workers |-> AtRest]
    /\ crashes = 0
    /\ released = [a \in Attempts |-> 0]
    /\ shared = {} /\ late = {}

-----------------------------------------------------------------------------
(* Transactions on the ledger.                                              *)

\* updateAttemptStatus writes whatever the row holds, and refreshes it.
Mark(a, s) ==
    /\ status' = [status EXCEPT ![a] = s]
    /\ stale' = [stale EXCEPT ![a] = FALSE]

ClampQuotaRemainAtZero(n) == IF n < 0 THEN 0 ELSE n

\* The settle transaction, under the lock of the attempt's row: a finalized
\* attempt is left alone, otherwise the reservation is exchanged for c.
SettleTx(a, c, outcome) ==
    IF status[a] \in Final
    THEN UNCHANGED <<ledger, money, released>>
    ELSE /\ remain' = ClampQuotaRemainAtZero(remain + Estimate - c)
         /\ used' = used + c
         /\ balance' = balance + Estimate - c
         /\ actual' = [actual EXCEPT ![a] = c]
         /\ Mark(a, outcome)
         /\ released' = [released EXCEPT ![a] = @ + 1]
         /\ UNCHANGED tries

\* Faulty variant: the mark gives the wallet's reservation back as well.
MarkPartialReleases(a) ==
    /\ Mark(a, "PARTIAL_SETTLED")
    /\ actual' = [actual EXCEPT ![a] = 0]
    /\ balance' = balance + Estimate
    /\ UNCHANGED <<tries, remain, used, released>>

\* After a failed settle a transaction of its own marks the attempt PARTIAL and
\* resets its entries; it does not look at the status.
MarkPartialTx(a) ==
    /\ Mark(a, "PARTIAL_SETTLED")
    /\ actual' = [actual EXCEPT ![a] = 0]
    /\ UNCHANGED <<tries, money, released>>

-----------------------------------------------------------------------------
(* A request.                                                               *)

\* The places between the reservation and the end; "charged" and "unpaid" are the
\* ends of a success that its settle transaction charged or found finalized.
InFlight(a) == req[a] \in {"calling", "succeeded", "failed"}

Step(a, pc, c) ==
    /\ req' = [req EXCEPT ![a] = pc]
    /\ cost' = [cost EXCEPT ![a] = c]
    /\ UNCHANGED <<wrk, crashes, history>>

PreDeduct(a) ==
    /\ req[a] = "new"
    /\ remain >= Estimate
    /\ balance >= Estimate          \* in particular the wallet is not in debt
    /\ remain' = remain - Estimate
    /\ balance' = balance - Estimate
    /\ Mark(a, "PREDEDUCTED")
    /\ Step(a, "calling", 0)
    /\ UNCHANGED <<used, tries, actual, released>>

\* Refused, or the transaction failed: the attempt is marked if a transaction of
\* its own succeeds, and the request ends.
PreDeductFails(a) ==
    /\ req[a] = "new"
    /\ Mark(a, "PREDEDUCT_FAILED") \/ UNCHANGED <<status, stale>>
    /\ Step(a, "over", 0)
    /\ UNCHANGED <<tries, actual, money, released>>

\* The provider answers: a successful call costs c, a failed one nothing.
ProviderAnswers(a, c, pc) ==
    /\ req[a] = "calling"
    /\ pc = "failed" => c = 0
    /\ Step(a, pc, c)
    /\ UNCHANGED <<ledger, money, released>>

Settle(a) ==
    \/ /\ req[a] = "succeeded"
       /\ SettleTx(a, cost[a], "SETTLED")
       /\ IF status[a] \in Final THEN Step(a, "unpaid", 0) ELSE Step(a, "charged", cost[a])
    \/ /\ req[a] = "failed"
       /\ SettleTx(a, 0, "ROLLED_BACK")
       /\ Step(a, "over", 0)

\* The settle transaction fails, which changes nothing, and the mark follows.
SettleFails(a) ==
    /\ req[a] \in {"succeeded", "failed"}
    /\ MarkPartialTx(a)
    /\ Step(a, "over", 0)

\* The request's process dies, or the mark transaction fails as well.
RequestDies(a) ==
    /\ InFlight(a)
    /\ Step(a, "over", 0)
    /\ UNCHANGED <<ledger, money, released>>

-----------------------------------------------------------------------------
(* Time and the recovery workers.                                           *)

\* Ten minutes pass without an update of the row, whose call may still be running:
\* a streamed response has no time limit.
GoesStale(a) ==
    /\ status[a] = "PREDEDUCTED" /\ ~stale[a]
    /\ stale' = [stale EXCEPT ![a] = TRUE]
    /\ late' = IF InFlight(a) THEN late \cup {a} ELSE late
    /\ UNCHANGED <<status, tries, actual, money, req, cost, wrk, crashes, released, shared>>

Worker(w, pc, a) ==
    /\ wrk' = [wrk EXCEPT ![w] = [pc |-> pc, at |-> a]]
    /\ UNCHANGED <<req, cost, crashes, late>>

\* A worker that is free takes attempt a.
Take(w, a) ==
    /\ wrk[w].pc = "idle"
    /\ Mark(a, "SETTLE_PENDING")
    /\ tries' = [tries EXCEPT ![a] = @ + 1]
    /\ shared' = IF InFlight(a) \/ \E v \in Workers : wrk[v].at = a
                 THEN shared \cup {a} ELSE shared
    /\ Worker(w, "claimed", a)
    /\ UNCHANGED <<actual, money, released>>

\* Faulty variant: every reservation is taken to be stale.
ClaimYoung(w, a) ==
    /\ \/ status[a] = "PREDEDUCTED"
       \/ status[a] = "PARTIAL_SETTLED" /\ tries[a] < MaxRetries
    /\ Take(w, a)

\* Faulty variant: attempts whose settlement failed are not taken up again.
ClaimOnlyReserved(w, a) ==
    /\ status[a] = "PREDEDUCTED" /\ stale[a]
    /\ Take(w, a)

\* Faulty variant: the retries are not counted against their limit.
ClaimForEver(w, a) ==
    /\ \/ status[a] = "PREDEDUCTED" /\ stale[a]
       \/ status[a] = "PARTIAL_SETTLED"
    /\ Take(w, a)

\* The conditional update by which one of the workers takes the rollback.
ClaimStale(w, a) ==
    /\ \/ status[a] = "PREDEDUCTED" /\ stale[a]
       \/ status[a] = "PARTIAL_SETTLED" /\ tries[a] < MaxRetries
    /\ Take(w, a)

\* Settle with nothing used and status "error".
RollBack(w) ==
    /\ wrk[w].pc = "claimed"
    /\ SettleTx(wrk[w].at, 0, "ROLLED_BACK")
    /\ Worker(w, "idle", NoAttempt)
    /\ UNCHANGED shared

\* The settle transaction fails, the mark that follows it may fail too, and then
\* the failure is scheduled.
RollBackFails(w) ==
    /\ wrk[w].pc = "claimed"
    /\ \/ MarkPartialTx(wrk[w].at)
       \/ UNCHANGED <<ledger, money, released>>
    /\ Worker(w, "scheduling", wrk[w].at)
    /\ UNCHANGED shared

\* scheduleLocalRecoveryFailure reads the row ...
ReadForSchedule(w) ==
    /\ wrk[w].pc = "scheduling"
    /\ IF status[wrk[w].at] = "SETTLE_PENDING"
       THEN Worker(w, IF tries[wrk[w].at] >= MaxRetries THEN "dead letter" ELSE "retry", wrk[w].at)
       ELSE Worker(w, "idle", NoAttempt)
    /\ UNCHANGED <<ledger, money, released, shared>>

\* ... and updates it by its id, whatever has become of it.
WriteSchedule(w) ==
    /\ wrk[w].pc \in {"retry", "dead letter"}
    /\ Mark(wrk[w].at, IF wrk[w].pc = "retry" THEN "PARTIAL_SETTLED" ELSE "DEAD_LETTER")
    /\ Worker(w, "idle", NoAttempt)
    /\ UNCHANGED <<tries, actual, money, released, shared>>

\* The worker's process dies, or an update of its claimed attempt fails: the rest
\* of the recovery does not happen.
WorkerDies(w) ==
    /\ wrk[w].pc # "idle"
    /\ crashes < MaxCrashes
    /\ crashes' = crashes + 1
    /\ wrk' = [wrk EXCEPT ![w] = AtRest]
    /\ UNCHANGED <<ledger, money, req, cost, released, history>>

WorkerStep(w) ==
    \/ \E a \in Attempts : ClaimStale(w, a)
    \/ RollBack(w) \/ RollBackFails(w) \/ ReadForSchedule(w) \/ WriteSchedule(w)

Next ==
    \/ \E a \in Attempts :
        \/ PreDeduct(a) \/ PreDeductFails(a)
        \/ \E c \in Costs \cup {0}, pc \in {"succeeded", "failed"} : ProviderAnswers(a, c, pc)
        \/ Settle(a) \/ SettleFails(a) \/ RequestDies(a) \/ GoesStale(a)
        \/ \E w \in Workers : ClaimStale(w, a)
    \/ \E w \in Workers :
        \/ RollBack(w) \/ RollBackFails(w) \/ ReadForSchedule(w) \/ WriteSchedule(w)
        \/ WorkerDies(w)

\* Requests end, time passes, and the workers' tickers fire for ever.
Fairness ==
    /\ \A a \in Attempts :
        /\ WF_vars(Settle(a) \/ SettleFails(a) \/ RequestDies(a))
        /\ WF_vars(GoesStale(a))
    /\ \A w \in Workers : WF_vars(WorkerStep(w))

Spec == Init /\ [][Next]_vars /\ Fairness

-----------------------------------------------------------------------------
(* Properties.                                                              *)

AttemptStatus == {"NONE", "PREDEDUCT_FAILED", "PREDEDUCTED", "SETTLE_PENDING",
                  "PARTIAL_SETTLED", "SETTLED", "ROLLED_BACK", "DEAD_LETTER"}

\* Type correctness of the ledger and its actors.
TypeOK ==
    /\ status \in [Attempts -> AttemptStatus]
    /\ tries \in [Attempts -> 0 .. MaxRetries]
    /\ actual \in [Attempts -> Costs \cup {0}] /\ cost \in [Attempts -> Costs \cup {0}]
    /\ stale \in [Attempts -> BOOLEAN]
    /\ balance \in Int /\ remain \in Nat /\ used \in Nat
    /\ req \in [Attempts -> {"new", "calling", "succeeded", "failed",
                            "over", "charged", "unpaid"}]
    /\ wrk \in [Workers -> [pc : {"idle", "claimed", "scheduling", "retry", "dead letter"},
                            at : Attempts \cup {NoAttempt}]]
    /\ crashes \in 0 .. MaxCrashes
    /\ released \in [Attempts -> Nat] /\ shared \subseteq Attempts /\ late \subseteq Attempts

\* The attempts that reserved their estimate.
Made == {a \in Attempts : status[a] \notin {"NONE", "PREDEDUCT_FAILED"}}

\* The credits of a set of attempts one by one: an attempt that cost c contributes c
\* elements, so that their number is the sum of the amounts.
Credits(amount, S) == UNION {{a} \X (1 .. amount[a]) : a \in S}
Spent == Cardinality(Credits(cost, {a \in Attempts : req[a] = "charged"}))
Held  == Estimate * (Cardinality(Made) - Cardinality(Credits(released, Attempts)))

\* What is missing from wallet and quota was reserved and not released, or was
\* spent on the successes that a settle transaction charged, except that the quota
\* forgives an overrun at zero.
BooksBalance ==
    /\ balance = Balance0 - Held - Spent
    /\ used = Spent
    /\ remain >= Quota0 - Held - Spent
    /\ (\A c \in Costs : c <= Estimate) => remain = Quota0 - Held - Spent

\* A reservation is released once if its attempt is finalized, and held otherwise,
\* as long as no worker took the attempt from another actor that was still at it.
ReleasedOnce ==
    \A a \in Attempts \ shared : released[a] = IF status[a] \in Final THEN 1 ELSE 0

\* The money agrees with the ledger: through failed settlements, retries, deaths and
\* workers in any number no reservation is lost, kept by a finalized attempt or
\* released twice, unless two actors were at its attempt (updateAttemptStatus and
\* scheduleLocalRecoveryFailure then reopen an attempt the other one finalized).
MoneyMatchesLedger == BooksBalance /\ ReleasedOnce

\* A success is charged in full and stays charged, whatever the recovery workers do,
\* unless the call outlasted the prededuct timeout: its settle transaction never finds
\* the attempt rolled back, and nobody reopens it afterwards.
SuccessIsCharged ==
    \A a \in Attempts \ late :
        /\ req[a] # "unpaid"
        /\ req[a] = "charged" => status[a] = "SETTLED" /\ actual[a] = cost[a]

Unresolved(a) == ~InFlight(a) /\ status[a] \in {"PREDEDUCTED", "PARTIAL_SETTLED"}

\* As long as no worker leaves an attempt half way, a reservation whose request
\* is over is released, or its retries are used up.
HoldsReleased ==
    \A a \in Attempts :
        Unresolved(a) ~> status[a] \in Final \/ tries[a] = MaxRetries \/ crashes > 0
=============================================================================
