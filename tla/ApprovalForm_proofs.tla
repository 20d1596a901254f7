------------------------- MODULE ApprovalForm_proofs -------------------------
(***************************************************************************)
(* Safety of the approval forms, for every set of forms and actions.       *)
(*                                                                         *)
(* Three facts carry the argument: a submit transaction that holds the row *)
(* lock sees a waiting form (the scan's update waits for the lock), only   *)
(* late forms reach the scan's update, and no node that paused in the      *)
(* running execution has a stored result.                                  *)
(***************************************************************************)
EXTENDS ApprovalForm, TLAPS

\* A row lock protects the status that its transaction has checked.
LockedIsWaiting == \A f \in Forms : tx[f] # None => status[f] = "waiting"

\* A stored result closes the form; a submitted form has one.
FilledIsClosed ==
    \A f \in Forms :
        /\ filled[f] # None => status[f] \in {"submitted", "timeout"}
        /\ status[f] = "submitted" => filled[f] # None

\* Only forms past their time are listed, read and marked by the scan.
OnlyLateMarked ==
    /\ \A f \in Forms : status[f] = "timeout" => late[f]
    /\ \A f \in scan.list \cup scan.at : late[f]

\* The pause while an execution runs, and what its paused nodes have stored.
PausedUnanswered ==
    /\ exec = "running" => pause \in {"none", "resuming"}
    /\ exec = "running" => \A f \in waiting : filled[f] = None
    /\ \A f \in done : filled[f] # None

IInv ==
    /\ TypeOK /\ LockedIsWaiting /\ FilledIsClosed /\ OnlyLateMarked
    /\ PausedUnanswered /\ ResumedByAnswers /\ BranchIsJustified

\* Init => IInv.
LEMMA InitInvariant == Init => IInv
BY ApprovalAssumption DEF Init, AtRest, IInv, TypeOK, LockedIsWaiting, FilledIsClosed, OnlyLateMarked,
    PausedUnanswered, ResumedByAnswers, BranchIsJustified

-----------------------------------------------------------------------------
USE DEF formVars, runVars, vars

\* IInv /\ [Next]_vars => IInv', one step per action.
LEMMA StepInvariant == IInv /\ [Next]_vars => IInv'
  <1> SUFFICES ASSUME IInv, [Next]_vars PROVE IInv'
    OBVIOUS
  <1> USE ApprovalAssumption DEF IInv, TypeOK, LockedIsWaiting, FilledIsClosed, OnlyLateMarked,
        PausedUnanswered, ResumedByAnswers, BranchIsJustified
  <1>1. ASSUME NEW f \in Forms, VisitNode(f) PROVE IInv'
    BY <1>1 DEF VisitNode, Outcome
  <1>2. ASSUME NEW f \in Forms, NEW a \in Actions, LockForm(f, a) PROVE IInv'
    BY <1>2 DEF LockForm, Submittable
  <1>3. ASSUME NEW f \in Forms, CommitSubmit(f) PROVE IInv'
    BY <1>3 DEF CommitSubmit
  <1>4. ASSUME NEW f \in Forms, AbortSubmit(f) PROVE IInv'
    BY <1>4 DEF AbortSubmit
  <1>5. ASSUME NEW f \in Forms, TimePasses(f) PROVE IInv'
    BY <1>5 DEF TimePasses
  <1>6. ASSUME SavePause PROVE IInv'
    BY <1>6 DEF SavePause
  <1>7. ASSUME EndRun PROVE IInv'
    BY <1>7 DEF EndRun
  <1>8. ASSUME ClaimResume PROVE IInv'
    BY <1>8 DEF ClaimResume
  <1>9. ASSUME ScanLists PROVE IInv'
    BY <1>9 DEF ScanLists, AtRest
  <1>10. ASSUME NEW f \in Forms, ScanReads(f) PROVE IInv'
    <2>1. UNCHANGED <<formVars, runVars, errors>>
      BY <1>10 DEF ScanReads
    <2>2. /\ scan'.list \subseteq scan.list /\ scan'.at \subseteq scan.list \cup scan.at
          /\ scan' \in [pc : {"idle", "listed", "marking"}, list : SUBSET Forms,
                        at : SUBSET Forms, out : SUBSET Forms]
      <3>1. CASE status[f] = "waiting"
        <4>1. scan' = [scan EXCEPT !.pc = "marking", !.list = @ \ {f}, !.at = {f}]
          BY <1>10, <3>1 DEF ScanReads
        <4>2. scan' = [pc |-> "marking", list |-> scan.list \ {f}, at |-> {f}, out |-> scan.out]
          BY <4>1
        <4> QED
          BY <1>10, <4>2 DEF ScanReads
      <3>2. CASE status[f] # "waiting"
        <4> DEFINE marked == IF status[f] = "timeout" THEN scan.out \cup {f} ELSE scan.out
        <4>1. scan' = [scan EXCEPT !.list = @ \ {f}, !.out = marked]
          BY <1>10, <3>2 DEF ScanReads
        <4>2. marked \subseteq Forms
          OBVIOUS
        <4> HIDE DEF marked
        <4>3. scan' = [pc |-> scan.pc, list |-> scan.list \ {f}, at |-> scan.at, out |-> marked]
          BY <4>1
        <4> QED
          BY <4>2, <4>3
      <3> QED
        BY <3>1, <3>2
    <2> QED
      BY <2>1, <2>2
  <1>11. ASSUME NEW f \in Forms, ScanMarks(f) PROVE IInv'
    <2>1. /\ UNCHANGED <<late, tx, filled, runVars, errors>>
          /\ status' = [status EXCEPT ![f] = "timeout"]
          /\ tx[f] = None /\ late[f]
      BY <1>11 DEF ScanMarks
    <2>2. /\ scan'.list = scan.list /\ scan'.at = {}
          /\ scan' \in [pc : {"idle", "listed", "marking"}, list : SUBSET Forms,
                        at : SUBSET Forms, out : SUBSET Forms]
      <3>1. scan' = [scan EXCEPT !.pc = "listed", !.at = {}, !.out = @ \cup {f}]
        BY <1>11 DEF ScanMarks
      <3>2. scan' = [pc |-> "listed", list |-> scan.list, at |-> {}, out |-> scan.out \cup {f}]
        BY <3>1
      <3> QED
        BY <3>2
    <2>3. TypeOK'
      BY <2>1, <2>2
    <2>4. OnlyLateMarked'
      BY <2>1, <2>2
    <2>5. LockedIsWaiting' /\ FilledIsClosed'
      BY <2>1
    <2>6. PausedUnanswered' /\ ResumedByAnswers' /\ BranchIsJustified'
      BY <2>1
    <2> QED
      BY <2>3, <2>4, <2>5, <2>6
  <1>12. ASSUME ScanFails PROVE IInv'
    BY <1>12 DEF ScanFails, AtRest
  <1>13. ASSUME NEW f \in Forms, ScanResumes(f) PROVE IInv'
    BY <1>13 DEF ScanResumes, AtRest
  <1>14. ASSUME ScanEnds PROVE IInv'
    BY <1>14 DEF ScanEnds, AtRest
  <1>15. CASE UNCHANGED vars
    BY <1>15
  <1> QED
    BY <1>1, <1>2, <1>3, <1>4, <1>5, <1>6, <1>7, <1>8, <1>9, <1>10, <1>11, <1>12, <1>13, <1>14, <1>15 DEF Next, Scan

-----------------------------------------------------------------------------
(* Theorems.                                                                *)

\* The inductive invariant holds in every reachable state.
LEMMA Invariant == Spec => []IInv
BY InitInvariant, StepInvariant, PTL DEF Spec

\* Every reachable state is well typed; in particular only forms of the open pause
\* are ever counted as completed.
THEOREM TypeCorrect == Spec => []TypeOK
BY Invariant, PTL DEF IInv

\* A pause becomes resumable, and is resumed, only when each of its forms has a
\* stored result, whatever the timeout scan does.
THEOREM ResumedByAnswersAlways == Spec => []ResumedByAnswers
BY Invariant, PTL DEF IInv

\* Every branch an approval node takes is justified by its form.
THEOREM BranchJustifiedAlways == Spec => []BranchIsJustified
BY Invariant, PTL DEF IInv

\* The first submission stands: the row lock and the check under it exclude every
\* second one, also after a timeout was written over the form.
THEOREM FirstSubmissionAlways == Spec => FirstSubmissionStands
  <1>1. IInv /\ [Next]_vars => [\A f \in Forms : filled[f] # None => filled'[f] = filled[f]]_vars
    <2> SUFFICES ASSUME IInv, Next, NEW f \in Forms, filled[f] # None
                 PROVE  filled'[f] = filled[f]
      OBVIOUS
    <2>1. ASSUME NEW g \in Forms, CommitSubmit(g) PROVE filled'[f] = filled[f]
      BY <2>1 DEF CommitSubmit, IInv, TypeOK, LockedIsWaiting, FilledIsClosed
    <2>2. CASE ~\E g \in Forms : CommitSubmit(g)
      BY <2>2 DEF Next, Scan, VisitNode, LockForm, AbortSubmit, TimePasses, SavePause, EndRun,
            ClaimResume, ScanLists, ScanReads, ScanMarks, ScanFails, ScanResumes, ScanEnds
    <2> QED
      BY <2>1, <2>2
  <1> QED
    BY <1>1, Invariant, PTL DEF Spec, FirstSubmissionStands

=============================================================================
