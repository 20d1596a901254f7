---------------------------- MODULE ApprovalForm ----------------------------
(***************************************************************************)
(* The approval forms of one workflow run (runtime protocol 2): approval   *)
(* nodes create them and pause the run, recipients submit them, the timeout*)
(* scan closes the expired ones, and a resumed node takes the branch its   *)
(* form calls for (approval/service.go, approval/tasks.go,                 *)
(* nodes/approval/node.go).                                                *)
(*                                                                         *)
(* The pause and its claim are those of module WorkflowRun, seen from the  *)
(* forms: which forms the open pause waits for and which were completed.   *)
(***************************************************************************)
EXTENDS Naturals, FiniteSets

CONSTANTS
    Forms,         \* the approval nodes of the run, one form each
    Actions,       \* the actions a recipient can choose
    Expired,       \* ActionExpired, the reserved branch
    None,          \* no action, no branch
    MaxErrors      \* bound on database errors met by the timeout scan

ASSUME ApprovalAssumption ==
    /\ Expired \notin Actions /\ None \notin Actions /\ Expired # None
    /\ MaxErrors \in Nat

VARIABLES
    status,        \* status[f]: workflow_approval_forms.status ("none": no row)
    late,          \* late[f]: the time is after expiration_time
    tx,            \* tx[f]: the action of the submit transaction holding f's row lock
    filled,        \* filled[f]: the action of the stored approval_result_filled event
    pause,         \* status of the open pause, "none" when there is none
    asks, done,    \* the forms the open pause waits for; those completed
    exec,          \* "running", "off" while the run is paused, "over"
    waiting,       \* approval nodes that returned PAUSED in this execution
    branch,        \* branch[f]: the edge handle the node of f took
    scan,          \* the timeout scan: its step, the forms still listed, the form
                   \* it has read as waiting, the forms it has timed out
    errors         \* database errors so far

formVars == <<status, late, tx, filled>>
runVars  == <<pause, asks, done, exec, waiting, branch>>
vars     == <<formVars, runVars, scan, errors>>

AtRest == [pc |-> "idle", list |-> {}, at |-> {}, out |-> {}]

Init ==
    /\ status = [f \in Forms |-> "none"]
    /\ late = [f \in Forms |-> FALSE]
    /\ tx = [f \in Forms |-> None]
    /\ filled = [f \in Forms |-> None]
    /\ pause = "none" /\ asks = {} /\ done = {}
    /\ exec = "running" /\ waiting = {}
    /\ branch = [f \in Forms |-> None]
    /\ scan = AtRest
    /\ errors = 0

-----------------------------------------------------------------------------
(* The approval node.                                                       *)

\* Faulty variant: a form nobody submitted counts as expired.
UnsubmittedExpires(f) == IF status[f] = "submitted" THEN filled[f] ELSE Expired

\* What executeRun makes of the form: the expired branch is looked at first.
Outcome(f) ==
    IF status[f] = "timeout" \/ late[f] THEN Expired
    ELSE IF status[f] = "submitted" THEN filled[f]
    ELSE None

\* CreateOrGetRuntimeForm inserts the form and the node pauses; or the row is
\* found, and the node takes a branch or pauses again.
VisitNode(f) ==
    /\ exec = "running"
    /\ branch[f] = None /\ f \notin waiting
    /\ status' = [status EXCEPT ![f] = IF @ = "none" THEN "waiting" ELSE @]
    /\ branch' = [branch EXCEPT ![f] = Outcome(f)]
    /\ waiting' = IF Outcome(f) = None THEN waiting \cup {f} ELSE waiting
    /\ UNCHANGED <<late, tx, filled, pause, asks, done, exec, scan, errors>>

\* Faulty variant: the completed reasons of the previous pause are kept.
SaveKeepsDone ==
    /\ exec = "running" /\ waiting # {}
    /\ pause' = "paused" /\ asks' = waiting
    /\ exec' = "off"
    /\ UNCHANGED <<formVars, done, waiting, branch, scan, errors>>

\* The execution has nothing left to run: the pause it resumed is closed and a
\* new one is saved with a reason for every paused node.
SavePause ==
    /\ exec = "running" /\ waiting # {}
    /\ pause' = "paused" /\ asks' = waiting /\ done' = {}
    /\ exec' = "off"
    /\ UNCHANGED <<formVars, waiting, branch, scan, errors>>

\* The run ends: it succeeds, fails, is stopped, or loses its lease.
EndRun ==
    /\ exec # "over"
    /\ exec' = "over" /\ pause' = "none"
    /\ UNCHANGED <<formVars, asks, done, waiting, branch, scan, errors>>

\* ClaimResume by the submitting handler or a queued task.
ClaimResume ==
    /\ pause = "resume_ready"
    /\ pause' = "resuming"
    /\ exec' = "running" /\ waiting' = {}
    /\ UNCHANGED <<formVars, asks, done, branch, scan, errors>>

-----------------------------------------------------------------------------
(* A submission: one transaction, under the lock of the form's row.         *)

\* Faulty variant: only the time is looked at.
NotLate(f) == status[f] # "none" /\ ~late[f]

\* ensureFormSubmittable.
Submittable(f) == status[f] = "waiting" /\ ~late[f]

LockForm(f, a) ==
    /\ tx[f] = None
    /\ Submittable(f)
    /\ tx' = [tx EXCEPT ![f] = a]
    /\ UNCHANGED <<status, late, filled, runVars, scan, errors>>

\* Faulty variant: one submission makes the pause resumable.
FirstSubmitReady(f) ==
    /\ tx[f] # None
    /\ pause # "none" /\ f \in asks
    /\ status' = [status EXCEPT ![f] = "submitted"]
    /\ filled' = [filled EXCEPT ![f] = tx[f]]
    /\ done' = done \cup {f}
    /\ pause' = IF pause = "paused" THEN "resume_ready" ELSE pause
    /\ tx' = [tx EXCEPT ![f] = None]
    /\ UNCHANGED <<late, asks, exec, waiting, branch, scan, errors>>

\* The open pause waits for f: the result is stored and f's reason completed;
\* with the last reason the pause becomes resumable.
CommitSubmit(f) ==
    /\ tx[f] # None
    /\ pause # "none" /\ f \in asks
    /\ status' = [status EXCEPT ![f] = "submitted"]
    /\ filled' = [filled EXCEPT ![f] = tx[f]]
    /\ done' = done \cup {f}
    /\ pause' = IF asks \subseteq done' /\ pause = "paused" THEN "resume_ready" ELSE pause
    /\ tx' = [tx EXCEPT ![f] = None]
    /\ UNCHANGED <<late, asks, exec, waiting, branch, scan, errors>>

\* ErrRuntimePauseNotReady, another error, or the handler dies: a rollback.
AbortSubmit(f) ==
    /\ tx[f] # None
    /\ tx' = [tx EXCEPT ![f] = None]
    /\ UNCHANGED <<status, late, filled, runVars, scan, errors>>

-----------------------------------------------------------------------------
(* The timeout scan.                                                        *)

TimePasses(f) ==
    /\ status[f] # "none" /\ ~late[f]
    /\ late' = [late EXCEPT ![f] = TRUE]
    /\ UNCHANGED <<status, tx, filled, runVars, scan, errors>>

\* TimeoutExpiredForms lists the waiting forms past their time.
ScanLists ==
    LET due == {f \in Forms : status[f] = "waiting" /\ late[f]}
    IN /\ scan.pc = "idle" /\ due # {}
       /\ scan' = [AtRest EXCEPT !.pc = "listed", !.list = due]
    /\ UNCHANGED <<formVars, runVars, errors>>

\* MarkTimedOut reads a form without a lock ...
ScanReads(f) ==
    /\ scan.pc = "listed" /\ f \in scan.list
    /\ scan' = IF status[f] = "waiting"
               THEN [scan EXCEPT !.pc = "marking", !.list = @ \ {f}, !.at = {f}]
               ELSE [scan EXCEPT !.list = @ \ {f},
                                 !.out = IF status[f] = "timeout" THEN @ \cup {f} ELSE @]
    /\ UNCHANGED <<formVars, runVars, errors>>

\* ... and updates it by its id, when no transaction holds the row.
ScanMarks(f) ==
    /\ scan.pc = "marking" /\ f \in scan.at
    /\ tx[f] = None
    /\ status' = [status EXCEPT ![f] = "timeout"]
    /\ scan' = [scan EXCEPT !.pc = "listed", !.at = {}, !.out = @ \cup {f}]
    /\ UNCHANGED <<late, tx, filled, runVars, errors>>

\* Any error ends the scan; forms it has marked are not resumed by it.
ScanFails ==
    /\ scan.pc # "idle" /\ errors < MaxErrors
    /\ errors' = errors + 1
    /\ scan' = AtRest
    /\ UNCHANGED <<formVars, runVars>>

\* Faulty variant: the scan tries again until the pause can be claimed.
ScanInsists(f) ==
    /\ scan.pc = "listed" /\ scan.list = {} /\ f \in scan.out
    /\ pause = "resume_ready"
    /\ pause' = "resuming"
    /\ exec' = "running" /\ waiting' = {}
    /\ scan' = [scan EXCEPT !.out = @ \ {f}]
    /\ UNCHANGED <<formVars, asks, done, branch, errors>>

\* onTimeout for a timed out form is ResumeApprovalWorkflow: it needs the open
\* pause's outbox row, which only completed reasons write, and then the claim.
\* Without it the handler returns the error and leaves the other forms.
ScanResumes(f) ==
    /\ scan.pc = "listed" /\ scan.list = {} /\ f \in scan.out
    /\ IF pause = "resume_ready"
       THEN /\ pause' = "resuming"
            /\ exec' = "running" /\ waiting' = {}
            /\ scan' = [scan EXCEPT !.out = @ \ {f}]
       ELSE scan' = AtRest /\ UNCHANGED <<pause, exec, waiting>>
    /\ UNCHANGED <<formVars, asks, done, branch, errors>>

ScanEnds ==
    /\ scan.pc = "listed" /\ scan.list = {} /\ scan.out = {}
    /\ scan' = AtRest
    /\ UNCHANGED <<formVars, runVars, errors>>

Scan ==
    \/ ScanLists \/ ScanFails \/ ScanEnds
    \/ \E f \in Forms : ScanReads(f) \/ ScanMarks(f) \/ ScanResumes(f)

Next ==
    \/ \E f \in Forms :
        \/ VisitNode(f)
        \/ \E a \in Actions : LockForm(f, a)
        \/ CommitSubmit(f) \/ AbortSubmit(f)
        \/ TimePasses(f)
    \/ SavePause \/ EndRun \/ ClaimResume
    \/ Scan

\* Time passes, transactions end, executions come to their pause or their end,
\* the queue claims, and the scan is periodic; nobody has to submit.
Fairness ==
    /\ \A f \in Forms :
        /\ WF_vars(VisitNode(f)) /\ WF_vars(TimePasses(f))
        /\ WF_vars(CommitSubmit(f) \/ AbortSubmit(f))
    /\ WF_vars(SavePause) /\ WF_vars(ClaimResume)
    /\ WF_vars(Scan)

Spec == Init /\ [][Next]_vars /\ Fairness

-----------------------------------------------------------------------------
(* Properties.                                                              *)

\* Type correctness of forms, pause and scan.
TypeOK ==
    /\ status \in [Forms -> {"none", "waiting", "submitted", "timeout"}]
    /\ late \in [Forms -> BOOLEAN]
    /\ tx \in [Forms -> Actions \cup {None}] /\ filled \in [Forms -> Actions \cup {None}]
    /\ pause \in {"none", "paused", "resume_ready", "resuming"}
    /\ asks \subseteq Forms /\ done \subseteq asks /\ waiting \subseteq Forms
    /\ exec \in {"running", "off", "over"}
    /\ branch \in [Forms -> Actions \cup {None, Expired}]
    /\ scan \in [pc : {"idle", "listed", "marking"}, list : SUBSET Forms,
                at : SUBSET Forms, out : SUBSET Forms]
    /\ errors \in 0 .. MaxErrors

\* A run is resumed only on the recipients' answers: whatever the scan marks and
\* tries to resume, every form of a resumable pause has its stored result, and
\* every stored result belongs to a completed reason or to a node behind the pause.
ResumedByAnswers ==
    /\ pause \in {"resume_ready", "resuming"} => \A f \in asks : filled[f] # None
    /\ \A f \in Forms : filled[f] # None /\ pause \in {"paused", "resume_ready"} /\ f \in asks
                            => f \in done

\* An action branch is taken only for the result that was stored and shown, and
\* the expired branch only after the form's time: a node never invents a decision.
BranchIsJustified ==
    \A f \in Forms :
        /\ branch[f] \in Actions => filled[f] = branch[f]
        /\ branch[f] = Expired => late[f]

\* A stored result is never replaced by another one: two recipients, or a late
\* replay, cannot change what the first submission decided.
FirstSubmissionStands ==
    [][\A f \in Forms : filled[f] # None => filled'[f] = filled[f]]_vars

\* No form waits for ever: it is submitted, timed out, or its run ends, also when
\* transactions roll back and scans fail half way.
FormsAreClosed ==
    \A f \in Forms : status[f] = "waiting" ~> status[f] # "waiting" \/ exec = "over"

\* What the expired form's page says: the flow continues through the timeout branch.
ExpiredContinues ==
    \A f \in Forms : status[f] = "timeout" ~> branch[f] = Expired \/ exec = "over"
=============================================================================
