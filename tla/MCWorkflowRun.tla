--------------------------- MODULE MCWorkflowRun ---------------------------
(***************************************************************************)
(* Instances of WorkflowRun for TLC: a run with a conversation or without  *)
(* one, whose pauses wait for questions, for approvals or for both.        *)
(***************************************************************************)
EXTENDS WorkflowRun

BothReasons == {"question", "approval"}
Questions == {"question"}
Approvals == {"approval"}
=============================================================================
