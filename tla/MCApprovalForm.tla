--------------------------- MODULE MCApprovalForm ---------------------------
(* Two approval nodes with two actions each, set up by the cfg files.      *)
EXTENDS ApprovalForm
=============================================================================
