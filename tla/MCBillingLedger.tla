-------------------------- MODULE MCBillingLedger --------------------------
(* Small instances of the local billing lane, set up by the cfg files.     *)
EXTENDS BillingLedger
=============================================================================
