------------------------------- MODULE MCQuota ------------------------------
(***************************************************************************)
(* Accounts for checking Quota with TLC: the configurations give every     *)
(* constant a literal value.                                               *)
(***************************************************************************)
EXTENDS Quota, TLC
=============================================================================
