---------------------------- MODULE MCRelayQuota ----------------------------
(* RelayQuota on small budgets. *)
EXTENDS RelayQuota

NoBudgetOrThree == {NoAllowance, 3}
=============================================================================
