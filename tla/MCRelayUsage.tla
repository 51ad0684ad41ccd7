------------------------------ MODULE MCRelayUsage ------------------------------
(* Bounded instances of RelayUsage: two accounts of which one is charged   *)
(* again after a flush.                                                    *)
EXTENDS RelayUsageRefinement

MCMaxRelayed == [a \in Accounts |-> IF a = 1 THEN 2 ELSE 1]
=============================================================================
