------------------------------ MODULE UsageLedger ------------------------------
(***************************************************************************)
(* What metering relayed bytes promises, without files, numbers or         *)
(* messages.  A byte is first only counted in memory; recording makes it   *)
(* durable; the Platform bills it.  Bytes move only in that direction,     *)
(* each of them once, and the only ones that can be lost are those that    *)
(* were not durable when the Gateway stopped.                              *)
(***************************************************************************)
EXTENDS Integers

CONSTANT Accounts

VARIABLES running, volatile, durable, billed

ledger == <<running, volatile, durable, billed>>

Zero == [a \in Accounts |-> 0]

LedgerInit ==
    /\ running = TRUE
    /\ volatile = Zero
    /\ durable = Zero
    /\ billed = Zero

(* One relayed byte. *)
Count(a) ==
    /\ running
    /\ volatile' = [volatile EXCEPT ![a] = @ + 1]
    /\ UNCHANGED <<running, durable, billed>>

(* Bytes counted in memory become durable. *)
Record ==
    /\ running
    /\ \A a \in Accounts :
          /\ volatile'[a] \in 0..volatile[a]
          /\ volatile'[a] + durable'[a] = volatile[a] + durable[a]
    /\ UNCHANGED <<running, billed>>

(* Durable bytes are billed. *)
Bill ==
    /\ \A a \in Accounts :
          /\ durable'[a] \in 0..durable[a]
          /\ durable'[a] + billed'[a] = durable[a] + billed[a]
    /\ UNCHANGED <<running, volatile>>

(* The Gateway stops.  Memory is gone; a record that was being written may *)
(* have become durable.                                                    *)
Stop ==
    /\ running
    /\ running' = FALSE
    /\ volatile' = Zero
    /\ \A a \in Accounts : durable'[a] \in durable[a]..(durable[a] + volatile[a])
    /\ UNCHANGED billed

Start ==
    /\ ~running
    /\ running' = TRUE
    /\ UNCHANGED <<volatile, durable, billed>>

LedgerNext == (\E a \in Accounts : Count(a)) \/ Record \/ Bill \/ Stop \/ Start

Ledger == LedgerInit /\ [][LedgerNext]_ledger
=============================================================================
