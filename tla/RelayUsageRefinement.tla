-------------------------- MODULE RelayUsageRefinement --------------------------
(***************************************************************************)
(* The metering of RelayUsage implements UsageLedger.                      *)
(***************************************************************************)
EXTENDS RelayUsage

(* The bytes of account a in a set of items, each by itself. *)
BytesOf(items, a) ==
    UNION {{u} \X (1..u.bytes) : u \in {u \in items : u.account = a}}

Total(items, a) == Cardinality(BytesOf(items, a))

(* What the next start would find. *)
OnDisk ==
    IF Corrupt(file) THEN {}
    ELSE UNION {Replay(file, n) : n \in {n \in Numbers(file) : IsAckOf(file, n)}}

Recorded == \E f \in Flushers : stage[f] = "recorded"

(* Recorded usage stays in its meter until it is subtracted. *)
Volatile == [a \in Accounts |->
                pending[a] - (IF Recorded THEN TakenOf(a) ELSE 0)]

Durable == [a \in Accounts |->
               Total((IF process = "up" THEN unacked ELSE OnDisk) \ ingested, a)]

Billed == [a \in Accounts |-> Total(ingested, a)]

L == INSTANCE UsageLedger WITH running <- process = "up", volatile <- Volatile,
                               durable <- Durable, billed <- Billed

(* Metering keeps the ledger's promise: every relayed byte is billed at    *)
(* most once, and a byte that record_items reported as written is never    *)
(* lost (lib.rs, flush_pending_relay_usage_to_wal and RelayUsageWal).      *)
UsageIsLedger == L!Ledger

(* Whatever fails but the machine's power, even an append inside a line or *)
(* the reopening of a compacted log, no byte is billed, waiting to be      *)
(* billed and counted more often than it was relayed.  (open does not sync *)
(* what it replays, so a power loss after a restart can take away a line   *)
(* that was already reported, and leave the older attempt it replaced.)    *)
NeverOverbilled ==
    \A a \in Accounts : Billed[a] + Durable[a] + Volatile[a] <= relayed[a]

(* "Pending billable usage ... is retained until the normal WAL flush path *)
(* durably records it" (lib.rs:1282): what counts as recorded is still     *)
(* there after the next start.                                             *)
RecordedIsKept ==
    [][\A a \in Accounts : Durable'[a] + Billed'[a] >= Durable[a] + Billed[a]]_vars
=============================================================================
