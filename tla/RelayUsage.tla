------------------------------ MODULE RelayUsage ------------------------------
(***************************************************************************)
(* From a relayed byte to the Platform's books: the meters in memory and   *)
(* their flush (Gateway in crates/tp-gateway/src/lib.rs), the log          *)
(* (RelayUsageWal), the control connection that reports it                 *)
(* (apps/lantunnel-gateway/src/gateway_control.rs) and the flush at        *)
(* shutdown (main.rs).                                                     *)
(*                                                                         *)
(* Two tasks flush: the control task before every report, and main once    *)
(* the shutdown signal arrived, while the control task still runs.  The    *)
(* relay keeps counting bytes during both.                                 *)
(***************************************************************************)
EXTENDS RelayUsageWal

CONSTANTS
    MaxItems,     \* MAX_USAGE_ITEMS of one report
    MaxRelayed,   \* bound: bytes ever relayed, by account
    MaxInFlight,  \* bound: reports and answers on one connection
    MaxFaults,    \* bound: failures and stops
    Faults        \* which of FaultKinds may happen

FaultKinds == {"stop",      \* the shutdown signal arrives
               "kill",      \* the process dies
               "power",     \* the machine does, unsynced bytes may be lost
               "append",    \* an append fails between two lines, or in its sync
               "torn",      \* an append fails inside a line
               "compact",   \* compaction fails before the rename
               "orphan",    \* compaction fails after it
               "link"}      \* the control connection breaks

ASSUME UsageAssumption ==
    /\ MaxItems \in Nat \ {0}
    /\ MaxRelayed \in [Accounts -> Nat]
    /\ MaxInFlight \in Nat
    /\ MaxFaults \in Nat
    /\ Faults \subseteq FaultKinds

VARIABLES
    process,    \* "up", "down", or "refused": the log could not be opened
    pending,    \* RelayQuotaState.pending_usage_by_period of all meters
    stage,      \* where the control task and the shutdown flush stand
    taken,      \* the pending usage snapshot of the flush in progress
    linked,     \* the control connection is up and its session active
    reports,    \* usage_snapshot frames on their way to the Platform
    answers,    \* usage_ack frames on their way back
    ingested,   \* external: what the Platform billed
    relayed,    \* bytes relayed so far, by account
    faults      \* failures and stops so far

linkVars  == <<linked, reports, answers>>
flushVars == <<pending, stage, taken>>
vars == <<walVars, process, flushVars, linkVars, ingested, relayed, faults>>

Flushers == {"control", "main"}
Stages   == {"idle", "taken", "recorded", "flushed", "compacting"}

TypeOK ==
    /\ WalTypeOK
    /\ process \in {"up", "down", "refused"}
    /\ pending \in [Accounts -> Nat]
    /\ stage \in [Flushers -> Stages]
    /\ taken \in Seq(Charges)
    /\ linked \in BOOLEAN
    /\ reports \in Seq(SUBSET Items)
    /\ answers \in Seq(Nat)
    /\ ingested \subseteq Items
    /\ relayed \in [Accounts -> Nat]
    /\ faults \in 0..MaxFaults

Init ==
    /\ WalInit
    /\ process = "up"
    /\ pending = [a \in Accounts |-> 0]
    /\ stage = [f \in Flushers |-> "idle"]
    /\ taken = <<>>
    /\ linked = FALSE
    /\ reports = <<>>
    /\ answers = <<>>
    /\ ingested = {}
    /\ relayed = [a \in Accounts |-> 0]
    /\ faults = 0

Fault(kind) ==
    /\ kind \in Faults
    /\ faults < MaxFaults
    /\ faults' = faults + 1

Goto(f, s) == stage' = [stage EXCEPT ![f] = s]

(* run_runtime_connection returns an error, or the socket ends. *)
Unlink == linked' = FALSE /\ reports' = <<>> /\ answers' = <<>>

-----------------------------------------------------------------------------
(* Counting and flushing. *)

(* commit_usage. *)
CommitUsage(a) ==
    /\ process = "up"
    /\ relayed[a] < MaxRelayed[a]
    /\ relayed' = [relayed EXCEPT ![a] = @ + 1]
    /\ pending' = [pending EXCEPT ![a] = @ + 1]
    /\ UNCHANGED <<walVars, process, stage, taken, linkVars, ingested, faults>>

(* Mutant of IsPendingSnapshot: in whatever order the map yields. *)
IsUnsortedSnapshot(s) ==
    /\ \A i \in DOMAIN s : pending[s[i].account] = s[i].bytes
    /\ \A a \in Accounts : pending[a] > 0 => \E i \in DOMAIN s : s[i].account = a

(* snapshot_pending_relay_usage: what is pending, sorted by account. *)
IsPendingSnapshot(s) ==
    /\ \A i \in DOMAIN s : pending[s[i].account] = s[i].bytes
    /\ \A i, j \in DOMAIN s : i < j => s[i].account < s[j].account
    /\ \A a \in Accounts : pending[a] > 0 => \E i \in DOMAIN s : s[i].account = a

PendingCharges ==
    {[account |-> a, bytes |-> pending[a]] : a \in {a \in Accounts : pending[a] > 0}}

FlushLocked == \E f \in Flushers : stage[f] \in {"taken", "recorded"}

(* The control task flushes on its ticks while connected; main once it is  *)
(* shutting down.                                                          *)
TakePending(f) ==
    /\ process = "up"
    /\ stage[f] = "idle"
    /\ ~FlushLocked
    /\ IF f = "main" THEN Fault("stop")
       ELSE /\ linked
            /\ Len(reports) + Len(answers) < MaxInFlight
            /\ UNCHANGED faults
    /\ IF PendingCharges = {}
       THEN /\ Goto(f, "flushed")
            /\ UNCHANGED taken
       ELSE /\ \E s \in [1..Cardinality(PendingCharges) -> PendingCharges] :
                  IsPendingSnapshot(s) /\ taken' = s
            /\ Goto(f, "taken")
    /\ UNCHANGED <<walVars, process, pending, linkVars, ingested, relayed>>

RecordTaken(f) ==
    /\ stage[f] = "taken"
    /\ RecordItems(taken)
    /\ Goto(f, "recorded")
    /\ UNCHANGED <<process, pending, taken, linkVars, ingested, relayed, faults>>

(* The flush returns the error: the control task gives up its connection,  *)
(* main goes on to exit.  Nothing is subtracted.                           *)
RecordTakenFails(f) ==
    /\ stage[f] = "taken"
    /\ \/ Fault("append") /\ RecordItemsFails(taken, FALSE)
       \/ Fault("torn") /\ RecordItemsFails(taken, TRUE)
    /\ taken' = <<>>
    /\ IF f = "control"
       THEN Goto(f, "idle") /\ Unlink
       ELSE Goto(f, "flushed") /\ UNCHANGED linkVars
    /\ UNCHANGED <<process, pending, ingested, relayed>>

TakenOf(a) ==
    IF \E i \in 1..Len(taken) : taken[i].account = a
    THEN taken[CHOOSE i \in 1..Len(taken) : taken[i].account = a].bytes
    ELSE 0

(* The flush takes what it recorded, and no more, off the meters. *)
SubtractTaken(f) ==
    /\ stage[f] = "recorded"
    /\ pending' = [a \in Accounts |->
                      IF pending[a] < TakenOf(a) THEN 0 ELSE pending[a] - TakenOf(a)]
    /\ taken' = <<>>
    /\ Goto(f, "flushed")
    /\ UNCHANGED <<walVars, process, linkVars, ingested, relayed, faults>>

-----------------------------------------------------------------------------
(* Reporting. *)

(* usage_snapshot after its flush, and the send. *)
SendReport ==
    /\ stage["control"] = "flushed"
    /\ Goto("control", "idle")
    /\ reports' = IF linked /\ Batch(MaxItems) # {}
                  THEN Append(reports, Batch(MaxItems)) ELSE reports
    /\ UNCHANGED <<walVars, process, pending, taken, linked, answers, ingested,
                   relayed, faults>>

(* External: the Platform bills each report id (number, account) once and  *)
(* acknowledges the report's prefix.                                       *)
PlatformIngests ==
    /\ reports # <<>>
    /\ reports' = Tail(reports)
    /\ ingested' = ingested \cup
          {u \in Head(reports) : \A d \in ingested :
                                    ~(d.seq = u.seq /\ d.account = u.account)}
    /\ \E u \in Head(reports) :
          /\ \A v \in Head(reports) : v.seq <= u.seq
          /\ answers' = Append(answers, u.seq)
    /\ UNCHANGED <<walVars, process, flushVars, linked, relayed, faults>>

Answering ==
    /\ process = "up"
    /\ stage["control"] = "idle"
    /\ answers # <<>>

(* The prefix is checked against a fresh snapshot. *)
Available(n) ==
    \E t \in {ackThrough} \cup {u.seq : u \in Batch(MaxItems)} :
        IsThrough(Batch(MaxItems), t) /\ n <= t

(* apply_usage_ack: an answer that reaches past the available prefix ends  *)
(* the connection; ack returns at once for a prefix that was acknowledged  *)
(* before.                                                                 *)
ApplyAck ==
    /\ Answering
    /\ IF Available(Head(answers))
       THEN answers' = Tail(answers) /\ UNCHANGED <<linked, reports>>
       ELSE Unlink
    /\ IF Available(Head(answers)) /\ Head(answers) > ackThrough
       THEN AckThrough(Head(answers)) /\ Goto("control", "compacting")
       ELSE UNCHANGED <<walVars, stage>>
    /\ UNCHANGED <<process, pending, taken, ingested, relayed, faults>>

ApplyAckFails ==
    /\ Answering
    /\ Available(Head(answers))
    /\ \/ Fault("append") /\ AckThroughFails(Head(answers), FALSE)
       \/ Fault("torn") /\ AckThroughFails(Head(answers), TRUE)
    /\ Unlink
    /\ UNCHANGED <<process, flushVars, ingested, relayed>>

CompactLog ==
    /\ stage["control"] = "compacting"
    /\ Compact
    /\ Goto("control", "idle")
    /\ UNCHANGED <<process, pending, taken, linkVars, ingested, relayed, faults>>

CompactLogFails ==
    /\ stage["control"] = "compacting"
    /\ \/ Fault("compact") /\ UNCHANGED walVars
       \/ Fault("orphan") /\ CompactOrphans
    /\ Goto("control", "idle")
    /\ Unlink
    /\ UNCHANGED <<process, pending, taken, ingested, relayed>>

-----------------------------------------------------------------------------
(* The connection and the process. *)

(* run_forever reconnects; the session is active once a snapshot came in. *)
Connect ==
    /\ process = "up"
    /\ ~linked
    /\ stage["control"] = "idle"
    /\ linked' = TRUE
    /\ UNCHANGED <<walVars, process, flushVars, reports, answers, ingested,
                   relayed, faults>>

LinkBreaks ==
    /\ linked
    /\ Fault("link")
    /\ Unlink
    /\ UNCHANGED <<walVars, process, flushVars, ingested, relayed>>

ProcessGone ==
    /\ process' = "down"
    /\ pending' = [a \in Accounts |-> 0]
    /\ stage' = [f \in Flushers |-> "idle"]
    /\ taken' = <<>>
    /\ Unlink
    /\ UNCHANGED <<ingested, relayed>>

(* main returns after its flush.  The runtime waits for the control task   *)
(* to reach its next await, so no flush and no acknowledgement is cut off. *)
Exit ==
    /\ process = "up"
    /\ stage["main"] = "flushed"
    /\ stage["control"] \in {"idle", "flushed"}
    /\ ProcessEnds
    /\ ProcessGone
    /\ UNCHANGED faults

Crash ==
    /\ process = "up"
    /\ \/ Fault("kill") /\ ProcessEnds
       \/ Fault("power") /\ PowerFails
    /\ ProcessGone

Restart ==
    /\ process = "down"
    /\ Open
    /\ process' = "up"
    /\ UNCHANGED <<flushVars, linkVars, ingested, relayed, faults>>

(* open returns an error and the Gateway does not start. *)
RestartRefused ==
    /\ process = "down"
    /\ Corrupt(file)
    /\ process' = "refused"
    /\ UNCHANGED <<walVars, flushVars, linkVars, ingested, relayed, faults>>

Flush(f) ==
    TakePending(f) \/ RecordTaken(f) \/ RecordTakenFails(f) \/ SubtractTaken(f)

Next ==
    \/ \E a \in Accounts : CommitUsage(a)
    \/ \E f \in Flushers : Flush(f)
    \/ SendReport \/ PlatformIngests
    \/ ApplyAck \/ ApplyAckFails
    \/ CompactLog \/ CompactLogFails
    \/ Connect \/ LinkBreaks
    \/ Exit \/ Crash \/ Restart \/ RestartRefused

Spec == Init /\ [][Next]_vars

(* The control task runs and reconnects for ever, the Platform answers,    *)
(* the service manager restarts a Gateway that stopped.                    *)
Fairness ==
    /\ \A f \in Flushers : WF_vars(RecordTaken(f) \/ SubtractTaken(f))
    /\ WF_vars(TakePending("control")) /\ WF_vars(SendReport)
    /\ WF_vars(PlatformIngests)
    /\ WF_vars(ApplyAck) /\ WF_vars(CompactLog)
    /\ WF_vars(Connect) /\ WF_vars(Exit) /\ WF_vars(Restart)

FairSpec == Spec /\ Fairness

-----------------------------------------------------------------------------
(* A number names one item for ever: an item still to be reported under a  *)
(* number the Platform has billed is the item it billed, so its            *)
(* deduplication neither bills twice nor swallows new usage, whatever      *)
(* failed, stopped or was sent again in between.                           *)
ReportIdExact ==
    \A u \in unacked, d \in ingested : u.seq = d.seq => u = d

(* No answer to a report of this process is ever refused as reaching past  *)
(* the available prefix, although the snapshot it is checked against is    *)
(* taken anew (gateway_control.rs, apply_usage_ack).                       *)
AckWithinPrefix ==
    /\ \A i \in 1..Len(answers) :
          answers[i] <= ackThrough \/ \E u \in Batch(MaxItems) : answers[i] <= u.seq
    /\ \A i \in 1..Len(reports) : \A r \in reports[i] :
          r.seq <= ackThrough \/ r \in Batch(MaxItems)

(* Usage counted before a stop of the process is either billed in the end  *)
(* or was not yet recorded: with the relay at rest and no more failures,   *)
(* every meter and the log drain.                                          *)
EverythingReported ==
    <>[](unacked = {} /\ \A a \in Accounts : pending[a] = 0)

(* A Gateway that stopped can always start again on its own log            *)
(* ("ignoring partial trailing relay usage WAL record", lib.rs:180).       *)
RestartSucceeds == process # "refused"
=============================================================================
