------------------------------ MODULE RelayQuota ------------------------------
(***************************************************************************)
(* The relay budget of one Tunnel: RelayQuotaLimiter in                    *)
(* crates/tp-gateway/src/lib.rs and the Platform frames that move it       *)
(* (apps/lantunnel-gateway/src/gateway_control.rs).                        *)
(*                                                                         *)
(* The Gateway takes a byte off its local remainder before it forwards it, *)
(* puts it back if it could not be forwarded, and reports it later.  The   *)
(* Platform's remainder, which a snapshot brings, knows reported bytes     *)
(* only; last_platform_remaining is what the Gateway expects it to be.     *)
(* The log is reduced to numbered items here: RelayUsage has its failures. *)
(***************************************************************************)
EXTENDS Integers, Sequences, FiniteSets, Functions, SequencesExt

CONSTANTS
    LastPeriod,     \* bound: billing months
    Allowances,     \* what the Platform may grant: bytes, 0 for no limit, or
                    \* NoAllowance, when its snapshots hold no budget
    MaxItems,       \* MAX_USAGE_ITEMS of one report
    MaxSpent,       \* bound: bytes relayed in all
    MaxInFlight,    \* bound: bytes being forwarded, and frames each way
    MaxChanges,     \* bound: events of Changes
    Changes         \* which of ChangeKinds may happen

Periods == 1..LastPeriod
NoAllowance == -1
NoLimit == -1

ChangeKinds == {"grow",      \* the Platform grants more
                "lower",     \* ... or less, or a limit where there was none
                "unlimit",   \* ... or lifts the limit with a quota of zero
                "withdraw",  \* ... or stops sending a budget
                "month",     \* the month ends
                "link",      \* the control connection breaks
                "ack",       \* the log refuses an acknowledgement
                "restart"}   \* the Gateway process is restarted

ASSUME QuotaAssumption ==
    /\ LastPeriod \in Nat \ {0}
    /\ Allowances \subseteq Nat \cup {NoAllowance}
    /\ MaxItems \in Nat \ {0}
    /\ {MaxSpent, MaxInFlight, MaxChanges} \subseteq Nat
    /\ Changes \subseteq ChangeKinds

VARIABLES
    meter,       \* RelayQuotaState without its pending usage
    pending,     \* pending_usage_by_period
    forwarding,  \* bytes taken off the remainder and not yet settled
    log,         \* the usage log: by item, the bytes of each month recorded up to it
    acked,       \* how many of them are acknowledged
    session,     \* the control connection: down, connected, or active
    reports,     \* usage reports on their way to the Platform: through_seq
    frames,      \* acknowledgements and snapshots on their way back
    told,        \* the budget in the last snapshot applied, Nothing before the first
    now,         \* the current month
    allowance,   \* external: what the Platform grants
    billed,      \* external: how many items the Platform has billed
    used,        \* external: billed bytes by month
    spent,       \* bytes relayed by month
    limit,       \* by month: the highest quota told, 0 before the first
    carried,     \* by month: bytes under way when its budget came in
    exposed,     \* by month: bytes unacknowledged at a restart or a lost link
    changes      \* events of Changes so far

meterVars    == <<meter, pending, forwarding>>
logVars      == <<log, acked>>
linkVars     == <<session, reports, frames>>
platformVars == <<now, allowance, billed, used>>
vars == <<meterVars, logVars, linkVars, platformVars, told, spent, limit, carried,
          exposed, changes>>
historyVars == <<spent, limit, carried, exposed>>

Budgets == [period : Periods \cup {0}, quota : Nat, remaining : Nat]
Absent  == [period |-> 0, quota |-> 0, remaining |-> 0]
Nothing == [period |-> 0, quota |-> 0, remaining |-> 1]
Totals  == [Periods -> Nat]
Meters  == [period : Periods \cup {0}, quota : Nat, remaining : Nat, last : Nat]
AckOf(n)      == [type |-> "ack", through |-> n, budget |-> Absent]
SnapshotOf(b) == [type |-> "snapshot", through |-> 0, budget |-> b]

TypeOK ==
    /\ meter \in Meters /\ meter.remaining <= meter.quota
    /\ pending \in [Periods -> Nat]
    /\ forwarding \in 0..MaxInFlight
    /\ log \in Seq(Totals)
    /\ acked \in 0..Len(log) /\ billed \in acked..Len(log)
    /\ session \in {"down", "connected", "active"}
    /\ \A i \in 1..Len(reports) : reports[i] \in 1..Len(log)
    /\ \A i \in 1..Len(frames) :
          \/ \E n \in 1..billed : frames[i] = AckOf(n)
          \/ \E b \in {frames[i].budget} : b \in Budgets /\ frames[i] = SnapshotOf(b)
    /\ told \in Budgets
    /\ now \in Periods
    /\ allowance \in Allowances
    /\ {used, spent, carried, exposed} \subseteq [Periods -> Nat]
    /\ limit \in [Periods -> Nat \cup {NoLimit}]
    /\ changes \in 0..MaxChanges

Lower(a, b)  == IF a < b THEN a ELSE b
Higher(a, b) == IF a < b THEN b ELSE a

(* saturating_sub; saturating_add never saturates below 2^64 bytes. *)
Minus(a, b) == IF a < b THEN 0 ELSE a - b

(* new_unlimited_usage_meter. *)
UnlimitedMeter(p) == [period |-> p, quota |-> 0, remaining |-> 0, last |-> 0]

Init ==
    /\ meter = UnlimitedMeter(1)
    /\ pending = [p \in Periods |-> 0]
    /\ forwarding = 0
    /\ log = <<>> /\ acked = 0
    /\ session = "down" /\ reports = <<>> /\ frames = <<>>
    /\ told = Nothing
    /\ now = 1
    /\ allowance \in Allowances
    /\ billed = 0
    /\ used = [p \in Periods |-> 0]
    /\ spent = [p \in Periods |-> 0]
    /\ limit = [p \in Periods |-> 0]
    /\ carried = [p \in Periods |-> 0]
    /\ exposed = [p \in Periods |-> 0]
    /\ changes = 0

Change(kind) ==
    /\ kind \in Changes
    /\ changes < MaxChanges
    /\ changes' = changes + 1

-----------------------------------------------------------------------------
(* Relaying: one byte at a time.  A managed Tunnel has no Scope, hence no  *)
(* attachment, before the first snapshot.                                  *)

(* try_consume succeeds; it changes nothing when the budget is used up. *)
TryConsume ==
    /\ told # Nothing
    /\ forwarding < MaxInFlight
    /\ forwarding + SumFunction(spent) < MaxSpent
    /\ meter.quota > 0 => meter.remaining >= 1
    /\ forwarding' = forwarding + 1
    /\ meter' = IF meter.quota = 0 THEN meter
                ELSE [meter EXCEPT !.remaining = @ - 1]
    /\ UNCHANGED <<pending, logVars, linkVars, platformVars, told, historyVars, changes>>

(* commit_usage: the byte was handed to the destination's session.  An     *)
(* unlimited meter counts for the current month, a limited one for the     *)
(* month of its budget.                                                    *)
CommitUsage ==
    LET p == IF meter.quota = 0 THEN now ELSE meter.period
    IN  /\ forwarding > 0
        /\ forwarding' = forwarding - 1
        /\ meter' = [meter EXCEPT !.period = p]
        /\ pending' = [pending EXCEPT ![p] = @ + 1]
        /\ spent' = [spent EXCEPT ![p] = @ + 1]
        /\ UNCHANGED <<logVars, linkVars, platformVars, told, limit, carried, exposed, changes>>

(* refund: the destination's session was full or closed. *)
Refund ==
    /\ forwarding > 0
    /\ forwarding' = forwarding - 1
    /\ meter' = IF meter.quota = 0 THEN meter
                ELSE [meter EXCEPT !.remaining = Lower(@ + 1, meter.quota)]
    /\ UNCHANGED <<pending, logVars, linkVars, platformVars, told, historyVars, changes>>

-----------------------------------------------------------------------------
(* Reporting. *)

(* The bytes of month p in the first n items. *)
Recorded(n, p) == IF n = 0 \/ p \notin Periods THEN 0 ELSE log[n][p]

BytesOf(from, through, p) ==
    IF from < through THEN Recorded(through, p) - Recorded(from, p) ELSE 0

(* snapshot_pending_usage: the months with pending usage, in their order. *)
PendingMonths ==
    LET due == {p \in Periods : pending[p] > 0}
    IN  {months \in [1..Cardinality(due) -> due] :
            /\ ToSet(months) = due
            /\ \A i, j \in DOMAIN months : i < j => months[i] < months[j]}

(* Each of them becomes an item, which has what its totals have over those *)
(* of the item before.                                                     *)
Flush ==
    /\ \E months \in PendingMonths :
          log' = log \o [i \in DOMAIN months |-> [p \in Periods |->
                    Recorded(Len(log), p) + (IF p <= months[i] THEN pending[p] ELSE 0)]]
    /\ pending' = [p \in Periods |-> 0]

(* usage_snapshot: flush, and report a prefix of what is unacknowledged. *)
UsageSnapshot ==
    /\ Flush
    /\ reports' = IF Len(log') > acked
                  THEN Append(reports, Lower(acked + MaxItems, Len(log')))
                  ELSE reports

(* The 60 s tick of an active session. *)
Tick ==
    /\ session = "active"
    /\ Len(reports) + Len(frames) < MaxInFlight
    /\ UsageSnapshot
    /\ UNCHANGED <<meter, forwarding, acked, session, frames, platformVars, told,
                   historyVars, changes>>

(* What the Platform has not acknowledged yet. *)
Outstanding(p) == forwarding + pending[p] + BytesOf(acked, Len(log), p)

(* External: the Platform bills what it has not billed yet and answers. *)
PlatformBills ==
    /\ reports # <<>>
    /\ reports' = Tail(reports)
    /\ billed' = IF Head(reports) > billed THEN Head(reports) ELSE billed
    /\ used' = [p \in Periods |-> used[p] + BytesOf(billed, Head(reports), p)]
    /\ frames' = Append(frames, AckOf(Head(reports)))
    /\ UNCHANGED <<meterVars, logVars, session, now, allowance, told, historyVars, changes>>

(* Mutant of ApplyAck: usage is not marked as reported. *)
ApplyAckUnmarked ==
    /\ frames # <<>> /\ Head(frames).type = "ack"
    /\ acked' = IF Head(frames).through > acked THEN Head(frames).through ELSE acked
    /\ frames' = Tail(frames)
    /\ UNCHANGED <<meterVars, log, session, reports, platformVars, told, historyVars, changes>>

(* mark_usage_reported for what item n newly acknowledges. *)
Marked(n) ==
    [meter EXCEPT !.last = Minus(@, BytesOf(acked, n, meter.period))]

(* apply_usage_ack: usage is marked, then the log acknowledges it.         *)
ApplyAck ==
    /\ frames # <<>> /\ Head(frames).type = "ack"
    /\ LET n == Head(frames).through
       IN  meter' = Marked(n) /\ acked' = IF n > acked THEN n ELSE acked
    /\ frames' = Tail(frames)
    /\ UNCHANGED <<pending, forwarding, log, session, reports, platformVars, told,
                   historyVars, changes>>

-----------------------------------------------------------------------------
(* The Platform's budget. *)

(* External: what a snapshot taken now says. *)
PlatformBudget ==
    IF allowance = NoAllowance THEN Absent
    ELSE [period |-> now, quota |-> allowance,
          remaining |-> Minus(allowance, used[now])]

(* External: snapshots are pushed at any time. *)
PushSnapshot ==
    /\ session # "down"
    /\ Len(reports) + Len(frames) < MaxInFlight
    /\ frames' = Append(frames, SnapshotOf(PlatformBudget))
    /\ UNCHANGED <<meterVars, logVars, session, reports, platformVars, told, historyVars,
                   changes>>

(* The first budget, or the first of a month. *)
IsFresh(b) == meter.period # b.period \/ meter.quota = 0

FreshMeter(b) ==
    [period |-> b.period, quota |-> b.quota,
     remaining |-> Lower(b.remaining, b.quota),
     last |-> Lower(b.remaining, b.quota)]

(* Mutant of Adjusted: the Platform's remainder replaces the local one. *)
Replaced(b) == FreshMeter(b)

(* A new budget for the same month: the local remainder follows the change *)
(* of the quota, then what the Platform's remainder differs from the       *)
(* expected one.                                                           *)
Adjusted(b) ==
    LET platform == Lower(b.remaining, b.quota)
        growth   == Minus(b.quota, meter.quota)
        next     == IF b.quota >= meter.quota THEN meter.remaining + growth
                    ELSE Minus(meter.remaining, meter.quota - b.quota)
        expected == Lower(meter.last, meter.quota) + growth
    IN  [period |-> b.period, quota |-> b.quota, last |-> platform,
         remaining |-> IF platform > expected
                       THEN Lower(next + (platform - expected), platform)
                       ELSE Minus(next, expected - platform)]

(* update. *)
Updated(b) ==
    IF b.period = 0 \/ b.quota = 0 THEN UnlimitedMeter(0)
    ELSE IF IsFresh(b) THEN FreshMeter(b)
    ELSE Adjusted(b)

(* A quota of zero is no limit, for the rest of the month. *)
Raised(old, b) ==
    IF b.quota = 0 \/ old = NoLimit THEN NoLimit ELSE Higher(old, b.quota)

(* A snapshot: only budgets it holds are applied, then usage is reported. *)
ApplySnapshot ==
    /\ frames # <<>> /\ Head(frames).type = "snapshot"
    /\ LET b == Head(frames).budget
       IN  /\ meter' = IF b = Absent THEN meter ELSE Updated(b)
           /\ told' = b
           /\ limit' = [p \in Periods |-> IF p = b.period THEN Raised(limit[p], b) ELSE limit[p]]
           /\ carried' = [p \in Periods |-> IF p = b.period /\ IsFresh(b) /\ told # Nothing
                                           THEN Outstanding(p) ELSE carried[p]]
    /\ UsageSnapshot
    /\ frames' = Tail(frames)
    /\ session' = "active"
    /\ UNCHANGED <<forwarding, acked, platformVars, spent, exposed, changes>>

-----------------------------------------------------------------------------
(* What changes around it. *)

Unlink == session' = "down" /\ reports' = <<>> /\ frames' = <<>>

Expose == exposed' = [p \in Periods |-> exposed[p] + Outstanding(p)]

(* run_forever: the first frame of a session is a snapshot. *)
Connect ==
    /\ session = "down"
    /\ session' = "connected"
    /\ frames' = <<SnapshotOf(PlatformBudget)>>
    /\ UNCHANGED <<meterVars, logVars, reports, platformVars, told, historyVars, changes>>

LinkBreaks ==
    /\ session # "down"
    /\ Change("link")
    /\ Unlink
    /\ Expose
    /\ UNCHANGED <<meterVars, logVars, platformVars, told, spent, limit, carried>>

(* apply_usage_ack when the log cannot write the acknowledgement: usage is *)
(* marked, stays unacknowledged and is marked again when it is reported    *)
(* again; the error ends the connection.  If only the compaction fails,    *)
(* that is ApplyAck and LinkBreaks.                                        *)
AckFails ==
    /\ frames # <<>> /\ Head(frames).type = "ack"
    /\ Change("ack")
    /\ meter' = Marked(Head(frames).through)
    /\ Unlink
    /\ Expose
    /\ UNCHANGED <<pending, forwarding, logVars, platformVars, told, spent, limit, carried>>

(* The meters are lost; a graceful stop flushes what is pending. *)
Restart ==
    /\ Change("restart")
    /\ \/ Flush
       \/ log' = log /\ pending' = [p \in Periods |-> 0]
    /\ meter' = UnlimitedMeter(now)
    /\ forwarding' = 0
    /\ told' = Nothing
    /\ Unlink
    /\ Expose
    /\ UNCHANGED <<acked, platformVars, spent, limit, carried>>

(* External. *)
ChangeAllowance ==
    /\ \E a \in Allowances \ {allowance} :
          /\ Change(CASE a = NoAllowance -> "withdraw" [] a = 0 -> "unlimit"
                      [] a > allowance /\ allowance > 0 -> "grow"
                      [] OTHER -> "lower")
          /\ allowance' = a
    /\ UNCHANGED <<meterVars, logVars, linkVars, now, billed, used, told, historyVars>>

MonthEnds ==
    /\ now + 1 \in Periods
    /\ Change("month")
    /\ now' = now + 1
    /\ UNCHANGED <<meterVars, logVars, linkVars, allowance, billed, used, told, historyVars>>

Next ==
    \/ TryConsume \/ CommitUsage \/ Refund
    \/ Tick \/ PlatformBills \/ ApplyAck
    \/ PushSnapshot \/ ApplySnapshot
    \/ Connect \/ LinkBreaks \/ AckFails \/ Restart
    \/ ChangeAllowance \/ MonthEnds

Spec == Init /\ [][Next]_vars

-----------------------------------------------------------------------------

(* The books balance: what the Gateway may still relay and what it has     *)
(* relayed without the Platform's acknowledgement add up to the remainder  *)
(* it expects the Platform to have, however snapshots, reports and         *)
(* acknowledgements cross each other (update, mark_usage_reported), until  *)
(* a lost connection or a restart leaves usage unacknowledged.  Bytes in   *)
(* flight when a month's budget arrives were taken off the last one.       *)
Balanced ==
    meter.quota > 0 /\ (\A p \in Periods: exposed[p] = 0) =>
        LET sum == meter.remaining + Outstanding(meter.period)
        IN  /\ sum <= meter.last + carried[meter.period]
            /\ carried[meter.period] = 0 => sum = meter.last

(* "A Tunnel that reaches its monthly allowance stops relaying new data    *)
(* through a platform Gateway until the month rolls over or more capacity  *)
(* is bought" (CHANGELOG.md:406).                                          *)
StopsAtAllowance ==
    \A p \in Periods : limit[p] > 0 => spent[p] <= limit[p] + carried[p]

(* A restart or a lost connection lets at most the bytes that were         *)
(* unacknowledged at that moment be relayed beyond the allowance: the      *)
(* correction arithmetic of update never grants more than that, whatever   *)
(* crosses on the wire.                                                    *)
OverrunBounded ==
    \A p \in Periods :
        limit[p] > 0 => spent[p] <= limit[p] + carried[p] + exposed[p]

(* "Absent means "no ceiling"" (gateway_control.rs:217). *)
AbsentMeansUnlimited == told = Absent => meter.quota = 0

(* A budget is Platform-authoritative (lib.rs:1168): with nothing in       *)
(* flight or unacknowledged, the Gateway grants what the Platform said.    *)
PlatformAuthoritative ==
    told = PlatformBudget /\ told # Absent /\ Outstanding(told.period) = 0
        => meter.remaining = told.remaining
=============================================================================
