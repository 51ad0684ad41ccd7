--------------------------- MODULE RelayQuotaProofs ---------------------------
(***************************************************************************)
(* Proofs about RelayQuota, for every allowance, report size and number of *)
(* restarts and lost connections: the books of the Gateway and of the      *)
(* Platform balance, and the allowance is exceeded by no more than what    *)
(* restarts and lost connections left unacknowledged.                      *)
(***************************************************************************)
EXTENDS RelayQuota, FiniteSetTheorems, TLAPS

-----------------------------------------------------------------------------
(* The invariant.                                                          *)

\* The Platform only ever grants more, a quota of zero being the most.
OnlyGrows == "lower" \notin Changes /\ NoAllowance \notin Allowances

IsAck(i)  == frames[i].type = "ack"
IsSnap(i) == frames[i].type = "snapshot"

Frames == [type : {"ack", "snapshot"}, through : Nat, budget : Budgets]

QuotaTypes ==
    /\ meter \in Meters /\ meter.remaining <= meter.quota /\ meter.last <= meter.quota
    /\ meter.quota > 0 => meter.period \in Periods
    /\ pending \in Totals /\ forwarding \in Nat
    /\ log \in Seq(Totals)
    /\ acked \in Nat /\ billed \in Nat /\ acked <= billed /\ billed <= Len(log)
    /\ reports \in Seq(Nat) /\ \A i \in 1..Len(reports) : reports[i] <= Len(log)
    /\ frames \in Seq(Frames)
    /\ told \in Budgets
    /\ now \in Periods /\ allowance \in Nat
    /\ used \in Totals /\ spent \in Totals /\ carried \in Totals /\ exposed \in Totals
    /\ limit \in [Periods -> Nat \cup {NoLimit}]
    /\ session = "down" => reports = <<>> /\ frames = <<>>

\* The log only grows, and the Platform has billed what it has been sent of it.
Books ==
    /\ \A p \in Periods : \A i, j \in 0..Len(log) : i <= j => Recorded(i, p) <= Recorded(j, p)
    /\ \A p \in Periods : used[p] = Recorded(billed, p)

\* Quota b is at least quota a.
Below(a, b) == b = 0 \/ (a > 0 /\ a <= b)

\* Quotas and months only grow, from what has been told over what is on its
\* way to what the Platform now has.
Chain ==
    /\ \A i \in 1..Len(frames) : IsSnap(i) =>
          /\ frames[i].budget.period \in Periods /\ frames[i].budget.period <= now
          /\ Below(frames[i].budget.quota, allowance)
          /\ told # Nothing => Below(meter.quota, frames[i].budget.quota)
          /\ \A p \in Periods : limit[p] # 0 =>
                p <= frames[i].budget.period /\ Below(Higher(limit[p], 0), frames[i].budget.quota)
    /\ \A i, j \in 1..Len(frames) : i < j /\ IsSnap(i) /\ IsSnap(j) =>
          /\ frames[i].budget.period <= frames[j].budget.period
          /\ Below(frames[i].budget.quota, frames[j].budget.quota)
    /\ told # Nothing => Below(meter.quota, allowance)
    /\ \A p \in Periods : limit[p] # 0 => p <= now /\ Below(Higher(limit[p], 0), allowance)

\* What the meter was last told.
Told ==
    /\ told # Nothing =>
          /\ told.period \in Periods
          /\ \A p \in Periods : limit[p] # 0 => p <= told.period
          /\ meter.quota > 0 => meter.period = told.period /\ limit[told.period] = meter.quota
          /\ meter.quota = 0 => limit[told.period] = NoLimit
    /\ \A p \in Periods : spent[p] > 0 /\ limit[p] = 0 =>
          allowance = 0 /\ \A i \in 1..Len(frames) : IsSnap(i) => frames[i].budget.quota = 0

\* The figures of the books: of the meter ...
Month     == meter.period
Quota     == meter.quota
Remaining == meter.remaining
Expected  == meter.last

\* ... of month p ...
Pending(p) == pending[p]
Spent(p)   == spent[p]
Limit(p)   == limit[p]
Carried(p) == carried[p]
Exposed(p) == exposed[p]

\* ... and of month p in the log: all of it, what is acknowledged, what is not,
\* and what is not of the first x items.
Total(p)    == Recorded(Len(log), p)
Acked(p)    == Recorded(acked, p)
Unacked(p)  == BytesOf(acked, Len(log), p)
Ahead(x, p) == BytesOf(acked, x, p)

\* Bytes that were relayed and forgotten in a restart.
Lost(p) == Spent(p) - (Total(p) + Pending(p))

\* A restart or a lost connection has exposed what it lost; until the first
\* budget after a restart nothing is relayed.
Forgotten ==
    /\ \A p \in Periods : Lost(p) >= 0 /\ Lost(p) <= Exposed(p)
    /\ told = Nothing =>
          /\ Quota = 0 /\ forwarding = 0
          /\ \A p \in Periods : Pending(p) = 0 /\ Unacked(p) + Lost(p) <= Exposed(p)

\* x items were billed when the connection was last lost.  Since then an
\* acknowledgement goes out with everything that is billed, so a snapshot that
\* is next was taken when x or what is now acknowledged was billed.
Crossing(x) ==
    /\ x <= billed
    /\ billed \in {x, acked} \/ \E i \in 1..Len(frames) : IsAck(i) /\ frames[i].through = billed
    /\ \A i \in 1..Len(frames) : IsAck(i) => frames[i].through <= billed
    /\ \A i \in 1..Len(frames) : IsSnap(i) =>
          \E n \in 0..billed :
             /\ frames[i].budget.remaining =
                   Minus(frames[i].budget.quota, Recorded(n, frames[i].budget.period))
             /\ acked <= n /\ x <= n
             /\ \A j \in 1..(i - 1) : IsAck(j) => frames[j].through <= n
             /\ n \in {x, acked} \/ \E j \in 1..(i - 1) : IsAck(j) /\ frames[j].through = n

\* What may still be relayed is what the Platform is expected to have left, less
\* what it does not know of.
Within ==
    Quota > 0 => \A p \in Periods : p = Month =>
        /\ Remaining + Outstanding(p) + Lost(p) <= Expected + Carried(p) + Exposed(p)
        /\ Carried(p) = 0 => Expected <= Remaining + Outstanding(p)

\* No month is over its limit by more than what was exposed, less what the
\* Platform has billed and the Gateway does not know of.
Bounded(x) ==
    \A p \in Periods :
        /\ Quota > 0 /\ p = Month =>
              Remaining + forwarding + Spent(p) + Ahead(x, p) <= Quota + Carried(p) + Exposed(p)
        /\ Limit(p) > 0 => Spent(p) + Ahead(x, p) <= Limit(p) + Carried(p) + Exposed(p)

QuotaInv ==
    /\ QuotaTypes /\ Books /\ Chain /\ Told /\ Forgotten /\ Within
    /\ \E x \in 0..Len(log) : Crossing(x) /\ Bounded(x)

-----------------------------------------------------------------------------
(* Facts about the log.                                                    *)

LEMMA RecordedType ==
    ASSUME log \in Seq(Totals), NEW n \in 0..Len(log), NEW p
    PROVE  Recorded(n, p) \in Nat
BY DEF Totals, Recorded

\* What is known of the figures, x being an item of the log.
Figures(p, x) ==
    /\ Pending(p) \in Nat /\ Spent(p) \in Nat /\ Carried(p) \in Nat /\ Exposed(p) \in Nat
    /\ Limit(p) \in Int /\ forwarding \in Nat
    /\ Total(p) \in Nat /\ Acked(p) \in Nat /\ Unacked(p) \in Nat /\ Ahead(x, p) \in Nat
    /\ Unacked(p) = Total(p) - Acked(p)
    /\ Ahead(x, p) <= Unacked(p) /\ Ahead(billed, p) <= Unacked(p) /\ Ahead(billed, p) \in Nat
    /\ Outstanding(p) = forwarding + Pending(p) + Unacked(p) /\ Outstanding(p) \in Nat
    /\ Lost(p) = Spent(p) - (Total(p) + Pending(p)) /\ Lost(p) \in Int

MeterFigures ==
    /\ Quota \in Nat /\ Remaining \in Nat /\ Expected \in Nat
    /\ Remaining <= Quota /\ Expected <= Quota
    /\ Quota > 0 => Month \in Periods

LEMMA HaveMeterFigures == QuotaTypes => MeterFigures
BY DEF QuotaTypes, Meters, MeterFigures, Quota, Remaining, Expected, Month

LEMMA HaveMeterFiguresNext == QuotaTypes' => MeterFigures'
BY HaveMeterFigures, PTL

LEMMA HaveFigures ==
    ASSUME QuotaTypes, Books, NEW p \in Periods, NEW x \in 0..Len(log)
    PROVE  Figures(p, x)
<1>1. /\ log \in Seq(Totals) /\ Len(log) \in Nat
      /\ acked \in 0..Len(log) /\ billed \in 0..Len(log) /\ acked <= billed
      /\ forwarding \in Nat
    BY DEF QuotaTypes
<1>2. ASSUME NEW n \in 0..Len(log)
      PROVE  Recorded(n, p) \in Nat /\ Recorded(n, p) <= Recorded(Len(log), p)
    BY <1>1, RecordedType DEF Books
<1>3. ASSUME NEW n \in 0..Len(log)
      PROVE  /\ BytesOf(acked, n, p) = IF acked <= n THEN Recorded(n, p) - Recorded(acked, p)
                                       ELSE 0
             /\ BytesOf(acked, n, p) \in Nat
             /\ BytesOf(acked, n, p) <= Recorded(Len(log), p) - Recorded(acked, p)
    <2>1. acked < n => Recorded(acked, p) <= Recorded(n, p)
        BY <1>1 DEF Books
    <2> QED
        BY <1>1, <1>2, <2>1 DEF BytesOf
<1>4. /\ Pending(p) \in Nat /\ Spent(p) \in Nat /\ Carried(p) \in Nat /\ Exposed(p) \in Nat
      /\ Limit(p) \in Int
    <2>1. /\ pending \in Totals /\ spent \in Totals /\ carried \in Totals /\ exposed \in Totals
          /\ limit \in [Periods -> Nat \cup {NoLimit}]
        BY DEF QuotaTypes
    <2> QED
        BY <2>1 DEF Totals, NoLimit, Pending, Spent, Carried, Exposed, Limit
<1>5. Total(p) \in Nat /\ Acked(p) \in Nat
    BY <1>1, <1>2 DEF Total, Acked
<1>6. /\ Unacked(p) = Total(p) - Acked(p) /\ Unacked(p) \in Nat /\ Ahead(x, p) \in Nat
      /\ Ahead(x, p) <= Unacked(p) /\ Ahead(billed, p) <= Unacked(p) /\ Ahead(billed, p) \in Nat
    BY <1>1, <1>3 DEF Unacked, Total, Acked, Ahead
<1>7. Outstanding(p) = forwarding + Pending(p) + Unacked(p)
    BY DEF Outstanding, Pending, Unacked
<1>8. Lost(p) = Spent(p) - (Total(p) + Pending(p))
    BY DEF Lost
<1>9. Outstanding(p) \in Nat /\ Lost(p) \in Int
    <2>1. forwarding \in Nat
        BY <1>1
    <2> QED
        BY <2>1, <1>4, <1>5, <1>6, <1>7, <1>8
<1> QED
    BY <1>1, <1>4, <1>5, <1>6, <1>7, <1>8, <1>9 DEF Figures

AllFigures == \A p \in Periods : \A x \in 0..Len(log) : Figures(p, x)

LEMMA HaveAllFigures == QuotaTypes /\ Books => AllFigures
BY HaveFigures DEF AllFigures

LEMMA HaveFiguresNext ==
    ASSUME QuotaTypes', Books', NEW p \in Periods, NEW x \in 0..Len(log')
    PROVE  Figures(p, x)'
<1>1. AllFigures'
    BY HaveAllFigures, PTL
<1> QED
    BY <1>1 DEF AllFigures

\* A log that stays.
LEMMA LogStays ==
    ASSUME UNCHANGED log, NEW n, NEW p
    PROVE  Recorded(n, p)' = Recorded(n, p)
BY DEF Recorded

\* A flush moves what is pending to the end of the log and leaves the rest.
LEMMA FlushRecords ==
    ASSUME QuotaTypes, Books, Flush
    PROVE  /\ log' \in Seq(Totals) /\ Len(log) <= Len(log') /\ Len(log') \in Nat
           /\ pending' \in Totals /\ \A p \in Periods : pending'[p] = 0
           /\ \A n \in 0..Len(log), p \in Periods : Recorded(n, p)' = Recorded(n, p)
           /\ \A p \in Periods : Recorded(Len(log), p)' = Recorded(Len(log), p) + pending[p]
           /\ \A p \in Periods : \A i, j \in 0..Len(log') : i <= j => Recorded(i, p)' <= Recorded(j, p)'
<1> DEFINE due == {p \in Periods : pending[p] > 0}
<1>1. PICK months \in [1..Cardinality(due) -> due] :
             /\ ToSet(months) = due
             /\ \A i, j \in DOMAIN months : i < j => months[i] < months[j]
             /\ log' = log \o [i \in DOMAIN months |-> [p \in Periods |->
                          Recorded(Len(log), p) + (IF p <= months[i] THEN pending[p] ELSE 0)]]
    BY DEF Flush, PendingMonths
<1> DEFINE k == Cardinality(due)
           item(i) == [p \in Periods |->
                         Recorded(Len(log), p) + (IF p <= months[i] THEN pending[p] ELSE 0)]
           items == [i \in 1..k |-> item(i)]
           n0 == Len(log)
<1>2. k \in Nat
    <2>1. IsFiniteSet(Periods)
        BY FS_Interval, QuotaAssumption DEF Periods
    <2> QED
        BY <2>1, FS_Subset, FS_CardinalityType
<1>3. /\ pending \in Totals /\ log \in Seq(Totals) /\ n0 \in Nat
      /\ \A p \in Periods : p \in Nat
    BY QuotaAssumption DEF QuotaTypes, Periods
<1>4. log' = log \o items /\ DOMAIN months = 1..k
    BY <1>1
<1>5. \A i \in 1..k : months[i] \in Periods /\ pending[months[i]] > 0
    BY <1>1
<1>6. \A p \in Periods : Recorded(n0, p) \in Nat /\ pending[p] \in Nat
    BY <1>3, RecordedType DEF Totals
<1> HIDE DEF due, k
<1>7. ASSUME NEW i \in 1..k
      PROVE  item(i) \in Totals
    BY <1>5, <1>6 DEF Totals
<1>8. items \in Seq(Totals) /\ Len(items) = k
    BY <1>2, <1>7
<1> HIDE DEF item
<1>9. /\ log' \in Seq(Totals) /\ Len(log') = n0 + k
      /\ \A i \in 1..n0 : log'[i] = log[i]
      /\ \A i \in 1..k : log'[n0 + i] = item(i)
    BY <1>2, <1>3, <1>4, <1>8
<1> HIDE DEF items
<1>10. \A n \in 0..n0, p \in Periods : Recorded(n, p)' = Recorded(n, p)
    BY <1>3, <1>9 DEF Recorded
<1>11. ASSUME NEW i \in 1..k, NEW m, m = n0 + i, NEW p \in Periods
       PROVE  Recorded(m, p)' = Recorded(n0, p)
                 + (IF p <= months[i] THEN pending[p] ELSE 0)
    <2>1. m # 0 /\ log'[m] = item(i)
        BY <1>2, <1>3, <1>9, <1>11
    <2>2. item(i)[p] = Recorded(n0, p) + (IF p <= months[i] THEN pending[p] ELSE 0)
        BY DEF item
    <2> QED
        BY <2>1, <2>2 DEF Recorded
<1>12. \A p \in Periods : Recorded(Len(log), p)' = Recorded(n0, p) + pending[p]
    <2> SUFFICES ASSUME NEW p \in Periods, NEW m, m = Len(log')
                 PROVE  Recorded(m, p)' = Recorded(n0, p) + pending[p]
        OBVIOUS
    <2>1. CASE k = 0
        <3>1. pending[p] = 0
            <4>1. due = {}
                BY <2>1, <1>1, <1>4 DEF ToSet
            <4> QED
                BY <4>1, <1>6 DEF due
        <3>2. m = n0
            BY <2>1, <1>3, <1>9
        <3> QED
            BY <3>1, <3>2, <1>3, <1>6, <1>10
    <2>2. CASE k > 0
        <3>1. Recorded(m, p)' = Recorded(n0, p) + (IF p <= months[k] THEN pending[p] ELSE 0)
            BY <2>2, <1>2, <1>9, <1>11
        <3>2. pending[p] > 0 => p <= months[k]
            <4> SUFFICES ASSUME pending[p] > 0 PROVE p <= months[k]
                BY <1>6
            <4>1. PICK i \in 1..k : months[i] = p
                BY <1>1, <1>4 DEF ToSet, due
            <4>2. i = k \/ i < k
                BY <1>2
            <4>3. i < k => months[i] < months[k]
                BY <1>1, <1>2, <1>4, <2>2
            <4> QED
                BY <4>1, <4>2, <4>3, <1>2, <1>3, <1>5, <2>2
        <3> QED
            BY <3>1, <3>2, <1>6
    <2> QED
        BY <2>1, <2>2, <1>2
<1>13. ASSUME NEW p \in Periods, NEW i \in 0..Len(log'), NEW j \in 0..Len(log'), i <= j
       PROVE  Recorded(i, p)' <= Recorded(j, p)'
    <2>1. CASE j <= n0
        BY <2>1, <1>3, <1>9, <1>10, <1>13 DEF Books
    <2>2. CASE n0 < j
        <3>1. PICK b \in 1..k : j = n0 + b
            <4>1. j - n0 \in 1..k /\ j = n0 + (j - n0)
                BY <2>2, <1>2, <1>3, <1>9
            <4> QED
                BY <4>1
        <3>2. Recorded(j, p)' = Recorded(n0, p) + (IF p <= months[b] THEN pending[p] ELSE 0)
            BY <3>1, <1>11
        <3>3. CASE i <= n0
            <4>1. Recorded(i, p)' = Recorded(i, p) /\ Recorded(i, p) <= Recorded(n0, p)
                BY <3>3, <1>3, <1>10 DEF Books
            <4>2. Recorded(i, p) \in Nat
                BY <3>3, <1>3, RecordedType
            <4> QED
                BY <3>2, <4>1, <4>2, <1>6
        <3>4. CASE n0 < i
            <4>1. PICK a \in 1..k : i = n0 + a
                <5>1. i - n0 \in 1..k /\ i = n0 + (i - n0)
                    BY <3>4, <1>2, <1>3, <1>9
                <5> QED
                    BY <5>1
            <4>2. Recorded(i, p)' = Recorded(n0, p) + (IF p <= months[a] THEN pending[p] ELSE 0)
                BY <4>1, <1>11
            <4>3. a = b \/ a < b
                BY <3>1, <4>1, <1>2, <1>3, <1>13
            <4>4. months[a] <= months[b]
                <5>1. a < b => months[a] < months[b]
                    BY <1>1, <1>4
                <5> QED
                    BY <5>1, <4>3, <1>3, <1>5
            <4>5. {p, months[a], months[b]} \subseteq Nat
                BY <1>3, <1>5
            <4> QED
                BY <3>2, <4>2, <4>4, <4>5, <1>6
        <3> QED
            BY <3>3, <3>4, <1>3, <1>9
    <2> QED
        BY <2>1, <2>2, <1>3, <1>9
<1>14. pending' \in Totals /\ \A p \in Periods : pending'[p] = 0
    BY DEF Flush, Totals
<1> QED
    BY <1>2, <1>3, <1>9, <1>10, <1>12, <1>13, <1>14

-----------------------------------------------------------------------------
(* The parts of the invariant that an action leaves alone.                 *)

LEMMA BooksStay ==
    ASSUME Books, UNCHANGED <<log, billed, used>>
    PROVE  Books'
BY DEF Books, Recorded

LEMMA ChainStays ==
    ASSUME Chain, UNCHANGED <<frames, told, limit, now, allowance>>,
           meter'.quota = meter.quota
    PROVE  Chain'
BY DEF Chain, IsSnap

\* The log may grow.
LEMMA CrossingStays ==
    ASSUME QuotaTypes, Chain, NEW x \in Nat, Crossing(x), UNCHANGED <<frames, acked, billed>>,
           \A n \in 0..billed, p \in Periods : Recorded(n, p)' = Recorded(n, p)
    PROVE  Crossing(x)'
<1>1. \A i \in 1..Len(frames) : IsSnap(i) => frames[i].budget.period \in Periods
    BY DEF Chain
<1>2. ASSUME NEW i \in 1..Len(frames), IsSnap(i)
      PROVE  \E n \in 0..billed :
             /\ frames[i].budget.remaining =
                   Minus(frames[i].budget.quota, Recorded(n, frames[i].budget.period)')
             /\ acked <= n /\ x <= n
             /\ \A j \in 1..(i - 1) : IsAck(j) => frames[j].through <= n
             /\ n \in {x, acked} \/ \E j \in 1..(i - 1) : IsAck(j) /\ frames[j].through = n
    BY <1>1, <1>2 DEF Crossing
<1> QED
    BY <1>2 DEF Crossing, IsAck, IsSnap

\* Figures that stay.
LEMMA LogFiguresStay ==
    ASSUME UNCHANGED <<log, acked>>, NEW p, NEW x
    PROVE  /\ Total(p)' = Total(p) /\ Acked(p)' = Acked(p)
           /\ Unacked(p)' = Unacked(p) /\ Ahead(x, p)' = Ahead(x, p)
<1>1. Len(log)' = Len(log) /\ acked' = acked
    OBVIOUS
<1>2. \A n : Recorded(n, p)' = Recorded(n, p)
    BY LogStays
<1>3. Total(p)' = Total(p) /\ Acked(p)' = Acked(p)
    BY DEF Total, Acked, Recorded
<1>4. Unacked(p)' = Unacked(p)
    BY <1>1, <1>2 DEF Unacked, BytesOf, Recorded
<1>5. Ahead(x, p)' = Ahead(x, p)
    BY <1>1, <1>2 DEF Ahead, BytesOf, Recorded
<1> QED
    BY <1>3, <1>4, <1>5

LEMMA FiguresStay ==
    ASSUME QuotaInv, NEW x \in Nat, Bounded(x),
           UNCHANGED <<meter, pending, forwarding, log, acked, told, spent, limit, carried, exposed>>
    PROVE  Forgotten' /\ Within' /\ Bounded(x)'
<1>1. /\ Quota' = Quota /\ Remaining' = Remaining /\ Expected' = Expected /\ Month' = Month
      /\ \A p \in Periods :
            /\ Pending(p)' = Pending(p) /\ Spent(p)' = Spent(p) /\ Limit(p)' = Limit(p)
            /\ Carried(p)' = Carried(p) /\ Exposed(p)' = Exposed(p)
    BY DEF Quota, Remaining, Expected, Month, Pending, Spent, Limit, Carried, Exposed
<1>2. ASSUME NEW p \in Periods
      PROVE  /\ Unacked(p)' = Unacked(p) /\ Ahead(x, p)' = Ahead(x, p)
             /\ Lost(p)' = Lost(p) /\ Outstanding(p)' = Outstanding(p)
    <2>1. Total(p)' = Total(p) /\ Unacked(p)' = Unacked(p) /\ Ahead(x, p)' = Ahead(x, p)
        BY LogFiguresStay
    <2>2. Lost(p)' = Lost(p)
        BY <2>1, <1>1 DEF Lost
    <2>3. /\ Outstanding(p) = forwarding + Pending(p) + Unacked(p)
          /\ Outstanding(p)' = forwarding' + Pending(p)' + Unacked(p)'
        BY DEF Outstanding, Pending, Unacked
    <2> QED
        BY <2>1, <2>2, <2>3, <1>1
<1>3. Forgotten' /\ Within'
    BY <1>1, <1>2 DEF QuotaInv, Forgotten, Within
<1>4. Bounded(x)'
    BY <1>1, <1>2 DEF Bounded
<1> QED
    BY <1>3, <1>4

LEMMA InitQuota == OnlyGrows /\ Init => QuotaInv
<1> SUFFICES ASSUME OnlyGrows, Init PROVE QuotaInv
    OBVIOUS
<1> USE QuotaAssumption
<1>1. /\ 1 \in Periods /\ 0 \notin Periods /\ allowance \in Nat
      /\ frames = <<>> /\ reports = <<>> /\ log = <<>> /\ told = Nothing
      /\ acked = 0 /\ billed = 0 /\ forwarding = 0 /\ now = 1
    BY DEF Init, OnlyGrows, NoAllowance, Periods
<1>2. [p \in Periods |-> 0] \in Totals /\ [p \in Periods |-> 0] \in [Periods -> Nat \cup {NoLimit}]
    BY DEF Totals
<1>3. meter \in Meters /\ meter.remaining = 0 /\ meter.last = 0 /\ meter.quota = 0
    BY <1>1 DEF Init, UnlimitedMeter, Meters
<1>4. QuotaTypes
    BY <1>1, <1>2, <1>3 DEF Init, QuotaTypes, Nothing, Budgets
<1>5. \A n, p : Recorded(0, p) = 0 /\ BytesOf(0, 0, p) = 0
    BY DEF Recorded, BytesOf
<1>6. \A p \in Periods : spent[p] = 0 /\ used[p] = 0 /\ limit[p] = 0
    BY DEF Init
<1>7. Books
    BY <1>1, <1>5, <1>6 DEF Books
<1>8. Chain /\ Told
    BY <1>1, <1>6 DEF Chain, Told
<1>9. Quota = 0 /\ \A p \in Periods : /\ Pending(p) = 0 /\ Spent(p) = 0 /\ Limit(p) = 0
                                      /\ Exposed(p) = 0 /\ Total(p) = 0 /\ Unacked(p) = 0
    BY <1>1, <1>3, <1>5 DEF Init, Quota, Pending, Spent, Limit, Exposed, Total, Unacked
<1>10. Forgotten /\ Within
    BY <1>1, <1>9 DEF Forgotten, Within, Lost
<1>11. Crossing(0) /\ Bounded(0) /\ 0 \in 0..Len(log)
    BY <1>1, <1>9 DEF Crossing, Bounded
<1> QED
    BY <1>4, <1>7, <1>8, <1>10, <1>11 DEF QuotaInv


-----------------------------------------------------------------------------
(* Relaying.                                                               *)

\* What no step of relaying a byte changes.
Aside == UNCHANGED <<logVars, linkVars, platformVars, told, limit, carried, exposed>>

LEMMA RelayingKeeps ==
    ASSUME QuotaInv, Aside, meter' \in Meters, meter'.remaining <= meter.quota,
           meter'.quota = meter.quota, meter'.last = meter.last,
           meter.quota > 0 => meter'.period = meter.period,
           pending' \in Totals, forwarding' \in Nat, spent' \in Totals
    PROVE  /\ QuotaTypes' /\ Books' /\ Chain' /\ MeterFigures /\ MeterFigures'
           /\ Quota' = Quota /\ Expected' = Expected /\ (Quota > 0 => Month' = Month)
           /\ \A x \in 0..Len(log) :
                 /\ x \in 0..Len(log') /\ (Crossing(x) => Crossing(x)')
                 /\ \A p \in Periods :
                       /\ Figures(p, x) /\ Figures(p, x)'
                       /\ Total(p)' = Total(p) /\ Unacked(p)' = Unacked(p)
                       /\ Ahead(x, p)' = Ahead(x, p) /\ Limit(p)' = Limit(p)
                       /\ Carried(p)' = Carried(p) /\ Exposed(p)' = Exposed(p)
<1>1. UNCHANGED <<log, acked, session, reports, frames, now, allowance, billed, used, told,
                  limit, carried, exposed>>
    BY DEF Aside, logVars, linkVars, platformVars
<1>2. QuotaTypes /\ Books /\ Chain
    BY DEF QuotaInv
<1>3. QuotaTypes'
    BY <1>1, <1>2 DEF QuotaTypes
<1>4. Books' /\ Chain'
    BY <1>1, <1>2, BooksStay, ChainStays
<1>5. MeterFigures /\ MeterFigures'
    BY <1>2, <1>3, HaveMeterFigures, HaveMeterFiguresNext
<1>6. Quota' = Quota /\ Expected' = Expected /\ (Quota > 0 => Month' = Month)
    BY DEF Quota, Expected, Month
<1>7. ASSUME NEW x \in 0..Len(log)
      PROVE  x \in 0..Len(log') /\ (Crossing(x) => Crossing(x)')
    BY <1>1, <1>2, <1>7, CrossingStays, LogStays
<1>8. ASSUME NEW x \in 0..Len(log), NEW p \in Periods
      PROVE  /\ Figures(p, x) /\ Figures(p, x)'
             /\ Total(p)' = Total(p) /\ Unacked(p)' = Unacked(p)
             /\ Ahead(x, p)' = Ahead(x, p) /\ Limit(p)' = Limit(p)
             /\ Carried(p)' = Carried(p) /\ Exposed(p)' = Exposed(p)
    <2>1. Figures(p, x) /\ Figures(p, x)'
        BY <1>2, <1>3, <1>4, <1>7, HaveFigures, HaveFiguresNext
    <2>2. Limit(p)' = Limit(p) /\ Carried(p)' = Carried(p) /\ Exposed(p)' = Exposed(p)
        BY <1>1 DEF Limit, Carried, Exposed
    <2> QED
        BY <1>1, <2>1, <2>2, LogFiguresStay
<1> QED
    BY <1>3, <1>4, <1>5, <1>6, <1>7, <1>8

LEMMA ConsumeKeeps == ASSUME QuotaInv, TryConsume PROVE QuotaInv'
<1>1. /\ Aside /\ pending' = pending /\ spent' = spent /\ told' = told /\ limit' = limit
      /\ frames' = frames /\ allowance' = allowance /\ told # Nothing
    BY DEF TryConsume, Aside, historyVars, linkVars, platformVars
<1>2. /\ meter' \in Meters /\ meter'.remaining <= meter.quota
      /\ meter'.quota = meter.quota /\ meter'.last = meter.last /\ meter'.period = meter.period
      /\ meter.quota > 0 => meter'.remaining = meter.remaining - 1
      /\ pending' \in Totals /\ spent' \in Totals
      /\ forwarding' = forwarding + 1 /\ forwarding \in Nat /\ forwarding' \in Nat
    <2>1. /\ meter \in Meters /\ meter.remaining <= meter.quota /\ forwarding \in Nat
          /\ pending \in Totals /\ spent \in Totals
        BY DEF QuotaInv, QuotaTypes
    <2>2. meter.quota \in Nat /\ meter.remaining \in Nat
        BY <2>1 DEF Meters
    <2>3. CASE meter.quota = 0
        BY <1>1, <2>1, <2>2, <2>3 DEF TryConsume
    <2>4. CASE meter.quota > 0
        <3>1. meter' = [meter EXCEPT !.remaining = @ - 1] /\ meter.remaining - 1 \in Nat
            BY <2>2, <2>4 DEF TryConsume
        <3>2. /\ meter' \in Meters /\ meter'.remaining = meter.remaining - 1
              /\ meter'.quota = meter.quota /\ meter'.last = meter.last
              /\ meter'.period = meter.period
            BY <3>1, <2>1 DEF Meters
        <3> QED
            BY <1>1, <2>1, <2>2, <3>1, <3>2 DEF TryConsume
    <2> QED
        BY <2>2, <2>3, <2>4
<1>3. PICK x \in 0..Len(log) : Crossing(x) /\ Bounded(x)
    BY DEF QuotaInv
<1>4. /\ QuotaTypes' /\ Books' /\ Chain' /\ Crossing(x)' /\ x \in 0..Len(log') /\ MeterFigures
      /\ Quota' = Quota /\ Expected' = Expected /\ (Quota > 0 => Month' = Month)
      /\ \A p \in Periods :
            /\ Figures(p, x) /\ Figures(p, x)'
            /\ Total(p)' = Total(p) /\ Unacked(p)' = Unacked(p)
            /\ Ahead(x, p)' = Ahead(x, p) /\ Limit(p)' = Limit(p)
            /\ Carried(p)' = Carried(p) /\ Exposed(p)' = Exposed(p)
    BY <1>1, <1>2, <1>3, RelayingKeeps
<1>5. Told'
    BY <1>1, <1>2 DEF QuotaInv, Told, IsSnap
<1>6. Quota > 0 => Remaining' = Remaining - 1
    BY <1>2 DEF Quota, Remaining
<1>7. ASSUME NEW p \in Periods
      PROVE  /\ Spent(p)' = Spent(p) /\ Pending(p)' = Pending(p)
             /\ Lost(p)' = Lost(p) /\ Outstanding(p)' = Outstanding(p) + 1
    <2>1. Spent(p)' = Spent(p) /\ Pending(p)' = Pending(p)
        BY <1>1 DEF Spent, Pending
    <2>2. /\ Figures(p, x) /\ Figures(p, x)'
          /\ Total(p)' = Total(p) /\ Unacked(p)' = Unacked(p)
        BY <1>4
    <2>3. Lost(p)' = Lost(p)
        BY <2>1, <2>2 DEF Lost
    <2>4. /\ Outstanding(p) = forwarding + Pending(p) + Unacked(p)
          /\ Outstanding(p)' = forwarding' + Pending(p)' + Unacked(p)'
          /\ Pending(p) \in Nat /\ Unacked(p) \in Nat
        BY <2>2 DEF Figures
    <2>5. Outstanding(p)' = Outstanding(p) + 1
        BY <1>2, <2>1, <2>2, <2>4
    <2> QED
        BY <2>1, <2>3, <2>5
<1>8. Forgotten'
    BY <1>1, <1>4, <1>7 DEF QuotaInv, Forgotten
<1>9. Within'
    <2> SUFFICES ASSUME Quota > 0, NEW p \in Periods, p = Month
                 PROVE  /\ Remaining' + Outstanding(p)' + Lost(p)'
                              <= Expected' + Carried(p)' + Exposed(p)'
                        /\ Carried(p)' = 0 => Expected' <= Remaining' + Outstanding(p)'
        BY <1>4 DEF Within
    <2>1. /\ Remaining + Outstanding(p) + Lost(p) <= Expected + Carried(p) + Exposed(p)
          /\ Carried(p) = 0 => Expected <= Remaining + Outstanding(p)
        BY DEF QuotaInv, Within
    <2>2. /\ Figures(p, x) /\ Carried(p)' = Carried(p) /\ Exposed(p)' = Exposed(p)
          /\ Lost(p)' = Lost(p) /\ Outstanding(p)' = Outstanding(p) + 1
        BY <1>4, <1>7
    <2>3. MeterFigures /\ Remaining' = Remaining - 1 /\ Expected' = Expected
        BY <1>4, <1>6
    <2>4. /\ Outstanding(p) \in Nat /\ Lost(p) \in Int /\ Carried(p) \in Nat /\ Exposed(p) \in Nat
          /\ Remaining \in Nat /\ Expected \in Nat
        BY <2>2, <2>3 DEF Figures, MeterFigures
    <2> QED
        BY <2>1, <2>2, <2>3, <2>4
<1>10. Bounded(x)'
    <2>1. ASSUME NEW p \in Periods, Quota > 0, p = Month
          PROVE  Remaining' + forwarding' + Spent(p)' + Ahead(x, p)'
                    <= Quota' + Carried(p)' + Exposed(p)'
        <3>1. Remaining + forwarding + Spent(p) + Ahead(x, p) <= Quota + Carried(p) + Exposed(p)
            BY <1>3, <2>1 DEF Bounded
        <3>2. /\ Figures(p, x) /\ Carried(p)' = Carried(p) /\ Exposed(p)' = Exposed(p)
              /\ Ahead(x, p)' = Ahead(x, p)
            BY <1>4
        <3> QED
            BY <2>1, <3>1, <3>2, <1>2, <1>4, <1>6, <1>7 DEF Figures, MeterFigures
    <2>2. ASSUME NEW p \in Periods, Limit(p)' > 0
          PROVE  Spent(p)' + Ahead(x, p)' <= Limit(p)' + Carried(p)' + Exposed(p)'
        <3>1. /\ Carried(p)' = Carried(p) /\ Exposed(p)' = Exposed(p) /\ Limit(p)' = Limit(p)
              /\ Ahead(x, p)' = Ahead(x, p) /\ Spent(p)' = Spent(p)
            BY <1>4, <1>7
        <3> QED
            BY <1>3, <2>2, <3>1 DEF Bounded
    <2> QED
        BY <2>1, <2>2, <1>4 DEF Bounded
<1> QED
    BY <1>4, <1>5, <1>8, <1>9, <1>10 DEF QuotaInv

\* A byte is settled only after a budget, and a month without a limit then has none
\* because the Platform has none to set.
LEMMA Settled ==
    ASSUME QuotaInv, forwarding > 0
    PROVE  /\ told # Nothing /\ told.period \in Periods
           /\ meter.quota > 0 => meter.period = told.period /\ limit[told.period] = meter.quota
           /\ meter.quota = 0 =>
                 /\ limit[told.period] = NoLimit /\ allowance = 0
                 /\ \A i \in 1..Len(frames) : IsSnap(i) => frames[i].budget.quota = 0
                 /\ limit[now] \in {0, NoLimit}
<1>1. told # Nothing
    BY DEF QuotaInv, Forgotten
<1>2. /\ told.period \in Periods
      /\ \A p \in Periods : limit[p] # 0 => p <= told.period
      /\ meter.quota > 0 => meter.period = told.period /\ limit[told.period] = meter.quota
      /\ meter.quota = 0 => limit[told.period] = NoLimit
    BY <1>1 DEF QuotaInv, Told
<1>3. ASSUME limit[told.period] = NoLimit
      PROVE  /\ told.period <= now /\ allowance = 0
             /\ \A i \in 1..Len(frames) : IsSnap(i) => frames[i].budget.quota = 0
    <2>1. Higher(limit[told.period], 0) = 0 /\ limit[told.period] # 0
        BY <1>3 DEF Higher, NoLimit
    <2>2. \A b : Below(0, b) => b = 0
        BY DEF Below
    <2>3. told.period <= now /\ Below(Higher(limit[told.period], 0), allowance)
        BY <1>2, <2>1 DEF QuotaInv, Chain
    <2>4. \A i \in 1..Len(frames) : IsSnap(i) =>
             Below(Higher(limit[told.period], 0), frames[i].budget.quota)
        BY <1>2, <2>1 DEF QuotaInv, Chain
    <2> QED
        BY <2>1, <2>2, <2>3, <2>4
<1>4. ASSUME limit[told.period] = NoLimit
      PROVE  limit[now] \in {0, NoLimit}
    <2>1. now \in Periods /\ \A p \in Periods : p \in Nat
        BY QuotaAssumption DEF QuotaInv, QuotaTypes, Periods
    <2>2. CASE limit[now] # 0
        <3>1. now <= told.period /\ told.period <= now
            BY <1>2, <1>3, <1>4, <2>1, <2>2
        <3>2. now = told.period
            BY <1>2, <2>1, <3>1
        <3> QED
            BY <1>4, <3>2
    <2> QED
        BY <2>2
<1> QED
    BY <1>1, <1>2, <1>3, <1>4

LEMMA CommitKeeps == ASSUME QuotaInv, CommitUsage PROVE QuotaInv'
<1> DEFINE q == IF meter.quota = 0 THEN now ELSE meter.period
<1>1. /\ Aside /\ told' = told /\ limit' = limit /\ frames' = frames /\ allowance' = allowance
      /\ forwarding > 0 /\ forwarding' = forwarding - 1
      /\ meter' = [meter EXCEPT !.period = q]
      /\ pending' = [pending EXCEPT ![q] = @ + 1]
      /\ spent' = [spent EXCEPT ![q] = @ + 1]
    BY DEF CommitUsage, Aside, linkVars, platformVars
<1>2. /\ q \in Periods /\ meter.quota \in Nat
      /\ meter' \in Meters /\ meter'.remaining = meter.remaining /\ meter.remaining <= meter.quota
      /\ meter'.quota = meter.quota /\ meter'.last = meter.last
      /\ meter.quota > 0 => meter'.period = meter.period /\ q = meter.period
      /\ pending \in Totals /\ spent \in Totals
      /\ forwarding \in Nat /\ forwarding' \in Nat
    <2>1. /\ meter \in Meters /\ meter.quota \in Nat /\ now \in Periods /\ forwarding \in Nat
          /\ meter.remaining <= meter.quota /\ pending \in Totals /\ spent \in Totals
          /\ meter.quota > 0 => meter.period \in Periods
        BY DEF QuotaInv, QuotaTypes, Meters
    <2>2. q \in Periods
        BY <2>1
    <2>3. /\ meter' \in Meters /\ meter'.remaining = meter.remaining
          /\ meter'.quota = meter.quota /\ meter'.last = meter.last /\ meter'.period = q
        BY <1>1, <2>1, <2>2 DEF Meters
    <2> QED
        BY <1>1, <2>1, <2>2, <2>3
<1> HIDE DEF q
<1>3. PICK x \in 0..Len(log) : Crossing(x) /\ Bounded(x)
    BY DEF QuotaInv
<1>4. /\ pending' \in Totals /\ spent' \in Totals
      /\ \A p \in Periods : /\ p # q => Pending(p)' = Pending(p) /\ Spent(p)' = Spent(p)
                            /\ p = q => Pending(p)' = Pending(p) + 1 /\ Spent(p)' = Spent(p) + 1
    BY <1>1, <1>2 DEF Totals, Pending, Spent
<1>5. /\ QuotaTypes' /\ Books' /\ Chain' /\ Crossing(x)' /\ x \in 0..Len(log') /\ MeterFigures
      /\ Quota' = Quota /\ Expected' = Expected /\ (Quota > 0 => Month' = Month)
      /\ \A p \in Periods :
            /\ Figures(p, x) /\ Figures(p, x)'
            /\ Total(p)' = Total(p) /\ Unacked(p)' = Unacked(p)
            /\ Ahead(x, p)' = Ahead(x, p) /\ Limit(p)' = Limit(p)
            /\ Carried(p)' = Carried(p) /\ Exposed(p)' = Exposed(p)
    BY <1>1, <1>2, <1>3, <1>4, RelayingKeeps
<1>6. /\ told # Nothing /\ told.period \in Periods
      /\ meter.quota > 0 => meter.period = told.period /\ limit[told.period] = meter.quota
      /\ meter.quota = 0 =>
            /\ limit[told.period] = NoLimit /\ allowance = 0
            /\ \A i \in 1..Len(frames) : IsSnap(i) => frames[i].budget.quota = 0
            /\ limit[now] \in {0, NoLimit}
    BY <1>1, Settled
<1>7. Told'
    <2>1. ASSUME NEW p \in Periods, spent'[p] > 0, limit[p] = 0
          PROVE  allowance = 0 /\ \A i \in 1..Len(frames) : IsSnap(i) => frames[i].budget.quota = 0
        <3>1. CASE p = q
            <4>1. CASE meter.quota > 0
                BY <1>2, <1>6, <2>1, <3>1, <4>1
            <4>2. CASE meter.quota = 0
                BY <1>6, <4>2
            <4> QED
                BY <1>2, <4>1, <4>2
        <3>2. CASE p # q
            BY <1>1, <1>2, <2>1, <3>2 DEF Totals, QuotaInv, Told
        <3> QED
            BY <3>1, <3>2
    <2> QED
        BY <1>1, <1>2, <2>1 DEF QuotaInv, Told, IsSnap
<1>8. ASSUME NEW p \in Periods
      PROVE  Lost(p)' = Lost(p)
    <2>1. /\ Lost(p) = Spent(p) - (Total(p) + Pending(p))
          /\ Lost(p)' = Spent(p)' - (Total(p)' + Pending(p)')
          /\ Total(p)' = Total(p)
          /\ Spent(p) \in Nat /\ Total(p) \in Nat /\ Pending(p) \in Nat
        BY <1>5 DEF Figures
    <2> QED
        BY <2>1, <1>4
<1>9. Forgotten'
    BY <1>1, <1>5, <1>6, <1>8 DEF QuotaInv, Forgotten
<1>10. Remaining' = Remaining
    BY <1>2 DEF Remaining
<1>11. Quota > 0 => q = Month
    BY <1>2 DEF Quota, Month
<1>12. Within'
    <2> SUFFICES ASSUME Quota > 0, NEW p \in Periods, p = Month
                 PROVE  /\ Remaining' + Outstanding(p)' + Lost(p)'
                              <= Expected' + Carried(p)' + Exposed(p)'
                        /\ Carried(p)' = 0 => Expected' <= Remaining' + Outstanding(p)'
        BY <1>5 DEF Within
    <2>1. /\ Remaining + Outstanding(p) + Lost(p) <= Expected + Carried(p) + Exposed(p)
          /\ Carried(p) = 0 => Expected <= Remaining + Outstanding(p)
        BY DEF QuotaInv, Within
    <2>2. /\ Outstanding(p) = forwarding + Pending(p) + Unacked(p)
          /\ Outstanding(p)' = forwarding' + Pending(p)' + Unacked(p)'
          /\ Pending(p) \in Nat /\ Unacked(p) \in Nat
        BY <1>5 DEF Figures
    <2>3. Unacked(p)' = Unacked(p) /\ Pending(p)' = Pending(p) + 1
        BY <1>4, <1>5, <1>11
    <2>4. Outstanding(p)' = Outstanding(p)
        BY <1>1, <1>2, <2>2, <2>3
    <2>5. /\ Carried(p)' = Carried(p) /\ Exposed(p)' = Exposed(p) /\ Lost(p)' = Lost(p)
          /\ Expected' = Expected
        BY <1>5, <1>8
    <2> QED
        BY <2>1, <2>4, <2>5, <1>10
<1>13. ASSUME NEW p \in Periods, p = q, Quota > 0
       PROVE  /\ Remaining' + forwarding' + Spent(p)' + Ahead(x, p)'
                    <= Quota' + Carried(p)' + Exposed(p)'
              /\ Spent(p)' + Ahead(x, p)' <= Limit(p)' + Carried(p)' + Exposed(p)'
    <2>1. Remaining + forwarding + Spent(p) + Ahead(x, p) <= Quota + Carried(p) + Exposed(p)
        BY <1>3, <1>11, <1>13 DEF Bounded
    <2>2. /\ Ahead(x, p)' = Ahead(x, p) /\ Limit(p)' = Limit(p) /\ Spent(p)' = Spent(p) + 1
          /\ Carried(p)' = Carried(p) /\ Exposed(p)' = Exposed(p) /\ Quota' = Quota
          /\ Remaining' = Remaining /\ forwarding' = forwarding - 1
        BY <1>1, <1>4, <1>5, <1>10, <1>13
    <2>3. Limit(p) = Quota
        BY <1>6, <1>11, <1>13 DEF Limit, Quota, Month
    <2>4. /\ Spent(p) \in Nat /\ Ahead(x, p) \in Nat /\ Carried(p) \in Nat /\ Exposed(p) \in Nat
          /\ Remaining \in Nat /\ Quota \in Nat /\ forwarding \in Nat /\ forwarding > 0
        BY <1>1, <1>2, <1>5 DEF Figures, MeterFigures
    <2> QED
        BY <2>1, <2>2, <2>3, <2>4
<1>14. ASSUME NEW p \in Periods, Limit(p)' > 0
       PROVE  Spent(p)' + Ahead(x, p)' <= Limit(p)' + Carried(p)' + Exposed(p)'
    <2>1. CASE p = q
        <3>1. Quota > 0
            <4>1. meter.quota = 0 => q = now
                BY DEF q
            <4>2. meter.quota = 0 => ~(limit[q] > 0)
                BY <1>6, <4>1 DEF NoLimit
            <4> QED
                BY <1>1, <1>2, <1>14, <2>1, <4>2 DEF Limit, Quota
        <3> QED
            BY <1>13, <2>1, <3>1
    <2>2. CASE p # q
        <3>1. /\ Carried(p)' = Carried(p) /\ Exposed(p)' = Exposed(p) /\ Limit(p)' = Limit(p)
              /\ Ahead(x, p)' = Ahead(x, p) /\ Spent(p)' = Spent(p)
            BY <1>4, <1>5, <2>2
        <3> QED
            BY <1>3, <1>14, <3>1 DEF Bounded
    <2> QED
        BY <2>1, <2>2
<1>15. Bounded(x)'
    BY <1>5, <1>11, <1>13, <1>14 DEF Bounded
<1> QED
    BY <1>5, <1>7, <1>9, <1>12, <1>15 DEF QuotaInv

LEMMA RefundKeeps == ASSUME QuotaInv, Refund PROVE QuotaInv'
<1>1. /\ Aside /\ pending' = pending /\ spent' = spent /\ told' = told /\ limit' = limit
      /\ frames' = frames /\ allowance' = allowance
      /\ forwarding > 0 /\ forwarding' = forwarding - 1
    BY DEF Refund, Aside, historyVars, linkVars, platformVars
<1>2. /\ meter' \in Meters /\ meter'.remaining <= meter.quota
      /\ meter'.quota = meter.quota /\ meter'.last = meter.last /\ meter'.period = meter.period
      /\ meter.quota > 0 => meter'.remaining = Lower(meter.remaining + 1, meter.quota)
      /\ pending' \in Totals /\ spent' \in Totals
      /\ forwarding \in Nat /\ forwarding' \in Nat
    <2>1. /\ meter \in Meters /\ meter.remaining <= meter.quota /\ forwarding \in Nat
          /\ pending \in Totals /\ spent \in Totals
        BY DEF QuotaInv, QuotaTypes
    <2>2. meter.quota \in Nat /\ meter.remaining \in Nat
        BY <2>1 DEF Meters
    <2>3. CASE meter.quota = 0
        BY <1>1, <2>1, <2>2, <2>3 DEF Refund
    <2>4. CASE meter.quota > 0
        <3>1. /\ meter' = [meter EXCEPT !.remaining = Lower(@ + 1, meter.quota)]
              /\ Lower(meter.remaining + 1, meter.quota) \in Nat
              /\ Lower(meter.remaining + 1, meter.quota) <= meter.quota
            BY <2>2, <2>4 DEF Refund, Lower
        <3>2. /\ meter' \in Meters /\ meter'.remaining = Lower(meter.remaining + 1, meter.quota)
              /\ meter'.quota = meter.quota /\ meter'.last = meter.last
              /\ meter'.period = meter.period
            BY <3>1, <2>1 DEF Meters
        <3> QED
            BY <1>1, <2>1, <2>2, <3>1, <3>2
    <2> QED
        BY <2>2, <2>3, <2>4
<1>3. PICK x \in 0..Len(log) : Crossing(x) /\ Bounded(x)
    BY DEF QuotaInv
<1>4. /\ QuotaTypes' /\ Books' /\ Chain' /\ Crossing(x)' /\ x \in 0..Len(log') /\ MeterFigures
      /\ Quota' = Quota /\ Expected' = Expected /\ (Quota > 0 => Month' = Month)
      /\ \A p \in Periods :
            /\ Figures(p, x) /\ Figures(p, x)'
            /\ Total(p)' = Total(p) /\ Unacked(p)' = Unacked(p)
            /\ Ahead(x, p)' = Ahead(x, p) /\ Limit(p)' = Limit(p)
            /\ Carried(p)' = Carried(p) /\ Exposed(p)' = Exposed(p)
    BY <1>1, <1>2, <1>3, RelayingKeeps
<1>5. Told'
    BY <1>1, <1>2 DEF QuotaInv, Told, IsSnap
<1>6. /\ Quota > 0 => \/ Remaining' = Remaining + 1
                      \/ Remaining' = Quota /\ Quota <= Remaining + 1
      /\ Expected <= Quota /\ Quota \in Nat /\ Remaining \in Nat /\ Expected \in Nat
    <2>1. Quota > 0 => Remaining' = Lower(Remaining + 1, Quota)
        BY <1>2 DEF Quota, Remaining
    <2>2. Expected <= Quota /\ Quota \in Nat /\ Remaining \in Nat /\ Expected \in Nat
        BY <1>4 DEF MeterFigures
    <2> QED
        BY <2>1, <2>2 DEF Lower
<1>7. ASSUME NEW p \in Periods
      PROVE  /\ Spent(p)' = Spent(p) /\ Pending(p)' = Pending(p)
             /\ Lost(p)' = Lost(p) /\ Outstanding(p)' = Outstanding(p) - 1
    <2>1. Spent(p)' = Spent(p) /\ Pending(p)' = Pending(p)
        BY <1>1 DEF Spent, Pending
    <2>2. Total(p)' = Total(p) /\ Unacked(p)' = Unacked(p)
        BY <1>4
    <2>3. Lost(p)' = Lost(p)
        BY <2>1, <2>2 DEF Lost
    <2>4. /\ Outstanding(p) = forwarding + Pending(p) + Unacked(p)
          /\ Outstanding(p)' = forwarding' + Pending(p)' + Unacked(p)'
          /\ Pending(p) \in Nat /\ Unacked(p) \in Nat
        BY <1>4 DEF Figures
    <2>5. Outstanding(p)' = Outstanding(p) - 1
        BY <1>1, <1>2, <2>1, <2>2, <2>4
    <2> QED
        BY <2>1, <2>3, <2>5
<1>8. Forgotten'
    <2>1. told # Nothing
        BY <1>1, Settled
    <2> QED
        BY <1>1, <1>4, <1>7, <2>1 DEF QuotaInv, Forgotten
<1>9. Within'
    <2> SUFFICES ASSUME Quota > 0, NEW p \in Periods, p = Month
                 PROVE  /\ Remaining' + Outstanding(p)' + Lost(p)'
                              <= Expected' + Carried(p)' + Exposed(p)'
                        /\ Carried(p)' = 0 => Expected' <= Remaining' + Outstanding(p)'
        BY <1>4 DEF Within
    <2>1. /\ Remaining + Outstanding(p) + Lost(p) <= Expected + Carried(p) + Exposed(p)
          /\ Carried(p) = 0 => Expected <= Remaining + Outstanding(p)
        BY DEF QuotaInv, Within
    <2>2. /\ Carried(p)' = Carried(p) /\ Exposed(p)' = Exposed(p) /\ Expected' = Expected
          /\ Lost(p)' = Lost(p) /\ Outstanding(p)' = Outstanding(p) - 1
        BY <1>4, <1>7
    <2>3. /\ Outstanding(p)' \in Nat /\ Outstanding(p) \in Nat /\ Lost(p) \in Int
          /\ Carried(p) \in Nat /\ Exposed(p) \in Nat
        BY <1>4 DEF Figures
    <2>4. /\ Remaining \in Nat /\ Remaining' \in Nat /\ Remaining' <= Remaining + 1
          /\ Expected \in Nat /\ (Remaining' = Remaining + 1 \/ Expected <= Remaining')
        BY <1>6
    <2>5. Remaining' + Outstanding(p)' <= Remaining + Outstanding(p)
        BY <2>2, <2>3, <2>4
    <2>6. Remaining' + Outstanding(p)' + Lost(p) <= Remaining + Outstanding(p) + Lost(p)
        BY <2>3, <2>4, <2>5
    <2>7. Remaining' + Outstanding(p)' + Lost(p) <= Expected + Carried(p) + Exposed(p)
        BY <2>1, <2>3, <2>4, <2>6
    <2>8. Carried(p) = 0 => Expected <= Remaining' + Outstanding(p)'
        BY <2>1, <2>2, <2>3, <2>4
    <2> QED
        BY <2>2, <2>7, <2>8
<1>10. Bounded(x)'
    <2>1. ASSUME NEW p \in Periods, Quota > 0, p = Month
          PROVE  Remaining' + forwarding' + Spent(p)' + Ahead(x, p)'
                    <= Quota' + Carried(p)' + Exposed(p)'
        <3>1. Remaining + forwarding + Spent(p) + Ahead(x, p) <= Quota + Carried(p) + Exposed(p)
            BY <1>3, <2>1 DEF Bounded
        <3>2. /\ Carried(p)' = Carried(p) /\ Exposed(p)' = Exposed(p) /\ Quota' = Quota
              /\ Ahead(x, p)' = Ahead(x, p) /\ Spent(p)' = Spent(p)
            BY <1>4, <1>7
        <3>3. /\ Spent(p) \in Nat /\ Ahead(x, p) \in Nat /\ Carried(p) \in Nat /\ Exposed(p) \in Nat
            BY <1>4 DEF Figures
        <3>4. PICK r \in Nat : Remaining' = r /\ r <= Remaining + 1
            BY <1>6, <2>1
        <3>5. PICK f \in Nat : forwarding' = f /\ f + 1 <= forwarding
            BY <1>1, <1>2
        <3>6. Remaining \in Nat /\ Quota \in Nat /\ forwarding \in Nat
            BY <1>2, <1>6
        <3>7. r + f <= Remaining + forwarding
            BY <3>4, <3>5, <3>6
        <3>8. r + f + Spent(p) + Ahead(x, p) <= Quota + Carried(p) + Exposed(p)
            BY <3>1, <3>3, <3>6, <3>7
        <3> QED
            BY <3>2, <3>4, <3>5, <3>8
    <2>2. ASSUME NEW p \in Periods, Limit(p)' > 0
          PROVE  Spent(p)' + Ahead(x, p)' <= Limit(p)' + Carried(p)' + Exposed(p)'
        <3>1. /\ Carried(p)' = Carried(p) /\ Exposed(p)' = Exposed(p) /\ Limit(p)' = Limit(p)
              /\ Ahead(x, p)' = Ahead(x, p) /\ Spent(p)' = Spent(p)
            BY <1>4, <1>7
        <3> QED
            BY <1>3, <2>2, <3>1 DEF Bounded
    <2> QED
        BY <2>1, <2>2, <1>4 DEF Bounded
<1> QED
    BY <1>4, <1>5, <1>8, <1>9, <1>10 DEF QuotaInv

-----------------------------------------------------------------------------
(* Reporting.                                                              *)

\* A flush moves usage from one figure to another.
LEMMA FlushFigures ==
    ASSUME QuotaTypes, Books, Flush, acked' = acked, spent' = spent,
           NEW p \in Periods, NEW x \in 0..Len(log)
    PROVE  /\ Pending(p)' = 0 /\ Total(p)' = Total(p) + Pending(p)
           /\ Unacked(p)' = Unacked(p) + Pending(p)
           /\ Ahead(x, p)' = Ahead(x, p)
           /\ Lost(p)' = Lost(p)
           /\ forwarding' = forwarding => Outstanding(p)' = Outstanding(p)
<1>1. /\ log' \in Seq(Totals) /\ Len(log) <= Len(log') /\ Len(log') \in Nat
      /\ pending'[p] = 0
      /\ \A n \in 0..Len(log) : Recorded(n, p)' = Recorded(n, p)
      /\ Recorded(Len(log), p)' = Recorded(Len(log), p) + pending[p]
    BY FlushRecords
<1>2. acked \in 0..Len(log) /\ Len(log) \in Nat
    BY DEF QuotaTypes
<1>3. Figures(p, x)
    BY HaveFigures
<1>4. /\ Pending(p) \in Nat /\ Total(p) \in Nat /\ Unacked(p) \in Nat /\ Acked(p) \in Nat
      /\ Spent(p) \in Nat /\ Unacked(p) = Total(p) - Acked(p) /\ forwarding \in Nat
    BY <1>3 DEF Figures
<1>5. Pending(p)' = 0 /\ Total(p)' = Total(p) + Pending(p)
    BY <1>1 DEF Pending, Total
<1>6. Recorded(acked, p)' = Acked(p)
    <2>1. Recorded(acked, p)' = IF acked' = 0 \/ p \notin Periods THEN 0 ELSE log'[acked'][p]
        BY DEF Recorded
    <2>2. \A n \in 0..Len(log) : Recorded(n, p)' = IF n = 0 \/ p \notin Periods THEN 0 ELSE log'[n][p]
        BY DEF Recorded
    <2> QED
        BY <1>1, <1>2, <2>1, <2>2 DEF Acked
<1>7. Unacked(p)' = IF acked < Len(log') THEN Total(p)' - Acked(p) ELSE 0
    BY <1>6 DEF Unacked, BytesOf, Total
<1>8. Unacked(p)' = Unacked(p) + Pending(p)
    <2>1. CASE acked < Len(log')
        BY <2>1, <1>4, <1>5, <1>7
    <2>2. CASE ~(acked < Len(log'))
        <3>1. acked = Len(log') /\ acked = Len(log)
            BY <2>2, <1>1, <1>2
        <3>2. Total(p)' = Acked(p)
            BY <3>1, <1>6 DEF Total, Recorded
        <3>3. Total(p) = Acked(p)
            BY <3>1 DEF Total, Acked
        <3>4. Pending(p) = 0 /\ Unacked(p) = 0 /\ Unacked(p)' = 0
            BY <2>2, <3>2, <3>3, <1>4, <1>5, <1>7
        <3> QED
            BY <3>4
    <2> QED
        BY <2>1, <2>2
<1>9. Ahead(x, p)' = Ahead(x, p)
    <2>1. Ahead(x, p)' = IF acked < x THEN Recorded(x, p)' - Acked(p) ELSE 0
        BY <1>6 DEF Ahead, BytesOf
    <2>2. Ahead(x, p) = IF acked < x THEN Recorded(x, p) - Acked(p) ELSE 0
        BY DEF Ahead, BytesOf, Acked
    <2> QED
        BY <1>1, <2>1, <2>2
<1>10. Lost(p)' = Lost(p)
    <2>1. Spent(p)' = Spent(p)
        BY DEF Spent
    <2>2. /\ Lost(p) = Spent(p) - (Total(p) + Pending(p))
          /\ Lost(p)' = Spent(p)' - (Total(p)' + Pending(p)')
        BY DEF Lost
    <2> QED
        BY <2>1, <2>2, <1>4, <1>5
<1>11. ASSUME forwarding' = forwarding
       PROVE  Outstanding(p)' = Outstanding(p)
    <2>1. /\ Outstanding(p) = forwarding + Pending(p) + Unacked(p)
          /\ Outstanding(p)' = forwarding' + Pending(p)' + Unacked(p)'
        BY DEF Outstanding, Pending, Unacked
    <2> QED
        BY <2>1, <1>4, <1>5, <1>8, <1>11
<1> QED
    BY <1>5, <1>8, <1>9, <1>10, <1>11

\* What is billed is as before.
LEMMA FlushBooks ==
    ASSUME QuotaTypes, Books, Flush, UNCHANGED <<billed, used>>
    PROVE  Books'
<1>1. /\ \A n \in 0..Len(log), p \in Periods : Recorded(n, p)' = Recorded(n, p)
      /\ \A p \in Periods : \A i, j \in 0..Len(log') : i <= j => Recorded(i, p)' <= Recorded(j, p)'
    BY FlushRecords
<1>2. billed \in 0..Len(log)
    BY DEF QuotaTypes
<1>3. \A p \in Periods : used[p] = Recorded(billed, p)'
    <2> SUFFICES ASSUME NEW p \in Periods, NEW n \in 0..Len(log), n = billed
                 PROVE  used[p] = Recorded(billed, p)'
        BY <1>2
    <2>1. Recorded(billed, p)' = Recorded(n, p)'
        BY DEF Recorded
    <2>2. Recorded(n, p)' = Recorded(n, p)
        BY <1>1
    <2> QED
        BY <2>1, <2>2 DEF Books
<1> QED
    BY <1>1, <1>3 DEF Books

\* A report that is sent is a prefix of the log.
LEMMA ReportsKept ==
    ASSUME QuotaTypes, Books, UsageSnapshot, acked' = acked
    PROVE  reports' \in Seq(Nat) /\ \A i \in 1..Len(reports') : reports'[i] <= Len(log')
<1>1. /\ reports \in Seq(Nat) /\ acked \in Nat /\ Len(log) \in Nat
      /\ \A i \in 1..Len(reports) : reports[i] <= Len(log)
    BY DEF QuotaTypes
<1>2. Len(log) <= Len(log') /\ Len(log') \in Nat
    BY FlushRecords DEF UsageSnapshot
<1>3. Lower(acked + MaxItems, Len(log')) \in Nat /\ Lower(acked + MaxItems, Len(log')) <= Len(log')
    BY <1>1, <1>2, QuotaAssumption DEF Lower
<1>4. \A i \in 1..Len(reports) : reports[i] <= Len(log')
    BY <1>1, <1>2
<1>5. reports' = reports \/ reports' = Append(reports, Lower(acked + MaxItems, Len(log')))
    BY DEF UsageSnapshot
<1>6. ASSUME NEW r \in Nat, r <= Len(log'), reports' = Append(reports, r)
      PROVE  reports' \in Seq(Nat) /\ \A i \in 1..Len(reports') : reports'[i] <= Len(log')
    BY <1>1, <1>4, <1>6
<1> QED
    BY <1>1, <1>3, <1>4, <1>5, <1>6

\* What a flush leaves alone.
LEMMA FlushKeeps ==
    ASSUME QuotaInv, Flush, UNCHANGED <<acked, billed, used, spent, carried, limit>>,
           NEW x \in 0..Len(log)
    PROVE  /\ Books' /\ log' \in Seq(Totals) /\ pending' \in Totals /\ Len(log) <= Len(log')
           /\ Len(log') \in Nat /\ x \in 0..Len(log')
           /\ \A n \in 0..billed, p \in Periods : Recorded(n, p)' = Recorded(n, p)
<1>1. QuotaTypes /\ Books
    BY DEF QuotaInv
<1>2. billed \in Nat /\ billed <= Len(log) /\ Len(log) \in Nat
    BY <1>1 DEF QuotaTypes
<1>3. /\ log' \in Seq(Totals) /\ pending' \in Totals /\ Len(log) <= Len(log') /\ Len(log') \in Nat
      /\ \A n \in 0..Len(log), p \in Periods : Recorded(n, p)' = Recorded(n, p)
    BY <1>1, FlushRecords
<1>4. Books'
    BY <1>1, FlushBooks
<1> QED
    BY <1>2, <1>3, <1>4

LEMMA TickKeeps == ASSUME QuotaInv, Tick PROVE QuotaInv'
<1>1. /\ UsageSnapshot /\ Flush
      /\ UNCHANGED <<meter, forwarding, acked, session, frames, now, allowance, billed, used,
                     told, spent, limit, carried, exposed>>
    BY DEF Tick, UsageSnapshot, platformVars, historyVars
<1>2. QuotaTypes /\ Books /\ Chain
    BY DEF QuotaInv
<1>3. PICK x \in 0..Len(log) : Crossing(x) /\ Bounded(x)
    BY DEF QuotaInv
<1>4. /\ Books' /\ log' \in Seq(Totals) /\ pending' \in Totals /\ Len(log) <= Len(log')
      /\ Len(log') \in Nat /\ x \in 0..Len(log')
      /\ \A n \in 0..billed, p \in Periods : Recorded(n, p)' = Recorded(n, p)
    BY <1>1, FlushKeeps
<1>5. QuotaTypes'
    <2>1. reports' \in Seq(Nat) /\ \A i \in 1..Len(reports') : reports'[i] <= Len(log')
        BY <1>1, <1>2, ReportsKept
    <2>2. billed <= Len(log')
        <3>1. billed \in Nat /\ billed <= Len(log) /\ Len(log) \in Nat
            BY <1>2 DEF QuotaTypes
        <3> QED
            BY <1>4, <3>1
    <2>3. session # "down"
        BY DEF Tick
    <2> QED
        BY <1>1, <1>2, <1>4, <2>1, <2>2, <2>3 DEF QuotaTypes
<1>6. Chain' /\ Told'
    BY <1>1 DEF QuotaInv, Chain, Told, IsSnap
<1>7. Crossing(x)'
    BY <1>1, <1>2, <1>3, <1>4, CrossingStays
<1>8. Quota' = Quota /\ Remaining' = Remaining /\ Expected' = Expected /\ Month' = Month
    BY <1>1 DEF Quota, Remaining, Expected, Month
<1>9. ASSUME NEW p \in Periods
      PROVE  /\ Pending(p)' = 0 /\ Unacked(p)' = Unacked(p) + Pending(p)
             /\ Ahead(x, p)' = Ahead(x, p) /\ Lost(p)' = Lost(p)
             /\ Outstanding(p)' = Outstanding(p) /\ Spent(p)' = Spent(p)
             /\ Limit(p)' = Limit(p) /\ Carried(p)' = Carried(p) /\ Exposed(p)' = Exposed(p)
    <2>1. /\ Pending(p)' = 0 /\ Unacked(p)' = Unacked(p) + Pending(p)
          /\ Ahead(x, p)' = Ahead(x, p) /\ Lost(p)' = Lost(p) /\ Outstanding(p)' = Outstanding(p)
        BY <1>1, <1>2, FlushFigures
    <2>2. /\ Spent(p)' = Spent(p) /\ Limit(p)' = Limit(p)
          /\ Carried(p)' = Carried(p) /\ Exposed(p)' = Exposed(p)
        BY <1>1 DEF Spent, Limit, Carried, Exposed
    <2> QED
        BY <2>1, <2>2
<1>10. Forgotten'
    <2>1. \A p \in Periods : Lost(p)' >= 0 /\ Lost(p)' <= Exposed(p)'
        BY <1>9 DEF QuotaInv, Forgotten
    <2>2. ASSUME told = Nothing, NEW p \in Periods
          PROVE  Pending(p)' = 0 /\ Unacked(p)' + Lost(p)' <= Exposed(p)'
        <3>1. Pending(p) = 0 /\ Unacked(p) + Lost(p) <= Exposed(p)
            BY <2>2 DEF QuotaInv, Forgotten
        <3>2. Unacked(p) \in Nat
            BY <1>2, HaveFigures DEF Figures
        <3>3. Unacked(p)' = Unacked(p)
            BY <3>1, <3>2, <1>9
        <3> QED
            BY <3>1, <3>3, <1>9
    <2> QED
        BY <2>1, <2>2, <1>1, <1>8 DEF QuotaInv, Forgotten
<1>11. Within'
    BY <1>8, <1>9 DEF QuotaInv, Within
<1>12. Bounded(x)'
    BY <1>1, <1>3, <1>8, <1>9 DEF Bounded
<1> QED
    BY <1>4, <1>5, <1>6, <1>7, <1>10, <1>11, <1>12 DEF QuotaInv

LEMMA BillsKeeps == ASSUME QuotaInv, PlatformBills PROVE QuotaInv'
<1> DEFINE h == Head(reports)
<1>1. /\ reports # <<>> /\ reports' = Tail(reports)
      /\ billed' = IF h > billed THEN h ELSE billed
      /\ used' = [p \in Periods |-> used[p] + BytesOf(billed, h, p)]
      /\ frames' = Append(frames, AckOf(h))
      /\ UNCHANGED <<meter, pending, forwarding, log, acked, session, now, allowance, told,
                     spent, limit, carried, exposed>>
    BY DEF PlatformBills, meterVars, logVars, historyVars
<1>2. QuotaTypes /\ Books /\ Chain
    BY DEF QuotaInv
<1>3. PICK x \in 0..Len(log) : Crossing(x) /\ Bounded(x)
    BY DEF QuotaInv
<1>4. /\ h \in Nat /\ h <= Len(log) /\ Len(log) \in Nat /\ acked \in Nat /\ billed \in Nat
      /\ acked <= billed /\ billed <= Len(log)
      /\ reports' \in Seq(Nat) /\ \A i \in 1..Len(reports') : reports'[i] <= Len(log)
    <2>1. /\ reports \in Seq(Nat) /\ Len(log) \in Nat /\ acked \in Nat /\ billed \in Nat
          /\ acked <= billed /\ billed <= Len(log)
          /\ \A i \in 1..Len(reports) : reports[i] <= Len(log)
        BY <1>2 DEF QuotaTypes
    <2>2. h = reports[1] /\ Len(reports) \in Nat /\ Len(reports) > 0
        BY <1>1, <2>1
    <2>3. reports' \in Seq(Nat) /\ \A i \in 1..Len(reports') : reports'[i] <= Len(log)
        BY <1>1, <2>1, <2>2
    <2> QED
        BY <2>1, <2>2, <2>3
<1> HIDE DEF h
<1>5. billed' \in Nat /\ billed <= billed' /\ billed' <= Len(log) /\ h <= billed' /\ acked <= billed'
    BY <1>1, <1>4
<1>6. Books'
    <2>1. ASSUME NEW p \in Periods
          PROVE  used'[p] = Recorded(billed, p)'
        <3>1. used'[p] = used[p] + BytesOf(billed, h, p) /\ used[p] = Recorded(billed, p)
            BY <1>1, <1>2 DEF Books
        <3>2. Recorded(billed, p) \in Nat /\ Recorded(h, p) \in Nat
            <4>1. log \in Seq(Totals) /\ billed \in 0..Len(log) /\ h \in 0..Len(log)
                BY <1>2, <1>4 DEF QuotaTypes
            <4> QED
                BY <4>1, RecordedType
        <3>3. Recorded(billed, p)' = IF h > billed THEN Recorded(h, p) ELSE Recorded(billed, p)
            BY <1>1 DEF Recorded
        <3>4. BytesOf(billed, h, p)
                 = IF billed < h THEN Recorded(h, p) - Recorded(billed, p) ELSE 0
            BY DEF BytesOf
        <3> QED
            BY <1>4, <3>1, <3>2, <3>3, <3>4
    <2>2. \A p \in Periods : \A i, j \in 0..Len(log) : i <= j => Recorded(i, p)' <= Recorded(j, p)'
        BY <1>1, <1>2, LogStays DEF Books
    <2> QED
        BY <1>1, <2>1, <2>2 DEF Books
<1>7. /\ frames \in Seq(Frames)
      /\ frames' \in Seq(Frames)
      /\ Len(frames) \in Nat /\ Len(frames') = Len(frames) + 1
      /\ \A i \in 1..Len(frames) : frames'[i] = frames[i]
      /\ frames'[Len(frames) + 1].type = "ack" /\ frames'[Len(frames) + 1].through = h
    <2>1. AckOf(h) \in Frames
        BY <1>4 DEF AckOf, Absent, Budgets, Frames
    <2>2. AckOf(h).type = "ack" /\ AckOf(h).through = h
        BY DEF AckOf
    <2>3. frames \in Seq(Frames)
        BY <1>2 DEF QuotaTypes
    <2> HIDE DEF h
    <2> QED
        BY <1>1, <2>1, <2>2, <2>3
<1>8. QuotaTypes'
    <2>1. used' \in Totals
        <3>1. ASSUME NEW p \in Periods
              PROVE  used[p] + BytesOf(billed, h, p) \in Nat
            <4>1. log \in Seq(Totals) /\ billed \in 0..Len(log) /\ h \in 0..Len(log) /\ used \in Totals
                BY <1>2, <1>4 DEF QuotaTypes
            <4>2. Recorded(billed, p) \in Nat /\ Recorded(h, p) \in Nat /\ used[p] \in Nat
                BY <4>1, RecordedType DEF Totals
            <4>3. billed < h => Recorded(billed, p) <= Recorded(h, p)
                BY <1>2, <1>4, <4>1 DEF Books
            <4>4. BytesOf(billed, h, p)
                    = IF billed < h THEN Recorded(h, p) - Recorded(billed, p) ELSE 0
                BY DEF BytesOf
            <4> QED
                BY <4>2, <4>3, <4>4
        <3> QED
            BY <1>1, <3>1 DEF Totals
    <2>2. session # "down"
        BY <1>1, <1>2 DEF QuotaTypes
    <2> QED
        BY <1>1, <1>2, <1>4, <1>5, <1>7, <2>1, <2>2 DEF QuotaTypes
<1>9. \A i \in 1..Len(frames') : IsSnap(i)' => i \in 1..Len(frames) /\ IsSnap(i)
    BY <1>7 DEF IsSnap
<1>10. \A i \in 1..Len(frames) : (IsAck(i)' <=> IsAck(i)) /\ (IsSnap(i)' <=> IsSnap(i))
    BY <1>7 DEF IsAck, IsSnap
<1>11. Chain' /\ Told'
    BY <1>1, <1>7, <1>9 DEF QuotaInv, Chain, Told
<1>12. Crossing(x)'
    <2>1. x <= billed'
        BY <1>3, <1>4, <1>5 DEF Crossing
    <2>2. PICK m \in 1..Len(frames') : IsAck(m)' /\ frames'[m].through = h
        <3>1. /\ Len(frames) + 1 \in 1..Len(frames') /\ frames'[Len(frames) + 1].type = "ack"
              /\ frames'[Len(frames) + 1].through = h
            BY <1>7
        <3> QED
            BY <3>1 DEF IsAck
    <2>3. billed' \in {x, acked'} \/ \E i \in 1..Len(frames') : IsAck(i)' /\ frames'[i].through = billed'
        <3>1. CASE billed' = h
            BY <3>1, <2>2
        <3>2. CASE billed' = billed
            <4>1. CASE billed \in {x, acked}
                BY <1>1, <3>2, <4>1
            <4>2. CASE \E i \in 1..Len(frames) : IsAck(i) /\ frames[i].through = billed
                <5>1. PICK i \in 1..Len(frames) : IsAck(i) /\ frames[i].through = billed
                    BY <4>2
                <5>2. i \in 1..Len(frames') /\ IsAck(i)' /\ frames'[i].through = billed'
                    BY <3>2, <5>1, <1>7, <1>10
                <5> QED
                    BY <5>2
            <4> QED
                BY <1>3, <4>1, <4>2 DEF Crossing
        <3> QED
            BY <1>1, <3>1, <3>2
    <2>4. ASSUME NEW i \in 1..Len(frames'), IsAck(i)'
          PROVE  frames'[i].through <= billed'
        <3>1. CASE i \in 1..Len(frames)
            <4>0. frames[i] \in Frames
                BY <3>1, <1>7
            <4>1. IsAck(i) /\ frames'[i] = frames[i] /\ frames[i].through \in Nat
                BY <2>4, <3>1, <1>7, <1>10, <4>0 DEF Frames
            <4>2. frames[i].through <= billed
                BY <3>1, <4>1, <1>3 DEF Crossing
            <4> QED
                BY <4>1, <4>2, <1>4, <1>5
        <3>2. CASE i = Len(frames) + 1
            BY <3>2, <1>5, <1>7
        <3> QED
            BY <3>1, <3>2, <1>7
    <2>5. ASSUME NEW i \in 1..Len(frames'), IsSnap(i)'
          PROVE  \E n \in 0..billed' :
             /\ frames'[i].budget.remaining =
                   Minus(frames'[i].budget.quota, Recorded(n, frames[i].budget.period)')
             /\ acked' <= n /\ x <= n
             /\ \A j \in 1..(i - 1) : IsAck(j)' => frames'[j].through <= n
             /\ n \in {x, acked'} \/ \E j \in 1..(i - 1) : IsAck(j)' /\ frames'[j].through = n
        <3>1. i \in 1..Len(frames) /\ IsSnap(i) /\ frames'[i] = frames[i]
            BY <2>5, <1>7, <1>9
        <3>2. PICK n \in 0..billed :
             /\ frames[i].budget.remaining =
                   Minus(frames[i].budget.quota, Recorded(n, frames[i].budget.period))
             /\ acked <= n /\ x <= n
             /\ \A j \in 1..(i - 1) : IsAck(j) => frames[j].through <= n
             /\ n \in {x, acked} \/ \E j \in 1..(i - 1) : IsAck(j) /\ frames[j].through = n
            BY <3>1, <1>3 DEF Crossing
        <3>3. n \in 0..billed'
            BY <1>4, <1>5
        <3>4. frames'[i].budget.remaining =
                   Minus(frames'[i].budget.quota, Recorded(n, frames[i].budget.period)')
            BY <3>1, <3>2, <1>1 DEF Recorded
        <3>5. \A j \in 1..(i - 1) : frames'[j] = frames[j] /\ (IsAck(j)' <=> IsAck(j))
            BY <3>1, <1>7, <1>10
        <3>6. \A j \in 1..(i - 1) : IsAck(j)' => frames'[j].through <= n
            BY <3>2, <3>5
        <3>7. acked' = acked
            BY <1>1
        <3>8. n \in {x, acked'} \/ \E j \in 1..(i - 1) : IsAck(j)' /\ frames'[j].through = n
            BY <3>2, <3>5, <3>7
        <3>9. acked' <= n /\ x <= n
            BY <3>2, <3>7
        <3> QED
            BY <3>3, <3>4, <3>6, <3>8, <3>9
    <2> QED
        BY <2>1, <2>3, <2>4, <2>5 DEF Crossing
<1>13. Forgotten' /\ Within' /\ Bounded(x)'
    BY <1>1, <1>3, FiguresStay
<1>14. x \in 0..Len(log')
    BY <1>1
<1> QED
    BY <1>6, <1>8, <1>11, <1>12, <1>13, <1>14 DEF QuotaInv

\* The first frame is taken.
LEMMA TailFrames ==
    ASSUME frames \in Seq(Frames), frames # <<>>, frames' = Tail(frames)
    PROVE  /\ Len(frames) \in Nat /\ Len(frames) > 0 /\ 1 \in 1..Len(frames)
           /\ Head(frames) = frames[1] /\ frames' \in Seq(Frames)
           /\ Len(frames') = Len(frames) - 1
           /\ \A i \in 1..Len(frames') :
                 /\ i + 1 \in 1..Len(frames) /\ frames'[i] = frames[i + 1]
                 /\ (IsAck(i)' <=> IsAck(i + 1)) /\ (IsSnap(i)' <=> IsSnap(i + 1))
           /\ \A i \in 1..Len(frames) : i # 1 => i - 1 \in 1..Len(frames')
           /\ \A i \in 1..Len(frames) : frames[i].through \in Nat
<1>1. /\ Len(frames) \in Nat /\ Len(frames) > 0 /\ 1 \in 1..Len(frames)
      /\ Head(frames) = frames[1] /\ frames' \in Seq(Frames)
      /\ Len(frames') = Len(frames) - 1
      /\ \A i \in 1..Len(frames') : i + 1 \in 1..Len(frames) /\ frames'[i] = frames[i + 1]
    OBVIOUS
<1>2. \A i \in 1..Len(frames') :
         (IsAck(i)' <=> IsAck(i + 1)) /\ (IsSnap(i)' <=> IsSnap(i + 1))
    BY <1>1 DEF IsAck, IsSnap
<1>3. \A i \in 1..Len(frames) : i # 1 => i - 1 \in 1..Len(frames')
    BY <1>1
<1>4. ASSUME NEW i \in 1..Len(frames) PROVE frames[i].through \in Nat
    <2>1. frames[i] \in Frames
        BY <1>1
    <2> QED
        BY <2>1 DEF Frames
<1> QED
    BY <1>1, <1>2, <1>3, <1>4

LEMMA TailCrossing ==
    ASSUME QuotaTypes, Chain, NEW x \in Nat, Crossing(x),
           frames # <<>>, frames' = Tail(frames), billed' = billed, acked' \in Nat,
           IsAck(1) => acked' = IF frames[1].through > acked THEN frames[1].through ELSE acked,
           ~IsAck(1) => acked' = acked,
           \A n \in 0..billed, p \in Periods : Recorded(n, p)' = Recorded(n, p)
    PROVE  Crossing(x)' /\ acked <= acked' /\ acked' <= billed
<1>1. frames \in Seq(Frames) /\ acked \in Nat /\ billed \in Nat /\ acked <= billed
    BY DEF QuotaTypes
<1>2. /\ Len(frames) \in Nat /\ 1 \in 1..Len(frames) /\ Len(frames') = Len(frames) - 1
      /\ \A i \in 1..Len(frames') :
            /\ i + 1 \in 1..Len(frames) /\ frames'[i] = frames[i + 1]
            /\ (IsAck(i)' <=> IsAck(i + 1)) /\ (IsSnap(i)' <=> IsSnap(i + 1))
      /\ \A i \in 1..Len(frames) : i # 1 => i - 1 \in 1..Len(frames')
      /\ \A i \in 1..Len(frames) : frames[i].through \in Nat
    BY <1>1, TailFrames
<1> DEFINE h == frames[1].through
<1>3. h \in Nat /\ (IsAck(1) => h <= billed)
    BY <1>2 DEF Crossing
<1> HIDE DEF h
<1>4. /\ IsAck(1) => acked' = IF h > acked THEN h ELSE acked
      /\ ~IsAck(1) => acked' = acked
    BY DEF h
<1>5. acked <= acked' /\ acked' <= billed
    BY <1>1, <1>3, <1>4
\* What an acknowledgement stands for is still acknowledged or on its way.
<1>6. ASSUME NEW n \in Nat, acked <= n, IsAck(1) => h <= n, NEW i \in 0..Len(frames'),
             n \in {x, acked} \/ \E j \in 1..(i + 1) : j \in 1..Len(frames) /\ IsAck(j) /\ frames[j].through = n
      PROVE  n \in {x, acked'} \/ \E j \in 1..i : IsAck(j)' /\ frames'[j].through = n
    <2>1. CASE n = x
        BY <2>1
    <2>2. CASE n = acked
        BY <2>2, <1>1, <1>3, <1>4, <1>6
    <2>3. CASE \E j \in 1..(i + 1) : j \in 1..Len(frames) /\ IsAck(j) /\ frames[j].through = n
        <3>1. PICK j \in 1..(i + 1) : j \in 1..Len(frames) /\ IsAck(j) /\ frames[j].through = n
            BY <2>3
        <3>2. CASE j = 1
            <4>1. IsAck(1) /\ h = n
                BY <3>1, <3>2 DEF h
            <4> QED
                BY <4>1, <1>1, <1>3, <1>4, <1>6
        <3>3. CASE j # 1
            <4>1. j - 1 \in 1..Len(frames') /\ (j - 1) + 1 = j /\ j - 1 \in 1..i
                BY <3>3, <3>1, <1>2
            <4>2. IsAck(j - 1)' /\ frames'[j - 1].through = n
                <5> SUFFICES ASSUME NEW k \in 1..Len(frames'), k = j - 1
                             PROVE  IsAck(k)' /\ frames'[k].through = n
                    BY <4>1
                <5> QED
                    BY <3>1, <4>1, <1>2
            <4> QED
                BY <4>1, <4>2
        <3> QED
            BY <3>2, <3>3
    <2> QED
        BY <2>1, <2>2, <2>3, <1>6
<1>7. billed' \in {x, acked'} \/ \E j \in 1..Len(frames') : IsAck(j)' /\ frames'[j].through = billed'
    <2>1. \/ billed \in {x, acked}
          \/ \E j \in 1..(Len(frames') + 1) :
                j \in 1..Len(frames) /\ IsAck(j) /\ frames[j].through = billed
        <3>1. Len(frames') + 1 = Len(frames)
            BY <1>2
        <3> QED
            BY <3>1 DEF Crossing
    <2>2. Len(frames') \in 0..Len(frames')
        BY <1>2
    <2> QED
        BY <2>1, <2>2, <1>1, <1>3, <1>6
<1>8. \A i \in 1..Len(frames') : IsAck(i)' => frames'[i].through <= billed'
    BY <1>2 DEF Crossing
<1>9. ASSUME NEW i \in 1..Len(frames'), IsSnap(i)'
      PROVE  \E n \in 0..billed' :
             /\ frames'[i].budget.remaining =
                   Minus(frames'[i].budget.quota, Recorded(n, frames[i].budget.period)')
             /\ acked' <= n /\ x <= n
             /\ \A j \in 1..(i - 1) : IsAck(j)' => frames'[j].through <= n
             /\ n \in {x, acked'} \/ \E j \in 1..(i - 1) : IsAck(j)' /\ frames'[j].through = n
    <2>1. i + 1 \in 1..Len(frames) /\ IsSnap(i + 1) /\ frames'[i] = frames[i + 1] /\ i \in Nat
        BY <1>2, <1>9
    <2>2. PICK n \in 0..billed :
             /\ frames[i + 1].budget.remaining =
                   Minus(frames[i + 1].budget.quota, Recorded(n, frames[i + 1].budget.period))
             /\ acked <= n /\ x <= n
             /\ \A j \in 1..((i + 1) - 1) : IsAck(j) => frames[j].through <= n
             /\ n \in {x, acked} \/ \E j \in 1..((i + 1) - 1) : IsAck(j) /\ frames[j].through = n
        BY <2>1 DEF Crossing
    <2>3. \A j \in 1..i : IsAck(j) => frames[j].through <= n
        BY <2>1, <2>2
    <2>4. n \in {x, acked} \/ \E j \in 1..i : j \in 1..Len(frames) /\ IsAck(j) /\ frames[j].through = n
        BY <2>1, <2>2, <1>2
    <2>5. IsAck(1) => h <= n
        BY <2>1, <2>3 DEF h
    <2>6. acked' <= n
        BY <2>2, <2>5, <1>1, <1>3, <1>4
    <2>7. \A j \in 1..(i - 1) : IsAck(j)' => frames'[j].through <= n
        <3> SUFFICES ASSUME NEW j \in 1..(i - 1), IsAck(j)' PROVE frames'[j].through <= n
            OBVIOUS
        <3>1. j \in 1..Len(frames') /\ j + 1 \in 1..i
            BY <1>2, <2>1
        <3> QED
            BY <3>1, <2>3, <1>2
    <2>8. n \in {x, acked'} \/ \E j \in 1..(i - 1) : IsAck(j)' /\ frames'[j].through = n
        <3>1. i - 1 \in 0..Len(frames') /\ (i - 1) + 1 = i /\ n \in Nat
            BY <1>1, <1>2, <2>1
        <3>2. PICK k \in 0..Len(frames') : k = i - 1 /\ k + 1 = i
            BY <3>1
        <3>3. \/ n \in {x, acked}
              \/ \E j \in 1..(k + 1) : j \in 1..Len(frames) /\ IsAck(j) /\ frames[j].through = n
            BY <2>4, <3>2
        <3>4. n \in {x, acked'} \/ \E j \in 1..k : IsAck(j)' /\ frames'[j].through = n
            BY <3>1, <3>3, <2>2, <2>5, <1>6
        <3> QED
            BY <3>2, <3>4
    <2>9. frames'[i].budget.remaining =
                   Minus(frames'[i].budget.quota, Recorded(n, frames[i].budget.period)')
        <3>1. PICK q \in Periods : q = frames[i + 1].budget.period
            BY <2>1 DEF Chain
        <3>2. Recorded(n, q)' = Recorded(n, q)
            OBVIOUS
        <3>3. Recorded(n, frames[i].budget.period)' = Recorded(n, q)'
            BY <2>1, <3>1 DEF Recorded
        <3> QED
            BY <2>1, <2>2, <3>1, <3>2, <3>3
    <2> QED
        BY <2>2, <2>6, <2>7, <2>8, <2>9
<1>10. x <= billed'
    BY DEF Crossing
<1> QED
    BY <1>5, <1>7, <1>8, <1>9, <1>10 DEF Crossing

LEMMA AckKeeps == ASSUME QuotaInv, ApplyAck PROVE QuotaInv'
<1> DEFINE h == frames[1].through
<1>1. QuotaTypes /\ Books /\ Chain /\ Told /\ frames \in Seq(Frames) /\ frames # <<>>
    BY DEF QuotaInv, QuotaTypes, ApplyAck
<1>2. /\ frames' = Tail(frames)
      /\ UNCHANGED <<pending, forwarding, log, session, reports, now, allowance, billed, used,
                     told, spent, limit, carried, exposed>>
    BY DEF ApplyAck, platformVars, historyVars
<1>3. /\ Len(frames) \in Nat /\ 1 \in 1..Len(frames) /\ Head(frames) = frames[1]
      /\ frames' \in Seq(Frames) /\ Len(frames') = Len(frames) - 1
      /\ \A i \in 1..Len(frames') :
            /\ i + 1 \in 1..Len(frames) /\ frames'[i] = frames[i + 1]
            /\ (IsSnap(i)' <=> IsSnap(i + 1))
      /\ \A i \in 1..Len(frames) : frames[i].through \in Nat
    BY <1>1, <1>2, TailFrames
<1>4. /\ IsAck(1) /\ h \in Nat
      /\ meter' = [meter EXCEPT !.last = Minus(@, BytesOf(acked, h, meter.period))]
      /\ acked' = IF h > acked THEN h ELSE acked
    BY <1>3 DEF ApplyAck, Marked, IsAck
<1>5. PICK x \in 0..Len(log) : Crossing(x) /\ Bounded(x)
    BY DEF QuotaInv
<1>6. acked \in Nat /\ billed \in Nat /\ acked <= billed /\ billed <= Len(log) /\ Len(log) \in Nat
    BY <1>1 DEF QuotaTypes
<1>7. h <= billed
    BY <1>3, <1>4, <1>5 DEF Crossing
<1>8. Crossing(x)' /\ acked <= acked' /\ acked' <= billed /\ acked' \in Nat
    <2>1. acked' \in Nat /\ x \in Nat
        BY <1>4, <1>6
    <2>2. \A n \in 0..billed, p \in Periods : Recorded(n, p)' = Recorded(n, p)
        BY <1>2, LogStays
    <2> QED
        BY <1>1, <1>2, <1>4, <1>5, <2>1, <2>2, TailCrossing
<1> HIDE DEF h
<1>9. ASSUME NEW p \in Periods
      PROVE  /\ Figures(p, x) /\ Ahead(h, p) \in Nat /\ Ahead(h, p) <= Unacked(p)
             /\ Total(p)' = Total(p) /\ Unacked(p)' = Unacked(p) - Ahead(h, p)
             /\ Ahead(x, p)' \in Nat /\ Ahead(x, p)' <= Ahead(x, p)
    <2>1. Figures(p, x) /\ Figures(p, h)
        BY <1>1, <1>4, <1>6, <1>7, HaveFigures
    <2>2. Ahead(h, p) \in Nat /\ Ahead(h, p) <= Unacked(p)
        BY <2>1 DEF Figures
    <2>3. Total(p)' = Total(p)
        BY <1>2 DEF Total, Recorded
    <2>4. /\ Recorded(acked, p)' = IF h > acked THEN Recorded(h, p) ELSE Recorded(acked, p)
          /\ Recorded(x, p)' = Recorded(x, p) /\ Recorded(Len(log), p)' = Recorded(Len(log), p)
        BY <1>2, <1>4 DEF Recorded
    <2>5. /\ Recorded(acked, p) \in Nat /\ Recorded(h, p) \in Nat /\ Recorded(x, p) \in Nat
          /\ Recorded(Len(log), p) \in Nat
        <3>1. /\ log \in Seq(Totals) /\ acked \in 0..Len(log) /\ h \in 0..Len(log)
              /\ Len(log) \in 0..Len(log)
            BY <1>1, <1>4, <1>6, <1>7 DEF QuotaTypes
        <3> QED
            BY <3>1, RecordedType
    <2>6. /\ acked < h => Recorded(acked, p) <= Recorded(h, p)
          /\ h < x => Recorded(h, p) <= Recorded(x, p)
          /\ acked < x => Recorded(acked, p) <= Recorded(x, p)
          /\ h = Len(log) => Recorded(h, p) = Recorded(Len(log), p)
        BY <1>1, <1>4, <1>6, <1>7 DEF Books
    <2>7. /\ Ahead(h, p) = IF acked < h THEN Recorded(h, p) - Recorded(acked, p) ELSE 0
          /\ Unacked(p) = IF acked < Len(log) THEN Recorded(Len(log), p) - Recorded(acked, p) ELSE 0
          /\ Ahead(x, p) = IF acked < x THEN Recorded(x, p) - Recorded(acked, p) ELSE 0
        BY DEF Ahead, Unacked, BytesOf
    <2>8. /\ Unacked(p)' = IF acked' < Len(log) THEN Recorded(Len(log), p) - Recorded(acked, p)' ELSE 0
          /\ Ahead(x, p)' = IF acked' < x THEN Recorded(x, p) - Recorded(acked, p)' ELSE 0
        BY <1>2, <2>4 DEF Ahead, Unacked, BytesOf
    <2>9. CASE h > acked
        <3>1. acked' = h /\ Recorded(acked, p)' = Recorded(h, p)
            BY <2>9, <2>4, <1>4
        <3>2. Unacked(p)' = Unacked(p) - Ahead(h, p)
            <4>1. CASE h < Len(log)
                <5>1. Unacked(p)' = Recorded(Len(log), p) - Recorded(h, p)
                    BY <3>1, <4>1, <2>8
                <5>2. /\ Unacked(p) = Recorded(Len(log), p) - Recorded(acked, p)
                      /\ Ahead(h, p) = Recorded(h, p) - Recorded(acked, p)
                    BY <4>1, <2>7, <2>9, <1>4, <1>6
                <5> QED
                    BY <5>1, <5>2, <2>5
            <4>2. CASE h = Len(log)
                <5>1. Unacked(p)' = 0
                    BY <3>1, <4>2, <2>8, <1>6
                <5>2. Unacked(p) = Ahead(h, p)
                    BY <4>2 DEF Unacked, Ahead
                <5> QED
                    BY <5>1, <5>2, <2>2
            <4> QED
                BY <4>1, <4>2, <1>4, <1>6, <1>7
        <3>3. Ahead(x, p)' \in Nat /\ Ahead(x, p)' <= Ahead(x, p)
            <4>1. CASE h < x
                <5>1. Ahead(x, p)' = Recorded(x, p) - Recorded(h, p)
                    BY <3>1, <4>1, <2>8
                <5>2. Ahead(x, p) = Recorded(x, p) - Recorded(acked, p)
                    BY <4>1, <2>7, <2>9, <1>4, <1>6
                <5> QED
                    BY <4>1, <5>1, <5>2, <2>5, <2>6, <2>9, <1>4, <1>6
            <4>2. CASE ~(h < x)
                <5>1. Ahead(x, p)' = 0
                    BY <3>1, <4>2, <2>8
                <5>2. Ahead(x, p) \in Nat
                    BY <2>1 DEF Figures
                <5> QED
                    BY <5>1, <5>2
            <4> QED
                BY <4>1, <4>2
        <3> QED
            BY <2>1, <2>2, <2>3, <3>2, <3>3
    <2>10. CASE ~(h > acked)
        <3>1. acked' = acked /\ Recorded(acked, p)' = Recorded(acked, p) /\ Ahead(h, p) = 0
            BY <2>10, <2>4, <2>7, <1>4, <1>6
        <3>2. Unacked(p)' = Unacked(p) /\ Ahead(x, p)' = Ahead(x, p)
            BY <3>1, <2>7, <2>8
        <3>3. Ahead(x, p) \in Nat /\ Unacked(p) \in Nat
            BY <2>1 DEF Figures
        <3>4. Unacked(p)' = Unacked(p) - Ahead(h, p)
            BY <3>1, <3>2, <3>3
        <3>5. Ahead(x, p)' \in Nat /\ Ahead(x, p)' <= Ahead(x, p)
            BY <3>2, <3>3
        <3> QED
            BY <2>1, <2>2, <2>3, <3>4, <3>5
    <2> QED
        BY <2>9, <2>10
<1>10. /\ meter' \in Meters /\ meter'.last <= meter.quota
       /\ meter'.quota = meter.quota /\ meter'.remaining = meter.remaining
       /\ meter'.period = meter.period
       /\ meter'.last = Minus(meter.last, BytesOf(acked, h, meter.period))
    <2>1. meter \in Meters /\ meter.last <= meter.quota
        BY <1>1 DEF QuotaTypes
    <2>2. meter.last \in Nat /\ meter.quota \in Nat
        BY <2>1 DEF Meters
    <2>3. BytesOf(acked, h, meter.period) \in Nat
        <3>1. CASE meter.period \in Periods
            BY <3>1, <1>9 DEF Ahead
        <3>2. CASE meter.period \notin Periods
            <4>1. \A n : Recorded(n, meter.period) = 0
                BY <3>2 DEF Recorded
            <4> QED
                BY <4>1 DEF BytesOf
        <3> QED
            BY <3>1, <3>2
    <2>4. /\ Minus(meter.last, BytesOf(acked, h, meter.period)) \in Nat
          /\ Minus(meter.last, BytesOf(acked, h, meter.period)) <= meter.quota
        <3>1. ASSUME NEW d \in Nat
              PROVE  Minus(meter.last, d) \in Nat /\ Minus(meter.last, d) <= meter.quota
            BY <2>1, <2>2 DEF Minus
        <3> QED
            BY <2>3, <3>1
    <2> QED
        BY <1>4, <2>1, <2>4 DEF Meters
<1>11. Books'
    BY <1>1, <1>2, BooksStay
<1>12. QuotaTypes'
    <2>1. session # "down"
        BY <1>1 DEF QuotaTypes
    <2>2. /\ meter' \in Meters /\ meter'.remaining <= meter'.quota /\ meter'.last <= meter'.quota
          /\ meter'.quota > 0 => meter'.period \in Periods
        BY <1>1, <1>10 DEF QuotaTypes
    <2> QED
        BY <1>1, <1>2, <1>3, <1>6, <1>8, <2>1, <2>2 DEF QuotaTypes
<1>13. Chain'
    <2>1. ASSUME NEW i \in 1..Len(frames'), IsSnap(i)'
          PROVE  /\ frames'[i].budget.period \in Periods /\ frames'[i].budget.period <= now
                 /\ Below(frames'[i].budget.quota, allowance)
                 /\ told # Nothing => Below(meter.quota, frames'[i].budget.quota)
                 /\ \A p \in Periods : limit[p] # 0 =>
                    p <= frames'[i].budget.period /\ Below(Higher(limit[p], 0), frames'[i].budget.quota)
        <3>1. i + 1 \in 1..Len(frames) /\ IsSnap(i + 1) /\ frames'[i] = frames[i + 1]
            BY <2>1, <1>3
        <3> QED
            BY <3>1, <1>1 DEF Chain
    <2>2. ASSUME NEW i \in 1..Len(frames'), NEW j \in 1..Len(frames'), i < j, IsSnap(i)', IsSnap(j)'
          PROVE  /\ frames'[i].budget.period <= frames'[j].budget.period
                 /\ Below(frames'[i].budget.quota, frames'[j].budget.quota)
        <3>1. /\ i + 1 \in 1..Len(frames) /\ IsSnap(i + 1) /\ frames'[i] = frames[i + 1]
              /\ j + 1 \in 1..Len(frames) /\ IsSnap(j + 1) /\ frames'[j] = frames[j + 1]
              /\ i + 1 < j + 1
            BY <2>2, <1>3
        <3> QED
            BY <3>1, <1>1 DEF Chain
    <2> QED
        BY <1>1, <1>2, <1>10, <2>1, <2>2 DEF Chain
<1>14. Told'
    <2>1. \A i \in 1..Len(frames') : IsSnap(i)' =>
             i + 1 \in 1..Len(frames) /\ IsSnap(i + 1) /\ frames'[i] = frames[i + 1]
        BY <1>3
    <2> QED
        BY <1>1, <1>2, <1>10, <2>1 DEF Told
<1>15. /\ Quota' = Quota /\ Remaining' = Remaining /\ Month' = Month
       /\ Expected' = Minus(Expected, BytesOf(acked, h, Month))
       /\ \A p \in Periods :
             /\ Pending(p)' = Pending(p) /\ Spent(p)' = Spent(p) /\ Limit(p)' = Limit(p)
             /\ Carried(p)' = Carried(p) /\ Exposed(p)' = Exposed(p)
    BY <1>2, <1>10 DEF Quota, Remaining, Expected, Month, Pending, Spent, Limit, Carried, Exposed
<1>16. ASSUME NEW p \in Periods
       PROVE  Lost(p)' = Lost(p) /\ Outstanding(p)' = Outstanding(p) - Ahead(h, p)
    <2>1. Lost(p)' = Lost(p)
        BY <1>9, <1>15 DEF Lost
    <2>2. /\ Outstanding(p) = forwarding + Pending(p) + Unacked(p)
          /\ Outstanding(p)' = forwarding' + Pending(p)' + Unacked(p)'
        BY DEF Outstanding, Pending, Unacked
    <2>3. /\ forwarding' = forwarding /\ Pending(p)' = Pending(p)
          /\ Unacked(p)' = Unacked(p) - Ahead(h, p)
        BY <1>2, <1>9, <1>15
    <2>4. /\ forwarding \in Nat /\ Pending(p) \in Nat /\ Unacked(p) \in Nat /\ Ahead(h, p) \in Nat
        BY <1>9 DEF Figures
    <2> QED
        BY <2>1, <2>2, <2>3, <2>4
<1>17. Forgotten'
    <2>1. ASSUME told = Nothing, NEW p \in Periods
          PROVE  Unacked(p)' + Lost(p)' <= Exposed(p)'
        <3>1. Unacked(p) + Lost(p) <= Exposed(p)
            BY <2>1 DEF QuotaInv, Forgotten
        <3>2. /\ Unacked(p)' = Unacked(p) - Ahead(h, p) /\ Lost(p)' = Lost(p)
              /\ Exposed(p)' = Exposed(p)
            BY <1>9, <1>15, <1>16
        <3>3. Unacked(p) \in Nat /\ Ahead(h, p) \in Nat /\ Lost(p) \in Int /\ Exposed(p) \in Nat
            BY <1>9 DEF Figures
        <3> QED
            BY <3>1, <3>2, <3>3
    <2> QED
        BY <1>2, <1>15, <1>16, <2>1 DEF QuotaInv, Forgotten
<1>18. Within'
    <2> SUFFICES ASSUME Quota > 0, NEW p \in Periods, p = Month
                 PROVE  /\ Remaining' + Outstanding(p)' + Lost(p)'
                              <= Expected' + Carried(p)' + Exposed(p)'
                        /\ Carried(p)' = 0 => Expected' <= Remaining' + Outstanding(p)'
        BY <1>15 DEF Within
    <2>1. /\ Remaining + Outstanding(p) + Lost(p) <= Expected + Carried(p) + Exposed(p)
          /\ Carried(p) = 0 => Expected <= Remaining + Outstanding(p)
        BY DEF QuotaInv, Within
    <2>2. /\ Outstanding(p)' = Outstanding(p) - Ahead(h, p) /\ Lost(p)' = Lost(p)
          /\ Carried(p)' = Carried(p) /\ Exposed(p)' = Exposed(p) /\ Remaining' = Remaining
        BY <1>15, <1>16
    <2>3. /\ Outstanding(p) \in Nat /\ Lost(p) \in Int /\ Carried(p) \in Nat /\ Exposed(p) \in Nat
          /\ Ahead(h, p) \in Nat
        BY <1>9 DEF Figures
    <2>4. Remaining \in Nat /\ Expected \in Nat
        BY <1>1, HaveMeterFigures DEF MeterFigures
    <2>5. Expected' = Minus(Expected, Ahead(h, p))
        BY <1>15 DEF Ahead
    <2>6. Outstanding(p)' \in Nat
        <3>1. x \in 0..Len(log')
            BY <1>2
        <3> QED
            BY <3>1, <1>11, <1>12, HaveFiguresNext DEF Figures
    <2>7. CASE Expected < Ahead(h, p)
        <3>1. Expected' = 0
            BY <2>5, <2>7 DEF Minus
        <3>2. Remaining + (Outstanding(p) - Ahead(h, p)) + Lost(p) <= 0 + Carried(p) + Exposed(p)
            BY <2>1, <2>3, <2>4, <2>7
        <3>3. Expected' <= Remaining + Outstanding(p)'
            BY <2>4, <2>6, <3>1
        <3> QED
            BY <2>2, <3>1, <3>2, <3>3
    <2>8. CASE ~(Expected < Ahead(h, p))
        <3>1. Expected' = Expected - Ahead(h, p)
            BY <2>5, <2>8 DEF Minus
        <3>2. Remaining + (Outstanding(p) - Ahead(h, p)) + Lost(p)
                 <= (Expected - Ahead(h, p)) + Carried(p) + Exposed(p)
            BY <2>1, <2>3, <2>4
        <3>3. Carried(p) = 0 =>
                 Expected - Ahead(h, p) <= Remaining + (Outstanding(p) - Ahead(h, p))
            BY <2>1, <2>3, <2>4
        <3> QED
            BY <2>2, <3>1, <3>2, <3>3
    <2> QED
        BY <2>7, <2>8
<1>19. Bounded(x)'
    <2>1. ASSUME NEW p \in Periods, Quota > 0, p = Month
          PROVE  Remaining' + forwarding' + Spent(p)' + Ahead(x, p)'
                    <= Quota' + Carried(p)' + Exposed(p)'
        <3>1. Remaining + forwarding + Spent(p) + Ahead(x, p) <= Quota + Carried(p) + Exposed(p)
            BY <1>5, <2>1 DEF Bounded
        <3>2. /\ Carried(p)' = Carried(p) /\ Exposed(p)' = Exposed(p) /\ Quota' = Quota
              /\ Remaining' = Remaining /\ Spent(p)' = Spent(p) /\ forwarding' = forwarding
            BY <1>2, <1>15
        <3>3. /\ Spent(p) \in Nat /\ Ahead(x, p) \in Nat /\ Carried(p) \in Nat /\ Exposed(p) \in Nat
              /\ forwarding \in Nat
            BY <1>9 DEF Figures
        <3>4. Remaining \in Nat /\ Quota \in Nat
            BY <1>1, HaveMeterFigures DEF MeterFigures
        <3>5. Ahead(x, p)' \in Nat /\ Ahead(x, p)' <= Ahead(x, p)
            BY <1>9
        <3> QED
            BY <3>1, <3>2, <3>3, <3>4, <3>5
    <2>2. ASSUME NEW p \in Periods, Limit(p)' > 0
          PROVE  Spent(p)' + Ahead(x, p)' <= Limit(p)' + Carried(p)' + Exposed(p)'
        <3>1. /\ Carried(p)' = Carried(p) /\ Exposed(p)' = Exposed(p) /\ Limit(p)' = Limit(p)
              /\ Spent(p)' = Spent(p)
            BY <1>15
        <3>2. Spent(p) + Ahead(x, p) <= Limit(p) + Carried(p) + Exposed(p)
            BY <1>5, <2>2, <3>1 DEF Bounded
        <3>3. /\ Spent(p) \in Nat /\ Ahead(x, p) \in Nat /\ Carried(p) \in Nat /\ Exposed(p) \in Nat
              /\ Limit(p) \in Int
            BY <1>9 DEF Figures
        <3>4. Ahead(x, p)' \in Nat /\ Ahead(x, p)' <= Ahead(x, p)
            BY <1>9
        <3> QED
            BY <3>1, <3>2, <3>3, <3>4
    <2> QED
        BY <2>1, <2>2, <1>15 DEF Bounded
<1>20. x \in 0..Len(log')
    BY <1>2
<1> QED
    BY <1>8, <1>11, <1>12, <1>13, <1>14, <1>17, <1>18, <1>19, <1>20 DEF QuotaInv

-----------------------------------------------------------------------------
(* The Platform's budget.                                                  *)

\* The Platform sends what it has.
LEMMA SendKeeps ==
    ASSUME QuotaInv, frames' = Append(frames, SnapshotOf(PlatformBudget)), session' # "down",
           UNCHANGED <<meter, pending, forwarding, log, acked, reports, now, allowance, billed,
                       used, told, spent, limit, carried, exposed>>
    PROVE  QuotaInv'
<1> DEFINE f == SnapshotOf(PlatformBudget)
<1>1. QuotaTypes /\ Books /\ Chain /\ Told
    BY DEF QuotaInv
<1>2. PICK x \in 0..Len(log) : Crossing(x) /\ Bounded(x)
    BY DEF QuotaInv
<1>3. /\ now \in Periods /\ now \in Nat /\ allowance \in Nat /\ used[now] \in Nat
      /\ frames \in Seq(Frames) /\ acked \in Nat /\ billed \in Nat /\ acked <= billed
      /\ used[now] = Recorded(billed, now)
    <2>1. /\ now \in Periods /\ allowance \in Nat /\ used \in Totals
          /\ frames \in Seq(Frames) /\ acked \in Nat /\ billed \in Nat /\ acked <= billed
        BY <1>1 DEF QuotaTypes
    <2>2. \A p \in Periods : p \in Nat
        BY QuotaAssumption DEF Periods
    <2> QED
        BY <1>1, <2>1, <2>2 DEF Totals, Books
<1>4. /\ f.type = "snapshot" /\ f.budget.period = now /\ f.budget.quota = allowance
      /\ f.budget.remaining = Minus(allowance, Recorded(billed, now))
      /\ f \in Frames
    <2>1. allowance # NoAllowance
        BY <1>3 DEF NoAllowance
    <2>2. PlatformBudget = [period |-> now, quota |-> allowance,
                            remaining |-> Minus(allowance, used[now])]
        BY <2>1 DEF PlatformBudget
    <2>3. Minus(allowance, used[now]) \in Nat
        BY <1>3 DEF Minus
    <2>4. PlatformBudget \in Budgets
        BY <1>3, <2>2, <2>3 DEF Budgets
    <2>5. f = [type |-> "snapshot", through |-> 0, budget |-> PlatformBudget]
        BY DEF SnapshotOf
    <2> HIDE DEF f
    <2>6. f \in Frames
        BY <2>4, <2>5 DEF Frames
    <2> QED
        BY <1>3, <2>2, <2>5, <2>6
<1> HIDE DEF f
<1>5. /\ frames' \in Seq(Frames) /\ Len(frames) \in Nat /\ Len(frames') = Len(frames) + 1
      /\ \A i \in 1..Len(frames) : frames'[i] = frames[i]
      /\ frames'[Len(frames) + 1] = f
    <2>1. frames' = Append(frames, f)
        BY DEF f
    <2> QED
        BY <1>3, <1>4, <2>1
<1>6. QuotaTypes'
    BY <1>1, <1>5 DEF QuotaTypes
<1>7. Books'
    BY <1>1, BooksStay
<1>8. \A i \in 1..Len(frames') : i \in 1..Len(frames) \/ i = Len(frames) + 1
    BY <1>5
<1>9. /\ \A i \in 1..Len(frames) : (IsAck(i)' <=> IsAck(i)) /\ (IsSnap(i)' <=> IsSnap(i))
      /\ \A i \in 1..Len(frames') : i = Len(frames) + 1 => ~IsAck(i)' /\ IsSnap(i)'
    BY <1>4, <1>5 DEF IsAck, IsSnap
<1>10. Chain'
    <2>1. ASSUME NEW i \in 1..Len(frames'), IsSnap(i)'
          PROVE  /\ frames'[i].budget.period \in Periods /\ frames'[i].budget.period <= now
                 /\ Below(frames'[i].budget.quota, allowance)
                 /\ told # Nothing => Below(meter.quota, frames'[i].budget.quota)
                 /\ \A p \in Periods : limit[p] # 0 =>
                    p <= frames'[i].budget.period /\ Below(Higher(limit[p], 0), frames'[i].budget.quota)
        <3>1. CASE i \in 1..Len(frames)
            BY <2>1, <3>1, <1>1, <1>5, <1>9 DEF Chain
        <3>2. CASE i = Len(frames) + 1
            <4>1. now <= now /\ Below(allowance, allowance)
                BY <1>3 DEF Below
            <4> QED
                BY <3>2, <4>1, <1>1, <1>3, <1>4, <1>5 DEF Chain
        <3> QED
            BY <3>1, <3>2, <1>8
    <2>2. ASSUME NEW i \in 1..Len(frames'), NEW j \in 1..Len(frames'), i < j, IsSnap(i)', IsSnap(j)'
          PROVE  /\ frames'[i].budget.period <= frames'[j].budget.period
                 /\ Below(frames'[i].budget.quota, frames'[j].budget.quota)
        <3>1. i \in 1..Len(frames) /\ IsSnap(i) /\ frames'[i] = frames[i]
            BY <2>2, <1>5, <1>9
        <3>2. CASE j \in 1..Len(frames)
            BY <2>2, <3>1, <3>2, <1>1, <1>5, <1>9 DEF Chain
        <3>3. CASE j = Len(frames) + 1
            BY <3>1, <3>3, <1>1, <1>4, <1>5 DEF Chain
        <3> QED
            BY <3>2, <3>3, <1>8
    <2> QED
        BY <1>1, <2>1, <2>2 DEF Chain
<1>11. Told'
    <2>1. ASSUME NEW p \in Periods, spent[p] > 0, limit[p] = 0, NEW i \in 1..Len(frames'), IsSnap(i)'
          PROVE  frames'[i].budget.quota = 0
        <3>1. CASE i \in 1..Len(frames)
            BY <2>1, <3>1, <1>1, <1>5, <1>9 DEF Told
        <3>2. CASE i = Len(frames) + 1
            BY <2>1, <3>2, <1>1, <1>4, <1>5 DEF Told
        <3> QED
            BY <3>1, <3>2, <1>8
    <2> QED
        BY <1>1, <2>1 DEF Told
<1>12. Crossing(x)'
    <2>1. x <= billed /\ x \in Nat
        BY <1>2 DEF Crossing
    <2>2. \/ billed \in {x, acked}
          \/ \E i \in 1..Len(frames') : i # Len(frames) + 1 /\ IsAck(i)' /\ frames'[i].through = billed
        <3>1. CASE \E i \in 1..Len(frames) : IsAck(i) /\ frames[i].through = billed
            <4>1. PICK i \in 1..Len(frames) : IsAck(i) /\ frames[i].through = billed
                BY <3>1
            <4>2. /\ i \in 1..Len(frames') /\ i # Len(frames) + 1 /\ IsAck(i)'
                  /\ frames'[i].through = billed
                BY <4>1, <1>5, <1>9
            <4> QED
                BY <4>2
        <3> QED
            BY <3>1, <1>2 DEF Crossing
    <2>3. \A i \in 1..Len(frames') : IsAck(i)' => frames'[i].through <= billed
        BY <1>2, <1>5, <1>8, <1>9 DEF Crossing
    <2>4. ASSUME NEW i \in 1..Len(frames'), IsSnap(i)'
          PROVE  \E n \in 0..billed :
             /\ frames'[i].budget.remaining =
                   Minus(frames'[i].budget.quota, Recorded(n, frames[i].budget.period)')
             /\ acked <= n /\ x <= n
             /\ \A j \in 1..(i - 1) : IsAck(j)' => frames'[j].through <= n
             /\ n \in {x, acked} \/ \E j \in 1..(i - 1) : IsAck(j)' /\ frames'[j].through = n
        <3>1. CASE i \in 1..Len(frames)
            <4>1. IsSnap(i) /\ frames'[i] = frames[i]
                BY <2>4, <3>1, <1>5, <1>9
            <4>2. PICK n \in 0..billed :
                 /\ frames[i].budget.remaining =
                       Minus(frames[i].budget.quota, Recorded(n, frames[i].budget.period))
                 /\ acked <= n /\ x <= n
                 /\ \A j \in 1..(i - 1) : IsAck(j) => frames[j].through <= n
                 /\ n \in {x, acked} \/ \E j \in 1..(i - 1) : IsAck(j) /\ frames[j].through = n
                BY <3>1, <4>1, <1>2 DEF Crossing
            <4>3. \A j \in 1..(i - 1) : frames'[j] = frames[j] /\ (IsAck(j)' <=> IsAck(j))
                BY <3>1, <1>5, <1>9
            <4>4. Recorded(n, frames[i].budget.period)' = Recorded(n, frames[i].budget.period)
                BY <4>1 DEF Recorded
            <4>5. \A j \in 1..(i - 1) : IsAck(j)' => frames'[j].through <= n
                BY <4>2, <4>3
            <4>6. n \in {x, acked} \/ \E j \in 1..(i - 1) : IsAck(j)' /\ frames'[j].through = n
                BY <4>2, <4>3
            <4> QED
                BY <4>1, <4>2, <4>4, <4>5, <4>6
        <3>2. CASE i = Len(frames) + 1
            <4>1. frames'[i].budget.remaining = Minus(frames'[i].budget.quota, Recorded(billed, now))
                BY <3>2, <1>4, <1>5
            <4>2. Recorded(billed, frames[i].budget.period)' = Recorded(billed, now)
                BY <3>2, <1>4, <1>5 DEF Recorded
            <4>3. \A j \in 1..(i - 1) : IsAck(j)' => frames'[j].through <= billed
                BY <3>2, <2>3, <1>5
            <4>4. billed \in {x, acked} \/ \E j \in 1..(i - 1) : IsAck(j)' /\ frames'[j].through = billed
                <5>1. \A j \in 1..Len(frames') : j # Len(frames) + 1 => j \in 1..(i - 1)
                    BY <3>2, <1>5
                <5> QED
                    BY <2>2, <5>1
            <4>5. PICK n \in 0..billed : n = billed
                BY <1>3
            <4>6. Recorded(n, frames[i].budget.period)' = Recorded(billed, now)
                BY <4>2, <4>5 DEF Recorded
            <4> QED
                BY <4>1, <4>3, <4>4, <4>5, <4>6, <2>1, <1>3
        <3> QED
            BY <3>1, <3>2, <1>8
    <2> QED
        BY <2>1, <2>2, <2>3, <2>4 DEF Crossing
<1>13. Forgotten' /\ Within' /\ Bounded(x)'
    BY <1>2, FiguresStay
<1> QED
    BY <1>6, <1>7, <1>10, <1>11, <1>12, <1>13 DEF QuotaInv

LEMMA PushKeeps == ASSUME QuotaInv, PushSnapshot \/ Connect PROVE QuotaInv'
<1>1. CASE PushSnapshot
    BY <1>1, SendKeeps DEF PushSnapshot, meterVars, logVars, platformVars, historyVars
<1>2. CASE Connect
    <2>1. frames = <<>>
        BY <1>2 DEF Connect, QuotaInv, QuotaTypes
    <2>2. frames' = Append(frames, SnapshotOf(PlatformBudget))
        BY <1>2, <2>1 DEF Connect
    <2> QED
        BY <1>2, <2>2, SendKeeps DEF Connect, meterVars, logVars, platformVars, historyVars
<1> QED
    BY <1>1, <1>2

-----------------------------------------------------------------------------
(* What changes around it.                                                 *)

\* With nothing on its way, what was billed when the connection was lost is
\* what is billed now.
LEMMA NothingUnderWay ==
    ASSUME QuotaTypes, UNCHANGED <<acked, billed>>, frames' = <<>>, NEW b, b = billed
    PROVE  Crossing(b)'
<1>1. billed \in Nat /\ Len(frames') = 0
    BY DEF QuotaTypes
<1> QED
    BY <1>1 DEF Crossing

\* What a lost connection leaves of the meter: usage that was marked and could
\* not be acknowledged has been taken off the expected remainder.
LEMMA LinkMeter ==
    ASSUME QuotaInv, LinkBreaks \/ AckFails
    PROVE  /\ QuotaTypes'
           /\ Quota' = Quota /\ Remaining' = Remaining /\ Month' = Month
           /\ Expected' \in Nat /\ Expected' <= Expected
           /\ \A p \in Periods : p = Month => Expected <= Expected' + Outstanding(p)
<1>1. /\ session' = "down" /\ reports' = <<>> /\ frames' = <<>>
      /\ exposed' = [p \in Periods |-> exposed[p] + Outstanding(p)]
      /\ UNCHANGED <<pending, forwarding, log, acked, now, allowance, billed, used, told,
                     spent, limit, carried>>
    BY DEF LinkBreaks, AckFails, Unlink, Expose, meterVars, logVars, platformVars
<1>2. QuotaTypes /\ Books
    BY DEF QuotaInv
<1>3. exposed' \in Totals
    <2>1. \A p \in Periods : exposed[p] + Outstanding(p) \in Nat
        <3> SUFFICES ASSUME NEW p \in Periods PROVE exposed[p] + Outstanding(p) \in Nat
            OBVIOUS
        <3>1. 0 \in 0..Len(log)
            BY <1>2 DEF QuotaTypes
        <3>2. Exposed(p) \in Nat /\ Outstanding(p) \in Nat
            BY <1>2, <3>1, HaveFigures DEF Figures
        <3> QED
            BY <3>2 DEF Exposed
    <2> QED
        BY <1>1, <2>1 DEF Totals
<1>4. CASE LinkBreaks
    <2>1. meter' = meter
        BY <1>4 DEF LinkBreaks, meterVars
    <2>2. QuotaTypes'
        BY <1>1, <1>2, <1>3, <2>1 DEF QuotaTypes
    <2>3. \A p \in Periods : Outstanding(p) \in Nat
        <3>1. 0 \in 0..Len(log)
            BY <1>2 DEF QuotaTypes
        <3> QED
            BY <1>2, <3>1, HaveFigures DEF Figures
    <2>4. Expected \in Nat
        BY <1>2, HaveMeterFigures DEF MeterFigures
    <2> QED
        BY <2>1, <2>2, <2>3, <2>4 DEF Quota, Remaining, Expected, Month
<1>5. CASE AckFails
    <2> DEFINE h == frames[1].through
    <2>1. frames \in Seq(Frames) /\ frames # <<>> /\ Head(frames) = frames[1] /\ 1 \in 1..Len(frames)
        BY <1>2, <1>5 DEF AckFails, QuotaTypes
    <2>2. IsAck(1) /\ h \in Nat
        <3>1. frames[1] \in Frames
            BY <2>1
        <3> QED
            BY <1>5, <2>1, <3>1 DEF AckFails, IsAck, Frames
    <2>3. h <= billed
        BY <2>1, <2>2 DEF QuotaInv, Crossing
    <2>4. h \in 0..Len(log)
        BY <1>2, <2>2, <2>3 DEF QuotaTypes
    <2> DEFINE b == BytesOf(acked, h, meter.period)
    <2>5. meter' = [meter EXCEPT !.last = Minus(@, b)]
        BY <1>5, <2>1 DEF AckFails, Marked
    <2>6. b \in Nat /\ \A p \in Periods : p = Month => b <= Outstanding(p) /\ Outstanding(p) \in Nat
        <3>1. CASE meter.period \in Periods
            <4>1. /\ Ahead(h, meter.period) \in Nat
                  /\ Ahead(h, meter.period) <= Unacked(meter.period)
                  /\ Unacked(meter.period) \in Nat
                  /\ Outstanding(meter.period)
                       = forwarding + Pending(meter.period) + Unacked(meter.period)
                  /\ Pending(meter.period) \in Nat /\ forwarding \in Nat
                BY <1>2, <2>4, <3>1, HaveFigures DEF Figures
            <4>2. b = Ahead(h, meter.period)
                BY DEF Ahead
            <4> QED
                BY <4>1, <4>2 DEF Month
        <3>2. CASE meter.period \notin Periods
            <4>1. b = 0
                BY <3>2 DEF BytesOf, Recorded
            <4> QED
                BY <3>2, <4>1 DEF Month
        <3> QED
            BY <3>1, <3>2
    <2> HIDE DEF b, h
    <2>7. meter \in Meters /\ meter.last \in Nat /\ meter.last <= meter.quota
        BY <1>2 DEF QuotaTypes, Meters
    <2>8. /\ Minus(meter.last, b) \in Nat /\ Minus(meter.last, b) <= meter.last
          /\ meter.last <= Minus(meter.last, b) + b
        BY <2>6, <2>7 DEF Minus
    <2>9. /\ meter' \in Meters /\ meter'.last = Minus(meter.last, b)
          /\ meter'.quota = meter.quota /\ meter'.remaining = meter.remaining
          /\ meter'.period = meter.period
        BY <2>5, <2>7, <2>8 DEF Meters
    <2>10. meter'.last <= meter'.quota
        BY <2>7, <2>8, <2>9 DEF Meters
    <2>11. QuotaTypes'
        BY <1>1, <1>2, <1>3, <2>9, <2>10 DEF QuotaTypes
    <2>12. Expected' = Minus(meter.last, b) /\ Expected = meter.last
        BY <2>9 DEF Expected
    <2>13. \A p \in Periods : p = Month => Expected <= Expected' + Outstanding(p)
        BY <2>6, <2>7, <2>8, <2>12
    <2> QED
        BY <2>7, <2>8, <2>9, <2>11, <2>12, <2>13 DEF Quota, Remaining, Month
<1> QED
    BY <1>4, <1>5

LEMMA LinkKeeps == ASSUME QuotaInv, LinkBreaks \/ AckFails PROVE QuotaInv'
<1>1. /\ session' = "down" /\ reports' = <<>> /\ frames' = <<>>
      /\ exposed' = [p \in Periods |-> exposed[p] + Outstanding(p)]
      /\ UNCHANGED <<pending, forwarding, log, acked, now, allowance, billed, used, told,
                     spent, limit, carried>>
    BY DEF LinkBreaks, AckFails, Unlink, Expose, meterVars, logVars, platformVars
<1>2. QuotaTypes /\ Books /\ Chain /\ Told
    BY DEF QuotaInv
<1>3. PICK y \in 0..Len(log) : Crossing(y) /\ Bounded(y)
    BY DEF QuotaInv
<1>4. PICK x \in 0..Len(log) : x = billed
    BY <1>2 DEF QuotaTypes
<1>5. ASSUME NEW p \in Periods
      PROVE  Figures(p, x) /\ Figures(p, y) /\ Exposed(p)' = Exposed(p) + Outstanding(p)
    BY <1>1, <1>2, HaveFigures DEF Exposed
<1>6. /\ QuotaTypes'
      /\ Quota' = Quota /\ Remaining' = Remaining /\ Month' = Month
      /\ Expected' \in Nat /\ Expected' <= Expected
      /\ \A p \in Periods : p = Month => Expected <= Expected' + Outstanding(p)
    BY LinkMeter
<1>7. Books'
    BY <1>1, <1>2, BooksStay
<1>8. Chain' /\ Told'
    <2>1. Len(frames') = 0
        BY <1>1
    <2> QED
        BY <1>1, <1>2, <1>6, <2>1 DEF Chain, Told, Quota, Month
<1>9. Crossing(x)' /\ x \in 0..Len(log')
    BY <1>1, <1>2, <1>4, NothingUnderWay
<1>10. /\ Quota' = Quota /\ Remaining' = Remaining /\ Month' = Month
       /\ \A p \in Periods :
             /\ Pending(p)' = Pending(p) /\ Spent(p)' = Spent(p) /\ Limit(p)' = Limit(p)
             /\ Carried(p)' = Carried(p)
    BY <1>1, <1>6 DEF Pending, Spent, Limit, Carried
<1>11. ASSUME NEW p \in Periods
       PROVE  /\ Unacked(p)' = Unacked(p) /\ Ahead(x, p)' = Ahead(x, p)
              /\ Lost(p)' = Lost(p) /\ Outstanding(p)' = Outstanding(p)
    <2>1. Total(p)' = Total(p) /\ Unacked(p)' = Unacked(p) /\ Ahead(x, p)' = Ahead(x, p)
        BY <1>1, LogFiguresStay
    <2>2. Lost(p)' = Lost(p)
        BY <2>1, <1>10 DEF Lost
    <2>3. /\ Outstanding(p) = forwarding + Pending(p) + Unacked(p)
          /\ Outstanding(p)' = forwarding' + Pending(p)' + Unacked(p)'
        BY DEF Outstanding, Pending, Unacked
    <2> QED
        BY <2>1, <2>2, <2>3, <1>1, <1>10
<1>12. ASSUME NEW p \in Periods
       PROVE  /\ Exposed(p) \in Nat /\ Outstanding(p) \in Nat /\ Lost(p) \in Int
              /\ Exposed(p)' \in Nat /\ Exposed(p) <= Exposed(p)'
    <2>1. Exposed(p) \in Nat /\ Outstanding(p) \in Nat /\ Lost(p) \in Int
        BY <1>5 DEF Figures
    <2>2. Exposed(p)' = Exposed(p) + Outstanding(p)
        BY <1>5
    <2> QED
        BY <2>1, <2>2
<1>13. Forgotten'
    <2>1. ASSUME NEW p \in Periods
          PROVE  Lost(p)' >= 0 /\ Lost(p)' <= Exposed(p)'
        <3>1. Lost(p) >= 0 /\ Lost(p) <= Exposed(p)
            BY DEF QuotaInv, Forgotten
        <3> QED
            BY <3>1, <1>11, <1>12
    <2>2. ASSUME told = Nothing, NEW p \in Periods
          PROVE  Pending(p)' = 0 /\ Unacked(p)' + Lost(p)' <= Exposed(p)'
        <3>1. Pending(p) = 0 /\ Unacked(p) + Lost(p) <= Exposed(p)
            BY <2>2 DEF QuotaInv, Forgotten
        <3>2. Unacked(p) \in Nat
            BY <1>5 DEF Figures
        <3>3. Unacked(p) + Lost(p) <= Exposed(p)'
            BY <3>1, <3>2, <1>12
        <3> QED
            BY <3>1, <3>3, <1>10, <1>11
    <2> QED
        BY <1>1, <1>10, <2>1, <2>2 DEF QuotaInv, Forgotten
<1>14. Within'
    <2> SUFFICES ASSUME Quota > 0, NEW p \in Periods, p = Month
                 PROVE  /\ Remaining' + Outstanding(p)' + Lost(p)'
                              <= Expected' + Carried(p)' + Exposed(p)'
                        /\ Carried(p)' = 0 => Expected' <= Remaining' + Outstanding(p)'
        BY <1>10 DEF Within
    <2>1. /\ Remaining + Outstanding(p) + Lost(p) <= Expected + Carried(p) + Exposed(p)
          /\ Carried(p) = 0 => Expected <= Remaining + Outstanding(p)
        BY DEF QuotaInv, Within
    <2>2. Carried(p) \in Nat /\ Remaining \in Nat /\ Expected \in Nat
        BY <1>2, <1>5, HaveMeterFigures DEF Figures, MeterFigures
    <2>3. Expected' \in Nat /\ Expected' <= Expected /\ Expected <= Expected' + Outstanding(p)
        BY <1>6
    <2>4. Exposed(p)' = Exposed(p) + Outstanding(p)
        BY <1>5
    <2>5. Remaining + Outstanding(p) + Lost(p) <= Expected' + Carried(p) + Exposed(p)'
        <3>1. /\ Exposed(p) \in Nat /\ Outstanding(p) \in Nat /\ Lost(p) \in Int
              /\ Carried(p) \in Nat /\ Remaining \in Nat /\ Expected \in Nat
            BY <2>2, <1>12
        <3>2. Expected + Exposed(p) <= Expected' + Exposed(p)'
            BY <3>1, <2>3, <2>4
        <3>3. Expected' \in Nat /\ Exposed(p)' \in Nat
            BY <2>3, <1>12
        <3>4. Expected + Carried(p) + Exposed(p) <= Expected' + Carried(p) + Exposed(p)'
            BY <3>1, <3>2, <3>3
        <3> QED
            BY <3>1, <3>3, <3>4, <2>1
    <2>6. Carried(p) = 0 => Expected' <= Remaining + Outstanding(p)
        BY <2>1, <2>2, <2>3, <1>12
    <2> QED
        BY <2>5, <2>6, <1>10, <1>11
<1>15. Bounded(x)'
    <2>1. ASSUME NEW p \in Periods
          PROVE  /\ Ahead(x, p) \in Nat /\ Ahead(x, p) <= Outstanding(p)
                 /\ Ahead(y, p) \in Nat /\ Spent(p) \in Nat /\ Carried(p) \in Nat
                 /\ Limit(p) \in Int
                 /\ Remaining \in Nat /\ Quota \in Nat /\ forwarding \in Nat
        <3>1. /\ Ahead(x, p) \in Nat /\ Ahead(x, p) <= Unacked(p) /\ Unacked(p) \in Nat
              /\ Outstanding(p) = forwarding + Pending(p) + Unacked(p)
              /\ Pending(p) \in Nat /\ forwarding \in Nat
            BY <1>5 DEF Figures
        <3>2. Ahead(x, p) <= Outstanding(p)
            BY <3>1
        <3>3. Ahead(y, p) \in Nat /\ Spent(p) \in Nat /\ Carried(p) \in Nat /\ Limit(p) \in Int
            BY <1>5 DEF Figures
        <3> QED
            BY <1>2, <3>1, <3>2, <3>3, HaveMeterFigures DEF MeterFigures
    <2>2. ASSUME NEW p \in Periods, Quota > 0, p = Month
          PROVE  Remaining' + forwarding' + Spent(p)' + Ahead(x, p)'
                    <= Quota' + Carried(p)' + Exposed(p)'
        <3>1. Remaining + forwarding + Spent(p) + Ahead(y, p) <= Quota + Carried(p) + Exposed(p)
            BY <1>3, <2>2 DEF Bounded
        <3>2. /\ Ahead(x, p) \in Nat /\ Ahead(x, p) <= Outstanding(p) /\ Ahead(y, p) \in Nat
              /\ Spent(p) \in Nat /\ Carried(p) \in Nat /\ Exposed(p) \in Nat
              /\ Outstanding(p) \in Nat /\ Remaining \in Nat /\ Quota \in Nat /\ forwarding \in Nat
            BY <2>1, <1>12
        <3>3. Remaining + forwarding + Spent(p) + Ahead(x, p)
                 <= Quota + Carried(p) + (Exposed(p) + Outstanding(p))
            BY <3>1, <3>2
        <3> QED
            BY <3>3, <1>1, <1>5, <1>10, <1>11
    <2>3. ASSUME NEW p \in Periods, Limit(p)' > 0
          PROVE  Spent(p)' + Ahead(x, p)' <= Limit(p)' + Carried(p)' + Exposed(p)'
        <3>1. Spent(p) + Ahead(y, p) <= Limit(p) + Carried(p) + Exposed(p)
            BY <1>3, <1>10, <2>3 DEF Bounded
        <3>2. /\ Ahead(x, p) \in Nat /\ Ahead(x, p) <= Outstanding(p) /\ Ahead(y, p) \in Nat
              /\ Spent(p) \in Nat /\ Carried(p) \in Nat /\ Exposed(p) \in Nat
              /\ Outstanding(p) \in Nat /\ Limit(p) \in Int
            BY <2>1, <1>12
        <3>3. Spent(p) + Ahead(x, p) <= Limit(p) + Carried(p) + (Exposed(p) + Outstanding(p))
            BY <3>1, <3>2
        <3> QED
            BY <3>3, <1>5, <1>10, <1>11
    <2> QED
        BY <2>2, <2>3, <1>10 DEF Bounded
<1> QED
    BY <1>6, <1>7, <1>8, <1>9, <1>13, <1>14, <1>15 DEF QuotaInv

LEMMA RestartKeeps == ASSUME QuotaInv, Restart PROVE QuotaInv'
<1>1. /\ Flush \/ (log' = log /\ pending' = [p \in Periods |-> 0])
      /\ meter' = UnlimitedMeter(now) /\ forwarding' = 0 /\ told' = Nothing
      /\ session' = "down" /\ reports' = <<>> /\ frames' = <<>>
      /\ exposed' = [p \in Periods |-> exposed[p] + Outstanding(p)]
      /\ UNCHANGED <<acked, now, allowance, billed, used, spent, limit, carried>>
    BY DEF Restart, Unlink, Expose, platformVars
<1>2. QuotaTypes /\ Books /\ Chain /\ Told
    BY DEF QuotaInv
<1>3. PICK y \in 0..Len(log) : Crossing(y) /\ Bounded(y)
    BY DEF QuotaInv
<1>4. PICK x \in 0..Len(log) : x = billed
    BY <1>2 DEF QuotaTypes
<1>5. ASSUME NEW p \in Periods
      PROVE  /\ Pending(p) \in Nat /\ Spent(p) \in Nat /\ Carried(p) \in Nat /\ Exposed(p) \in Nat
             /\ Limit(p) \in Int /\ forwarding \in Nat /\ Total(p) \in Nat
             /\ Unacked(p) \in Nat /\ Ahead(x, p) \in Nat /\ Ahead(y, p) \in Nat
             /\ Ahead(x, p) <= Unacked(p)
             /\ Outstanding(p) = forwarding + Pending(p) + Unacked(p) /\ Outstanding(p) \in Nat
             /\ Lost(p) = Spent(p) - (Total(p) + Pending(p)) /\ Lost(p) \in Int
             /\ Exposed(p)' = Exposed(p) + Outstanding(p)
             /\ Spent(p)' = Spent(p) /\ Limit(p)' = Limit(p) /\ Carried(p)' = Carried(p)
    <2>1. Figures(p, x) /\ Figures(p, y)
        BY <1>2, HaveFigures
    <2>2. Exposed(p)' = Exposed(p) + Outstanding(p)
        BY <1>1 DEF Exposed
    <2>3. Spent(p)' = Spent(p) /\ Limit(p)' = Limit(p) /\ Carried(p)' = Carried(p)
        BY <1>1 DEF Spent, Limit, Carried
    <2> QED
        BY <2>1, <2>2, <2>3 DEF Figures
<1>6. /\ Books' /\ log' \in Seq(Totals) /\ pending' \in Totals /\ Len(log) <= Len(log')
      /\ Len(log') \in Nat /\ x \in 0..Len(log')
    <2>1. CASE Flush
        BY <1>1, <2>1, FlushKeeps
    <2>2. CASE log' = log /\ pending' = [p \in Periods |-> 0]
        BY <1>1, <1>2, <2>2, BooksStay DEF QuotaTypes, Totals
    <2> QED
        BY <1>1, <2>1, <2>2
\* What is pending is recorded or lost.
<1>7. ASSUME NEW p \in Periods
      PROVE  /\ Pending(p)' = 0 /\ Ahead(x, p)' = Ahead(x, p)
             /\ Lost(p)' = Lost(p) \/ Lost(p)' = Lost(p) + Pending(p)
             /\ Unacked(p)' + Lost(p)' = Unacked(p) + Pending(p) + Lost(p)
    <2>1. CASE Flush
        <3>1. /\ Pending(p)' = 0 /\ Unacked(p)' = Unacked(p) + Pending(p)
              /\ Ahead(x, p)' = Ahead(x, p) /\ Lost(p)' = Lost(p)
            BY <1>1, <1>2, <2>1, FlushFigures
        <3> QED
            BY <3>1
    <2>2. CASE log' = log /\ pending' = [q \in Periods |-> 0]
        <3>1. Pending(p)' = 0
            BY <2>2 DEF Pending
        <3>2. Total(p)' = Total(p) /\ Unacked(p)' = Unacked(p) /\ Ahead(x, p)' = Ahead(x, p)
            BY <1>1, <2>2, LogFiguresStay
        <3>3. Lost(p)' = Spent(p)' - (Total(p)' + Pending(p)')
            BY DEF Lost
        <3>4. /\ Lost(p) = Spent(p) - (Total(p) + Pending(p)) /\ Spent(p)' = Spent(p)
              /\ Spent(p) \in Nat /\ Total(p) \in Nat /\ Pending(p) \in Nat
            BY <1>5
        <3>5. Lost(p)' = Lost(p) + Pending(p)
            BY <3>1, <3>2, <3>3, <3>4
        <3>6. Lost(p) \in Int /\ Unacked(p) \in Nat /\ Pending(p) \in Nat
            BY <1>5
        <3>7. Unacked(p)' + Lost(p)' = Unacked(p) + Pending(p) + Lost(p)
            BY <3>2, <3>5, <3>6
        <3> QED
            BY <3>1, <3>2, <3>5, <3>7
    <2> QED
        BY <1>1, <2>1, <2>2
<1>8. QuotaTypes'
    <2>1. exposed' \in Totals
        <3>1. ASSUME NEW p \in Periods
              PROVE  exposed[p] + Outstanding(p) \in Nat
            <4>1. Exposed(p) \in Nat /\ Outstanding(p) \in Nat
                BY <1>5
            <4> QED
                BY <4>1 DEF Exposed
        <3> QED
            BY <1>1, <3>1 DEF Totals
    <2>2. /\ meter' \in Meters /\ meter'.quota = 0 /\ meter'.remaining = 0 /\ meter'.last = 0
        BY <1>1, <1>2 DEF QuotaTypes, UnlimitedMeter, Meters
    <2>3. told' \in Budgets
        BY <1>1 DEF Nothing, Budgets
    <2>4. billed <= Len(log')
        BY <1>4, <1>6
    <2> QED
        BY <1>1, <1>2, <1>6, <2>1, <2>2, <2>3, <2>4 DEF QuotaTypes
<1>9. Chain' /\ Told'
    <2>1. Len(frames') = 0
        BY <1>1
    <2> QED
        BY <1>1, <1>2, <2>1 DEF Chain, Told
<1>10. Crossing(x)'
    BY <1>1, <1>2, <1>4, NothingUnderWay
<1>11. Quota' = 0
    BY <1>1 DEF Quota, UnlimitedMeter
<1>12. Forgotten'
    <2>1. ASSUME NEW p \in Periods
          PROVE  /\ Lost(p)' >= 0 /\ Lost(p)' <= Exposed(p)'
                 /\ Unacked(p)' + Lost(p)' <= Exposed(p)'
        <3>1. Lost(p) >= 0 /\ Lost(p) <= Exposed(p)
            BY DEF QuotaInv, Forgotten
        <3>2. /\ Pending(p) \in Nat /\ Unacked(p) \in Nat /\ Lost(p) \in Int /\ Exposed(p) \in Nat
              /\ Outstanding(p) = forwarding + Pending(p) + Unacked(p) /\ forwarding \in Nat
              /\ Exposed(p)' = Exposed(p) + Outstanding(p)
            BY <1>5
        <3>3. /\ Exposed(p)' = Exposed(p) + (forwarding + Pending(p) + Unacked(p))
            BY <3>2
        <3>4. /\ Lost(p)' = Lost(p) \/ Lost(p)' = Lost(p) + Pending(p)
              /\ Unacked(p)' + Lost(p)' = Unacked(p) + Pending(p) + Lost(p)
            BY <1>7
        <3>5. /\ Lost(p) + Pending(p) >= 0
              /\ Lost(p) <= Exposed(p) + (forwarding + Pending(p) + Unacked(p))
              /\ Lost(p) + Pending(p) <= Exposed(p) + (forwarding + Pending(p) + Unacked(p))
              /\ Unacked(p) + Pending(p) + Lost(p)
                    <= Exposed(p) + (forwarding + Pending(p) + Unacked(p))
            BY <3>1, <3>2
        <3> QED
            BY <3>1, <3>3, <3>4, <3>5
    <2> QED
        BY <1>1, <1>7, <1>11, <2>1 DEF Forgotten
<1>13. Within'
    BY <1>11 DEF Within
<1>14. Bounded(x)'
    <2>1. ASSUME NEW p \in Periods, Limit(p)' > 0
          PROVE  Spent(p)' + Ahead(x, p)' <= Limit(p)' + Carried(p)' + Exposed(p)'
        <3>1. Spent(p) + Ahead(y, p) <= Limit(p) + Carried(p) + Exposed(p)
            BY <1>3, <1>5, <2>1 DEF Bounded
        <3>2. /\ Ahead(x, p) \in Nat /\ Ahead(x, p) <= Unacked(p) /\ Ahead(y, p) \in Nat
              /\ Unacked(p) \in Nat /\ Pending(p) \in Nat /\ forwarding \in Nat
              /\ Outstanding(p) = forwarding + Pending(p) + Unacked(p) /\ Outstanding(p) \in Nat
            BY <1>5
        <3>3. Ahead(x, p) <= Outstanding(p)
            BY <3>2
        <3>4. /\ Ahead(x, p) \in Nat /\ Ahead(y, p) \in Nat /\ Outstanding(p) \in Nat
              /\ Spent(p) \in Nat /\ Limit(p) \in Int /\ Carried(p) \in Nat /\ Exposed(p) \in Nat
            BY <1>5
        <3>5. Spent(p) + Ahead(x, p) <= Limit(p) + Carried(p) + (Exposed(p) + Outstanding(p))
            BY <3>1, <3>3, <3>4
        <3> QED
            BY <3>5, <1>5, <1>7
    <2> QED
        BY <1>11, <2>1 DEF Bounded
<1> QED
    BY <1>6, <1>8, <1>9, <1>10, <1>12, <1>13, <1>14 DEF QuotaInv

\* The Platform grants more, or the month ends.
LEMMA PlatformKeeps ==
    ASSUME OnlyGrows, QuotaInv, ChangeAllowance \/ MonthEnds
    PROVE  QuotaInv'
<1>1. UNCHANGED <<meter, pending, forwarding, log, acked, session, reports, frames, billed,
                  used, told, spent, limit, carried, exposed>>
    BY DEF ChangeAllowance, MonthEnds, meterVars, logVars, linkVars, historyVars
<1>2. QuotaTypes /\ Books /\ Chain /\ Told
    BY DEF QuotaInv
<1>3. now \in Periods /\ now \in Nat /\ allowance \in Nat
    <2>1. now \in Periods /\ allowance \in Nat
        BY <1>2 DEF QuotaTypes
    <2> QED
        BY <2>1, QuotaAssumption DEF Periods
<1>4. /\ now' \in Periods /\ now' \in Nat /\ now <= now' /\ allowance' \in Nat
      /\ Below(allowance, allowance') /\ (allowance = 0 => allowance' = 0)
    <2>1. CASE ChangeAllowance
        <3>1. now' = now
            BY <2>1 DEF ChangeAllowance
        <3>2. PICK a \in Allowances \ {allowance} :
                 /\ Change(CASE a = NoAllowance -> "withdraw" [] a = 0 -> "unlimit"
                             [] a > allowance /\ allowance > 0 -> "grow"
                             [] OTHER -> "lower")
                 /\ allowance' = a
            BY <2>1 DEF ChangeAllowance
        <3>3. a # NoAllowance /\ a \in Nat
            BY <3>2, QuotaAssumption DEF OnlyGrows
        <3>4. a = 0 \/ (a > allowance /\ allowance > 0)
            BY <3>2, <3>3 DEF Change, OnlyGrows
        <3> QED
            BY <1>3, <3>1, <3>2, <3>3, <3>4 DEF Below
    <2>2. CASE MonthEnds
        <3>1. now' = now + 1 /\ now + 1 \in Periods /\ allowance' = allowance
            BY <2>2 DEF MonthEnds
        <3> QED
            BY <1>3, <3>1 DEF Below
    <2> QED
        BY <2>1, <2>2
<1>5. ASSUME NEW a \in Nat, Below(a, allowance)
      PROVE  Below(a, allowance')
    BY <1>3, <1>4, <1>5 DEF Below
<1>6. ASSUME NEW p \in Nat, p <= now
      PROVE  p <= now'
    BY <1>3, <1>4, <1>6
<1>7. Chain'
    <2>1. ASSUME NEW i \in 1..Len(frames), IsSnap(i)
          PROVE  /\ frames[i].budget.period <= now' /\ Below(frames[i].budget.quota, allowance')
        <3>1. /\ frames[i].budget.period \in Periods /\ frames[i].budget.period <= now
              /\ Below(frames[i].budget.quota, allowance)
            BY <1>2, <2>1 DEF Chain
        <3>2. frames[i].budget.quota \in Nat
            <4>1. frames[i] \in Frames
                BY <1>2 DEF QuotaTypes
            <4> QED
                BY <4>1 DEF Frames, Budgets
        <3>3. frames[i].budget.period \in Nat
            BY <3>1, QuotaAssumption DEF Periods
        <3> QED
            BY <1>5, <1>6, <3>1, <3>2, <3>3
    <2>2. told # Nothing => Below(meter.quota, allowance')
        <3>1. meter.quota \in Nat
            BY <1>2 DEF QuotaTypes, Meters
        <3> QED
            BY <1>2, <1>5, <3>1 DEF Chain
    <2>3. ASSUME NEW p \in Periods, limit[p] # 0
          PROVE  p <= now' /\ Below(Higher(limit[p], 0), allowance')
        <3>1. p <= now /\ Below(Higher(limit[p], 0), allowance)
            BY <1>2, <2>3 DEF Chain
        <3>2. limit[p] \in Nat \cup {NoLimit}
            BY <1>2 DEF QuotaTypes
        <3>3. Higher(limit[p], 0) \in Nat
            BY <3>2 DEF Higher, NoLimit
        <3>4. p \in Nat
            BY QuotaAssumption DEF Periods
        <3> QED
            BY <1>5, <1>6, <3>1, <3>3, <3>4
    <2> QED
        BY <1>1, <1>2, <2>1, <2>2, <2>3 DEF Chain, IsSnap
<1>8. QuotaTypes'
    BY <1>1, <1>2, <1>4 DEF QuotaTypes
<1>9. Told'
    BY <1>1, <1>2, <1>4 DEF Told, IsSnap
<1>10. Books'
    BY <1>1, <1>2, BooksStay
<1>11. PICK x \in 0..Len(log) : Crossing(x) /\ Bounded(x)
    BY DEF QuotaInv
<1>12. Crossing(x)' /\ x \in 0..Len(log')
    BY <1>1, <1>2, <1>11, CrossingStays, LogStays
<1>13. Forgotten' /\ Within' /\ Bounded(x)'
    BY <1>1, <1>11, FiguresStay
<1> QED
    BY <1>7, <1>8, <1>9, <1>10, <1>12, <1>13 DEF QuotaInv

-----------------------------------------------------------------------------
(* A snapshot is applied.                                                  *)

\* What update makes of a budget: the local remainder r moves with what the
\* Platform's remainder differs from the expected one, l, within its bounds.
LEMMA UpdatedMeter ==
    ASSUME QuotaTypes, NEW b \in Budgets, b.period \in Periods, b.remaining <= b.quota,
           b.quota > 0 /\ ~IsFresh(b) => meter.quota <= b.quota
    PROVE  /\ Updated(b) \in Meters /\ Updated(b).quota = b.quota
           /\ Updated(b).remaining <= b.quota /\ Updated(b).last <= b.quota
           /\ b.quota > 0 => Updated(b).period = b.period /\ Updated(b).last = b.remaining
           /\ b.quota > 0 /\ IsFresh(b) => Updated(b).remaining = b.remaining
           /\ b.quota > 0 /\ ~IsFresh(b) =>
                 LET moved == meter.remaining + b.remaining - meter.last
                 IN  \/ Updated(b).remaining = moved /\ moved >= 0
                     \/ Updated(b).remaining = b.remaining /\ b.remaining > 0 /\ b.remaining <= moved
                     \/ Updated(b).remaining = 0 /\ moved < 0
<1>1. /\ meter \in Meters /\ meter.remaining <= meter.quota /\ meter.last <= meter.quota
    BY DEF QuotaTypes
<1>2. meter.remaining \in Nat /\ meter.quota \in Nat /\ meter.last \in Nat
    BY <1>1 DEF Meters
<1>3. b.period \in Periods \cup {0} /\ b.quota \in Nat /\ b.remaining \in Nat
    BY DEF Budgets
<1>4. b.period # 0
    BY QuotaAssumption DEF Periods
<1>5. CASE b.quota = 0
    <2>1. Updated(b) = UnlimitedMeter(0)
        BY <1>5 DEF Updated
    <2> QED
        BY <2>1, <1>5 DEF UnlimitedMeter, Meters
<1>6. CASE b.quota > 0 /\ IsFresh(b)
    <2>1. Updated(b) = FreshMeter(b)
        BY <1>3, <1>4, <1>6 DEF Updated
    <2>2. Lower(b.remaining, b.quota) = b.remaining
        BY <1>3 DEF Lower
    <2>3. FreshMeter(b) = [period |-> b.period, quota |-> b.quota,
                           remaining |-> b.remaining, last |-> b.remaining]
        BY <2>2 DEF FreshMeter
    <2> QED
        BY <2>1, <2>3, <1>3, <1>6 DEF Meters
<1>7. CASE b.quota > 0 /\ ~IsFresh(b)
    <2>1. meter.quota <= b.quota
        BY <1>7
    <2>2. PICK r, l, k, q, c \in Nat :
             r = meter.remaining /\ l = meter.last /\ k = meter.quota /\ q = b.quota /\ c = b.remaining
        BY <1>2, <1>3
    <2>3. r <= k /\ l <= k /\ k <= q /\ c <= q
        BY <1>1, <2>1, <2>2
    <2>4. /\ Lower(b.remaining, b.quota) = c /\ Minus(b.quota, meter.quota) = q - k
          /\ Lower(meter.last, meter.quota) = l
        <3>1. Lower(c, q) = c /\ Minus(q, k) = q - k /\ Lower(l, k) = l
            BY <2>3 DEF Lower, Minus
        <3> QED
            BY <2>2, <3>1
    <2>5. Updated(b) = Adjusted(b)
        BY <1>3, <1>4, <1>7 DEF Updated
    <2>6. Adjusted(b) = [period |-> b.period, quota |-> q, last |-> c,
             remaining |-> IF c > l + (q - k)
                           THEN Lower(r + (q - k) + (c - (l + (q - k))), c)
                           ELSE Minus(r + (q - k), (l + (q - k)) - c)]
        BY <2>1, <2>2, <2>4 DEF Adjusted
    <2>7. ASSUME NEW z, z = IF c > l + (q - k)
                            THEN Lower(r + (q - k) + (c - (l + (q - k))), c)
                            ELSE Minus(r + (q - k), (l + (q - k)) - c)
          PROVE  /\ z \in Nat /\ z <= q
                 /\ \/ z = r + c - l /\ r + c - l >= 0
                    \/ z = c /\ c > 0 /\ c <= r + c - l
                    \/ z = 0 /\ r + c - l < 0
        BY <2>3, <2>7 DEF Lower, Minus
    <2>8. PICK z : z = IF c > l + (q - k)
                       THEN Lower(r + (q - k) + (c - (l + (q - k))), c)
                       ELSE Minus(r + (q - k), (l + (q - k)) - c)
        OBVIOUS
    <2>9. /\ Updated(b).period = b.period /\ Updated(b).quota = q /\ Updated(b).last = c
          /\ Updated(b).remaining = z
          /\ Updated(b) = [period |-> b.period, quota |-> q, last |-> c, remaining |-> z]
        BY <2>5, <2>6, <2>8
    <2>10. /\ z \in Nat /\ z <= q
           /\ \/ z = r + c - l /\ r + c - l >= 0
              \/ z = c /\ c > 0 /\ c <= r + c - l
              \/ z = 0 /\ r + c - l < 0
        BY <2>7, <2>8
    <2>11. Updated(b) \in Meters
        BY <2>9, <2>10, <1>3 DEF Meters
    <2>12. LET mv == meter.remaining + b.remaining - meter.last
                 IN  \/ Updated(b).remaining = mv /\ mv >= 0
                     \/ Updated(b).remaining = b.remaining /\ b.remaining > 0 /\ b.remaining <= mv
                     \/ Updated(b).remaining = 0 /\ mv < 0
        BY <2>2, <2>9, <2>10
    <2> QED
        BY <1>7, <2>2, <2>3, <2>9, <2>10, <2>11, <2>12
<1> QED
    BY <1>3, <1>5, <1>6, <1>7

\* A snapshot, with what is known of its budget b.
Snapshot(b) ==
    /\ b \in Budgets /\ b.period \in Periods /\ b # Nothing
    /\ b.quota \in Nat /\ b.remaining \in Nat /\ b.remaining <= b.quota
    /\ told # Nothing => Below(meter.quota, b.quota)
    /\ \A p \in Periods : limit[p] # 0 => p <= b.period /\ Below(Higher(limit[p], 0), b.quota)
    /\ \A p \in Periods : spent[p] > 0 /\ limit[p] = 0 => b.quota = 0
    /\ b.period <= now /\ Below(b.quota, allowance)

LEMMA HaveSnapshot ==
    ASSUME QuotaInv, ApplySnapshot
    PROVE  /\ Snapshot(frames[1].budget) /\ 1 \in 1..Len(frames) /\ IsSnap(1)
           /\ meter' = Updated(frames[1].budget) /\ told' = frames[1].budget
<1>1. QuotaTypes /\ Books /\ Chain /\ frames \in Seq(Frames) /\ frames # <<>>
    BY DEF QuotaInv, QuotaTypes, ApplySnapshot
<1>2. frames' = Tail(frames)
    BY DEF ApplySnapshot
<1>3. 1 \in 1..Len(frames) /\ Head(frames) = frames[1]
    BY <1>1, <1>2, TailFrames
<1>4. IsSnap(1)
    BY <1>3 DEF ApplySnapshot, IsSnap
<1> DEFINE b == frames[1].budget
<1>5. /\ b.period \in Periods /\ b.period <= now /\ Below(b.quota, allowance)
      /\ told # Nothing => Below(meter.quota, b.quota)
      /\ \A p \in Periods : limit[p] # 0 => p <= b.period /\ Below(Higher(limit[p], 0), b.quota)
    BY <1>1, <1>3, <1>4 DEF Chain
<1>6. b \in Budgets /\ b.quota \in Nat /\ b.remaining \in Nat
    <2>1. frames[1] \in Frames
        BY <1>1, <1>3
    <2> QED
        BY <2>1 DEF Frames, Budgets
<1>7. b.remaining <= b.quota
    <2>1. PICK x \in 0..Len(log) : Crossing(x)
        BY DEF QuotaInv
    <2>2. PICK n \in 0..billed : b.remaining = Minus(b.quota, Recorded(n, b.period))
        BY <1>3, <1>4, <2>1 DEF Crossing
    <2>3. Recorded(n, b.period) \in Nat
        <3>1. log \in Seq(Totals) /\ n \in 0..Len(log)
            BY <1>1 DEF QuotaTypes
        <3> QED
            BY <3>1, RecordedType
    <2>4. ASSUME NEW z \in Nat PROVE Minus(b.quota, z) <= b.quota
        BY <1>6 DEF Minus
    <2> QED
        BY <2>2, <2>3, <2>4
<1>8. b.period # 0
    BY <1>5, QuotaAssumption DEF Periods
<1>9. b # Nothing /\ b # Absent
    BY <1>8 DEF Nothing, Absent
<1>10. meter' = Updated(b) /\ told' = b
    BY <1>3, <1>9 DEF ApplySnapshot
<1>11. \A p \in Periods : spent[p] > 0 /\ limit[p] = 0 => b.quota = 0
    BY <1>3, <1>4 DEF QuotaInv, Told
<1> QED
    BY <1>3, <1>4, <1>5, <1>6, <1>7, <1>9, <1>10, <1>11 DEF Snapshot

\* A budget that is not the first since a restart is at least the last one.
LEMMA FollowingBudget ==
    ASSUME QuotaInv, NEW b, Snapshot(b), b.quota > 0, told # Nothing
    PROVE  /\ meter.quota > 0 /\ meter.quota <= b.quota
           /\ meter.period = told.period /\ limit[told.period] = meter.quota
           /\ told.period \in Periods
           /\ IsFresh(b) => limit[b.period] = 0 /\ spent[b.period] = 0
<1>1. meter.quota > 0 /\ meter.quota <= b.quota
    BY DEF Snapshot, Below
<1>2. /\ told.period \in Periods /\ meter.period = told.period
      /\ limit[told.period] = meter.quota
      /\ \A p \in Periods : limit[p] # 0 => p <= told.period
    BY <1>1 DEF QuotaInv, Told
<1>3. ASSUME IsFresh(b)
      PROVE  limit[b.period] = 0
    <2>1. b.period \in Periods /\ b.period # told.period
        BY <1>1, <1>2, <1>3 DEF IsFresh, Snapshot
    <2>2. limit[told.period] # 0
        BY <1>1, <1>2
    <2>3. told.period <= b.period
        BY <1>2, <2>2 DEF Snapshot
    <2>4. told.period \in Nat /\ b.period \in Nat
        BY <1>2, <2>1, QuotaAssumption DEF Periods
    <2>5. ~(b.period <= told.period)
        BY <2>1, <2>3, <2>4
    <2> QED
        BY <1>2, <2>1, <2>5
<1>4. ASSUME IsFresh(b)
      PROVE  spent[b.period] = 0
    <2>1. spent[b.period] \in Nat
        BY DEF QuotaInv, QuotaTypes, Totals, Snapshot
    <2>2. ~(spent[b.period] > 0)
        BY <1>3, <1>4 DEF Snapshot
    <2> QED
        BY <2>1, <2>2
<1> QED
    BY <1>1, <1>2, <1>3, <1>4

\* What a snapshot says and what it changes, in figures, y being the month of its
\* budget, c its remainder and d its quota.
LEMMA SnapshotFigures ==
    ASSUME QuotaInv, ApplySnapshot, NEW x \in 0..Len(log), Crossing(x),
           NEW y \in Periods, NEW c \in Nat, NEW d \in Nat,
           y = frames[1].budget.period, c = frames[1].budget.remaining, d = frames[1].budget.quota
    PROVE  /\ Quota' = d /\ Remaining' \in Nat /\ Remaining' <= d /\ c <= d
           /\ d > 0 => Month' = y /\ Expected' = c
           /\ c = Minus(d, Acked(y) + Ahead(x, y))
           /\ d = 0 => Limit(y)' < 0
           /\ d > 0 => Limit(y)' = d
           /\ \A p \in Periods : p # y => Limit(p)' = Limit(p) /\ Carried(p)' = Carried(p)
           /\ \A p \in Periods : /\ Lost(p)' = Lost(p) /\ Outstanding(p)' = Outstanding(p)
                                 /\ Ahead(x, p)' = Ahead(x, p)
                                 /\ Spent(p)' = Spent(p) /\ Exposed(p)' = Exposed(p)
           /\ forwarding' = forwarding
<1> DEFINE b == frames[1].budget
<1>1. /\ Snapshot(b) /\ 1 \in 1..Len(frames) /\ IsSnap(1)
      /\ meter' = Updated(b) /\ told' = b
    BY HaveSnapshot
<1>2. QuotaTypes /\ Books
    BY DEF QuotaInv
<1>3. b.quota > 0 /\ ~IsFresh(b) => meter.quota <= b.quota
    <2> SUFFICES ASSUME b.quota > 0, ~IsFresh(b) PROVE meter.quota <= b.quota
        OBVIOUS
    <2>1. meter.quota > 0
        BY <1>2 DEF IsFresh, QuotaTypes, Meters
    <2>2. told # Nothing
        BY <2>1 DEF QuotaInv, Forgotten, Quota
    <2> QED
        BY <1>1, <2>2, FollowingBudget
<1>4. /\ meter' \in Meters /\ meter'.quota = b.quota
      /\ meter'.remaining <= b.quota
      /\ b.quota > 0 => meter'.period = b.period /\ meter'.last = b.remaining
    BY <1>1, <1>2, <1>3, UpdatedMeter DEF Snapshot
<1>5. /\ Quota' = d /\ Remaining' \in Nat /\ Remaining' <= d
      /\ d > 0 => Month' = y /\ Expected' = c
    BY <1>4 DEF Meters, Quota, Remaining, Month, Expected
<1>6. c <= d
    BY <1>1 DEF Snapshot
<1>7. c = Minus(d, Acked(y) + Ahead(x, y))
    <2>1. PICK n \in 0..billed :
             /\ b.remaining = Minus(b.quota, Recorded(n, b.period))
             /\ acked <= n /\ x <= n
             /\ n \in {x, acked} \/ \E j \in 1..(1 - 1) : IsAck(j) /\ frames[j].through = n
        BY <1>1 DEF Crossing
    <2>2. n \in {x, acked} /\ n \in Nat /\ acked \in Nat
        BY <1>2, <2>1 DEF QuotaTypes
    <2>3. Ahead(x, y) = IF acked < x THEN Recorded(x, y) - Acked(y) ELSE 0
        BY DEF Ahead, BytesOf, Acked
    <2>4. Acked(y) \in Nat /\ Recorded(x, y) \in Nat
        <3>1. log \in Seq(Totals) /\ acked \in 0..Len(log)
            BY <1>2 DEF QuotaTypes
        <3> QED
            BY <3>1, RecordedType DEF Acked
    <2>5. Recorded(n, y) = Acked(y) + Ahead(x, y)
        <3>1. CASE n = acked
            <4>1. ~(acked < x)
                BY <2>1, <2>2, <3>1
            <4>2. Recorded(n, y) = Acked(y)
                BY <3>1 DEF Acked
            <4> QED
                BY <2>3, <2>4, <4>1, <4>2
        <3>2. CASE n = x /\ n # acked
            <4>1. acked < x
                BY <2>1, <2>2, <3>2
            <4> QED
                BY <2>3, <2>4, <3>2, <4>1
        <3> QED
            BY <2>2, <3>1, <3>2
    <2> QED
        BY <2>1, <2>5
<1>8. /\ Flush
      /\ limit' = [p \in Periods |-> IF p = b.period THEN Raised(limit[p], b) ELSE limit[p]]
      /\ carried' = [p \in Periods |-> IF p = b.period /\ IsFresh(b) /\ told # Nothing
                                       THEN Outstanding(p) ELSE carried[p]]
      /\ UNCHANGED <<forwarding, acked, spent, exposed>>
    <2>1. Head(frames) = frames[1]
        BY <1>2, TailFrames DEF ApplySnapshot, QuotaTypes
    <2> QED
        BY <2>1 DEF ApplySnapshot, UsageSnapshot
<1>9. \A p \in Periods : p # y => Limit(p)' = Limit(p) /\ Carried(p)' = Carried(p)
    BY <1>8 DEF Limit, Carried
<1>10. (d = 0 => Limit(y)' < 0) /\ (d > 0 => Limit(y)' = d)
    <2>1. Limit(y)' = Raised(limit[y], b)
        BY <1>8 DEF Limit
    <2>2. limit[y] \in Nat \cup {NoLimit}
        BY <1>2 DEF QuotaTypes
    <2>3. limit[y] # 0 => Below(Higher(limit[y], 0), d)
        BY <1>1 DEF Snapshot
    <2>4. CASE d = 0
        BY <2>1, <2>4 DEF Raised, NoLimit
    <2>5. CASE d > 0
        <3>1. limit[y] \in Nat /\ limit[y] <= d
            BY <2>2, <2>3, <2>5 DEF Below, Higher, NoLimit
        <3>2. Raised(limit[y], b) = Higher(limit[y], d)
            BY <2>5, <3>1 DEF Raised, NoLimit
        <3>3. Higher(limit[y], d) = d
            BY <3>1 DEF Higher
        <3> QED
            BY <2>1, <2>5, <3>2, <3>3
    <2> QED
        BY <2>4, <2>5
<1>11. ASSUME NEW p \in Periods
       PROVE  /\ Lost(p)' = Lost(p) /\ Outstanding(p)' = Outstanding(p)
              /\ Ahead(x, p)' = Ahead(x, p)
              /\ Spent(p)' = Spent(p) /\ Exposed(p)' = Exposed(p)
    <2>1. Spent(p)' = Spent(p) /\ Exposed(p)' = Exposed(p)
        BY <1>8 DEF Spent, Exposed
    <2> QED
        BY <1>2, <1>8, <2>1, FlushFigures
<1> QED
    BY <1>5, <1>6, <1>7, <1>8, <1>9, <1>10, <1>11

\* The next frame is a snapshot of month y, with remainder c and quota d.
Says(y, c, d) ==
    y = frames[1].budget.period /\ c = frames[1].budget.remaining /\ d = frames[1].budget.quota

\* The arithmetic of a budget with a limit d: whatever case update takes, the books
\* balance again, and the month stays within its bound.
LEMMA SnapshotBalance ==
    ASSUME QuotaInv, ApplySnapshot, NEW x \in 0..Len(log), Crossing(x), Bounded(x),
           NEW y \in Periods, NEW c \in Nat, NEW d \in Nat, d > 0,
           Says(y, c, d)
    PROVE  /\ Remaining' + Outstanding(y) + Lost(y) <= c + Carried(y)' + Exposed(y)
           /\ Carried(y)' = 0 => c <= Remaining' + Outstanding(y)
           /\ Remaining' + forwarding + Spent(y) + Ahead(x, y) <= d + Carried(y)' + Exposed(y)
<1> DEFINE b == frames[1].budget
<1>0. y = b.period /\ c = b.remaining /\ d = b.quota
    BY DEF Says
<1> HIDE DEF b
<1>1. Snapshot(b) /\ meter' = Updated(b)
    BY HaveSnapshot DEF b
<1>2. QuotaTypes /\ Books /\ Forgotten /\ Within
    BY DEF QuotaInv
<1>3. c <= d /\ c = Minus(d, Acked(y) + Ahead(x, y))
    BY SnapshotFigures DEF Says
<1>4. Figures(y, x)
    BY <1>2, HaveFigures
<1>5. PICK v, n, o, e, k, a, h, s, f, u, g, t \in Nat, l \in Int :
         /\ v = c /\ n = d /\ o = Outstanding(y) /\ e = Exposed(y) /\ k = Carried(y) /\ a = Acked(y)
         /\ h = Ahead(x, y) /\ s = Spent(y) /\ f = forwarding /\ u = Unacked(y)
         /\ g = Pending(y) /\ t = Total(y) /\ l = Lost(y)
    BY <1>4 DEF Figures
<1>6. u = t - a /\ h <= u /\ o = f + g + u /\ l = s - (t + g)
    BY <1>4, <1>5 DEF Figures
<1>7. l >= 0 /\ l <= e
    BY <1>2, <1>5 DEF Forgotten
<1>8. v = (IF n < a + h THEN 0 ELSE n - (a + h)) /\ v <= n
    <2>1. v = Minus(n, a + h) /\ v <= n
        BY <1>3, <1>5
    <2> QED
        BY <2>1 DEF Minus
<1>fig. n > 0 /\ f + s = o + l + a /\ v >= n - (a + h)
    <2>1. n > 0
        BY <1>5
    <2>2. f + s = o + l + a
        BY <1>6
    <2>3. v >= n - (a + h)
        BY <1>8
    <2> QED
        BY <2>1, <2>2, <2>3
<1>9. Carried(y)' = IF IsFresh(b) /\ told # Nothing THEN o ELSE k
    <2>1. Head(frames) = frames[1]
        BY <1>2, TailFrames DEF ApplySnapshot, QuotaTypes
    <2>2. carried' = [p \in Periods |-> IF p = b.period /\ IsFresh(b) /\ told # Nothing
                                       THEN Outstanding(p) ELSE carried[p]]
        BY <2>1 DEF ApplySnapshot, b
    <2>3. Carried(y)' = IF IsFresh(b) /\ told # Nothing THEN Outstanding(y) ELSE Carried(y)
        BY <1>0, <2>2 DEF Carried
    <2> QED
        BY <2>3, <1>5
<1>10. b.quota > 0 /\ ~IsFresh(b) => meter.quota > 0 /\ told # Nothing /\ meter.quota <= b.quota
    <2> SUFFICES ASSUME b.quota > 0, ~IsFresh(b)
                 PROVE  meter.quota > 0 /\ told # Nothing /\ meter.quota <= b.quota
        OBVIOUS
    <2>1. meter.quota > 0
        BY <1>2 DEF IsFresh, QuotaTypes, Meters
    <2>2. told # Nothing
        BY <1>2, <2>1 DEF Forgotten, Quota
    <2> QED
        BY <1>1, <2>1, <2>2, FollowingBudget
<1>11. /\ IsFresh(b) => Remaining' = v
       /\ ~IsFresh(b) => LET moved == Remaining + v - Expected
                         IN  \/ Remaining' = moved /\ moved >= 0
                             \/ Remaining' = v /\ v > 0 /\ v <= moved
                             \/ Remaining' = 0 /\ moved < 0
    BY <1>0, <1>1, <1>2, <1>5, <1>10, UpdatedMeter DEF Snapshot, Remaining, Expected
<1>12. CASE IsFresh(b) /\ told = Nothing
    <2>1. f = 0 /\ g = 0 /\ u + l <= e
        BY <1>2, <1>5, <1>12 DEF Forgotten
    <2>2. Remaining' = v /\ Carried(y)' = k
        BY <1>9, <1>11, <1>12
    <2>3. v + f + s + h <= n + k + e
        <3>1. CASE n >= a + h
            BY <3>1, <2>1, <1>6, <1>8
        <3>2. CASE n < a + h
            <4>1. v = 0
                BY <3>2, <1>8
            <4>2. CASE limit[y] = 0
                <5>1. ~(spent[y] > 0)
                    BY <1>0, <1>1, <4>2 DEF Snapshot
                <5>2. ~(Spent(y) > 0) /\ s = Spent(y)
                    BY <5>1, <1>5 DEF Spent
                <5>3. s = 0
                    BY <5>2
                <5> QED
                    BY <5>3, <4>1, <2>1, <1>6, <1>7
            <4>3. CASE limit[y] # 0
                <5>1. Below(Higher(limit[y], 0), n)
                    BY <1>0, <1>1, <1>5, <4>3 DEF Snapshot
                <5>2. limit[y] \in Nat \cup {NoLimit}
                    BY <1>2 DEF QuotaTypes
                <5>3. limit[y] \in Nat /\ limit[y] > 0 /\ limit[y] <= n
                    BY <5>1, <5>2, <4>3, <1>fig DEF Below, Higher, NoLimit
                <5>4. Spent(y) + Ahead(x, y) <= Limit(y) + Carried(y) + Exposed(y)
                    BY <5>3 DEF Bounded, Limit
                <5>5. PICK m \in Nat : m = limit[y]
                    BY <5>3
                <5>6. s + h <= m + k + e /\ m <= n
                    BY <5>3, <5>4, <5>5, <1>5 DEF Limit
                <5> QED
                    BY <5>6, <4>1, <2>1
            <4> QED
                BY <4>2, <4>3
        <3> QED
            BY <3>1, <3>2
    <2>4. v + o + l <= v + k + e /\ v <= v + o
        BY <2>1, <1>6
    <2> QED
        BY <2>2, <2>3, <2>4, <1>5
<1>13. CASE IsFresh(b) /\ told # Nothing
    <2>1. Remaining' = v /\ Carried(y)' = o
        BY <1>9, <1>11, <1>13
    <2>2. spent[y] = 0
        BY <1>0, <1>1, <1>13, FollowingBudget
    <2>3. s = 0
        BY <2>2, <1>5 DEF Spent
    <2>4. v + o + l <= v + o + e /\ v <= v + o /\ v + f + s + h <= n + o + e
        BY <2>3, <1>6, <1>7, <1>8
    <2> QED
        BY <2>1, <2>4, <1>5
<1>14. CASE ~IsFresh(b)
    <2>1. meter.quota > 0 /\ told # Nothing /\ meter.quota <= b.quota /\ meter.period = y
        BY <1>0, <1>10, <1>14 DEF IsFresh
    <2>2. Quota > 0 /\ Quota <= n /\ Month = y
        BY <1>0, <1>5, <2>1 DEF Quota, Month
    <2>3. PICK r, w, q \in Nat : r = Remaining /\ w = Expected /\ q = Quota
        BY <1>2, HaveMeterFigures DEF MeterFigures
    <2>4. /\ Remaining + Outstanding(y) + Lost(y) <= Expected + Carried(y) + Exposed(y)
          /\ Carried(y) = 0 => Expected <= Remaining + Outstanding(y)
        BY <1>2, <2>2 DEF Within
    <2>5. Remaining + forwarding + Spent(y) + Ahead(x, y) <= Quota + Carried(y) + Exposed(y)
        BY <2>2 DEF Bounded
    <2>6. r + o + l <= w + k + e /\ (k = 0 => w <= r + o)
        BY <2>3, <2>4, <1>5
    <2>7. r + f + s + h <= q + k + e /\ q <= n
        BY <2>2, <2>3, <2>5, <1>5
    <2>8. Carried(y)' = k
        BY <1>9, <1>14
    <2>9. PICK z \in Int : z = Remaining' /\ ( \/ z = r + v - w /\ r + v - w >= 0
                                               \/ z = v /\ v > 0 /\ v <= r + v - w
                                               \/ z = 0 /\ r + v - w < 0 )
        BY <1>11, <1>14, <2>3
    <2>cases. z <= r + v - w \/ (z = 0 /\ r + v - w < 0)
        <3>1. CASE z = r + v - w
            BY <3>1
        <3>2. CASE z = v /\ v <= r + v - w
            BY <3>2
        <3>3. CASE z = 0 /\ r + v - w < 0
            BY <3>3
        <3> QED
            BY <3>1, <3>2, <3>3, <2>9
    <2>10. z + o + l <= v + k + e
        <3>1. CASE z <= r + v - w
            BY <3>1, <2>6
        <3>2. CASE z = 0 /\ r + v - w < 0
            BY <3>2, <2>7, <1>fig
        <3> QED
            BY <3>1, <3>2, <2>cases
    <2>11. k = 0 => v <= z + o
        <3> SUFFICES ASSUME k = 0 PROVE v <= z + o
            OBVIOUS
        <3>0. w <= r + o
            BY <2>6
        <3>1. CASE z = r + v - w
            BY <3>0, <3>1
        <3>2. CASE z = v
            BY <3>2
        <3>3. CASE z = 0 /\ r + v - w < 0
            BY <3>0, <3>3
        <3> QED
            BY <3>1, <3>2, <3>3, <2>9
    <2>12. z + f + s + h <= n + k + e
        <3>1. CASE n >= a + h /\ z <= r + v - w
            <4>1. v = n - (a + h)
                BY <3>1, <1>8
            <4>2. r + o + l <= w + k + e
                BY <2>6
            <4>3. f + s = o + l + a
                BY <1>fig
            <4> QED
                BY <3>1, <4>1, <4>2, <4>3
        <3>2. CASE n < a + h
            <4>1. v = 0
                BY <3>2, <1>8
            <4>2. z <= r
                BY <4>1, <2>9
            <4> QED
                BY <4>2, <2>7
        <3>3. CASE z = 0
            BY <3>3, <2>7
        <3>4. n >= a + h \/ n < a + h
            OBVIOUS
        <3> QED
            BY <3>1, <3>2, <3>3, <3>4, <2>cases
    <2> QED
        BY <2>8, <2>9, <2>10, <2>11, <2>12, <1>5
<1> QED
    BY <1>12, <1>13, <1>14

\* What else a snapshot changes, y being the month of its budget and d its quota.
Snapped(y, d) ==
    /\ UsageSnapshot /\ Flush
    /\ frames # <<>> /\ frames' = Tail(frames) /\ session' = "active"
    /\ forwarding' = forwarding /\ acked' = acked /\ billed' = billed /\ used' = used
    /\ now' = now /\ allowance' = allowance /\ spent' = spent /\ exposed' = exposed
    /\ told' \in Budgets /\ told'.period = y /\ told' # Nothing /\ y \in Periods /\ d \in Nat
    /\ meter' \in Meters /\ meter'.quota = d /\ meter'.remaining <= d /\ meter'.last <= d
    /\ d > 0 => meter'.period = y
    /\ carried' \in Totals
    /\ limit' \in [Periods -> Nat \cup {NoLimit}]
    /\ limit'[y] # 0 /\ Higher(limit'[y], 0) = d
    /\ d = 0 => limit'[y] = NoLimit
    /\ d > 0 => limit'[y] = d
    /\ \A p \in Periods : p # y => limit'[p] = limit[p]

LEMMA HaveSnapped ==
    ASSUME QuotaInv, ApplySnapshot
    PROVE  Snapped(frames[1].budget.period, frames[1].budget.quota)
<1> DEFINE b == frames[1].budget
           y == b.period
           d == b.quota
<1>1. Snapshot(b) /\ meter' = Updated(b) /\ told' = b
    BY HaveSnapshot
<1>2. QuotaTypes /\ Books
    BY DEF QuotaInv
<1>3. /\ UsageSnapshot /\ Flush
      /\ frames # <<>> /\ frames' = Tail(frames) /\ session' = "active"
      /\ UNCHANGED <<forwarding, acked, billed, used, now, allowance, spent, exposed>>
      /\ limit' = [p \in Periods |-> IF p = b.period THEN Raised(limit[p], b) ELSE limit[p]]
      /\ carried' = [p \in Periods |-> IF p = b.period /\ IsFresh(b) /\ told # Nothing
                                       THEN Outstanding(p) ELSE carried[p]]
    <2>1. Head(frames) = frames[1]
        BY <1>2, TailFrames DEF ApplySnapshot, QuotaTypes
    <2> QED
        BY <2>1 DEF ApplySnapshot, UsageSnapshot, platformVars
<1>4. b.quota > 0 /\ ~IsFresh(b) => meter.quota <= b.quota
    <2> SUFFICES ASSUME b.quota > 0, ~IsFresh(b) PROVE meter.quota <= b.quota
        OBVIOUS
    <2>1. meter.quota > 0
        BY <1>2 DEF IsFresh, QuotaTypes, Meters
    <2>2. told # Nothing
        BY <2>1 DEF QuotaInv, Forgotten, Quota
    <2> QED
        BY <1>1, <2>2, FollowingBudget
<1>5. /\ meter' \in Meters /\ meter'.quota = d /\ meter'.remaining <= d /\ meter'.last <= d
      /\ d > 0 => meter'.period = y
    BY <1>1, <1>2, <1>4, UpdatedMeter DEF Snapshot
<1>6. told' \in Budgets /\ told'.period = y /\ told' # Nothing /\ y \in Periods /\ d \in Nat
    BY <1>1 DEF Snapshot
<1>7. carried' \in Totals
    <2>1. ASSUME NEW p \in Periods PROVE Outstanding(p) \in Nat /\ carried[p] \in Nat
        <3>1. 0 \in 0..Len(log)
            BY <1>2 DEF QuotaTypes
        <3>2. Figures(p, 0)
            BY <1>2, <3>1, HaveFigures
        <3>3. carried \in Totals
            BY <1>2 DEF QuotaTypes
        <3> QED
            BY <3>2, <3>3 DEF Figures, Totals
    <2> QED
        BY <1>3, <2>1 DEF Totals
<1>8. limit \in [Periods -> Nat \cup {NoLimit}]
    BY <1>2 DEF QuotaTypes
<1>9. /\ limit'[y] = Raised(limit[y], b)
      /\ \A p \in Periods : p # y => limit'[p] = limit[p]
    BY <1>3, <1>6
<1>10. limit[y] # 0 => Below(Higher(limit[y], 0), d)
    BY <1>1, <1>6 DEF Snapshot
<1>11. (d = 0 => Raised(limit[y], b) = NoLimit) /\ (d > 0 => Raised(limit[y], b) = d)
    <2>1. d = 0 => Raised(limit[y], b) = NoLimit
        BY DEF Raised
    <2>2. CASE d > 0
        <3>1. limit[y] \in Nat /\ limit[y] <= d
            BY <1>6, <1>8, <1>10, <2>2 DEF Below, Higher, NoLimit
        <3>2. Raised(limit[y], b) = Higher(limit[y], d)
            BY <2>2, <3>1 DEF Raised, NoLimit
        <3>3. Higher(limit[y], d) = d
            BY <3>1, <1>6 DEF Higher
        <3> QED
            BY <2>2, <3>2, <3>3
    <2> QED
        BY <2>1, <2>2, <1>6
<1>12. (d = 0 => limit'[y] = NoLimit) /\ (d > 0 => limit'[y] = d)
    BY <1>9, <1>11
<1>13. limit'[y] # 0 /\ Higher(limit'[y], 0) = d
    <2>1. CASE d = 0
        BY <1>12, <2>1 DEF NoLimit, Higher
    <2>2. CASE d > 0
        BY <1>6, <1>12, <2>2 DEF Higher
    <2> QED
        BY <1>6, <2>1, <2>2
<1>14. limit' \in [Periods -> Nat \cup {NoLimit}]
    <2>1. Raised(limit[y], b) \in Nat \cup {NoLimit}
        BY <1>6, <1>11
    <2> QED
        BY <2>1, <1>3, <1>8
<1>15. forwarding' = forwarding /\ acked' = acked /\ billed' = billed /\ used' = used
    BY <1>3
<1>16. now' = now /\ allowance' = allowance /\ spent' = spent /\ exposed' = exposed
    BY <1>3
<1>17. /\ UsageSnapshot /\ Flush
       /\ frames # <<>> /\ frames' = Tail(frames) /\ session' = "active"
    BY <1>3
<1>18. Snapped(y, d)
    <2> HIDE DEF b, y, d
    <2> QED
        BY <1>5, <1>6, <1>7, <1>9, <1>12, <1>13, <1>14, <1>15, <1>16, <1>17 DEF Snapped
<1> QED
    BY <1>18

LEMMA SnapshotTypes ==
    ASSUME QuotaTypes, Books, NEW y, NEW d, Snapped(y, d)
    PROVE  QuotaTypes'
<1>1. /\ meter' \in Meters /\ meter'.remaining <= meter'.quota /\ meter'.last <= meter'.quota
      /\ meter'.quota > 0 => meter'.period \in Periods
    BY DEF Snapped
<1>2. log' \in Seq(Totals) /\ Len(log) <= Len(log') /\ Len(log') \in Nat /\ pending' \in Totals
    BY FlushRecords DEF Snapped
<1>3. /\ forwarding' \in Nat /\ acked' \in Nat /\ billed' \in Nat /\ acked' <= billed'
      /\ billed' <= Len(log')
    BY <1>2 DEF Snapped, QuotaTypes
<1>4. reports' \in Seq(Nat) /\ \A i \in 1..Len(reports') : reports'[i] <= Len(log')
    BY ReportsKept DEF Snapped
<1>5. frames' \in Seq(Frames)
    BY TailFrames DEF Snapped, QuotaTypes
<1>6. /\ told' \in Budgets /\ now' \in Periods /\ allowance' \in Nat
      /\ used' \in Totals /\ spent' \in Totals /\ carried' \in Totals /\ exposed' \in Totals
      /\ limit' \in [Periods -> Nat \cup {NoLimit}] /\ session' = "active"
    BY DEF Snapped, QuotaTypes
<1> QED
    BY <1>1, <1>2, <1>3, <1>4, <1>5, <1>6 DEF QuotaTypes

LEMMA SnapshotChain ==
    ASSUME QuotaTypes, Chain, Told, NEW y, NEW d, Snapped(y, d), Snapshot(frames[1].budget),
           IsSnap(1), y = frames[1].budget.period, d = frames[1].budget.quota
    PROVE  Chain' /\ Told'
<1>1. /\ 1 \in 1..Len(frames) /\ Len(frames) \in Nat
      /\ \A i \in 1..Len(frames') :
            /\ i + 1 \in 1..Len(frames) /\ frames'[i] = frames[i + 1]
            /\ (IsSnap(i)' <=> IsSnap(i + 1))
    BY TailFrames DEF Snapped, QuotaTypes
<1>2. /\ told' # Nothing /\ told'.period = y /\ y \in Periods /\ meter'.quota = d
      /\ d > 0 => meter'.period = y
      /\ limit'[y] # 0 /\ Higher(limit'[y], 0) = d
      /\ d = 0 => limit'[y] = NoLimit
      /\ d > 0 => limit'[y] = d
      /\ \A p \in Periods : p # y => limit'[p] = limit[p]
      /\ now' = now /\ allowance' = allowance /\ spent' = spent /\ d \in Nat
    BY DEF Snapped
<1>3. /\ Below(d, allowance) /\ y <= now /\ y \in Nat
      /\ \A p \in Periods : limit[p] # 0 => p <= y
    BY <1>2, QuotaAssumption DEF Snapshot, Periods
<1>4. ASSUME NEW i \in 1..Len(frames'), IsSnap(i)'
      PROVE  /\ frames'[i].budget.period \in Periods /\ frames'[i].budget.period <= now
             /\ Below(frames'[i].budget.quota, allowance)
             /\ Below(d, frames'[i].budget.quota)
             /\ y <= frames'[i].budget.period
             /\ \A p \in Periods : limit[p] # 0 =>
                   p <= frames'[i].budget.period /\ Below(Higher(limit[p], 0), frames'[i].budget.quota)
    <2>1. PICK j \in 1..Len(frames) : j = i + 1 /\ IsSnap(j) /\ frames'[i] = frames[j]
        BY <1>1, <1>4
    <2>2. 1 < j
        BY <2>1
    <2>3. y <= frames[j].budget.period /\ Below(d, frames[j].budget.quota)
        BY <1>1, <2>1, <2>2 DEF Chain
    <2>4. /\ frames[j].budget.period \in Periods /\ frames[j].budget.period <= now
          /\ Below(frames[j].budget.quota, allowance)
          /\ \A p \in Periods : limit[p] # 0 =>
                p <= frames[j].budget.period /\ Below(Higher(limit[p], 0), frames[j].budget.quota)
        BY <2>1 DEF Chain
    <2> QED
        BY <2>1, <2>3, <2>4
<1>5. ASSUME NEW i \in 1..Len(frames'), IsSnap(i)', NEW p \in Periods, limit'[p] # 0
      PROVE  p <= frames'[i].budget.period /\ Below(Higher(limit'[p], 0), frames'[i].budget.quota)
    <2>1. CASE p = y
        BY <1>2, <1>4, <1>5, <2>1
    <2>2. CASE p # y
        BY <1>2, <1>4, <1>5, <2>2
    <2> QED
        BY <2>1, <2>2
<1>6. ASSUME NEW i \in 1..Len(frames'), NEW j \in 1..Len(frames'), i < j, IsSnap(i)', IsSnap(j)'
      PROVE  /\ frames'[i].budget.period <= frames'[j].budget.period
             /\ Below(frames'[i].budget.quota, frames'[j].budget.quota)
    <2>1. PICK m \in 1..Len(frames) : m = i + 1 /\ IsSnap(m) /\ frames'[i] = frames[m]
        BY <1>1, <1>6
    <2>2. PICK n \in 1..Len(frames) : n = j + 1 /\ IsSnap(n) /\ frames'[j] = frames[n]
        BY <1>1, <1>6
    <2>3. m < n
        BY <1>6, <2>1, <2>2
    <2> QED
        BY <2>1, <2>2, <2>3 DEF Chain
<1>7. ASSUME NEW p \in Periods, limit'[p] # 0
      PROVE  p <= now /\ Below(Higher(limit'[p], 0), allowance) /\ p <= y
    <2>1. CASE p = y
        BY <1>2, <1>3, <2>1
    <2>2. CASE p # y
        BY <1>2, <1>3, <1>7, <2>2 DEF Chain
    <2> QED
        BY <2>1, <2>2
<1>8. Chain'
    BY <1>2, <1>3, <1>4, <1>5, <1>6, <1>7 DEF Chain
<1>9. ASSUME NEW p \in Periods, spent'[p] > 0, limit'[p] = 0
      PROVE  allowance' = 0 /\ \A i \in 1..Len(frames') : IsSnap(i)' => frames'[i].budget.quota = 0
    <2>1. p # y /\ limit[p] = 0 /\ spent[p] > 0
        BY <1>2, <1>9
    <2>2. allowance = 0 /\ \A i \in 1..Len(frames) : IsSnap(i) => frames[i].budget.quota = 0
        BY <2>1 DEF Told
    <2>3. ASSUME NEW i \in 1..Len(frames'), IsSnap(i)' PROVE frames'[i].budget.quota = 0
        BY <1>1, <2>2, <2>3
    <2> QED
        BY <1>2, <2>2, <2>3
<1>10. Told'
    BY <1>2, <1>7, <1>9 DEF Told
<1> QED
    BY <1>8, <1>10

LEMMA SnapshotBounds ==
    ASSUME QuotaInv, ApplySnapshot, NEW x \in 0..Len(log), Crossing(x), Bounded(x)
    PROVE  Forgotten' /\ Within' /\ Bounded(x)'
<1>1. QuotaTypes /\ Books /\ Forgotten
    BY DEF QuotaInv
<1>2. Snapshot(frames[1].budget) /\ told' = frames[1].budget
    BY HaveSnapshot
<1>3. PICK y \in Periods, c \in Nat, d \in Nat : Says(y, c, d)
    BY <1>2 DEF Snapshot, Says
<1>4. /\ Quota' = d /\ Remaining' \in Nat
      /\ d > 0 => Month' = y /\ Expected' = c
      /\ d = 0 => Limit(y)' < 0
      /\ d > 0 => Limit(y)' = d
      /\ \A p \in Periods : p # y => Limit(p)' = Limit(p) /\ Carried(p)' = Carried(p)
      /\ \A p \in Periods : /\ Lost(p)' = Lost(p) /\ Outstanding(p)' = Outstanding(p)
                            /\ Ahead(x, p)' = Ahead(x, p)
                            /\ Spent(p)' = Spent(p) /\ Exposed(p)' = Exposed(p)
      /\ forwarding' = forwarding
    BY <1>3, SnapshotFigures DEF Says
<1>5. d > 0 =>
         /\ Remaining' + Outstanding(y) + Lost(y) <= c + Carried(y)' + Exposed(y)
         /\ Carried(y)' = 0 => c <= Remaining' + Outstanding(y)
         /\ Remaining' + forwarding + Spent(y) + Ahead(x, y) <= d + Carried(y)' + Exposed(y)
    BY <1>3, SnapshotBalance
<1>6. Forgotten'
    <2>1. told' # Nothing
        BY <1>2 DEF Snapshot
    <2>2. ASSUME NEW p \in Periods PROVE Lost(p)' >= 0 /\ Lost(p)' <= Exposed(p)'
        BY <1>1, <1>4 DEF Forgotten
    <2> QED
        BY <2>1, <2>2 DEF Forgotten
<1>7. /\ Outstanding(y)' = Outstanding(y) /\ Lost(y)' = Lost(y) /\ Exposed(y)' = Exposed(y)
      /\ Ahead(x, y)' = Ahead(x, y) /\ Spent(y)' = Spent(y)
    BY <1>4
<1>8. Within'
    <2> SUFFICES ASSUME Quota' > 0, NEW p \in Periods, p = Month'
                 PROVE  /\ Remaining' + Outstanding(p)' + Lost(p)' <= Expected' + Carried(p)' + Exposed(p)'
                        /\ Carried(p)' = 0 => Expected' <= Remaining' + Outstanding(p)'
        BY DEF Within
    <2>1. d > 0
        BY <1>4
    <2>2. p = y /\ Expected' = c
        BY <1>4, <2>1
    <2> QED
        BY <1>5, <1>7, <2>1, <2>2
<1>9. ASSUME NEW p \in Periods, Quota' > 0, p = Month'
      PROVE  Remaining' + forwarding' + Spent(p)' + Ahead(x, p)' <= Quota' + Carried(p)' + Exposed(p)'
    <2>1. d > 0 /\ Quota' = d /\ forwarding' = forwarding
        BY <1>4, <1>9
    <2>2. p = y
        BY <1>4, <1>9, <2>1
    <2> QED
        BY <1>5, <1>7, <2>1, <2>2
<1>10. ASSUME NEW p \in Periods, Limit(p)' > 0
       PROVE  Spent(p)' + Ahead(x, p)' <= Limit(p)' + Carried(p)' + Exposed(p)'
    <2>1. CASE p # y
        <3>1. /\ Limit(p)' = Limit(p) /\ Carried(p)' = Carried(p) /\ Spent(p)' = Spent(p)
              /\ Ahead(x, p)' = Ahead(x, p) /\ Exposed(p)' = Exposed(p)
            BY <1>4, <2>1
        <3>2. Limit(p) > 0 => Spent(p) + Ahead(x, p) <= Limit(p) + Carried(p) + Exposed(p)
            BY DEF Bounded
        <3>3. Limit(p) > 0
            BY <1>10, <3>1
        <3> QED
            BY <3>1, <3>2, <3>3
    <2>2. CASE p = y
        <3>1. Limit(y)' > 0
            BY <1>10, <2>2
        <3>2. Figures(y, x)
            BY <1>1, HaveFigures
        <3>3. d # 0
            <4>1. SUFFICES ASSUME d = 0 PROVE FALSE
                OBVIOUS
            <4>2. Limit(y)' < 0
                BY <1>4, <4>1
            <4>3. Limit(y)' \in Int
                <5>1. limit' \in [Periods -> Nat \cup {NoLimit}]
                    BY HaveSnapped DEF Snapped
                <5> QED
                    BY <5>1 DEF Limit, NoLimit
            <4> QED
                BY <3>1, <4>2, <4>3
        <3>4. d > 0
            BY <3>3
        <3>5. Limit(y)' = d /\ Remaining' \in Nat
            BY <1>4, <3>4
        <3>6. Remaining' + forwarding + Spent(y) + Ahead(x, y) <= d + Carried(y)' + Exposed(y)
            BY <1>5, <3>4
        <3>7. PICK r \in Nat : r = Remaining'
            BY <3>5
        <3>8. PICK f, s, h, e \in Nat :
                 f = forwarding /\ s = Spent(y) /\ h = Ahead(x, y) /\ e = Exposed(y)
            BY <3>2 DEF Figures
        <3>9. PICK k \in Nat : k = Carried(y)'
            <4>1. carried' \in Totals
                BY HaveSnapped DEF Snapped
            <4> QED
                BY <4>1 DEF Carried, Totals
        <3>10. r + f + s + h <= d + k + e
            BY <3>6, <3>7, <3>8, <3>9
        <3>11. s + h <= d + k + e
            BY <3>10
        <3>12. Spent(y) + Ahead(x, y) <= d + Carried(y)' + Exposed(y)
            BY <3>8, <3>9, <3>11
        <3> QED
            BY <1>7, <2>2, <3>5, <3>12
    <2> QED
        BY <2>1, <2>2
<1>11. Bounded(x)'
    BY <1>9, <1>10 DEF Bounded
<1> QED
    BY <1>6, <1>8, <1>11

LEMMA SnapshotKeeps == ASSUME QuotaInv, ApplySnapshot PROVE QuotaInv'
<1>1. QuotaTypes /\ Books /\ Chain /\ Told
    BY DEF QuotaInv
<1>2. PICK x \in 0..Len(log) : Crossing(x) /\ Bounded(x)
    BY DEF QuotaInv
<1>3. /\ Snapshot(frames[1].budget) /\ IsSnap(1)
      /\ Snapped(frames[1].budget.period, frames[1].budget.quota)
    BY HaveSnapshot, HaveSnapped
<1>4. QuotaTypes'
    BY <1>1, <1>3, SnapshotTypes
<1>5. Chain' /\ Told'
    BY <1>1, <1>3, SnapshotChain
<1>6. /\ Flush /\ frames # <<>> /\ frames' = Tail(frames)
      /\ acked' = acked /\ billed' = billed /\ used' = used
    BY <1>3 DEF Snapped
<1>7. Books'
    BY <1>1, <1>6, FlushBooks
<1>8. Forgotten' /\ Within' /\ Bounded(x)'
    BY <1>2, SnapshotBounds
<1>9. x \in 0..Len(log') /\ x \in Nat
    <2>1. Len(log) <= Len(log') /\ Len(log) \in Nat /\ Len(log') \in Nat
        BY <1>1, <1>6, FlushRecords DEF QuotaTypes
    <2> QED
        BY <2>1
<1>10. Crossing(x)'
    <2>1. ~IsAck(1)
        BY <1>3 DEF IsSnap, IsAck
    <2>2. acked' \in Nat
        BY <1>1, <1>6 DEF QuotaTypes
    <2>3. \A n \in 0..billed, p \in Periods : Recorded(n, p)' = Recorded(n, p)
        <3>1. \A n \in 0..Len(log), p \in Periods : Recorded(n, p)' = Recorded(n, p)
            BY <1>1, <1>6, FlushRecords
        <3>2. billed \in Nat /\ Len(log) \in Nat /\ billed <= Len(log)
            BY <1>1 DEF QuotaTypes
        <3> QED
            BY <3>1, <3>2
    <2> QED
        BY <1>1, <1>2, <1>6, <1>9, <2>1, <2>2, <2>3, TailCrossing
<1> QED
    BY <1>4, <1>5, <1>7, <1>8, <1>9, <1>10 DEF QuotaInv

-----------------------------------------------------------------------------
(* The theorems.                                                           *)

LEMMA StutterKeeps == ASSUME QuotaInv, UNCHANGED vars PROVE QuotaInv'
<1>1. /\ UNCHANGED <<meter, pending, forwarding, log, acked, told, spent, limit, carried, exposed>>
      /\ UNCHANGED <<session, reports, frames, now, allowance, billed, used>>
    BY DEF vars, meterVars, logVars, linkVars, platformVars
<1>2. PICK x \in 0..Len(log) : Crossing(x) /\ Bounded(x)
    BY DEF QuotaInv
<1>3. QuotaTypes /\ Books /\ Chain /\ Told /\ x \in Nat
    BY DEF QuotaInv, QuotaTypes
<1>4. QuotaTypes'
    BY <1>1, <1>3 DEF QuotaTypes
<1>5. Books' /\ Chain'
    BY <1>1, <1>3, BooksStay, ChainStays
<1>6. Told'
    BY <1>1, <1>3 DEF Told, IsSnap
<1>7. Crossing(x)'
    <2>1. \A n \in 0..billed, p \in Periods : Recorded(n, p)' = Recorded(n, p)
        BY <1>1, LogStays
    <2> QED
        BY <1>1, <1>2, <1>3, <2>1, CrossingStays
<1>8. Forgotten' /\ Within' /\ Bounded(x)'
    BY <1>1, <1>2, <1>3, FiguresStay
<1>9. x \in 0..Len(log')
    BY <1>1
<1> QED
    BY <1>4, <1>5, <1>6, <1>7, <1>8, <1>9 DEF QuotaInv

LEMMA StepQuota == ASSUME OnlyGrows, QuotaInv, [Next]_vars PROVE QuotaInv'
<1>1. CASE TryConsume
    BY <1>1, ConsumeKeeps
<1>2. CASE CommitUsage
    BY <1>2, CommitKeeps
<1>3. CASE Refund
    BY <1>3, RefundKeeps
<1>4. CASE Tick
    BY <1>4, TickKeeps
<1>5. CASE PlatformBills
    BY <1>5, BillsKeeps
<1>6. CASE ApplyAck
    BY <1>6, AckKeeps
<1>7. CASE PushSnapshot \/ Connect
    BY <1>7, PushKeeps
<1>8. CASE ApplySnapshot
    BY <1>8, SnapshotKeeps
<1>9. CASE LinkBreaks \/ AckFails
    BY <1>9, LinkKeeps
<1>10. CASE Restart
    BY <1>10, RestartKeeps
<1>11. CASE ChangeAllowance \/ MonthEnds
    BY <1>11, PlatformKeeps
<1>12. CASE UNCHANGED vars
    BY <1>12, StutterKeeps
<1> QED
    BY <1>1, <1>2, <1>3, <1>4, <1>5, <1>6, <1>7, <1>8, <1>9, <1>10, <1>11, <1>12 DEF Next

LEMMA QuotaHolds == ASSUME OnlyGrows PROVE Spec => []QuotaInv
<1>1. Init => QuotaInv
    BY InitQuota
<1>2. QuotaInv /\ [Next]_vars => QuotaInv'
    BY StepQuota
<1> QED
    BY <1>1, <1>2, PTL DEF Spec

\* RelayQuotaLimiter's update and mark_usage_reported keep the Gateway's books in
\* balance with the Platform's, however consumption, reports, acknowledgements and
\* snapshots cross, as long as the Platform only grants more.
THEOREM BooksBalance == ASSUME OnlyGrows PROVE Spec => []Balanced
<1>1. QuotaInv => Balanced
    <2> SUFFICES ASSUME QuotaInv, meter.quota > 0, \A p \in Periods : exposed[p] = 0
                 PROVE  LET sum == meter.remaining + Outstanding(meter.period)
                        IN  /\ sum <= meter.last + carried[meter.period]
                            /\ carried[meter.period] = 0 => sum = meter.last
        BY DEF Balanced
    <2>1. QuotaTypes /\ Books /\ Forgotten /\ Within
        BY DEF QuotaInv
    <2>2. PICK p \in Periods : p = meter.period
        BY <2>1 DEF QuotaTypes
    <2>3. Quota > 0 /\ p = Month
        BY <2>2 DEF Quota, Month
    <2>4. 0 \in 0..Len(log)
        BY <2>1 DEF QuotaTypes
    <2>5. Figures(p, 0) /\ MeterFigures
        BY <2>1, <2>4, HaveFigures, HaveMeterFigures
    <2>6. Exposed(p) = 0
        BY DEF Exposed
    <2>7. /\ Remaining + Outstanding(p) + Lost(p) <= Expected + Carried(p) + Exposed(p)
          /\ Carried(p) = 0 => Expected <= Remaining + Outstanding(p)
        BY <2>1, <2>3 DEF Within
    <2>8. Lost(p) >= 0 /\ Lost(p) <= Exposed(p)
        BY <2>1 DEF Forgotten
    <2>9. PICK r, o, w, k \in Nat, l \in Int :
             r = Remaining /\ o = Outstanding(p) /\ w = Expected /\ k = Carried(p) /\ l = Lost(p)
        BY <2>5 DEF Figures, MeterFigures
    <2>10. l = 0
        BY <2>6, <2>8, <2>9
    <2>11. r + o + l <= w + k /\ (k = 0 => w <= r + o)
        BY <2>6, <2>7, <2>9
    <2>12. r + o <= w + k /\ (k = 0 => r + o = w)
        BY <2>10, <2>11
    <2>13. /\ Remaining + Outstanding(p) <= Expected + Carried(p)
           /\ Carried(p) = 0 => Remaining + Outstanding(p) = Expected
        BY <2>9, <2>12
    <2> QED
        BY <2>2, <2>13 DEF Remaining, Expected, Carried
<1> QED
    BY <1>1, QuotaHolds, PTL

\* Restarts and lost connections let no more be relayed beyond the highest quota
\* that update was told than the bytes that were unacknowledged then.
THEOREM OverrunStaysBounded == ASSUME OnlyGrows PROVE Spec => []OverrunBounded
<1>1. QuotaInv => OverrunBounded
    <2> SUFFICES ASSUME QuotaInv, NEW p \in Periods, limit[p] > 0
                 PROVE  spent[p] <= limit[p] + carried[p] + exposed[p]
        BY DEF OverrunBounded
    <2>1. PICK x \in 0..Len(log) : Bounded(x)
        BY DEF QuotaInv
    <2>2. Figures(p, x)
        BY HaveFigures DEF QuotaInv
    <2>3. Spent(p) + Ahead(x, p) <= Limit(p) + Carried(p) + Exposed(p)
        BY <2>1 DEF Bounded, Limit
    <2>4. PICK s, h, k, e \in Nat, m \in Int :
             /\ s = Spent(p) /\ h = Ahead(x, p) /\ k = Carried(p) /\ e = Exposed(p)
             /\ m = Limit(p)
        BY <2>2 DEF Figures
    <2>5. s + h <= m + k + e
        BY <2>3, <2>4
    <2>6. s <= m + k + e
        BY <2>5
    <2>7. Spent(p) <= Limit(p) + Carried(p) + Exposed(p)
        BY <2>4, <2>6
    <2> QED
        BY <2>7 DEF Spent, Limit, Carried, Exposed
<1> QED
    BY <1>1, QuotaHolds, PTL
=============================================================================
