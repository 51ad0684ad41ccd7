--------------------------- MODULE Tun2SocksProofs ---------------------------
(***************************************************************************)
(* Proofs about Tun2Socks, for every number of threads, runs, stops and    *)
(* sessions: no run leaves a descriptor behind, none is ended by a stop    *)
(* that was meant for the run before, no task is woken that does not       *)
(* exist, and the lwIP timer runs while there is a session.                *)
(***************************************************************************)
EXTENDS Tun2Socks, SequenceTheorems, WellFoundedInduction, TLAPS

-----------------------------------------------------------------------------
(* What is left of a list when one of its entries is taken off: a TCP      *)
(* session that is unlinked from the session set.                          *)

(* A non-empty set of numbers has a least one: the first index of an entry *)
(* exists.                                                                 *)
LEMMA LeastIndex ==
    ASSUME NEW T, T \subseteq Nat, T # {}
    PROVE  \E n \in T : \A m \in T : n <= m
<1>1. PICK n \in T : \A y \in T : ~ (<<y, n>> \in OpToRel(<, Nat))
    BY NatLessThanWellFounded, WFMin
<1>2. \A m \in T : ~ (m < n)
    BY <1>1 DEF OpToRel
<1> QED
    BY <1>2

(* The list without its i-th entry.                                        *)
LEMMA RemoveAtEntries ==
    ASSUME NEW S, NEW s \in Seq(S), NEW i \in 1..Len(s)
    PROVE  /\ RemoveAt(s, i) \in Seq(S)
           /\ Len(RemoveAt(s, i)) = Len(s) - 1
           /\ \A k \in 1..Len(s) - 1 :
                 RemoveAt(s, i)[k] = IF k < i THEN s[k] ELSE s[k + 1]
<1> DEFINE a == SubSeq(s, 1, i - 1)
<1> DEFINE b == SubSeq(s, i + 1, Len(s))
<1>1. /\ a \in Seq(S) /\ Len(a) = i - 1 /\ \A k \in 1..i - 1 : a[k] = s[k]
    OBVIOUS
<1>2. /\ b \in Seq(S) /\ Len(b) = Len(s) - i /\ \A k \in 1..Len(s) - i : b[k] = s[i + k]
    OBVIOUS
<1> HIDE DEF a, b
<1>3. a \o b \in Seq(S) /\ Len(a \o b) = Len(s) - 1
    <2>1. a \o b \in Seq(S) /\ Len(a \o b) = Len(a) + Len(b)
        BY <1>1, <1>2, ConcatProperties
    <2>2. Len(a \o b) = Len(s) - 1
        BY <1>1, <1>2, <2>1
    <2> QED
        BY <2>1, <2>2
<1>4. ASSUME NEW k \in 1..Len(s) - 1
      PROVE  (a \o b)[k] = IF k < i THEN s[k] ELSE s[k + 1]
    <2>1. CASE k < i
        BY <1>1, <1>2, <2>1
    <2>2. CASE ~(k < i)
        <3>1. (a \o b)[k] = b[k - (i - 1)]
            BY <1>1, <1>2, <2>2
        <3>2. b[k - (i - 1)] = s[i + (k - (i - 1))]
            BY <1>2, <2>2
        <3>3. i + (k - (i - 1)) = k + 1
            OBVIOUS
        <3> QED
            BY <2>2, <3>1, <3>2, <3>3
    <2> QED
        BY <2>1, <2>2
<1> QED
    BY <1>3, <1>4 DEF RemoveAt, a, b

(* The list without an entry that it has: the entry's index is the one     *)
(* that is left out.                                                       *)
LEMMA RemoveFirstIsAt ==
    ASSUME NEW S, NEW s \in Seq(S), NEW e, \E i \in 1..Len(s) : s[i] = e
    PROVE  \E i \in 1..Len(s) : s[i] = e /\ RemoveFirst(s, e) = RemoveAt(s, i)
<1> DEFINE I == {i \in 1..Len(s) : s[i] = e}
<1>1. I \subseteq Nat /\ I # {}
    OBVIOUS
<1>2. \E n \in I : \A m \in I : n <= m
    BY <1>1, LeastIndex
<1>3. Min(I) \in I
    BY <1>2 DEF Min
<1>4. SelectInSeq(s, LAMBDA v : v = e) = Min(I)
    BY <1>1 DEF SelectInSeq
<1>5. RemoveFirst(s, e) = RemoveAt(s, Min(I))
    BY <1>4 DEF RemoveFirst
<1> QED
    BY <1>3, <1>5

(* A list that has an entry once keeps all the others, in their order,     *)
(* when that entry is removed.                                             *)
LEMMA RemoveFirstEntries ==
    ASSUME NEW S, NEW s \in Seq(S), NEW e
    PROVE  /\ RemoveFirst(s, e) \in Seq(S)
           /\ \A x \in Range(s) : x # e => x \in Range(RemoveFirst(s, e))
           /\ Range(RemoveFirst(s, e)) \subseteq Range(s)
           /\ IsInjective(s) => /\ IsInjective(RemoveFirst(s, e))
                                /\ e \notin Range(RemoveFirst(s, e))
<1>0. DOMAIN s = 1..Len(s)
    OBVIOUS
<1>1. CASE \E i \in 1..Len(s) : s[i] = e
    <2>1. PICK i \in 1..Len(s) : s[i] = e /\ RemoveFirst(s, e) = RemoveAt(s, i)
        BY <1>1, RemoveFirstIsAt
    <2> DEFINE r == RemoveFirst(s, e)
    <2>2. /\ r \in Seq(S) /\ Len(r) = Len(s) - 1
          /\ \A k \in 1..Len(s) - 1 : r[k] = IF k < i THEN s[k] ELSE s[k + 1]
        BY <2>1, RemoveAtEntries
    <2> HIDE DEF r
    <2>3. DOMAIN r = 1..Len(s) - 1
        BY <2>2
    <2>4. ASSUME NEW x \in Range(s), x # e PROVE x \in Range(r)
        <3>1. PICK k \in 1..Len(s) : s[k] = x
            BY <1>0 DEF Range
        <3>2. k # i
            BY <2>1, <2>4, <3>1
        <3>3. CASE k < i
            BY <2>2, <2>3, <3>1, <3>3 DEF Range
        <3>4. CASE k > i
            <4>1. k - 1 \in 1..Len(s) - 1 /\ r[k - 1] = s[k]
                BY <2>2, <3>4
            <4> QED
                BY <2>3, <3>1, <4>1 DEF Range
        <3> QED
            BY <3>2, <3>3, <3>4
    <2>5. Range(r) \subseteq Range(s)
        BY <1>0, <2>2, <2>3 DEF Range
    <2>6. ASSUME IsInjective(s) PROVE IsInjective(r) /\ e \notin Range(r)
        <3>1. \A a, b \in 1..Len(s) : s[a] = s[b] => a = b
            BY <1>0, <2>6 DEF IsInjective
        <3>2. IsInjective(r)
            BY <2>2, <2>3, <3>1 DEF IsInjective
        <3>3. e \notin Range(r)
            BY <2>1, <2>2, <2>3, <3>1 DEF Range
        <3> QED
            BY <3>2, <3>3
    <2> QED
        BY <2>2, <2>4, <2>5, <2>6 DEF r
<1>2. CASE ~ \E i \in 1..Len(s) : s[i] = e
    <2>1. RemoveFirst(s, e) = s
        BY <1>2 DEF RemoveFirst
    <2> QED
        BY <1>0, <1>2, <2>1 DEF Range
<1> QED
    BY <1>1, <1>2

-----------------------------------------------------------------------------
(* The first invariant: the calls of start and stop.                       *)

\* The call has taken the running flag and not given it back.
Inside(t) == at[t] \notin {"idle", "exchange", "shut"}

\* The call may have the socket pair open, and know its number.
HasPair(t)  == at[t] \in {"check", "sched", "ret", "close"}
KnowsPair(t) == HasPair(t) \/ at[t] = "forget"

CallTypes ==
    /\ at \in [Starters -> {"idle", "exchange", "main", "check", "sched", "ret",
                            "close", "forget", "clear", "leave", "shut"}]
    /\ stopAt \in [Stoppers -> {"idle", "set", "fd", "write"}]
    /\ DOMAIN stopFd = Stoppers
    /\ running \in BOOLEAN /\ stop_requested \in BOOLEAN /\ event_data \in BOOLEAN
    /\ fresh \in BOOLEAN

\* One call at a time runs the tunnel.
OneRun ==
    \A t \in Starters : Inside(t) =>
        running /\ \A u \in Starters : Inside(u) => u = t

\* What is open belongs to a call that is going to close it.
Owned ==
    /\ \A t \in dups : t \in Starters /\ at[t] # "idle"
    /\ open_fd # 0 => \E t \in Starters : HasPair(t)
    /\ event_fd # 0 => \E t \in Starters : KnowsPair(t)
    /\ event_data => \E t \in Starters : HasPair(t)

\* Whatever ends a run has come since the last one was cleared.
Asked ==
    /\ \A p \in Stoppers : stopAt[p] = "write" => stopFd[p] # 0
    /\ stop_requested => fresh
    /\ event_data => fresh
    /\ \A t \in Starters :
          /\ at[t] = "check" => eventAt = "read"
          /\ at[t] = "sched" /\ eventAt # "read" => fresh

CallInv == CallTypes /\ OneRun /\ Owned /\ Asked

-----------------------------------------------------------------------------
(* The second invariant: the tasks and the sessions.                       *)

TaskTypes ==
    /\ state \in [Tasks -> {"stopped", "running", "waiting"}]
    /\ session_set \in Seq(Sessions) /\ IsInjective(session_set)
    /\ sess \in [Sessions -> SessionType \cup {NoSession}]
    /\ setup \in Setups
    /\ run \in BOOLEAN /\ parked \in BOOLEAN

\* A session is in the list as long as it has a task, and its task runs in
\* the task system.
Listed ==
    \A s \in Sessions :
        /\ sess[s] # NoSession <=> state[s] # "stopped"
        /\ s \in Range(session_set) <=> state[s] # "stopped"
        /\ state[s] # "stopped" => Scheduling

\* The timer task ends after the event task has ended the run, and does not
\* sleep for ever while there is a session.
TimerUp ==
    /\ \A t \in Starters : at[t] \in {"check", "sched"} /\ run => state["timer"] # "stopped"
    /\ session_set # <<>> => ~(parked /\ state["timer"] = "waiting")

TaskInv == TaskTypes /\ Listed /\ TimerUp /\ NoAbort

-----------------------------------------------------------------------------
(* Calls keep the first invariant.                                         *)

LEMMA InitCall == Init => CallInv
BY DEF Init, CallInv, CallTypes, OneRun, Owned, Asked, Inside

LEMMA CallSame ==
    ASSUME CallInv,
           UNCHANGED <<at, stopAt, stopFd, running, stop_requested, dups, event_fd, open_fd,
                       event_data, fresh, eventAt>>
    PROVE  CallInv'
BY DEF CallInv, CallTypes, OneRun, Owned, Asked, Inside, HasPair, KnowsPair

(* Where a call goes.                                                      *)
LEMMA Goes ==
    ASSUME CallTypes, NEW t \in Starters, NEW there, Goto(t, there)
    PROVE  /\ at'[t] = there /\ \A u \in Starters : u # t => at'[u] = at[u]
           /\ DOMAIN at' = Starters
BY DEF CallTypes, Goto

LEMMA StartCalls ==
    ASSUME CallInv, NEW t \in Starters, Start(t)
    PROVE  CallInv'
<1>1. /\ at'[t] = "exchange" /\ \A u \in Starters : u # t => at'[u] = at[u]
      /\ CallTypes'
    BY Goes DEF Start, CallInv, CallTypes, Goto, flagVars, fdVars, stopVars, taskVars
<1>2. OneRun'
    BY <1>1 DEF Start, CallInv, OneRun, Inside
<1>3. Owned'
    BY <1>1 DEF Start, CallInv, CallTypes, OneRun, Owned, Inside, HasPair, KnowsPair, fdVars
<1>4. Asked'
    BY <1>1 DEF Start, CallInv, CallTypes, OneRun, Owned, Asked, Inside, HasPair, fdVars, stopVars,
       taskVars
<1> QED
    BY <1>1, <1>2, <1>3, <1>4 DEF CallInv

LEMMA MainRefusedCalls ==
    ASSUME CallInv, NEW t \in Starters, MainRefused(t)
    PROVE  CallInv'
<1>1. /\ at'[t] = "leave" /\ \A u \in Starters : u # t => at'[u] = at[u]
      /\ CallTypes'
    BY Goes DEF MainRefused, CallInv, CallTypes, Goto, flagVars, fdVars, stopVars, taskVars
<1>2. OneRun'
    BY <1>1 DEF MainRefused, CallInv, OneRun, Inside
<1>3. Owned'
    BY <1>1 DEF MainRefused, CallInv, CallTypes, OneRun, Owned, Inside, HasPair, KnowsPair, fdVars
<1>4. Asked'
    BY <1>1 DEF MainRefused, CallInv, CallTypes, OneRun, Owned, Asked, Inside, HasPair, fdVars, stopVars,
       taskVars
<1> QED
    BY <1>1, <1>2, <1>3, <1>4 DEF CallInv

LEMMA InitialiseCalls ==
    ASSUME CallInv, NEW t \in Starters, Initialise(t)
    PROVE  CallInv'
<1>1. /\ at'[t] = "check" /\ \A u \in Starters : u # t => at'[u] = at[u]
      /\ CallTypes'
    BY Goes DEF Initialise, CallInv, CallTypes, Goto, flagVars, fdVars, stopVars, taskVars
<1>2. OneRun'
    BY <1>1 DEF Initialise, CallInv, OneRun, Inside
<1>3. Owned'
    BY <1>1 DEF Initialise, CallInv, CallTypes, OneRun, Owned, Inside, HasPair, KnowsPair, fdVars
<1>4. Asked'
    BY <1>1 DEF Initialise, CallInv, CallTypes, OneRun, Owned, Asked, Inside, HasPair, fdVars, stopVars,
       taskVars
<1> QED
    BY <1>1, <1>2, <1>3, <1>4 DEF CallInv

LEMMA CheckStopCalls ==
    ASSUME CallInv, NEW t \in Starters, CheckStop(t)
    PROVE  CallInv'
<1>1. /\ at'[t] = "sched" /\ \A u \in Starters : u # t => at'[u] = at[u]
      /\ CallTypes'
    BY Goes DEF CheckStop, CallInv, CallTypes, Goto, flagVars, fdVars, stopVars, taskVars
<1>2. OneRun'
    BY <1>1 DEF CheckStop, CallInv, OneRun, Inside
<1>3. Owned'
    BY <1>1 DEF CheckStop, CallInv, CallTypes, OneRun, Owned, Inside, HasPair, KnowsPair, fdVars
<1>4. Asked'
    BY <1>1 DEF CheckStop, CallInv, CallTypes, OneRun, Owned, Asked, Inside, HasPair, fdVars, stopVars,
       taskVars
<1> QED
    BY <1>1, <1>2, <1>3, <1>4 DEF CallInv

LEMMA ScheduledCalls ==
    ASSUME CallInv, NEW t \in Starters, Scheduled(t)
    PROVE  CallInv'
<1>1. /\ at'[t] = "ret" /\ \A u \in Starters : u # t => at'[u] = at[u]
      /\ CallTypes'
    BY Goes DEF Scheduled, CallInv, CallTypes, Goto, flagVars, fdVars, stopVars, taskVars
<1>2. OneRun'
    BY <1>1 DEF Scheduled, CallInv, OneRun, Inside
<1>3. Owned'
    BY <1>1 DEF Scheduled, CallInv, CallTypes, OneRun, Owned, Inside, HasPair, KnowsPair, fdVars
<1>4. Asked'
    BY <1>1 DEF Scheduled, CallInv, CallTypes, OneRun, Owned, Asked, Inside, HasPair, fdVars, stopVars,
       taskVars
<1> QED
    BY <1>1, <1>2, <1>3, <1>4 DEF CallInv

LEMMA ReturnedCalls ==
    ASSUME CallInv, NEW t \in Starters, Returned(t)
    PROVE  CallInv'
<1>1. /\ at'[t] = "close" /\ \A u \in Starters : u # t => at'[u] = at[u]
      /\ CallTypes'
    BY Goes DEF Returned, CallInv, CallTypes, Goto, flagVars, fdVars, stopVars, taskVars
<1>2. OneRun'
    BY <1>1 DEF Returned, CallInv, OneRun, Inside
<1>3. Owned'
    BY <1>1 DEF Returned, CallInv, CallTypes, OneRun, Owned, Inside, HasPair, KnowsPair, fdVars
<1>4. Asked'
    BY <1>1 DEF Returned, CallInv, CallTypes, OneRun, Owned, Asked, Inside, HasPair, fdVars, stopVars,
       taskVars
<1> QED
    BY <1>1, <1>2, <1>3, <1>4 DEF CallInv

LEMMA CloseFdsCalls ==
    ASSUME CallInv, NEW t \in Starters, CloseFds(t)
    PROVE  CallInv'
<1>1. /\ at'[t] = "forget" /\ \A u \in Starters : u # t => at'[u] = at[u]
      /\ CallTypes'
    BY Goes DEF CloseFds, CallInv, CallTypes, Goto, flagVars, fdVars, stopVars, taskVars
<1>2. OneRun'
    BY <1>1 DEF CloseFds, CallInv, OneRun, Inside
<1>3. Owned'
    BY <1>1 DEF CloseFds, CallInv, CallTypes, OneRun, Owned, Inside, HasPair, KnowsPair, fdVars
<1>4. Asked'
    BY <1>1 DEF CloseFds, CallInv, CallTypes, OneRun, Owned, Asked, Inside, HasPair, fdVars, stopVars,
       taskVars
<1> QED
    BY <1>1, <1>2, <1>3, <1>4 DEF CallInv

LEMMA ForgetFdsCalls ==
    ASSUME CallInv, NEW t \in Starters, ForgetFds(t)
    PROVE  CallInv'
<1>1. /\ at'[t] = "clear" /\ \A u \in Starters : u # t => at'[u] = at[u]
      /\ CallTypes'
    BY Goes DEF ForgetFds, CallInv, CallTypes, Goto, flagVars, fdVars, stopVars, taskVars
<1>2. OneRun'
    BY <1>1 DEF ForgetFds, CallInv, OneRun, Inside
<1>3. Owned'
    BY <1>1 DEF ForgetFds, CallInv, CallTypes, OneRun, Owned, Inside, HasPair, KnowsPair, fdVars
<1>4. Asked'
    BY <1>1 DEF ForgetFds, CallInv, CallTypes, OneRun, Owned, Asked, Inside, HasPair, fdVars, stopVars,
       taskVars
<1> QED
    BY <1>1, <1>2, <1>3, <1>4 DEF CallInv

LEMMA ClearStopCalls ==
    ASSUME CallInv, NEW t \in Starters, ClearStop(t)
    PROVE  CallInv'
<1>1. /\ at'[t] = "leave" /\ \A u \in Starters : u # t => at'[u] = at[u]
      /\ CallTypes'
    BY Goes DEF ClearStop, CallInv, CallTypes, Goto, flagVars, fdVars, stopVars, taskVars
<1>2. OneRun'
    BY <1>1 DEF ClearStop, CallInv, OneRun, Inside
<1>3. Owned'
    BY <1>1 DEF ClearStop, CallInv, CallTypes, OneRun, Owned, Inside, HasPair, KnowsPair, fdVars
<1>4. Asked'
    BY <1>1 DEF ClearStop, CallInv, CallTypes, OneRun, Owned, Asked, Inside, HasPair, fdVars, stopVars,
       taskVars
<1> QED
    BY <1>1, <1>2, <1>3, <1>4 DEF CallInv

LEMMA LeaveCalls ==
    ASSUME CallInv, NEW t \in Starters, Leave(t)
    PROVE  CallInv'
<1>1. /\ at'[t] = "shut" /\ \A u \in Starters : u # t => at'[u] = at[u]
      /\ CallTypes'
    BY Goes DEF Leave, CallInv, CallTypes, Goto, flagVars, fdVars, stopVars, taskVars
<1>2. OneRun'
    BY <1>1 DEF Leave, CallInv, OneRun, Inside
<1>3. Owned'
    BY <1>1 DEF Leave, CallInv, CallTypes, OneRun, Owned, Inside, HasPair, KnowsPair, fdVars
<1>4. Asked'
    BY <1>1 DEF Leave, CallInv, CallTypes, OneRun, Owned, Asked, Inside, HasPair, fdVars, stopVars,
       taskVars
<1> QED
    BY <1>1, <1>2, <1>3, <1>4 DEF CallInv

LEMMA ShutCalls ==
    ASSUME CallInv, NEW t \in Starters, Shut(t)
    PROVE  CallInv'
<1>1. /\ at'[t] = "idle" /\ \A u \in Starters : u # t => at'[u] = at[u]
      /\ CallTypes'
    BY Goes DEF Shut, CallInv, CallTypes, Goto, flagVars, fdVars, stopVars, taskVars
<1>2. OneRun'
    BY <1>1 DEF Shut, CallInv, OneRun, Inside
<1>3. Owned'
    BY <1>1 DEF Shut, CallInv, CallTypes, OneRun, Owned, Inside, HasPair, KnowsPair, fdVars
<1>4. Asked'
    BY <1>1 DEF Shut, CallInv, CallTypes, OneRun, Owned, Asked, Inside, HasPair, fdVars, stopVars,
       taskVars
<1> QED
    BY <1>1, <1>2, <1>3, <1>4 DEF CallInv

LEMMA InitFailsCalls ==
    ASSUME CallInv, NEW t \in Starters, NEW step, InitFails(t, step)
    PROVE  CallInv'
<1>1. /\ at'[t] = "close" /\ \A u \in Starters : u # t => at'[u] = at[u]
      /\ CallTypes'
    BY Goes DEF InitFails, CallInv, CallTypes, Goto, flagVars, fdVars, stopVars, taskVars
<1>2. OneRun'
    BY <1>1 DEF InitFails, CallInv, OneRun, Inside
<1>3. Owned'
    BY <1>1 DEF InitFails, CallInv, CallTypes, OneRun, Owned, Inside, HasPair, KnowsPair, fdVars
<1>4. Asked'
    BY <1>1 DEF InitFails, CallInv, CallTypes, OneRun, Owned, Asked, Inside, HasPair, fdVars, stopVars,
       taskVars
<1> QED
    BY <1>1, <1>2, <1>3, <1>4 DEF CallInv

LEMMA ExchangeCalls ==
    ASSUME CallInv, NEW t \in Starters, Exchange(t)
    PROVE  CallInv'
<1>1. /\ at[t] = "exchange" /\ at'[t] \in {"shut", "main"}
      /\ at'[t] = "main" => ~running /\ running'
      /\ at'[t] = "shut" => running' = running
      /\ \A u \in Starters : u # t => at'[u] = at[u]
      /\ CallTypes'
    BY DEF Exchange, CallInv, CallTypes, Goto, fdVars, stopVars, taskVars
<1>2. OneRun'
    BY <1>1 DEF CallInv, OneRun, Inside
<1>3. Owned'
    BY <1>1 DEF Exchange, CallInv, CallTypes, Owned, HasPair, KnowsPair, fdVars
<1>4. Asked'
    BY <1>1 DEF Exchange, CallInv, CallTypes, Asked, fdVars, stopVars, taskVars
<1> QED
    BY <1>1, <1>2, <1>3, <1>4 DEF CallInv

(* stop, and what the event task does with its byte. *)
LEMMA StopCalls ==
    ASSUME CallInv, NEW p \in Stoppers, Stop(p) \/ StopStep(p)
    PROVE  CallInv'
<1>1. UNCHANGED <<at, running, dups, event_fd, open_fd, eventAt>>
    BY DEF Stop, StopStep, SetStop, StoreSeen, ReadFd, WriteFd, flagVars, fdVars, taskVars
<1>2. OneRun'
    BY <1>1 DEF CallInv, OneRun, Inside
<1>3. CallTypes'
    BY <1>1 DEF Stop, StopStep, SetStop, StoreSeen, ReadFd, WriteFd, flagVars, fdVars, CallInv,
                CallTypes, StopGoto
<1>4. CASE WriteFd(p)
    <2>0. stopFd[p] # 0
        BY <1>4 DEF WriteFd, CallInv, Asked
    <2>1. PICK hit \in BOOLEAN : /\ event_data' = (event_data \/ hit)
                                 /\ fresh' = (fresh \/ hit)
                                 /\ hit => open_fd # 0
        BY <1>4, <2>0 DEF WriteFd
    <2>2. /\ UNCHANGED stop_requested
          /\ \A q \in Stoppers : stopAt'[q] = "write" =>
                stopAt[q] = "write" /\ stopFd'[q] = stopFd[q]
        BY <1>4 DEF WriteFd, CallInv, CallTypes, StopGoto, flagVars
    <2>3. Owned'
        BY <1>1, <2>1, <2>2 DEF CallInv, CallTypes, Owned, HasPair, KnowsPair
    <2>4. Asked'
        BY <1>1, <2>1, <2>2 DEF CallInv, CallTypes, Asked
    <2> QED
        BY <1>2, <1>3, <2>3, <2>4 DEF CallInv
<1>5. CASE Stop(p) \/ SetStop(p) \/ StoreSeen(p) \/ ReadFd(p)
    <2>1. /\ UNCHANGED event_data
          /\ UNCHANGED <<stop_requested, fresh>> \/ fresh'
        BY <1>5 DEF Stop, SetStop, StoreSeen, ReadFd, flagVars, fdVars
    <2>2. Owned'
        BY <1>1, <2>1 DEF CallInv, Owned, HasPair, KnowsPair
    <2>3. \A q \in Stoppers : stopAt'[q] = "write" => stopFd'[q] # 0
        BY <1>5 DEF Stop, SetStop, StoreSeen, ReadFd, CallInv, CallTypes, Asked, StopGoto
    <2>4. Asked'
        BY <1>1, <2>1, <2>3 DEF CallInv, CallTypes, Asked
    <2> QED
        BY <1>2, <1>3, <2>2, <2>4 DEF CallInv
<1> QED
    BY <1>4, <1>5 DEF StopStep

LEMMA EventCalls ==
    ASSUME CallInv, EventStep
    PROVE  CallInv'
<1>1. /\ UNCHANGED <<at, stopAt, stopFd, running, stop_requested, dups, event_fd, open_fd,
                     fresh>>
    BY DEF EventStep, EventWaits, EventPoll, EventStops, EventJoins, flagVars, fdVars, stopVars
<1>2. \/ UNCHANGED <<event_data, eventAt>>
      \/ EventStops
      \/ EventJoins
    BY DEF EventStep, EventWaits, EventPoll, fdVars
<1>3. CASE UNCHANGED <<event_data, eventAt>>
    BY <1>1, <1>3, CallSame
<1>4. CASE EventStops \/ EventJoins
    <2>0. Scheduling /\ (event_data \/ eventAt # "read")
        BY <1>4 DEF EventStops, EventJoins, Gets
    <2>1. /\ Scheduling
          /\ fresh
          /\ event_data' \in BOOLEAN /\ (event_data' => event_data)
        <3>1. fresh
            BY <2>0 DEF Scheduling, CallInv, Asked
        <3>2. event_data' = FALSE \/ event_data' = event_data
            BY <1>4 DEF EventStops, EventJoins, fdVars
        <3>3. event_data' \in BOOLEAN
            BY <3>2 DEF CallInv, CallTypes
        <3>4. event_data' => event_data
            BY <3>2
        <3> QED
            BY <2>0, <3>1, <3>3, <3>4
    <2>2. \A t \in Starters : at[t] # "check"
        BY <2>1 DEF Scheduling, CallInv, OneRun, Inside
    <2>3. CallTypes' /\ OneRun'
        BY <1>1, <2>1 DEF CallInv, CallTypes, OneRun, Inside
    <2>4. Owned'
        BY <1>1, <2>1 DEF CallInv, Owned, HasPair, KnowsPair
    <2>5. Asked'
        BY <1>1, <2>1, <2>2 DEF CallInv, Asked
    <2> QED
        BY <2>3, <2>4, <2>5 DEF CallInv
<1> QED
    BY <1>2, <1>3, <1>4

LEMMA OthersCall ==
    ASSUME CallInv,
           \/ IoStep \/ TimerStep \/ TunReadable \/ TunFails
           \/ \E s \in Sessions :
                 \/ tcp_accept_handler(s) \/ udp_recv_handler(s)
                 \/ Packet(s) \/ PacketBreaks(s) \/ SocketReady(s) \/ TimesOut(s)
                 \/ SessionSlice(s)
    PROVE  CallInv'
<1>1. UNCHANGED <<at, stopAt, stopFd, running, stop_requested, dups, event_fd, open_fd,
                  event_data, fresh, eventAt>>
    BY DEF IoStep, IoWaits, IoEnds, TimerStep, TimerTicks, TimerSleeps, TimerEnds, TunReadable,
           TunFails, tcp_accept_handler, udp_recv_handler, Accept, Packet, PacketBreaks,
           SocketReady, TimesOut, SessionSlice, SessionWaits, SessionYields, SessionEnds, flagVars, fdVars, stopVars
<1> QED
    BY <1>1, CallSame

LEMMA StepCall == CallInv /\ [Next]_vars => CallInv'
<1> SUFFICES ASSUME CallInv, [Next]_vars PROVE CallInv'
    OBVIOUS
<1>1. ASSUME NEW t \in Starters, Start(t) \/ StartStep(t) PROVE CallInv'
    BY <1>1, StartCalls, ExchangeCalls, MainRefusedCalls, InitialiseCalls, InitFailsCalls,
       CheckStopCalls, ScheduledCalls, ReturnedCalls, CloseFdsCalls, ForgetFdsCalls,
       ClearStopCalls, LeaveCalls, ShutCalls DEF StartStep
<1>2. ASSUME NEW p \in Stoppers, Stop(p) \/ StopStep(p) PROVE CallInv'
    BY <1>2, StopCalls
<1>3. CASE UNCHANGED vars
    BY <1>3, CallSame DEF vars, flagVars, fdVars, stopVars, taskVars
<1> QED
    BY <1>1, <1>2, <1>3, EventCalls, OthersCall DEF Next

LEMMA AlwaysCall == Spec => []CallInv
BY InitCall, StepCall, PTL DEF Spec

(* A run ends only for a stop that has come since the run before it was    *)
(* cleared (hev_socks5_tunnel_run looks at stop_requested,                 *)
(* hev_socks5_tunnel_fini takes it back).                                  *)
THEOREM RunsEndByStop == Spec => []EndedByStop
<1>1. CallInv => EndedByStop
    BY DEF CallInv, Asked, EndedByStop, Scheduling
<1> QED
    BY <1>1, AlwaysCall, PTL

(* When no call of start is under way, its duplicate of the TUN and the    *)
(* socket pair are closed, whichever way the last call came back.          *)
THEOREM CallsCloseEverything == Spec => []NothingLeftOpen
<1>1. CallInv => NothingLeftOpen
    BY DEF CallInv, Owned, NothingLeftOpen, HasPair, KnowsPair
<1> QED
    BY <1>1, AlwaysCall, PTL

-----------------------------------------------------------------------------
(* Tasks keep the second invariant.                                        *)

States == {"stopped", "running", "waiting"}

(* hev_task_wakeup makes no task stop or wait.                             *)
LEMMA WokenStates ==
    ASSUME NEW st \in [Tasks -> States], NEW ks
    PROVE  /\ Woken(st, ks) \in [Tasks -> States]
           /\ \A k \in Tasks : /\ Woken(st, ks)[k] = "stopped" <=> st[k] = "stopped"
                               /\ Woken(st, ks)[k] = "waiting" => st[k] = "waiting" /\ k \notin ks
BY DEF Woken, States

(* hev_socks5_session_terminate leaves the sessions that there are.        *)
LEMMA TerminatedSessions ==
    ASSUME NEW sx \in [Sessions -> SessionType \cup {NoSession}], NEW ss,
           \A s \in ss : s \in Sessions => sx[s] # NoSession
    PROVE  /\ Terminated(sx, ss) \in [Sessions -> SessionType \cup {NoSession}]
           /\ \A s \in Sessions : Terminated(sx, ss)[s] # NoSession <=> sx[s] # NoSession
<1>1. ASSUME NEW r \in SessionType
      PROVE  [r EXCEPT !.timeout = "zero"] \in SessionType
    BY DEF SessionType
<1>2. NoSession \notin SessionType
    BY DEF SessionType, NoSession
<1>3. ASSUME NEW s \in Sessions
      PROVE  /\ Terminated(sx, ss)[s] \in SessionType \cup {NoSession}
             /\ Terminated(sx, ss)[s] # NoSession <=> sx[s] # NoSession
    BY <1>1, <1>2 DEF Terminated
<1> QED
    BY <1>3 DEF Terminated

LEMMA TaskNames ==
    /\ "event" \in Tasks /\ "io" \in Tasks /\ "timer" \in Tasks
    /\ \A s \in Sessions : s \in Tasks /\ s # "event" /\ s # "io" /\ s # "timer"
BY TunAssumption DEF Tasks

LEMMA InitTask == Init => TaskInv
<1> SUFFICES ASSUME Init PROVE TaskInv
    OBVIOUS
<1>1. /\ session_set = <<>> /\ Range(session_set) = {} /\ IsInjective(session_set)
      /\ session_set \in Seq(Sessions)
    BY DEF Init, Range, IsInjective
<1>2. /\ \A k \in Tasks : state[k] = "stopped" /\ state \in [Tasks -> States]
      /\ \A s \in Sessions : sess[s] = NoSession
    BY DEF Init, States
<1>3. TaskTypes
    BY <1>1, <1>2 DEF Init, TaskTypes, States
<1>4. Listed /\ TimerUp /\ NoAbort
    BY <1>1, <1>2, TaskNames DEF Init, Listed, TimerUp, NoAbort
<1> QED
    BY <1>3, <1>4 DEF TaskInv

(* A call of start goes on and the tasks do not.                           *)
LEMMA CallGoesOn ==
    ASSUME TaskInv, CallTypes, NEW t \in Starters, NEW there, Goto(t, there),
           at[t] # "sched", there \in {"check", "sched"} => at[t] \in {"check", "sched"},
           UNCHANGED <<state, session_set, sess, setup, parked, aborted>>,
           run' = run \/ run' = FALSE
    PROVE  TaskInv'
<1>1. at'[t] = there /\ \A u \in Starters : u # t => at'[u] = at[u]
    BY Goes
<1>2. TaskTypes'
    <2>1. run' \in BOOLEAN
        BY DEF TaskInv, TaskTypes
    <2> QED
        BY <2>1 DEF TaskInv, TaskTypes
<1>3. Scheduling => Scheduling'
    BY <1>1 DEF Scheduling
<1>4. Listed'
    BY <1>3 DEF TaskInv, Listed
<1>5. TimerUp'
    BY <1>1 DEF TaskInv, TimerUp
<1> QED
    BY <1>2, <1>4, <1>5 DEF TaskInv, NoAbort

LEMMA ScheduledTasks ==
    ASSUME TaskInv, CallInv, NEW t \in Starters, Scheduled(t)
    PROVE  TaskInv'
<1>1. at'[t] = "ret" /\ \A u \in Starters : u # t => at'[u] = at[u]
    BY Goes DEF Scheduled, CallInv
<1>2. UNCHANGED <<state, session_set, sess, setup, run, parked, aborted>>
    BY DEF Scheduled, sessionVars, taskVars, stopVars
<1>3. \A k \in Tasks : state[k] = "stopped"
    BY DEF Scheduled
<1>4. TaskTypes'
    BY <1>2 DEF TaskInv, TaskTypes
<1>5. Listed'
    BY <1>2, <1>3, TaskNames DEF TaskInv, Listed
<1>6. TimerUp'
    BY <1>1, <1>2 DEF TaskInv, TimerUp
<1> QED
    BY <1>2, <1>4, <1>5, <1>6 DEF TaskInv, NoAbort

LEMMA InitialiseTasks ==
    ASSUME TaskInv, CallInv, NEW t \in Starters, Initialise(t)
    PROVE  TaskInv'
<1>1. /\ at[t] = "main"
      /\ state' = [k \in Tasks |-> IF k \in Sessions THEN "stopped" ELSE "running"]
      /\ parked' = FALSE /\ run' = TRUE
      /\ UNCHANGED <<session_set, sess, setup, aborted>>
    BY DEF Initialise, sessionVars, stopVars
<1>2. ~Scheduling
    BY <1>1 DEF Scheduling, CallInv, OneRun, Inside
<1>3. \A s \in Sessions : sess[s] = NoSession /\ s \notin Range(session_set)
    BY <1>2 DEF TaskInv, Listed
<1>4. TaskTypes'
    BY <1>1 DEF TaskInv, TaskTypes
<1>5. Listed'
    BY <1>1, <1>3, TaskNames DEF Listed
<1>6. TimerUp'
    BY <1>1, TaskNames DEF TimerUp
<1> QED
    BY <1>1, <1>4, <1>5, <1>6 DEF TaskInv, NoAbort

LEMMA StartTasks ==
    ASSUME TaskInv, CallInv, NEW t \in Starters, Start(t) \/ StartStep(t)
    PROVE  TaskInv'
<1>1. ASSUME \/ Start(t) \/ Exchange(t) \/ MainRefused(t) \/ CheckStop(t)
             \/ \E step \in {"tunnel", "task"} : InitFails(t, step)
             \/ Returned(t) \/ CloseFds(t) \/ ForgetFds(t) \/ ClearStop(t)
             \/ Leave(t) \/ Shut(t)
      PROVE  TaskInv'
    <2>1. /\ at[t] # "sched"
          /\ UNCHANGED <<state, session_set, sess, setup, parked, aborted>>
          /\ run' = run \/ run' = FALSE
        BY <1>1 DEF Start, Exchange, MainRefused, CheckStop, InitFails, Returned, CloseFds,
                    ForgetFds, ClearStop, Leave, Shut, sessionVars, taskVars, stopVars
    <2>2. PICK there : /\ Goto(t, there)
                       /\ there \in {"check", "sched"} => at[t] \in {"check", "sched"}
        BY <1>1 DEF Start, Exchange, MainRefused, CheckStop, InitFails, Returned, CloseFds,
                    ForgetFds, ClearStop, Leave, Shut
    <2> QED
        BY <2>1, <2>2, CallGoesOn DEF CallInv
<1>2. CASE Initialise(t) \/ Scheduled(t)
    BY <1>2, InitialiseTasks, ScheduledTasks
<1> QED
    BY <1>1, <1>2 DEF StartStep

(* Tasks go on, and no session comes or goes.                              *)
LEMMA TasksGoOn ==
    ASSUME TaskInv, TaskTypes', UNCHANGED <<at, setup>>, aborted' => aborted,
           \A s \in Sessions :
               /\ sess'[s] # NoSession <=> sess[s] # NoSession
               /\ state'[s] = "stopped" <=> state[s] = "stopped"
               /\ s \in Range(session_set') <=> s \in Range(session_set),
           run' => run /\ (state["timer"] # "stopped" => state'["timer"] # "stopped"),
           parked' /\ state'["timer"] = "waiting" =>
               session_set' = <<>> \/ (parked /\ state["timer"] = "waiting")
    PROVE  TaskInv'
<1>1. Listed'
    BY DEF TaskInv, Listed, Scheduling
<1>2. session_set' # <<>> => session_set # <<>>
    <2> SUFFICES ASSUME session_set' # <<>>, session_set = <<>> PROVE FALSE
        OBVIOUS
    <2>1. 1 \in DOMAIN session_set' /\ session_set'[1] \in Sessions
        BY DEF TaskTypes
    <2>2. session_set'[1] \in Range(session_set')
        BY <2>1 DEF Range
    <2> QED
        BY <2>1, <2>2 DEF Range
<1>3. TimerUp'
    BY <1>2 DEF TaskInv, TimerUp
<1> QED
    BY <1>1, <1>3 DEF TaskInv, NoAbort

(* ... when only the states change, of tasks that do not end.              *)
LEMMA StatesGoOn ==
    ASSUME TaskInv, NEW st \in [Tasks -> States], state' = st,
           \A s \in Sessions : st[s] = "stopped" <=> state[s] = "stopped",
           run => (state["timer"] # "stopped" => st["timer"] # "stopped"),
           st["timer"] = "waiting" => state["timer"] = "waiting",
           UNCHANGED <<at, session_set, sess, setup, run, parked, aborted>>
    PROVE  TaskInv'
<1>1. TaskTypes'
    BY DEF TaskInv, TaskTypes, States
<1> QED
    BY <1>1, TasksGoOn DEF TaskInv

(* What the steps of the task system leave alone.                          *)
LEMMA PollTasks ==
    ASSUME TaskInv, EventPoll \/ TunReadable \/ TimerSleeps \/ \E s \in Sessions : SocketReady(s)
    PROVE  TaskInv'
<1>1. PICK ks : state' = Woken(state, ks)
    BY DEF EventPoll, TunReadable, TimerSleeps, SocketReady
<1>2. UNCHANGED <<at, session_set, sess, setup, run, parked, aborted>>
    BY DEF EventPoll, TunReadable, TimerSleeps, SocketReady, flagVars, stopVars, sessionVars
<1>3. state \in [Tasks -> States]
    BY DEF TaskInv, TaskTypes, States
<1> DEFINE st == Woken(state, ks)
<1>4. /\ st \in [Tasks -> States]
      /\ \A k \in Tasks : /\ st[k] = "stopped" <=> state[k] = "stopped"
                          /\ st[k] = "waiting" => state[k] = "waiting"
    BY <1>3, WokenStates
<1> HIDE DEF st
<1> QED
    BY <1>1, <1>2, <1>4, TaskNames, StatesGoOn DEF st

LEMMA WaitTasks ==
    ASSUME TaskInv, EventWaits \/ IoWaits \/ IoEnds \/ TimerEnds
    PROVE  TaskInv'
<1>1. UNCHANGED <<at, session_set, sess, setup, run, parked, aborted>>
    BY DEF EventWaits, IoWaits, IoEnds, TimerEnds, flagVars, stopVars, sessionVars
<1>2. state \in [Tasks -> States]
    BY DEF TaskInv, TaskTypes, States
<1>3. ASSUME NEW k \in {"event", "io"}, state' = [state EXCEPT ![k] = "waiting"]
      PROVE  TaskInv'
    <2> DEFINE st == [state EXCEPT ![k] = "waiting"]
    <2>1. st \in [Tasks -> States] /\ \A j \in Tasks : j # k => st[j] = state[j]
        BY <1>2, TaskNames DEF States
    <2> HIDE DEF st
    <2> QED
        BY <1>1, <1>3, <2>1, TaskNames, StatesGoOn DEF st
<1>4. ASSUME NEW k \in {"io", "timer"}, state' = Ended(state, k), k = "timer" => ~run
      PROVE  TaskInv'
    <2> DEFINE ks == IF eventAt = k THEN {"event"} ELSE {}
    <2> DEFINE w == Woken(state, ks)
    <2> DEFINE st == [w EXCEPT ![k] = "stopped"]
    <2>1. /\ w \in [Tasks -> States]
          /\ \A j \in Tasks : /\ w[j] = "stopped" <=> state[j] = "stopped"
                              /\ w[j] = "waiting" => state[j] = "waiting"
        BY <1>2, WokenStates
    <2> HIDE DEF w
    <2>2. /\ st \in [Tasks -> States] /\ st[k] = "stopped"
          /\ \A j \in Tasks : j # k => st[j] = w[j]
        BY <2>1, TaskNames DEF States
    <2>3. state' = st
        BY <1>4 DEF Ended, w
    <2> HIDE DEF st
    <2> QED
        BY <1>1, <1>4, <2>1, <2>2, <2>3, TaskNames, StatesGoOn
<1> QED
    BY <1>3, <1>4 DEF EventWaits, IoWaits, IoEnds, TimerEnds

(* The event task joins the others: it is the only one that ends.          *)
LEMMA JoinStates ==
    ASSUME NEW st \in [Tasks -> States], Join(st)
    PROVE  /\ state' \in [Tasks -> States]
           /\ \A k \in Tasks : k # "event" =>
                 /\ state'[k] = "stopped" <=> st[k] = "stopped"
                 /\ state'[k] = "waiting" => st[k] = "waiting"
<1> DEFINE w == Woken(st, {Joining(st)})
<1>1. /\ w \in [Tasks -> States]
      /\ \A k \in Tasks : /\ w[k] = "stopped" <=> st[k] = "stopped"
                          /\ w[k] = "waiting" => st[k] = "waiting"
    BY WokenStates
<1>2. state' = [st EXCEPT !["event"] = "stopped"] \/ state' = [w EXCEPT !["event"] = "waiting"]
    BY DEF Join
<1> HIDE DEF w
<1> QED
    BY <1>1, <1>2 DEF States

LEMMA EventTasks ==
    ASSUME TaskInv, EventStops \/ EventJoins
    PROVE  TaskInv'
<1>1. state \in [Tasks -> States]
    BY DEF TaskInv, TaskTypes, States
<1>2. CASE EventJoins
    <2>1. UNCHANGED <<at, session_set, sess, setup, run, parked, aborted>> /\ Join(state)
        BY <1>2 DEF EventJoins, flagVars, stopVars, sessionVars
    <2>2. /\ state' \in [Tasks -> States]
          /\ \A k \in Tasks : k # "event" =>
                /\ state'[k] = "stopped" <=> state[k] = "stopped"
                /\ state'[k] = "waiting" => state[k] = "waiting"
        BY <1>1, <2>1, JoinStates
    <2>3. TaskTypes'
        BY <2>1, <2>2 DEF TaskInv, TaskTypes, States
    <2> QED
        BY <2>1, <2>2, <2>3, TaskNames, TasksGoOn DEF TaskInv
<1>3. CASE EventStops
    <2> DEFINE ss == Range(session_set)
    <2> DEFINE w == Woken(state, ss)
    <2>1. /\ run' = FALSE /\ sess' = Terminated(sess, ss) /\ Wakes(state, ss)
          /\ Join(w) /\ UNCHANGED <<at, session_set, setup, parked>>
        BY <1>3 DEF EventStops, flagVars, stopVars
    <2>2. \A s \in ss : s \in Sessions
        BY DEF TaskInv, TaskTypes, Range
    <2>3. \A s \in ss : state[s] # "stopped" /\ sess[s] # NoSession
        BY <2>2 DEF TaskInv, Listed
    <2>4. aborted' => aborted
        BY <2>1, <2>3 DEF Wakes, TaskInv
    <2>5. /\ sess' \in [Sessions -> SessionType \cup {NoSession}]
          /\ \A s \in Sessions : sess'[s] # NoSession <=> sess[s] # NoSession
        BY <2>1, <2>3, TerminatedSessions DEF TaskInv, TaskTypes
    <2>6. /\ w \in [Tasks -> States]
          /\ \A k \in Tasks : /\ w[k] = "stopped" <=> state[k] = "stopped"
                              /\ w[k] = "waiting" => state[k] = "waiting"
        BY <1>1, WokenStates
    <2> HIDE DEF w
    <2>7. /\ state' \in [Tasks -> States]
          /\ \A k \in Tasks : k # "event" =>
                /\ state'[k] = "stopped" <=> w[k] = "stopped"
                /\ state'[k] = "waiting" => w[k] = "waiting"
        BY <2>1, <2>6, JoinStates
    <2>8. TaskTypes'
        BY <2>1, <2>5, <2>7 DEF TaskInv, TaskTypes, States
    <2>9. state'["timer"] = "waiting" => state["timer"] = "waiting"
        BY <2>6, <2>7, TaskNames
    <2>10. \A s \in Sessions : state'[s] = "stopped" <=> state[s] = "stopped"
        BY <2>6, <2>7, TaskNames
    <2> QED
        BY <2>1, <2>4, <2>5, <2>8, <2>9, <2>10, TasksGoOn
<1> QED
    BY <1>2, <1>3

(* A stop changes no task, and a dead TUN none either.                     *)
LEMMA StopTasks ==
    ASSUME TaskInv,
           TunFails \/ UNCHANGED vars \/ \E p \in Stoppers : Stop(p) \/ StopStep(p)
    PROVE  TaskInv'
<1>1. UNCHANGED <<at, session_set, sess, setup, run, parked, aborted, state>>
    BY DEF TunFails, Stop, StopStep, SetStop, StoreSeen, ReadFd, WriteFd, vars, flagVars,
           stopVars, sessionVars, taskVars
<1>2. state \in [Tasks -> States]
    BY DEF TaskInv, TaskTypes, States
<1> QED
    BY <1>1, <1>2, StatesGoOn

-----------------------------------------------------------------------------
(* The callbacks of lwIP.                                                  *)

(* One field of a session is set.                                          *)
LEMMA SessionFields ==
    ASSUME NEW r \in SessionType
    PROVE  /\ r.udp \in BOOLEAN /\ r.pcb \in BOOLEAN /\ r.fuel \in 0..Ring
           /\ r.timeout \in {"unset", "zero", "full"} /\ r.phase \in Range(Phases)
           /\ r # NoSession
           /\ \A n \in 0..Ring : [r EXCEPT !.fuel = n] \in SessionType
           /\ \A b \in BOOLEAN : [r EXCEPT !.pcb = b] \in SessionType
           /\ \A ph \in Range(Phases), to \in {"unset", "zero", "full"} :
                 [r EXCEPT !.phase = ph, !.timeout = to] \in SessionType
           /\ \A ph \in Range(Phases), to \in {"unset", "zero", "full"}, n \in 0..Ring :
                 [r EXCEPT !.phase = ph, !.fuel = n, !.timeout = to] \in SessionType
<1> DEFINE P == Range(Phases)
<1>1. SessionType = [phase : P, udp : BOOLEAN, timeout : {"unset", "zero", "full"},
                     pcb : BOOLEAN, fuel : 0..Ring]
    BY DEF SessionType
<1> HIDE DEF P
<1>2. r # NoSession
    BY <1>1 DEF NoSession
<1>3. /\ r.udp \in BOOLEAN /\ r.pcb \in BOOLEAN /\ r.fuel \in 0..Ring
      /\ r.timeout \in {"unset", "zero", "full"} /\ r.phase \in P
    BY <1>1
<1>4. ASSUME NEW n \in 0..Ring PROVE [r EXCEPT !.fuel = n] \in SessionType
    BY <1>1
<1>5. ASSUME NEW b \in BOOLEAN PROVE [r EXCEPT !.pcb = b] \in SessionType
    BY <1>1
<1>6. ASSUME NEW ph \in P, NEW to \in {"unset", "zero", "full"}
      PROVE  [r EXCEPT !.phase = ph, !.timeout = to] \in SessionType
    BY <1>1
<1>7. ASSUME NEW ph \in P, NEW to \in {"unset", "zero", "full"}, NEW n \in 0..Ring
      PROVE  [r EXCEPT !.phase = ph, !.fuel = n, !.timeout = to] \in SessionType
    BY <1>1
<1> QED
    BY <1>2, <1>3, <1>4, <1>5, <1>6, <1>7 DEF P

(* A session is set to something that is a session.                        *)
LEMMA SessionSet ==
    ASSUME NEW sx \in [Sessions -> SessionType \cup {NoSession}],
           NEW s \in Sessions, NEW r \in SessionType
    PROVE  /\ [sx EXCEPT ![s] = r] \in [Sessions -> SessionType \cup {NoSession}]
           /\ [sx EXCEPT ![s] = r][s] # NoSession
           /\ \A u \in Sessions : u # s => [sx EXCEPT ![s] = r][u] = sx[u]
BY SessionFields

(* tcp_err_handler leaves the session to its task.                         *)
LEMMA BrokenSessions ==
    ASSUME TaskInv, NEW s \in Sessions, Broken(s)
    PROVE  /\ (aborted' => aborted)
           /\ sess' \in [Sessions -> SessionType \cup {NoSession}]
           /\ \A u \in Sessions : sess'[u] # NoSession <=> sess[u] # NoSession
<1>1. sess \in [Sessions -> SessionType \cup {NoSession}] /\ sess[s] # NoSession
    BY DEF TaskInv, TaskTypes, Broken
<1>2. aborted' => aborted
    BY <1>1 DEF TaskInv, Listed, Broken, Wakes
<1> DEFINE tx == Terminated(sess, {s})
<1>3. /\ tx \in [Sessions -> SessionType \cup {NoSession}]
      /\ \A u \in Sessions : tx[u] # NoSession <=> sess[u] # NoSession
    BY <1>1, TerminatedSessions
<1>4. sess' = [tx EXCEPT ![s].pcb = sess[s].udp]
    BY DEF Broken
<1> HIDE DEF tx
<1>5. sess[s] \in SessionType /\ tx[s] \in SessionType /\ sess[s].udp \in BOOLEAN
    BY <1>1, <1>3, SessionFields
<1> DEFINE r == [tx[s] EXCEPT !.pcb = sess[s].udp]
<1>6. r \in SessionType
    BY <1>5, SessionFields
<1>7. sess' = [tx EXCEPT ![s] = r]
    BY <1>4
<1> HIDE DEF r
<1> QED
    BY <1>1, <1>2, <1>3, <1>6, <1>7, SessionSet

LEMMA PacketTasks ==
    ASSUME TaskInv, NEW s \in Sessions, Packet(s) \/ PacketBreaks(s)
    PROVE  TaskInv'
<1>1. /\ state' = Woken(state, {s}) /\ UNCHANGED <<at, session_set, setup, run, parked>>
      /\ sess[s] # NoSession
    BY DEF Packet, PacketBreaks, Broken, flagVars, stopVars
<1>2. state \in [Tasks -> States]
    BY DEF TaskInv, TaskTypes, States
<1>3. /\ state' \in [Tasks -> States]
      /\ \A k \in Tasks : /\ state'[k] = "stopped" <=> state[k] = "stopped"
                          /\ state'[k] = "waiting" => state[k] = "waiting"
    BY <1>1, <1>2, WokenStates
<1>4. /\ (aborted' => aborted)
      /\ sess' \in [Sessions -> SessionType \cup {NoSession}]
      /\ \A u \in Sessions : sess'[u] # NoSession <=> sess[u] # NoSession
    <2>1. CASE PacketBreaks(s)
        BY <2>1, BrokenSessions DEF PacketBreaks
    <2>2. CASE Packet(s)
        <3>1. aborted' => aborted
            BY <2>2 DEF Packet, Wakes, TaskInv, Listed
        <3>2. sess \in [Sessions -> SessionType \cup {NoSession}] /\ sess[s] \in SessionType
            BY <1>1 DEF TaskInv, TaskTypes
        <3>3. setup.ring \in 0..Ring
            BY TunAssumption DEF TaskInv, TaskTypes, SetupType
        <3> DEFINE r == [sess[s] EXCEPT !.fuel = setup.ring]
        <3>4. r \in SessionType
            BY <3>2, <3>3, SessionFields
        <3>5. sess' = [sess EXCEPT ![s] = r]
            BY <2>2 DEF Packet
        <3> HIDE DEF r
        <3> QED
            BY <1>1, <3>1, <3>2, <3>4, <3>5, SessionSet
    <2> QED
        BY <2>1, <2>2
<1>5. TaskTypes'
    BY <1>1, <1>3, <1>4 DEF TaskInv, TaskTypes, States
<1> QED
    BY <1>1, <1>3, <1>4, <1>5, TaskNames, TasksGoOn

LEMMA TickTasks ==
    ASSUME TaskInv, TimerTicks
    PROVE  TaskInv'
<1>1. /\ UNCHANGED <<at, session_set, setup, run>> /\ parked' = (session_set = <<>>)
    BY DEF TimerTicks, flagVars, stopVars
<1>2. state \in [Tasks -> States] /\ sess \in [Sessions -> SessionType \cup {NoSession}]
    BY DEF TaskInv, TaskTypes, States
<1>3. PICK ks : state' = [Woken(state, ks) EXCEPT !["timer"] = "waiting"]
    <2>1. Woken(state, {}) = state
        BY <1>2 DEF Woken
    <2> QED
        BY <2>1 DEF TimerTicks
<1> DEFINE w == Woken(state, ks)
<1>4. /\ w \in [Tasks -> States]
      /\ \A k \in Tasks : w[k] = "stopped" <=> state[k] = "stopped"
    BY <1>2, WokenStates
<1>5. state' = [w EXCEPT !["timer"] = "waiting"]
    BY <1>3
<1> HIDE DEF w
<1>6. /\ state' \in [Tasks -> States] /\ state'["timer"] = "waiting"
      /\ \A s \in Sessions : state'[s] = "stopped" <=> state[s] = "stopped"
    BY <1>4, <1>5, TaskNames DEF States
<1>7. /\ (aborted' => aborted)
      /\ sess' \in [Sessions -> SessionType \cup {NoSession}]
      /\ \A u \in Sessions : sess'[u] # NoSession <=> sess[u] # NoSession
    <2>1. CASE UNCHANGED <<sess, aborted>>
        BY <1>2, <2>1 DEF TaskInv
    <2>2. CASE \E s \in Sessions : Broken(s)
        BY <2>2, BrokenSessions
    <2> QED
        BY <2>1, <2>2 DEF TimerTicks
<1>8. parked' \in BOOLEAN
    BY <1>1
<1>9. TaskTypes'
    BY <1>1, <1>6, <1>7, <1>8 DEF TaskInv, TaskTypes, States
<1>10. parked' => session_set' = <<>>
    BY <1>1
<1> QED
    BY <1>1, <1>6, <1>7, <1>9, <1>10, TasksGoOn

(* Appending to the list.                                                  *)
LEMMA AppendEntries ==
    ASSUME NEW S, NEW q \in Seq(S), NEW e \in S
    PROVE  /\ Append(q, e) \in Seq(S)
           /\ Range(Append(q, e)) = Range(q) \cup {e}
           /\ IsInjective(q) /\ e \notin Range(q) => IsInjective(Append(q, e))
           /\ Len(Append(q, e)) = Len(q) + 1
           /\ Len(q) > 0 => Head(Append(q, e)) \in Range(q)
<1> DEFINE a == Append(q, e)
<1>1. /\ a \in Seq(S) /\ Len(a) = Len(q) + 1 /\ DOMAIN a = 1..Len(q) + 1
      /\ DOMAIN q = 1..Len(q) /\ Len(q) \in Nat
      /\ \A i \in 1..Len(q) : a[i] = q[i]
      /\ a[Len(q) + 1] = e
    OBVIOUS
<1>2. Len(q) > 0 => Head(a) = q[1] /\ 1 \in DOMAIN q
    BY <1>1
<1> HIDE DEF a
<1>3. Range(a) = Range(q) \cup {e}
    <2>1. ASSUME NEW x \in Range(a) PROVE x \in Range(q) \cup {e}
        <3>1. PICK i \in 1..Len(q) + 1 : a[i] = x
            BY <1>1 DEF Range
        <3> QED
            BY <1>1, <3>1 DEF Range
    <2>2. ASSUME NEW x \in Range(q) PROVE x \in Range(a)
        <3>1. PICK i \in 1..Len(q) : q[i] = x
            BY <1>1 DEF Range
        <3>2. a[i] = x /\ i \in 1..Len(q) + 1
            BY <1>1, <3>1
        <3> QED
            BY <1>1, <3>2 DEF Range
    <2>3. e \in Range(a)
        <3>1. Len(q) + 1 \in DOMAIN a
            BY <1>1
        <3> QED
            BY <1>1, <3>1 DEF Range
    <2> QED
        BY <2>1, <2>2, <2>3
<1>4. ASSUME IsInjective(q), e \notin Range(q) PROVE IsInjective(a)
    <2>1. \A i \in 1..Len(q) : q[i] # e
        BY <1>1, <1>4 DEF Range
    <2>2. \A i, j \in 1..Len(q) : q[i] = q[j] => i = j
        BY <1>1, <1>4 DEF IsInjective
    <2>3. ASSUME NEW i \in 1..Len(q) + 1, NEW j \in 1..Len(q) + 1, a[i] = a[j] PROVE i = j
        BY <1>1, <2>1, <2>2, <2>3
    <2> QED
        BY <1>1, <2>3 DEF IsInjective
<1>5. Len(q) > 0 => Head(a) \in Range(q)
    BY <1>2 DEF Range
<1> QED
    BY <1>1, <1>3, <1>4, <1>5 DEF a

(* An accepted session joins the list; the one that is terminated for it   *)
(* has a task, unless the limit is 1, and so has the timer.                *)
LEMMA AcceptTasks ==
    ASSUME TaskInv, NEW s \in Sessions, NEW udp \in setup.udp, Accept(s, udp)
    PROVE  TaskInv'
<1> DEFINE new == [phase |-> "new", udp |-> udp, timeout |-> "unset",
                   pcb |-> TRUE, fuel |-> setup.ring]
           out == IF Full(Len(session_set')) THEN {Head(session_set')} ELSE {}
           w   == Woken(state, out)
           sx  == [sess EXCEPT ![s] = new]
           st  == [w EXCEPT ![s] = "running"]
<1>1. /\ Scheduling /\ run /\ sess[s] = NoSession
      /\ session_set' = Append(session_set, s)
      /\ UNCHANGED <<at, setup, run>>
    BY DEF Accept, Gets, flagVars, stopVars
<1>2. /\ sess' = Terminated(sx, out) /\ state' = Woken(st, {"timer"})
      /\ Wakes(state, out \cup {"timer"})
      /\ parked' = (parked /\ state'["timer"] = "waiting")
    BY DEF Accept, TimerWoken
<1>3. /\ state \in [Tasks -> States] /\ sess \in [Sessions -> SessionType \cup {NoSession}]
      /\ session_set \in Seq(Sessions) /\ IsInjective(session_set) /\ setup \in SetupType
      /\ Scheduling /\ run => state["timer"] # "stopped"
    BY TunAssumption DEF TaskInv, TaskTypes, States, TimerUp, Scheduling
<1>4. s \notin Range(session_set) /\ state[s] = "stopped"
    BY <1>1 DEF TaskInv, Listed
<1>5. /\ session_set' \in Seq(Sessions) /\ IsInjective(session_set')
      /\ Range(session_set') = Range(session_set) \cup {s}
      /\ Len(session_set') = Len(session_set) + 1
      /\ Len(session_set) > 0 => Head(session_set') \in Range(session_set)
    BY <1>1, <1>3, <1>4, AppendEntries
<1>6. \A x \in out : /\ x \in Range(session_set')
                     /\ setup.max_session_count # 1 => x \in Range(session_set)
    <2>1. setup.max_session_count \in Nat /\ Len(session_set) \in Nat
        BY <1>3 DEF SetupType
    <2>2. Head(session_set') \in Range(session_set')
        <3>1. 1 \in DOMAIN session_set' /\ Head(session_set') = session_set'[1]
            BY <1>5, <2>1
        <3> QED
            BY <3>1 DEF Range
    <2> QED
        BY <1>5, <2>1, <2>2 DEF Full
<1>7. \A x \in out : /\ x \in Sessions /\ (x = s \/ sess[x] # NoSession)
                     /\ setup.max_session_count # 1 => state[x] # "stopped"
    <2>1. \A x \in Range(session_set) : x \in Sessions
        BY <1>3 DEF Range
    <2> QED
        BY <1>5, <1>6, <2>1 DEF TaskInv, Listed
<1> HIDE DEF out
<1>8. NoAbort'
    <2> SUFFICES ASSUME setup'.max_session_count # 1 PROVE ~aborted'
        BY DEF NoAbort
    <2>1. setup.max_session_count # 1 /\ ~aborted
        BY <1>1 DEF TaskInv, NoAbort
    <2>2. \A x \in out \cup {"timer"} : state[x] # "stopped"
        BY <1>1, <1>3, <1>7, <2>1
    <2> QED
        BY <1>2, <2>1, <2>2 DEF Wakes
<1>9. new \in SessionType
    <2>1. udp \in BOOLEAN /\ setup.ring \in 0..Ring
        BY <1>3 DEF SetupType
    <2>2. "new" \in Range(Phases)
        BY DEF Phases, Range
    <2> QED
        BY <2>1, <2>2 DEF SessionType
<1> HIDE DEF new
<1>10. /\ sx \in [Sessions -> SessionType \cup {NoSession}] /\ sx[s] # NoSession
       /\ \A u \in Sessions : u # s => sx[u] = sess[u]
    BY <1>3, <1>9, SessionSet
<1> HIDE DEF sx
<1>11. /\ sess' \in [Sessions -> SessionType \cup {NoSession}]
       /\ \A u \in Sessions : sess'[u] # NoSession <=> sx[u] # NoSession
    <2>1. \A x \in out : x \in Sessions => sx[x] # NoSession
        <3> SUFFICES ASSUME NEW x \in out PROVE sx[x] # NoSession
            OBVIOUS
        <3>1. x \in Sessions /\ (x = s \/ sess[x] # NoSession)
            BY <1>7
        <3> QED
            BY <1>10, <3>1
    <2> QED
        BY <1>2, <1>10, <2>1, TerminatedSessions
<1>12. /\ w \in [Tasks -> States]
       /\ \A k \in Tasks : w[k] = "stopped" <=> state[k] = "stopped"
    BY <1>3, WokenStates
<1> HIDE DEF w
<1>13. /\ st \in [Tasks -> States] /\ st[s] = "running"
       /\ \A k \in Tasks : k # s => st[k] = w[k]
    BY <1>12, TaskNames DEF States
<1> HIDE DEF st
<1>14. /\ state' \in [Tasks -> States]
       /\ \A k \in Tasks : state'[k] = "stopped" <=> st[k] = "stopped"
       /\ state'["timer"] # "waiting"
    BY <1>2, <1>13, WokenStates, TaskNames
<1>15. state'[s] # "stopped" /\ state'["timer"] # "stopped"
       /\ \A u \in Sessions : u # s => (state'[u] = "stopped" <=> state[u] = "stopped")
    BY <1>1, <1>3, <1>12, <1>13, <1>14, TaskNames
<1>16. ~parked'
    BY <1>2, <1>14
<1>17. TaskTypes'
    <2>1. parked' \in BOOLEAN
        BY <1>2
    <2> QED
        BY <1>1, <1>5, <1>11, <1>14, <2>1 DEF TaskInv, TaskTypes, States
<1>18. Listed'
    <2>1. Scheduling'
        BY <1>1 DEF Scheduling
    <2>2. sess'[s] # NoSession /\ s \in Range(session_set')
        BY <1>5, <1>10, <1>11
    <2>3. ASSUME NEW u \in Sessions, u # s
          PROVE  /\ sess'[u] # NoSession <=> state'[u] # "stopped"
                 /\ u \in Range(session_set') <=> state'[u] # "stopped"
        BY <1>5, <1>10, <1>11, <1>15, <2>3 DEF TaskInv, Listed
    <2> QED
        BY <1>15, <2>1, <2>2, <2>3 DEF Listed
<1>19. TimerUp'
    BY <1>15, <1>16 DEF TimerUp
<1> QED
    BY <1>8, <1>17, <1>18, <1>19 DEF TaskInv

-----------------------------------------------------------------------------
(* The sessions.                                                           *)

(* hev_socks5_tunnel_update_session moves the session within the list.     *)
LEMMA TouchedEntries ==
    ASSUME TaskInv, NEW s \in Sessions, NEW phase, sess[s] # NoSession
    PROVE  /\ Touched(s, phase) \in Seq(Sessions) /\ IsInjective(Touched(s, phase))
           /\ Range(Touched(s, phase)) = Range(session_set)
<1>1. session_set \in Seq(Sessions) /\ IsInjective(session_set) /\ s \in Range(session_set)
    BY DEF TaskInv, TaskTypes, Listed
<1> DEFINE q == RemoveFirst(session_set, s)
<1>2. /\ q \in Seq(Sessions) /\ IsInjective(q) /\ s \notin Range(q)
      /\ \A x \in Range(session_set) : x # s => x \in Range(q)
      /\ Range(q) \subseteq Range(session_set)
    BY <1>1, RemoveFirstEntries
<1> HIDE DEF q
<1>3. /\ Append(q, s) \in Seq(Sessions) /\ IsInjective(Append(q, s))
      /\ Range(Append(q, s)) = Range(q) \cup {s}
    BY <1>2, AppendEntries
<1>4. Range(q) \cup {s} = Range(session_set)
    BY <1>1, <1>2
<1>5. Touched(s, phase) = session_set \/ Touched(s, phase) = Append(q, s)
    BY DEF Touched, q
<1> QED
    BY <1>1, <1>3, <1>4, <1>5

LEMMA SliceTasks ==
    ASSUME TaskInv, NEW s \in Sessions, SessionWaits(s) \/ SessionYields(s)
    PROVE  TaskInv'
<1>1. /\ UNCHANGED <<at, setup, run, parked, aborted>> /\ state[s] = "running"
      /\ state' = state \/ state' = [state EXCEPT ![s] = "waiting"]
    BY DEF SessionWaits, SessionYields, Gets, flagVars, stopVars
<1>2. /\ state \in [Tasks -> States] /\ sess \in [Sessions -> SessionType \cup {NoSession}]
      /\ sess[s] # NoSession
    BY <1>1 DEF TaskInv, TaskTypes, States, Listed
<1>3. sess[s] \in SessionType /\ sess[s].timeout \in {"unset", "zero", "full"}
      /\ sess[s].fuel \in 0..Ring
    BY <1>2, SessionFields
<1>4. \A phase : TimeoutAt(s, phase) \in {"unset", "zero", "full"}
    BY <1>3 DEF TimeoutAt
<1>5. PICK r, phase : /\ r \in SessionType /\ sess' = [sess EXCEPT ![s] = r]
                      /\ session_set' = Touched(s, phase)
    <2>1. CASE SessionWaits(s)
        <3>1. PICK phase \in Range(Phases) :
                  /\ sess' = [sess EXCEPT ![s].phase = phase,
                                          ![s].timeout = TimeoutAt(s, phase)]
                  /\ session_set' = Touched(s, phase)
            BY <2>1 DEF SessionWaits
        <3> DEFINE to == TimeoutAt(s, phase)
        <3> DEFINE r == [sess[s] EXCEPT !.phase = phase, !.timeout = to]
        <3>2. sess' = [sess EXCEPT ![s].phase = phase, ![s].timeout = to]
            BY <3>1
        <3>3. to \in {"unset", "zero", "full"}
            BY <1>4
        <3> HIDE DEF to
        <3>4. r \in SessionType
            BY <1>3, <3>3, SessionFields
        <3>5. sess' = [sess EXCEPT ![s] = r]
            BY <1>2, <3>2
        <3> QED
            BY <3>1, <3>4, <3>5
    <2>2. CASE SessionYields(s)
        <3> DEFINE to == TimeoutAt(s, "splice")
        <3> DEFINE r == [sess[s] EXCEPT !.phase = "splice", !.fuel = @ - 1, !.timeout = to]
        <3>1. /\ sess' = [sess EXCEPT ![s].phase = "splice", ![s].fuel = @ - 1,
                                      ![s].timeout = to]
              /\ session_set' = Touched(s, "splice") /\ sess[s].fuel > 0
            BY <2>2 DEF SessionYields
        <3>2. to \in {"unset", "zero", "full"}
            BY <1>4
        <3> HIDE DEF to
        <3>3. "splice" \in Range(Phases)
            <4>1. Phases[4] = "splice" /\ 4 \in DOMAIN Phases
                BY DEF Phases
            <4> QED
                BY <4>1 DEF Range
        <3>4. sess[s].fuel - 1 \in 0..Ring
            BY <1>3, <3>1, TunAssumption
        <3>5. r \in SessionType
            BY <1>3, <3>2, <3>3, <3>4, SessionFields
        <3>6. sess' = [sess EXCEPT ![s] = r]
            BY <1>2, <3>1
        <3> QED
            BY <3>1, <3>5, <3>6
    <2> QED
        BY <2>1, <2>2
<1>6. /\ sess' \in [Sessions -> SessionType \cup {NoSession}]
      /\ \A u \in Sessions : sess'[u] # NoSession <=> sess[u] # NoSession
    BY <1>2, <1>5, SessionSet
<1>7. /\ session_set' \in Seq(Sessions) /\ IsInjective(session_set')
      /\ Range(session_set') = Range(session_set)
    BY <1>2, <1>5, TouchedEntries
<1>8. /\ state' \in [Tasks -> States] /\ state'["timer"] = state["timer"]
      /\ \A u \in Sessions : state'[u] = "stopped" <=> state[u] = "stopped"
    BY <1>1, <1>2, TaskNames DEF States
<1>9. TaskTypes'
    BY <1>1, <1>6, <1>7, <1>8 DEF TaskInv, TaskTypes, States
<1> QED
    BY <1>1, <1>6, <1>7, <1>8, <1>9, TasksGoOn DEF TaskInv

LEMMA GoneTasks ==
    ASSUME TaskInv, NEW s \in Sessions, SessionEnds(s) \/ TimesOut(s)
    PROVE  TaskInv'
<1>1. /\ UNCHANGED <<at, setup, run, parked, aborted>> /\ state[s] # "stopped"
      /\ sess' = [sess EXCEPT ![s] = NoSession]
      /\ session_set' = RemoveFirst(session_set, s)
      /\ state' = [state EXCEPT ![s] = "stopped"]
    BY DEF SessionEnds, TimesOut, Gone, Gets, Polls, flagVars, stopVars
<1>2. /\ state \in [Tasks -> States] /\ sess \in [Sessions -> SessionType \cup {NoSession}]
      /\ session_set \in Seq(Sessions) /\ IsInjective(session_set)
    BY DEF TaskInv, TaskTypes, States
<1>3. /\ session_set' \in Seq(Sessions) /\ IsInjective(session_set')
      /\ s \notin Range(session_set')
      /\ \A u \in Sessions : u # s =>
            (u \in Range(session_set') <=> u \in Range(session_set))
    BY <1>1, <1>2, RemoveFirstEntries
<1>4. /\ state' \in [Tasks -> States] /\ state'["timer"] = state["timer"]
      /\ state'[s] = "stopped"
      /\ \A u \in Sessions : u # s => state'[u] = state[u]
    BY <1>1, <1>2, TaskNames DEF States
<1>5. /\ sess' \in [Sessions -> SessionType \cup {NoSession}] /\ sess'[s] = NoSession
      /\ \A u \in Sessions : u # s => sess'[u] = sess[u]
    BY <1>1, <1>2
<1>6. TaskTypes'
    BY <1>1, <1>3, <1>4, <1>5 DEF TaskInv, TaskTypes, States
<1>7. Listed'
    BY <1>1, <1>3, <1>4, <1>5 DEF TaskInv, Listed, Scheduling
<1>8. session_set # <<>>
    <2>1. s \in Range(session_set)
        BY <1>1 DEF TaskInv, Listed
    <2> QED
        BY <2>1 DEF Range
<1>9. TimerUp'
    BY <1>1, <1>4, <1>8 DEF TaskInv, TimerUp
<1> QED
    BY <1>1, <1>6, <1>7, <1>9 DEF TaskInv, NoAbort

LEMMA StepTask == TaskInv /\ CallInv /\ [Next]_vars => TaskInv'
<1> SUFFICES ASSUME TaskInv, CallInv, [Next]_vars PROVE TaskInv'
    OBVIOUS
<1>1. ASSUME NEW t \in Starters, Start(t) \/ StartStep(t) PROVE TaskInv'
    BY <1>1, StartTasks
<1>2. ASSUME \/ TunFails \/ UNCHANGED vars
             \/ \E p \in Stoppers : Stop(p) \/ StopStep(p)
      PROVE  TaskInv'
    BY <1>2, StopTasks
<1>3. ASSUME EventStep \/ IoStep \/ TimerStep \/ TunReadable PROVE TaskInv'
    BY <1>3, PollTasks, WaitTasks, EventTasks, TickTasks DEF EventStep, IoStep, TimerStep
<1>4. ASSUME NEW s \in Sessions,
             \/ tcp_accept_handler(s) \/ udp_recv_handler(s)
             \/ Packet(s) \/ PacketBreaks(s) \/ SocketReady(s) \/ TimesOut(s)
             \/ SessionSlice(s)
      PROVE  TaskInv'
    BY <1>4, AcceptTasks, PacketTasks, PollTasks, SliceTasks, GoneTasks
    DEF SessionSlice, tcp_accept_handler, udp_recv_handler
<1> QED
    BY <1>1, <1>2, <1>3, <1>4 DEF Next

LEMMA AlwaysTask == Spec => []TaskInv
<1>1. TaskInv /\ CallInv /\ [Next]_vars => TaskInv'
    BY StepTask
<1> QED
    BY InitTask, <1>1, AlwaysCall, PTL DEF Spec

(* hev_task_wakeup is never called for a task that has ended: who wakes a  *)
(* session finds it through the list or a connection of lwIP, and both go  *)
(* before its task does; the timer ends only after run is FALSE, and the   *)
(* I/O task accepts nothing then.                                          *)
THEOREM TasksNeverAbort == Spec => []NoAbort
<1>1. TaskInv => NoAbort
    BY DEF TaskInv, NoAbort
<1> QED
    BY <1>1, AlwaysTask, PTL

(* The lwIP timer never sleeps without a timeout while there is a session: *)
(* it does so only with an empty list, and who fills the list wakes it.    *)
THEOREM TimerServesSessions == Spec => []TimerServes
<1>1. TaskInv => TimerServes
    BY DEF TaskInv, TimerUp, TimerServes
<1> QED
    BY <1>1, AlwaysTask, PTL
=============================================================================
