-------------------------- MODULE GatewayRelayProofs --------------------------
(***************************************************************************)
(* Proofs about GatewayRelay, for every set of sessions, Peers and         *)
(* conn_ids and every number of routes: a frame stays on its route, a bind *)
(* serves one kind of traffic, neither an open route nor a fresh bind is   *)
(* lost to the clean-up of another, and an open route ends with its ends.  *)
(***************************************************************************)
EXTENDS GatewayRelay, FiniteSetTheorems, SequenceTheorems, WellFoundedInduction, TLAPS

-----------------------------------------------------------------------------
(* What is left of a list when one of its entries is taken off: a       *)
(* session that leaves the Gateway's list of clients.                      *)

(* A non-empty set of numbers has a least one: the first index of an entry *)
(* exists.                                                                 *)
LEMMA LeastIndex ==
    ASSUME NEW T, T \subseteq Nat, T # {}
    PROVE  \E n \in T : \A m \in T : n <= m
<1>1. PICK n \in T : \A y \in T : ~ (<<y, n>> \in OpToRel(<, Nat))
    BY NatLessThanWellFounded, WFMin
<1>2. \A m \in T : ~ (m < n)
    BY <1>1 DEF OpToRel
<1> QED
    BY <1>2

(* The list without its i-th entry.                                        *)
LEMMA RemoveAtEntries ==
    ASSUME NEW S, NEW s \in Seq(S), NEW i \in 1..Len(s)
    PROVE  /\ RemoveAt(s, i) \in Seq(S)
           /\ Len(RemoveAt(s, i)) = Len(s) - 1
           /\ \A k \in 1..Len(s) - 1 :
                 RemoveAt(s, i)[k] = IF k < i THEN s[k] ELSE s[k + 1]
<1> DEFINE a == SubSeq(s, 1, i - 1)
<1> DEFINE b == SubSeq(s, i + 1, Len(s))
<1>1. /\ a \in Seq(S) /\ Len(a) = i - 1 /\ \A k \in 1..i - 1 : a[k] = s[k]
    OBVIOUS
<1>2. /\ b \in Seq(S) /\ Len(b) = Len(s) - i /\ \A k \in 1..Len(s) - i : b[k] = s[i + k]
    OBVIOUS
<1> HIDE DEF a, b
<1>3. a \o b \in Seq(S) /\ Len(a \o b) = Len(s) - 1
    <2>1. a \o b \in Seq(S) /\ Len(a \o b) = Len(a) + Len(b)
        BY <1>1, <1>2, ConcatProperties
    <2>2. Len(a \o b) = Len(s) - 1
        BY <1>1, <1>2, <2>1
    <2> QED
        BY <2>1, <2>2
<1>4. ASSUME NEW k \in 1..Len(s) - 1
      PROVE  (a \o b)[k] = IF k < i THEN s[k] ELSE s[k + 1]
    <2>1. CASE k < i
        BY <1>1, <1>2, <2>1
    <2>2. CASE ~(k < i)
        <3>1. (a \o b)[k] = b[k - (i - 1)]
            BY <1>1, <1>2, <2>2
        <3>2. b[k - (i - 1)] = s[i + (k - (i - 1))]
            BY <1>2, <2>2
        <3>3. i + (k - (i - 1)) = k + 1
            OBVIOUS
        <3> QED
            BY <2>2, <3>1, <3>2, <3>3
    <2> QED
        BY <2>1, <2>2
<1> QED
    BY <1>3, <1>4 DEF RemoveAt, a, b

(* The list without an entry that it has: the entry's index is the one     *)
(* that is left out.                                                       *)
LEMMA RemoveFirstIsAt ==
    ASSUME NEW S, NEW s \in Seq(S), NEW e, \E i \in 1..Len(s) : s[i] = e
    PROVE  \E i \in 1..Len(s) : s[i] = e /\ RemoveFirst(s, e) = RemoveAt(s, i)
<1> DEFINE I == {i \in 1..Len(s) : s[i] = e}
<1>1. I \subseteq Nat /\ I # {}
    OBVIOUS
<1>2. \E n \in I : \A m \in I : n <= m
    BY <1>1, LeastIndex
<1>3. Min(I) \in I
    BY <1>2 DEF Min
<1>4. SelectInSeq(s, LAMBDA v : v = e) = Min(I)
    BY <1>1 DEF SelectInSeq
<1>5. RemoveFirst(s, e) = RemoveAt(s, Min(I))
    BY <1>4 DEF RemoveFirst
<1> QED
    BY <1>3, <1>5

(* Removing an entry keeps all the others.                                 *)
LEMMA RemoveFirstEntries ==
    ASSUME NEW S, NEW s \in Seq(S), NEW e
    PROVE  /\ RemoveFirst(s, e) \in Seq(S)
           /\ \A x \in Range(s) : x # e => x \in Range(RemoveFirst(s, e))
<1>0. DOMAIN s = 1..Len(s)
    OBVIOUS
<1>1. CASE \E i \in 1..Len(s) : s[i] = e
    <2>1. PICK i \in 1..Len(s) : s[i] = e /\ RemoveFirst(s, e) = RemoveAt(s, i)
        BY <1>1, RemoveFirstIsAt
    <2> DEFINE r == RemoveFirst(s, e)
    <2>2. /\ r \in Seq(S) /\ Len(r) = Len(s) - 1
          /\ \A k \in 1..Len(s) - 1 : r[k] = IF k < i THEN s[k] ELSE s[k + 1]
        BY <2>1, RemoveAtEntries
    <2> HIDE DEF r
    <2>3. DOMAIN r = 1..Len(s) - 1
        BY <2>2
    <2>4. ASSUME NEW x \in Range(s), x # e PROVE x \in Range(r)
        <3>1. PICK k \in 1..Len(s) : s[k] = x
            BY <1>0 DEF Range
        <3>2. k # i
            BY <2>1, <2>4, <3>1
        <3>3. CASE k < i
            BY <2>2, <2>3, <3>1, <3>3 DEF Range
        <3>4. CASE k > i
            <4>1. k - 1 \in 1..Len(s) - 1 /\ r[k - 1] = s[k]
                BY <2>2, <3>4
            <4> QED
                BY <2>3, <3>1, <4>1 DEF Range
        <3> QED
            BY <3>2, <3>3, <3>4
    <2> QED
        BY <2>2, <2>4 DEF r
<1>2. CASE ~ \E i \in 1..Len(s) : s[i] = e
    <2>1. RemoveFirst(s, e) = s
        BY <1>2 DEF RemoveFirst
    <2> QED
        BY <2>1
<1> QED
    BY <1>1, <1>2

(* From a list that has each entry once it removes the entry.              *)
LEMMA RemoveFirstOnce ==
    ASSUME NEW S, NEW s \in Seq(S), NEW e, IsInjective(s)
    PROVE  /\ IsInjective(RemoveFirst(s, e))
           /\ \A x \in Range(RemoveFirst(s, e)) : x \in Range(s) /\ x # e
<1>0. DOMAIN s = 1..Len(s)
    OBVIOUS
<1>1. CASE \E i \in 1..Len(s) : s[i] = e
    <2>1. PICK i \in 1..Len(s) : s[i] = e /\ RemoveFirst(s, e) = RemoveAt(s, i)
        BY <1>1, RemoveFirstIsAt
    <2> DEFINE r == RemoveFirst(s, e)
    <2>2. /\ r \in Seq(S) /\ Len(r) = Len(s) - 1
          /\ \A k \in 1..Len(s) - 1 : r[k] = IF k < i THEN s[k] ELSE s[k + 1]
        BY <2>1, RemoveAtEntries
    <2> HIDE DEF r
    <2>3. DOMAIN r = 1..Len(s) - 1
        BY <2>2
    <2>4. \A k, m \in 1..Len(s) : s[k] = s[m] => k = m
        BY <1>0 DEF IsInjective
    <2>5. ASSUME NEW k \in 1..Len(s) - 1, NEW m \in 1..Len(s) - 1, r[k] = r[m] PROVE k = m
        <3> DEFINE a == IF k < i THEN k ELSE k + 1
        <3> DEFINE b == IF m < i THEN m ELSE m + 1
        <3>1. a \in 1..Len(s) /\ b \in 1..Len(s) /\ r[k] = s[a] /\ r[m] = s[b]
            BY <2>2
        <3>2. a = b
            BY <2>4, <2>5, <3>1
        <3> QED
            BY <3>2
    <2>6. ASSUME NEW k \in 1..Len(s) - 1 PROVE r[k] \in Range(s) /\ r[k] # e
        <3> DEFINE a == IF k < i THEN k ELSE k + 1
        <3>1. a \in 1..Len(s) /\ a # i /\ r[k] = s[a]
            BY <2>2
        <3>2. s[a] # e
            BY <2>1, <2>4, <3>1
        <3> QED
            BY <1>0, <3>1, <3>2 DEF Range
    <2>7. IsInjective(r)
        BY <2>3, <2>5 DEF IsInjective
    <2>8. \A x \in Range(r) : x \in Range(s) /\ x # e
        BY <2>3, <2>6 DEF Range
    <2> QED
        BY <2>7, <2>8 DEF r
<1>2. CASE ~ \E i \in 1..Len(s) : s[i] = e
    <2>1. RemoveFirst(s, e) = s
        BY <1>2 DEF RemoveFirst
    <2>2. e \notin Range(s)
        BY <1>0, <1>2 DEF Range
    <2> QED
        BY <2>1, <2>2
<1> QED
    BY <1>1, <1>2

-----------------------------------------------------------------------------
(* The inductive invariant, in parts.                                      *)

Binding == [conn : ConnIds, source : Sessions, target : Sessions, peer : Peers]

(* Types, of what the parts below speak of. *)
RelayTypes ==
    /\ known \subseteq Sessions
    /\ routes \in [ConnIds -> Routes \cup {NoRoute}]
    /\ tasks \in [Tasks -> Jobs \cup Cleanups \cup {Idle}]
    /\ bound \in Seq(Binding)
    /\ Len(bound) <= MaxRoutes
    /\ openers \in [Ids -> Seq(FrameKinds)]
    /\ closers \in [Ids -> SUBSET Sessions]
    /\ load \in Loads

(* The i-th bind is of this conn_id, between these two sessions. *)
IsBind(i, c, source, target) ==
    /\ i \in 1..Len(bound)
    /\ bound[i].conn = c /\ bound[i].source = source /\ bound[i].target = target

(* Where used conn_ids are not bound again: no other bind of the session   *)
(* on this conn_id was ever opened.                                        *)
Unused(c, source, id) ==
    load.reuse \/ \A i \in 1..Len(bound) :
        bound[i].conn = c /\ bound[i].source = source /\ i # id => openers[i] = <<>>

(* A route is one of the binds, opened if its bind was, and its source has *)
(* no other bind on the conn_id that was opened.                           *)
RoutesBound ==
    \A c \in ConnIds : routes[c] # NoRoute =>
        /\ IsBind(routes[c].id, c, routes[c].source, routes[c].target)
        /\ routes[c].opened <=> openers[routes[c].id] # <<>>
        /\ routes[c].sealed => routes[c].opened
        /\ Unused(c, routes[c].source, routes[c].id)

BoundExact ==
    \A i \in 1..Len(bound) :
        PeerOf[bound[i].target] = bound[i].peer /\ PeerOf[bound[i].source] # bound[i].peer

OpenedBinds ==
    \A i \in Ids : Len(openers[i]) <= 1 /\ (i > Len(bound) => openers[i] = <<>>)

(* A handler that is about to bind: nothing of its session on the conn_id  *)
(* was opened since it looked.                                             *)
BindJob(t) ==
    tasks[t].at = "bind" =>
        /\ t[2] = "control" /\ tasks[t].source = t[1]
        /\ PeerOf[tasks[t].target] = tasks[t].peer /\ PeerOf[t[1]] # tasks[t].peer
        /\ Unused(tasks[t].conn, t[1], 0)

(* A handler that has released the map: the route it read is a bind, opened *)
(* unless it was found expired, with the destination at the other end.     *)
RouteJob(t) ==
    IsJob(t) /\ tasks[t].at # "bind" =>
        /\ IsBind(tasks[t].id, tasks[t].conn, tasks[t].source, tasks[t].target)
        /\ tasks[t].at # "expired" => openers[tasks[t].id] # <<>>
        /\ tasks[t].at \in {"stored", "loaded", "send", "opening", "copying"}
              => {t[1], tasks[t].dest} = {tasks[t].source, tasks[t].target}

(* What was found expired is expired if it is still there; what is guarded *)
(* is still there.                                                         *)
FoundJob(t) ==
    /\ tasks[t].at = "expired" /\ routes[tasks[t].conn] # NoRoute
       /\ routes[tasks[t].conn].id = tasks[t].id
          => routes[tasks[t].conn].expired
    /\ tasks[t].at \in {"stored", "loaded"} =>
          routes[tasks[t].conn] # NoRoute /\ routes[tasks[t].conn].id = tasks[t].id

JobsBound == \A t \in Tasks : BindJob(t) /\ RouteJob(t) /\ FoundJob(t)

OnBind(m) ==
    \E i \in 1..Len(bound) :
        bound[i].conn = m[1] /\ {bound[i].source, bound[i].target} = {m[2], m[3]}

DeliveredBound == \A m \in delivered : OnBind(m)

RelayInv ==
    /\ RelayTypes /\ RoutesBound /\ BoundExact /\ OpenedBinds /\ JobsBound
    /\ DeliveredBound

-----------------------------------------------------------------------------
(* Facts about the parts.                                                  *)

LEMMA LoadBound ==
    ASSUME RelayTypes
    PROVE  load.routes \in 0..MaxRoutes /\ load.routes \in Nat
BY RelayAssumption DEF RelayTypes, LoadType

(* What a task does tells which kind of record it is.                      *)
LEMMA TaskKinds ==
    ASSUME RelayTypes, NEW t \in Tasks
    PROVE  /\ IsJob(t) => tasks[t] \in Jobs
           /\ tasks[t].at \in {"scan", "clean", "close"} => tasks[t] \in Cleanups
           /\ tasks[t].at = "idle" => tasks[t] = Idle
BY DEF RelayTypes, IsJob, Jobs, Cleanups, Idle

LEMMA InitRelay == Init => RelayInv
<1> SUFFICES ASSUME Init PROVE RelayInv
    OBVIOUS
<1>1. RelayTypes
    BY RelayAssumption DEF Init, RelayTypes, LoadType, Routes, Binding
<1>2. RoutesBound /\ BoundExact /\ OpenedBinds /\ DeliveredBound
    BY RelayAssumption DEF Init, RoutesBound, BoundExact, OpenedBinds, DeliveredBound, Ids
<1>3. JobsBound
    BY DEF Init, JobsBound, BindJob, RouteJob, FoundJob, IsJob, Idle
<1> QED
    BY <1>1, <1>2, <1>3 DEF RelayInv

(* A step that changes what one task does, and no route, bind or opener.   *)
LEMMA OneTask ==
    ASSUME RelayInv, NEW t \in Tasks, NEW j \in Jobs \cup Cleanups \cup {Idle},
           tasks' = [tasks EXCEPT ![t] = j],
           UNCHANGED <<routes, bound, openers, load>>,
           BindJob(t)', RouteJob(t)', FoundJob(t)'
    PROVE  /\ tasks' \in [Tasks -> Jobs \cup Cleanups \cup {Idle}]
           /\ RoutesBound' /\ BoundExact' /\ OpenedBinds' /\ JobsBound'
<1>1. tasks' \in [Tasks -> Jobs \cup Cleanups \cup {Idle}]
    BY DEF RelayInv, RelayTypes
<1>2. RoutesBound' /\ BoundExact' /\ OpenedBinds'
    BY DEF RelayInv, RoutesBound, BoundExact, OpenedBinds, IsBind, Unused
<1>3. JobsBound'
    <2> SUFFICES ASSUME NEW u \in Tasks, u # t
                 PROVE  BindJob(u)' /\ RouteJob(u)' /\ FoundJob(u)'
        BY DEF JobsBound
    <2>1. tasks'[u] = tasks[u]
        BY DEF RelayInv, RelayTypes
    <2>2. BindJob(u) /\ RouteJob(u) /\ FoundJob(u)
        BY DEF RelayInv, JobsBound
    <2>3. BindJob(u)'
        BY <2>1, <2>2 DEF BindJob, Unused
    <2>4. RouteJob(u)'
        BY <2>1, <2>2 DEF RouteJob, IsJob, IsBind
    <2>5. FoundJob(u)'
        BY <2>1, <2>2 DEF FoundJob
    <2> QED
        BY <2>3, <2>4, <2>5
<1> QED
    BY <1>1, <1>2, <1>3

(* What is delivered to the other end of a route that is a bind.           *)
LEMMA Delivers ==
    ASSUME RelayInv, NEW t \in Tasks, IsJob(t),
           tasks[t].at \in {"send", "opening"}
    PROVE  OnBind(<<tasks[t].conn, t[1], tasks[t].dest>>)
<1>1. RouteJob(t)
    BY DEF RelayInv, JobsBound
<1> QED
    BY <1>1 DEF RouteJob, IsBind, OnBind

(* What a handler notes of the route it reads is a job.                    *)
LEMMA JobType ==
    ASSUME RelayTypes, NEW c \in ConnIds, routes[c] # NoRoute, NEW d \in Sessions,
           NEW at \in {"expired", "stored", "send", "opening", "remove"},
           NEW kind \in FrameKinds, NEW last \in BOOLEAN
    PROVE  /\ Job(at, kind, c, routes[c], d, last) \in Jobs
           /\ routes[c] \in Routes
BY RelayAssumption DEF RelayTypes, Job, JobFor, Jobs, Routes, NoRoute

(* A reader that looks at a bound, opened route and releases the map.      *)
LEMMA ReadsRoute ==
    ASSUME RelayInv, NEW t \in Tasks, NEW c \in ConnIds, routes[c] # NoRoute,
           NEW d \in Sessions, NEW at \in {"stored", "send", "opening", "remove"},
           NEW kind \in FrameKinds, NEW last \in BOOLEAN,
           Does(t, Job(at, kind, c, routes[c], d, last)),
           routes[c].opened,
           at # "remove" => OnRoute(routes[c], t[1]) /\ d = Other(routes[c], t[1]),
           UNCHANGED <<known, routes, bound, openers, closers, load, delivered>>
    PROVE  RelayInv'
<1> DEFINE j == Job(at, kind, c, routes[c], d, last)
<1>1. j \in Jobs /\ routes[c] \in Routes
    BY JobType DEF RelayInv
<1>2. tasks' = [tasks EXCEPT ![t] = j] /\ tasks'[t] = j
    BY DEF Does, RelayInv, RelayTypes
<1>3. /\ IsBind(routes[c].id, c, routes[c].source, routes[c].target)
      /\ openers[routes[c].id] # <<>>
    BY DEF RelayInv, RoutesBound
<1>4. BindJob(t)'
    BY <1>2 DEF BindJob, Job, JobFor
<1>5. RouteJob(t)'
    BY <1>2, <1>3 DEF RouteJob, Job, JobFor, IsBind, OnRoute, Other
<1>6. FoundJob(t)'
    BY <1>2 DEF FoundJob, Job, JobFor
<1>7. DeliveredBound'
    BY DEF RelayInv, DeliveredBound, OnBind
<1> HIDE DEF j
<1> QED
    BY <1>1, <1>2, <1>4, <1>5, <1>6, <1>7, OneTask DEF RelayInv, RelayTypes

(* A task that becomes idle or moves from a job to its clean-up.           *)
LEMMA TaskIdle ==
    ASSUME RelayInv, NEW t \in Tasks, Does(t, Idle),
           UNCHANGED <<known, routes, bound, openers, closers, load>>, DeliveredBound'
    PROVE  RelayInv'
<1>1. tasks' = [tasks EXCEPT ![t] = Idle] /\ tasks'[t] = Idle
    BY DEF Does, RelayInv, RelayTypes
<1>2. BindJob(t)' /\ RouteJob(t)' /\ FoundJob(t)'
    BY <1>1 DEF BindJob, RouteJob, FoundJob, IsJob, Idle
<1> QED
    BY <1>1, <1>2, OneTask DEF RelayInv, RelayTypes

LEMMA TaskRemoves ==
    ASSUME RelayInv, NEW t \in Tasks, NEW at \in {"remove", "copying"}, Moves(t, at),
           tasks[t].at \in {"send", "opening", "copying"},
           UNCHANGED <<known, routes, bound, openers, closers, load>>, DeliveredBound'
    PROVE  RelayInv'
<1> DEFINE j == [tasks[t] EXCEPT !.at = at]
<1>1. tasks[t] \in Jobs
    BY DEF RelayInv, RelayTypes, Cleanups, Idle
<1>2. j \in Jobs
    BY <1>1 DEF Jobs
<1>3. tasks' = [tasks EXCEPT ![t] = j] /\ tasks'[t] = j
    BY DEF Moves, RelayInv, RelayTypes
<1>4. j = [tasks[t] EXCEPT !.at = at] /\ j.at = at
    BY <1>1 DEF Jobs
<1>5. /\ j.conn = tasks[t].conn /\ j.id = tasks[t].id /\ j.source = tasks[t].source
      /\ j.target = tasks[t].target /\ j.dest = tasks[t].dest
    BY <1>1 DEF Jobs
<1>6. RouteJob(t)
    BY DEF RelayInv, JobsBound
<1> HIDE DEF j
<1>7. BindJob(t)' /\ FoundJob(t)'
    BY <1>3, <1>4 DEF BindJob, FoundJob
<1>8. RouteJob(t)'
    BY <1>3, <1>4, <1>5, <1>6 DEF RouteJob, IsJob, IsBind
<1> QED
    BY <1>2, <1>3, <1>7, <1>8, OneTask DEF RelayInv, RelayTypes

(* A task that cleans up for a session that leaves.                        *)
LEMMA TaskCleans ==
    ASSUME RelayInv, NEW t \in Tasks, NEW j \in Cleanups, Does(t, j),
           UNCHANGED <<known, routes, bound, openers, closers, load>>, DeliveredBound'
    PROVE  RelayInv'
<1>1. tasks' = [tasks EXCEPT ![t] = j] /\ tasks'[t] = j
    BY DEF Does, RelayInv, RelayTypes
<1>2. BindJob(t)' /\ RouteJob(t)' /\ FoundJob(t)'
    BY <1>1 DEF BindJob, RouteJob, FoundJob, IsJob, Cleanups
<1> QED
    BY <1>1, <1>2, OneTask DEF RelayInv, RelayTypes

-----------------------------------------------------------------------------
(* Every step keeps the invariant: first those that only read the routes.  *)

LEMMA BindLookupKeeps ==
    ASSUME RelayInv, NEW s \in Sessions, NEW c \in ConnIds, NEW p \in Peers,
           BindLookup(s, c, p)
    PROVE  RelayInv'
<1> DEFINE t == <<s, "control">>
<1>1. PICK target \in TargetOf(s, p) :
          Does(t, JobFor(p, "bind", "bind", c, [id |-> 0, source |-> s, target |-> target],
                         target, FALSE))
    BY DEF BindLookup
<1> DEFINE j == JobFor(p, "bind", "bind", c, [id |-> 0, source |-> s, target |-> target],
                       target, FALSE)
<1>2. target \in Sessions /\ PeerOf[target] = p /\ PeerOf[s] # p
    BY DEF TargetOf, RelayInv, RelayTypes
<1>3. j \in Jobs /\ t \in Tasks
    BY <1>2 DEF JobFor, Jobs, Tasks, Readers
<1>4. tasks' = [tasks EXCEPT ![t] = j] /\ tasks'[t] = j
    BY <1>1, <1>3 DEF Does, RelayInv, RelayTypes
<1>5. /\ j.at = "bind" /\ j.source = s /\ j.target = target /\ j.conn = c
      /\ j.peer = p /\ t[1] = s /\ t[2] = "control"
    BY DEF JobFor
<1>6. UNCHANGED <<known, routes, bound, openers, closers, load, delivered>>
    BY DEF BindLookup, sessionVars, historyVars
<1>7. Unused(c, s, 0)'
    BY <1>6 DEF BindLookup, Unused
<1> HIDE DEF j, t
<1>8. BindJob(t)'
    BY <1>2, <1>4, <1>5, <1>7 DEF BindJob
<1>9. RouteJob(t)' /\ FoundJob(t)'
    BY <1>4, <1>5 DEF RouteJob, FoundJob
<1>10. DeliveredBound'
    BY <1>6 DEF RelayInv, DeliveredBound, OnBind
<1> QED
    BY <1>3, <1>4, <1>6, <1>8, <1>9, <1>10, OneTask DEF RelayInv, RelayTypes

LEMMA LaneTask ==
    ASSUME NEW s \in Sessions, NEW k \in Readers \cup {"flow", "leave", "purge"}
    PROVE  <<s, k>> \in Tasks /\ <<s, k>>[1] = s /\ <<s, k>>[2] = k
BY DEF Tasks

LEMMA OtherType ==
    ASSUME RelayTypes, NEW c \in ConnIds, routes[c] # NoRoute, NEW s \in Sessions
    PROVE  Other(routes[c], s) \in Sessions
BY DEF RelayTypes, Other, Routes

LEMMA ForwardKeeps ==
    ASSUME RelayInv, NEW s \in Sessions, NEW c \in ConnIds, NEW kind \in FrameKinds,
           Forward(s, c, kind)
    PROVE  RelayInv'
<1> DEFINE t == <<s, LaneOf(kind)>>
<1>1. t \in Tasks /\ t[1] = s
    BY LaneTask DEF LaneOf, Readers
<1>2. /\ routes[c] # NoRoute /\ routes[c].opened
      /\ UNCHANGED <<known, routes, bound, openers, closers, load, delivered>>
    BY DEF Forward, sessionVars, historyVars
<1>3. \/ /\ OnRoute(routes[c], s)
         /\ Does(t, Job("send", kind, c, routes[c], Other(routes[c], s), kind = "refused"))
      \/ Does(t, Job("remove", kind, c, routes[c], s, TRUE))
    BY DEF Forward
<1>4. Other(routes[c], s) \in Sessions /\ (kind = "refused") \in BOOLEAN
    BY <1>2, OtherType DEF RelayInv
<1> HIDE DEF t
<1> QED
    BY <1>1, <1>2, <1>3, <1>4, ReadsRoute

LEMMA CloseStoresKeeps ==
    ASSUME RelayInv, NEW s \in Sessions, NEW c \in ConnIds, CloseStores(s, c)
    PROVE  RelayInv'
<1> DEFINE t == <<s, "stream">>
<1> DEFINE j == Job("stored", "close", c, routes[c], Other(routes[c], s), FALSE)
<1>1. t \in Tasks /\ t[1] = s
    BY LaneTask DEF Readers
<1>2. /\ routes[c] # NoRoute /\ routes[c].opened
      /\ UNCHANGED <<known, routes, bound, openers, closers, load, delivered>>
    BY DEF CloseStores, sessionVars, historyVars
<1>3. \/ OnRoute(routes[c], s) /\ Does(t, j)
      \/ Does(t, Job("remove", "close", c, routes[c], s, TRUE))
    BY DEF CloseStores
<1>4. Other(routes[c], s) \in Sessions /\ "close" \in FrameKinds
    BY <1>2, OtherType DEF RelayInv, FrameKinds
<1>5. CASE OnRoute(routes[c], s) /\ Does(t, j)
    <2>1. j \in Jobs
        BY <1>2, <1>4, JobType DEF RelayInv
    <2>2. tasks' = [tasks EXCEPT ![t] = j] /\ tasks'[t] = j
        BY <1>1, <1>5 DEF Does, RelayInv, RelayTypes
    <2>3. /\ j.at = "stored" /\ j.conn = c /\ j.id = routes[c].id
          /\ j.source = routes[c].source /\ j.target = routes[c].target
          /\ j.dest = Other(routes[c], s)
        BY DEF Job, JobFor
    <2>4. /\ IsBind(routes[c].id, c, routes[c].source, routes[c].target)
          /\ openers[routes[c].id] # <<>>
        BY <1>2 DEF RelayInv, RoutesBound
    <2> HIDE DEF j, t
    <2>5. BindJob(t)' /\ FoundJob(t)'
        BY <1>2, <2>2, <2>3 DEF BindJob, FoundJob
    <2>6. RouteJob(t)'
        BY <1>1, <1>2, <1>5, <2>2, <2>3, <2>4 DEF RouteJob, IsBind, OnRoute, Other
    <2>7. DeliveredBound'
        BY <1>2 DEF RelayInv, DeliveredBound, OnBind
    <2> QED
        BY <1>1, <1>2, <2>1, <2>2, <2>5, <2>6, <2>7, OneTask DEF RelayInv, RelayTypes
<1>6. CASE Does(t, Job("remove", "close", c, routes[c], s, TRUE))
    <2> HIDE DEF t
    <2> QED
        BY <1>1, <1>2, <1>4, <1>6, ReadsRoute
<1> QED
    BY <1>3, <1>5, <1>6

LEMMA CloseLoadsKeeps ==
    ASSUME RelayInv, NEW t \in Tasks, CloseLoads(t)
    PROVE  RelayInv'
<1> DEFINE j == [tasks[t] EXCEPT !.at = "loaded",
                                 !.last = BothClosed(routes[tasks[t].conn], t[1])]
<1>1. tasks[t].at = "stored" /\ tasks[t] \in Jobs
    BY DEF CloseLoads, RelayInv, RelayTypes, Cleanups, Idle
<1>2. BothClosed(routes[tasks[t].conn], t[1]) \in BOOLEAN
    BY DEF BothClosed
<1>3. /\ j \in Jobs /\ j.at = "loaded"
      /\ j.conn = tasks[t].conn /\ j.id = tasks[t].id /\ j.source = tasks[t].source
      /\ j.target = tasks[t].target /\ j.dest = tasks[t].dest
    BY <1>1, <1>2 DEF Jobs
<1>4. /\ tasks' = [tasks EXCEPT ![t] = j] /\ tasks'[t] = j
      /\ UNCHANGED <<known, routes, bound, openers, closers, load, delivered>>
    BY DEF CloseLoads, Does, RelayInv, RelayTypes, sessionVars, historyVars
<1>5. RouteJob(t) /\ FoundJob(t)
    BY DEF RelayInv, JobsBound
<1> HIDE DEF j
<1>6. BindJob(t)' /\ FoundJob(t)'
    BY <1>1, <1>3, <1>4, <1>5 DEF BindJob, FoundJob
<1>7. RouteJob(t)'
    BY <1>1, <1>3, <1>4, <1>5 DEF RouteJob, IsJob, IsBind
<1>8. DeliveredBound'
    BY <1>4 DEF RelayInv, DeliveredBound, OnBind
<1> QED
    BY <1>3, <1>4, <1>6, <1>7, <1>8, OneTask DEF RelayInv, RelayTypes

LEMMA SendKeeps ==
    ASSUME RelayInv, NEW t \in Tasks, Send(t) \/ SendRefused(t) \/ FlowOpens(t) \/ FlowEnds(t)
    PROVE  RelayInv'
<1>1. /\ UNCHANGED <<known, routes, bound, openers, closers, load>>
      /\ tasks[t].at \in {"send", "opening", "copying"}
      /\ Does(t, Idle) \/ Moves(t, "remove") \/ Moves(t, "copying")
    BY DEF Send, SendRefused, FlowOpens, FlowEnds, sessionVars, historyVars
<1>2. \/ UNCHANGED delivered
      \/ /\ tasks[t].at \in {"send", "opening"}
         /\ delivered' = delivered \cup {<<tasks[t].conn, t[1], tasks[t].dest>>}
    BY DEF Send, SendRefused, FlowOpens, FlowEnds, historyVars
<1>3. DeliveredBound'
    <2>1. \A m : OnBind(m)' <=> OnBind(m)
        BY <1>1 DEF OnBind
    <2>2. tasks[t].at \in {"send", "opening"} =>
              OnBind(<<tasks[t].conn, t[1], tasks[t].dest>>)
        BY Delivers DEF IsJob
    <2> QED
        BY <1>2, <2>1, <2>2 DEF RelayInv, DeliveredBound
<1> QED
    BY <1>1, <1>3, TaskIdle, TaskRemoves

LEMMA ScanKeeps ==
    ASSUME RelayInv, NEW t \in Tasks, ScanRoutes(t)
    PROVE  RelayInv'
<1> DEFINE stale == {c \in ConnIds : Stale(routes[c], t[1])}
<1> DEFINE j == [at |-> "clean",
                 stale |-> {[conn |-> c, source |-> routes[c].source,
                             target |-> routes[c].target] : c \in stale}]
<1> DEFINE ends == {<<c, Other(routes[c], d), d>> : c \in stale, d \in open \ {t[1]}}
<1> DEFINE told == {m \in ends : OnRoute(routes[m[1]], m[3])}
<1>1. \A c \in stale : routes[c] # NoRoute /\ routes[c] \in Routes
    BY DEF Stale, RelayInv, RelayTypes
<1>2. j \in Cleanups
    BY <1>1 DEF Cleanups, Routes
<1>3. /\ Does(t, j)
      /\ delivered' \subseteq delivered \cup told
      /\ UNCHANGED <<known, routes, bound, openers, closers, load>>
    BY DEF ScanRoutes, sessionVars
<1>4. ASSUME NEW m \in told PROVE OnBind(m)
    <2>1. PICK c \in stale, d \in open : m = <<c, Other(routes[c], d), d>>
        OBVIOUS
    <2>2. m[1] = c /\ m[2] = Other(routes[c], d) /\ m[3] = d /\ OnRoute(routes[c], d)
        BY <2>1
    <2>3. IsBind(routes[c].id, c, routes[c].source, routes[c].target)
        BY <1>1 DEF RelayInv, RoutesBound
    <2> QED
        BY <2>2, <2>3 DEF OnBind, IsBind, OnRoute, Other
<1> HIDE DEF j, told
<1>5. DeliveredBound'
    <2>1. \A m : OnBind(m)' <=> OnBind(m)
        BY <1>3 DEF OnBind
    <2> QED
        BY <1>3, <1>4, <2>1 DEF RelayInv, DeliveredBound
<1> QED
    BY <1>2, <1>3, <1>5, TaskCleans

LEMMA LeaveListKeeps ==
    ASSUME RelayInv, NEW s \in Sessions, NEW who \in {"leave", "purge"}, LeaveList(s, who)
    PROVE  RelayInv'
<1> DEFINE j == [at |-> "scan", stale |-> {}]
<1>1. <<s, who>> \in Tasks /\ j \in Cleanups
    BY LaneTask DEF Cleanups
<1>2. UNCHANGED <<known, routes, bound, openers, closers, load, delivered>>
    BY DEF LeaveList, historyVars
<1>3. UNCHANGED tasks \/ Does(<<s, who>>, j)
    BY DEF LeaveList
<1>4. DeliveredBound'
    BY <1>2 DEF RelayInv, DeliveredBound, OnBind
<1> HIDE DEF j
<1>5. CASE UNCHANGED tasks
    BY <1>2, <1>5 DEF RelayInv, RelayTypes, RoutesBound, BoundExact, OpenedBinds, JobsBound,
                      BindJob, RouteJob, FoundJob, DeliveredBound, IsBind, Unused, OnBind, IsJob
<1> QED
    BY <1>1, <1>2, <1>3, <1>4, <1>5, TaskCleans

(* Tasks that are dropped, with the session's readers or not at all.       *)
LEMMA TasksDropped ==
    ASSUME RelayInv, tasks' \in [Tasks -> Jobs \cup Cleanups \cup {Idle}],
           \A t \in Tasks : tasks'[t] \in {tasks[t], Idle},
           UNCHANGED <<known, routes, bound, openers, closers, load, delivered>>
    PROVE  RelayInv'
<1>1. RelayTypes' /\ RoutesBound' /\ BoundExact' /\ OpenedBinds' /\ DeliveredBound'
    BY DEF RelayInv, RelayTypes, RoutesBound, BoundExact, OpenedBinds, DeliveredBound,
           IsBind, Unused, OnBind
<1>2. ASSUME NEW t \in Tasks PROVE BindJob(t)' /\ RouteJob(t)' /\ FoundJob(t)'
    <2>1. BindJob(t) /\ RouteJob(t) /\ FoundJob(t)
        BY DEF RelayInv, JobsBound
    <2>2. CASE tasks'[t] = Idle
        BY <2>2 DEF BindJob, RouteJob, FoundJob, IsJob, Idle
    <2>3. CASE tasks'[t] = tasks[t]
        BY <2>1, <2>3 DEF BindJob, RouteJob, FoundJob, IsJob, IsBind, Unused
    <2> QED
        BY <2>2, <2>3
<1> QED
    BY <1>1, <1>2 DEF RelayInv, JobsBound

LEMMA EndingKeeps ==
    ASSUME RelayInv, NEW s \in Sessions, CarrierCloses(s) \/ EndRun(s) \/ ScopeRemoved
    PROVE  RelayInv'
<1>1. UNCHANGED <<known, routes, bound, openers, closers, load, delivered>>
    BY DEF CarrierCloses, EndRun, ScopeRemoved, historyVars
<1>2. tasks' \in [Tasks -> Jobs \cup Cleanups \cup {Idle}]
    BY DEF CarrierCloses, EndRun, ScopeRemoved, RelayInv, RelayTypes
<1>3. \A t \in Tasks : tasks'[t] \in {tasks[t], Idle}
    BY DEF CarrierCloses, EndRun, ScopeRemoved
<1> QED
    BY <1>1, <1>2, <1>3, TasksDropped

LEMMA PurgeClosesKeeps ==
    ASSUME RelayInv, NEW t \in Tasks, PurgeCloses(t)
    PROVE  RelayInv'
<1>1. Does(t, Idle) /\ UNCHANGED <<known, routes, bound, openers, closers, load, delivered>>
    BY DEF PurgeCloses, historyVars
<1>2. DeliveredBound'
    BY <1>1 DEF RelayInv, DeliveredBound, OnBind
<1> QED
    BY <1>1, <1>2, TaskIdle

-----------------------------------------------------------------------------
(* Then those that write the routes.                                       *)

(* A step that removes routes nobody guards.                               *)
LEMMA RoutesRemoved ==
    ASSUME RelayInv, NEW t \in Tasks, NEW j \in Cleanups \cup {Idle}, Does(t, j),
           routes' \in [ConnIds -> Routes \cup {NoRoute}],
           \A c \in ConnIds : \/ routes'[c] = routes[c]
                              \/ routes'[c] = NoRoute /\ Unguarded(c),
           known' \subseteq Sessions,
           UNCHANGED <<bound, openers, closers, load, delivered>>
    PROVE  RelayInv'
<1>1. /\ tasks' = [tasks EXCEPT ![t] = j] /\ tasks'[t] = j
      /\ tasks' \in [Tasks -> Jobs \cup Cleanups \cup {Idle}]
    BY DEF Does, RelayInv, RelayTypes
<1>2. RelayTypes'
    BY <1>1 DEF RelayInv, RelayTypes
<1>3. BoundExact' /\ OpenedBinds' /\ DeliveredBound'
    BY DEF RelayInv, BoundExact, OpenedBinds, DeliveredBound, OnBind
<1>4. RoutesBound'
    BY DEF RelayInv, RoutesBound, IsBind, Unused
<1>5. BindJob(t)' /\ RouteJob(t)' /\ FoundJob(t)'
    BY <1>1 DEF BindJob, RouteJob, FoundJob, IsJob, Cleanups, Idle
<1>6. ASSUME NEW u \in Tasks, u # t PROVE BindJob(u)' /\ RouteJob(u)' /\ FoundJob(u)'
    <2>1. tasks'[u] = tasks[u] /\ tasks[u] \in Jobs \cup Cleanups \cup {Idle}
        BY <1>1, <1>6 DEF RelayInv, RelayTypes
    <2>2. BindJob(u) /\ RouteJob(u) /\ FoundJob(u)
        BY DEF RelayInv, JobsBound
    <2>3. BindJob(u)'
        BY <2>1, <2>2 DEF BindJob, Unused
    <2>4. RouteJob(u)'
        BY <2>1, <2>2 DEF RouteJob, IsJob, IsBind
    <2>5. tasks[u].at \in {"expired", "stored", "loaded"} => tasks[u].conn \in ConnIds
        BY <2>1 DEF Jobs, Cleanups, Idle
    <2>6. FoundJob(u)'
        BY <2>1, <2>2, <2>5 DEF FoundJob, Unguarded
    <2> QED
        BY <2>3, <2>4, <2>6
<1> QED
    BY <1>2, <1>3, <1>4, <1>5, <1>6 DEF RelayInv, JobsBound

LEMMA RemoveKeeps ==
    ASSUME RelayInv, NEW t \in Tasks, RemoveExpired(t) \/ RemoveRoute(t)
    PROVE  RelayInv'
<1>1. /\ Does(t, Idle) /\ Unguarded(tasks[t].conn) /\ tasks[t].at \in {"expired", "remove"}
      /\ UNCHANGED <<known, bound, openers, closers, load, delivered>>
    BY DEF RemoveExpired, RemoveRoute, sessionVars, historyVars
<1>2. tasks[t].conn \in ConnIds
    BY <1>1, TaskKinds DEF RelayInv, IsJob, Jobs
<1>3. routes' = routes \/ routes' = [routes EXCEPT ![tasks[t].conn] = NoRoute]
    BY DEF RemoveExpired, RemoveRoute
<1>4. /\ routes' \in [ConnIds -> Routes \cup {NoRoute}]
      /\ \A c \in ConnIds : \/ routes'[c] = routes[c]
                            \/ routes'[c] = NoRoute /\ Unguarded(c)
    BY <1>1, <1>2, <1>3 DEF RelayInv, RelayTypes
<1>5. known' \subseteq Sessions
    BY <1>1 DEF RelayInv, RelayTypes
<1> QED
    BY <1>1, <1>4, <1>5, RoutesRemoved

LEMMA CleanKeeps ==
    ASSUME RelayInv, NEW t \in Tasks, CleanRoutes(t)
    PROVE  RelayInv'
<1> DEFINE j == [tasks[t] EXCEPT !.at = "close"]
<1>1. /\ tasks[t].at = "clean" /\ tasks[t] \in Cleanups
      /\ UNCHANGED <<bound, openers, closers, load, delivered>>
    BY TaskKinds DEF CleanRoutes, historyVars, RelayInv
<1>2. Does(t, Idle) \/ Does(t, j)
    BY DEF CleanRoutes, Moves, Does
<1>3. j \in Cleanups
    BY <1>1 DEF Cleanups
<1>4. /\ routes' \in [ConnIds -> Routes \cup {NoRoute}]
      /\ \A c \in ConnIds : \/ routes'[c] = routes[c]
                            \/ routes'[c] = NoRoute /\ Unguarded(c)
    BY DEF CleanRoutes, RelayInv, RelayTypes
<1>5. known' \subseteq Sessions
    BY DEF CleanRoutes, RelayInv, RelayTypes
<1> HIDE DEF j
<1> QED
    BY <1>1, <1>2, <1>3, <1>4, <1>5, RoutesRemoved

LEMMA AgeKeeps ==
    ASSUME RelayInv, NEW c \in ConnIds, Age(c)
    PROVE  RelayInv'
<1> DEFINE r == [routes[c] EXCEPT !.expired = TRUE]
<1>1. /\ routes[c] # NoRoute /\ routes' = [routes EXCEPT ![c] = r]
      /\ UNCHANGED <<known, tasks, bound, openers, closers, load, delivered>>
    BY DEF Age, sessionVars, historyVars
<1>2. routes[c] \in Routes
    BY <1>1 DEF RelayInv, RelayTypes
<1>3. /\ r \in Routes /\ r # NoRoute /\ r.expired
      /\ r.id = routes[c].id /\ r.source = routes[c].source /\ r.target = routes[c].target
      /\ r.opened = routes[c].opened /\ r.sealed = routes[c].sealed
    BY <1>2 DEF Routes, NoRoute
<1> HIDE DEF r
<1>4. RelayTypes' /\ BoundExact' /\ OpenedBinds' /\ DeliveredBound'
    BY <1>1, <1>3 DEF RelayInv, RelayTypes, BoundExact, OpenedBinds, DeliveredBound, OnBind
<1>5. \A d \in ConnIds : routes'[d] = IF d = c THEN r ELSE routes[d]
    BY <1>1 DEF RelayInv, RelayTypes
<1>6. RoutesBound'
    BY <1>1, <1>3, <1>5 DEF RelayInv, RoutesBound, IsBind, Unused
<1>7. ASSUME NEW t \in Tasks PROVE BindJob(t)' /\ RouteJob(t)' /\ FoundJob(t)'
    <2>1. BindJob(t) /\ RouteJob(t) /\ FoundJob(t)
        BY DEF RelayInv, JobsBound
    <2>2. BindJob(t)' /\ RouteJob(t)'
        BY <1>1, <2>1 DEF BindJob, RouteJob, IsJob, IsBind, Unused
    <2>3. tasks[t].at \in {"expired", "stored", "loaded"} => tasks[t].conn \in ConnIds
        BY TaskKinds DEF RelayInv, IsJob, Jobs
    <2>4. FoundJob(t)'
        BY <1>1, <1>3, <1>5, <2>1, <2>3 DEF FoundJob
    <2> QED
        BY <2>2, <2>4
<1> QED
    BY <1>4, <1>6, <1>7 DEF RelayInv, JobsBound

LEMMA CloseReleasesKeeps ==
    ASSUME RelayInv, NEW t \in Tasks, CloseReleases(t)
    PROVE  RelayInv'
<1> DEFINE j == [tasks[t] EXCEPT !.at = "send"]
<1> DEFINE c == tasks[t].conn
<1> DEFINE r == [routes[c] EXCEPT !.closed = @ \cup {t[1]}]
<1>1. /\ tasks[t].at = "loaded" /\ tasks' = [tasks EXCEPT ![t] = j]
      /\ routes' = [routes EXCEPT ![c] = r]
      /\ UNCHANGED <<known, bound, openers, load, delivered>>
    BY DEF CloseReleases, Moves, sessionVars
<1>2. tasks[t] \in Jobs
    BY <1>1, TaskKinds DEF IsJob, RelayInv
<1>3. /\ c \in ConnIds /\ j \in Jobs /\ j.at = "send" /\ j.conn = c /\ j.id = tasks[t].id
      /\ j.source = tasks[t].source /\ j.target = tasks[t].target /\ j.dest = tasks[t].dest
      /\ tasks[t].id \in Ids \cup {0}
    BY <1>2 DEF Jobs
<1>4. BindJob(t) /\ RouteJob(t) /\ FoundJob(t)
    BY DEF RelayInv, JobsBound
<1>5. routes[c] \in Routes /\ t[1] \in Sessions
    BY <1>1, <1>3, <1>4 DEF FoundJob, RelayInv, RelayTypes, Tasks
<1>6. /\ r \in Routes /\ r # NoRoute /\ r.expired = routes[c].expired
      /\ r.id = routes[c].id /\ r.source = routes[c].source /\ r.target = routes[c].target
      /\ r.opened = routes[c].opened /\ r.sealed = routes[c].sealed
    BY <1>5 DEF Routes, NoRoute
<1>7. closers' \in [Ids -> SUBSET Sessions]
    BY <1>5 DEF CloseReleases, RelayInv, RelayTypes
<1> HIDE DEF r, j, c
<1>8. /\ tasks'[t] = j /\ tasks' \in [Tasks -> Jobs \cup Cleanups \cup {Idle}]
      /\ \A u \in Tasks : u # t => tasks'[u] = tasks[u]
      /\ \A d \in ConnIds : routes'[d] = IF d = c THEN r ELSE routes[d]
    BY <1>1, <1>3 DEF RelayInv, RelayTypes
<1>9. RelayTypes' /\ BoundExact' /\ OpenedBinds' /\ DeliveredBound'
    BY <1>1, <1>3, <1>6, <1>7, <1>8
       DEF RelayInv, RelayTypes, BoundExact, OpenedBinds, DeliveredBound, OnBind
<1>10. routes[c] # NoRoute
    BY <1>1, <1>4 DEF FoundJob, c
<1>11. RoutesBound'
    BY <1>1, <1>3, <1>6, <1>8, <1>10 DEF RelayInv, RoutesBound, IsBind, Unused
<1>12. BindJob(t)' /\ FoundJob(t)'
    BY <1>3, <1>8 DEF BindJob, FoundJob
<1>13. RouteJob(t)'
    BY <1>1, <1>3, <1>4, <1>8 DEF RouteJob, IsJob, IsBind, c
<1>14. ASSUME NEW u \in Tasks, u # t PROVE BindJob(u)' /\ RouteJob(u)' /\ FoundJob(u)'
    <2>1. BindJob(u) /\ RouteJob(u) /\ FoundJob(u) /\ tasks'[u] = tasks[u]
        BY <1>8, <1>14 DEF RelayInv, JobsBound
    <2>2. BindJob(u)' /\ RouteJob(u)'
        BY <1>1, <2>1 DEF BindJob, RouteJob, IsJob, IsBind, Unused
    <2>3. tasks[u].at \in {"expired", "stored", "loaded"} => tasks[u].conn \in ConnIds
        BY TaskKinds DEF RelayInv, IsJob, Jobs
    <2>4. FoundJob(u)'
        BY <1>6, <1>8, <1>10, <2>1, <2>3 DEF FoundJob
    <2> QED
        BY <2>2, <2>4
<1> QED
    BY <1>9, <1>11, <1>12, <1>13, <1>14 DEF RelayInv, JobsBound

(* One more bind leaves the earlier ones as they are.                      *)
LEMMA OneMoreBind ==
    ASSUME RelayInv, NEW b \in Binding, bound' = Append(bound, b), UNCHANGED <<openers, load>>,
           Len(bound) < MaxRoutes
    PROVE  /\ \A i, c, p, q : IsBind(i, c, p, q) => IsBind(i, c, p, q)'
           /\ \A c, p, id : Unused(c, p, id) => Unused(c, p, id)'
           /\ \A m : OnBind(m) => OnBind(m)'
           /\ Len(bound') = Len(bound) + 1 /\ bound'[Len(bound) + 1] = b
           /\ Len(bound) + 1 \in Ids /\ openers[Len(bound) + 1] = <<>>
<1>1. bound \in Seq(Binding) /\ Len(bound) \in Nat /\ MaxRoutes \in Nat
    BY RelayAssumption DEF RelayInv, RelayTypes
<1>2. /\ Len(bound') = Len(bound) + 1 /\ bound'[Len(bound) + 1] = b
      /\ \A i \in 1..Len(bound) : bound'[i] = bound[i]
    BY <1>1
<1>3. Len(bound) + 1 \in Ids /\ openers[Len(bound) + 1] = <<>>
    BY <1>1 DEF RelayInv, OpenedBinds, Ids
<1>4. \A i, c, p, q : IsBind(i, c, p, q) => IsBind(i, c, p, q)'
    BY <1>1, <1>2 DEF IsBind
<1>5. \A c, p, id : Unused(c, p, id) => Unused(c, p, id)'
    BY <1>1, <1>2, <1>3 DEF Unused
<1>6. ASSUME NEW m, OnBind(m) PROVE OnBind(m)'
    <2>1. PICK i \in 1..Len(bound) :
              bound[i].conn = m[1] /\ {bound[i].source, bound[i].target} = {m[2], m[3]}
        BY <1>6 DEF OnBind
    <2>2. i \in 1..Len(bound') /\ bound'[i] = bound[i]
        BY <1>1, <1>2
    <2> QED
        BY <2>1, <2>2 DEF OnBind
<1> QED
    BY <1>2, <1>3, <1>4, <1>5, <1>6

LEMMA BindInsertKeeps ==
    ASSUME RelayInv, NEW t \in Tasks, BindInsert(t)
    PROVE  RelayInv'
<1> DEFINE j == tasks[t]
<1> DEFINE c == j.conn
<1> DEFINE n == Len(bound) + 1
<1> DEFINE r == [id |-> n, source |-> j.source, target |-> j.target, expired |-> FALSE,
                 opened |-> FALSE, sealed |-> FALSE, closed |-> {}]
<1> DEFINE b == [conn |-> c, source |-> j.source, target |-> j.target,
                 peer |-> j.peer]
<1>1. /\ j.at = "bind" /\ Unguarded(c) /\ Does(t, Idle)
      /\ UNCHANGED <<known, openers, closers, load, delivered>>
    BY DEF BindInsert, sessionVars
<1>2. j \in Jobs
    BY <1>1, TaskKinds DEF IsJob, RelayInv
<1>3. c \in ConnIds /\ j.source \in Sessions /\ j.target \in Sessions /\ j.peer \in Peers
    BY <1>2 DEF Jobs
<1>4. /\ j.source = t[1] /\ PeerOf[j.target] = j.peer /\ PeerOf[t[1]] # j.peer
      /\ Unused(c, j.source, 0)
    BY <1>1 DEF RelayInv, JobsBound, BindJob
<1>5. CASE UNCHANGED <<routes, bound>>
    <2>1. DeliveredBound'
        BY <1>1, <1>5 DEF RelayInv, DeliveredBound, OnBind
    <2> QED
        BY <1>1, <1>5, <2>1, TaskIdle
<1>6. CASE /\ Len(bound) < load.routes /\ routes' = [routes EXCEPT ![c] = r]
           /\ bound' = Append(bound, b)
    <2>1. Len(bound) < MaxRoutes /\ Len(bound) \in Nat
        BY <1>6, LoadBound, RelayAssumption DEF RelayInv, RelayTypes
    <2>2. b \in Binding
        BY <1>3, RelayAssumption DEF Binding
    <2>3. /\ b.conn = c /\ b.source = j.source /\ b.target = j.target
          /\ b.peer = j.peer
        OBVIOUS
    <2> HIDE DEF b
    <2>4. /\ \A i, d, p, q : IsBind(i, d, p, q) => IsBind(i, d, p, q)'
          /\ \A d, p, id : Unused(d, p, id) => Unused(d, p, id)'
          /\ \A m : OnBind(m) => OnBind(m)'
          /\ Len(bound') = n /\ bound'[n] = b
          /\ n \in Ids /\ openers[n] = <<>>
        BY <1>1, <1>6, <2>1, <2>2, OneMoreBind
    <2>5. /\ r \in Routes /\ r # NoRoute /\ r.id = n /\ r.source = j.source
          /\ r.target = j.target /\ ~r.opened /\ ~r.sealed
        BY <1>3, <2>4 DEF Routes, NoRoute
    <2> HIDE DEF r
    <2>6. /\ tasks' = [tasks EXCEPT ![t] = Idle] /\ tasks'[t] = Idle
          /\ tasks' \in [Tasks -> Jobs \cup Cleanups \cup {Idle}]
          /\ \A u \in Tasks : u # t => tasks'[u] = tasks[u]
          /\ \A d \in ConnIds : routes'[d] = IF d = c THEN r ELSE routes[d]
        BY <1>1, <1>3, <1>6 DEF Does, RelayInv, RelayTypes
    <2>7. bound' \in Seq(Binding) /\ Len(bound') <= MaxRoutes
        BY <1>6, <2>1, <2>2, <2>4, RelayAssumption DEF RelayInv, RelayTypes
    <2>8. RelayTypes'
        BY <1>1, <1>3, <1>6, <2>5, <2>6, <2>7 DEF RelayInv, RelayTypes
    <2>9. DeliveredBound'
        BY <1>1, <2>4 DEF RelayInv, DeliveredBound
    <2>10. OpenedBinds'
        BY <1>1, <2>1, <2>4 DEF RelayInv, OpenedBinds, Ids
    <2>11. BoundExact'
        BY <1>4, <1>6, <2>1, <2>2, <2>3, <2>4 DEF RelayInv, RelayTypes, BoundExact
    <2>12. /\ n \in 1..Len(bound') /\ bound'[n].conn = c
           /\ bound'[n].source = j.source /\ bound'[n].target = j.target
        BY <2>1, <2>3, <2>4
    <2>13. \A i \in 1..Len(bound') :
               bound'[i].conn = c /\ bound'[i].source = j.source => load.reuse \/ openers'[i] = <<>>
        <3>1. \A d : d = c => \A p : p = j.source => Unused(d, p, 0)'
            BY <1>4, <2>4, Zenon
        <3>2. \A i \in 1..Len(bound') : i # 0
            BY <2>1, <2>4
        <3>3. load' = load
            BY <1>1
        <3> QED
            BY <3>1, <3>2, <3>3 DEF Unused
    <2>14. RoutesBound'
        <3> SUFFICES ASSUME NEW d \in ConnIds, routes'[d] # NoRoute
                     PROVE  /\ IsBind(routes[d].id, d, routes[d].source, routes[d].target)'
                            /\ routes'[d].opened <=> openers'[routes'[d].id] # <<>>
                            /\ routes'[d].sealed => routes'[d].opened
                            /\ Unused(d, routes[d].source, routes[d].id)'
            BY DEF RoutesBound
        <3>1. CASE d = c
            BY <1>1, <1>3, <2>4, <2>5, <2>6, <2>12, <2>13, <3>1 DEF IsBind, Unused
        <3>2. CASE d # c
            <4>1. /\ routes'[d] = routes[d]
                  /\ IsBind(routes[d].id, d, routes[d].source, routes[d].target)
                  /\ routes[d].opened <=> openers[routes[d].id] # <<>>
                  /\ routes[d].sealed => routes[d].opened
                  /\ Unused(d, routes[d].source, routes[d].id)
                BY <2>6, <3>2 DEF RelayInv, RoutesBound
            <4>2. /\ IsBind(routes[d].id, d, routes[d].source, routes[d].target)'
                BY <2>4, <4>1 DEF IsBind
            <4>3. \A p, id : p = routes[d].source /\ id = routes[d].id => Unused(d, p, id)'
                BY <2>4, <4>1
            <4>4. Unused(d, routes[d].source, routes[d].id)'
                BY <4>1, <4>3 DEF Unused
            <4> QED
                BY <1>1, <4>1, <4>2, <4>4
        <3> QED
            BY <3>1, <3>2
    <2>15. ASSUME NEW u \in Tasks PROVE BindJob(u)' /\ RouteJob(u)' /\ FoundJob(u)'
        <3>1. CASE u = t
            BY <2>6, <3>1 DEF BindJob, RouteJob, FoundJob, IsJob, Idle
        <3>2. CASE u # t
            <4>1. BindJob(u) /\ RouteJob(u) /\ FoundJob(u) /\ tasks'[u] = tasks[u]
                BY <2>6, <3>2 DEF RelayInv, JobsBound
            <4>2. BindJob(u)'
                BY <2>4, <4>1 DEF BindJob
            <4>3. RouteJob(u)'
                BY <1>1, <2>4, <4>1 DEF RouteJob, IsJob
            <4>4. tasks[u].at \in {"expired", "stored", "loaded"} =>
                      tasks[u].conn \in ConnIds /\ (tasks[u].at # "expired" => tasks[u].conn # c)
                BY <1>1, TaskKinds DEF RelayInv, IsJob, Jobs, Unguarded
            <4>5. tasks[u].at = "expired" => tasks[u].id # n
                BY <2>1, <4>1 DEF RouteJob, IsJob, IsBind
            <4>6. FoundJob(u)'
                BY <2>5, <2>6, <4>1, <4>4, <4>5 DEF FoundJob
            <4> QED
                BY <4>2, <4>3, <4>6
        <3> QED
            BY <3>1, <3>2
    <2> QED
        BY <2>8, <2>9, <2>10, <2>11, <2>14, <2>15 DEF RelayInv, JobsBound
<1> QED
    BY <1>5, <1>6 DEF BindInsert

(* The route is opened: consume_bound, and the handler that goes on to     *)
(* send.  No handler of the source is about to bind the same conn_id.      *)
LEMMA RouteOpened ==
    ASSUME RelayInv, NEW t \in Tasks, NEW c \in ConnIds, routes[c] # NoRoute,
           NEW at \in {"send", "opening"}, NEW kind \in FrameKinds, NEW last \in BOOLEAN,
           t[1] = routes[c].source,
           Does(t, Job(at, kind, c, routes[c], routes[c].target, last)),
           Consume(c, kind),
           NEW r \in Routes, routes' = [routes EXCEPT ![c] = r], r.opened,
           r.id = routes[c].id /\ r.source = routes[c].source /\ r.target = routes[c].target,
           r.expired = routes[c].expired,
           \A u \in Tasks : u # t /\ tasks[u].at = "bind" /\ tasks[u].conn = c
                                => tasks[u].source # t[1],
           UNCHANGED <<known, bound, closers, load, delivered>>
    PROVE  RelayInv'
<1> DEFINE j == Job(at, kind, c, routes[c], routes[c].target, last)
<1> DEFINE n == routes[c].id
<1>1. routes[c] \in Routes
    BY DEF RelayInv, RelayTypes
<1>2. /\ r \in Routes /\ r # NoRoute /\ r.expired = routes[c].expired
      /\ r.id = n /\ r.source = routes[c].source /\ r.target = routes[c].target
      /\ r.opened
    BY DEF Routes, NoRoute
<1>3. j \in Jobs
    BY <1>1, JobType DEF RelayInv, Routes
<1>4. /\ j.at = at /\ j.conn = c /\ j.id = n /\ j.source = routes[c].source
      /\ j.target = routes[c].target /\ j.dest = routes[c].target
    BY DEF Job, JobFor
<1>5. ~routes[c].opened
    BY DEF Consume
<1>6. /\ IsBind(n, c, routes[c].source, routes[c].target) /\ n \in Ids
      /\ Unused(c, routes[c].source, n) /\ openers[n] = <<>>
    <2>1. /\ IsBind(n, c, routes[c].source, routes[c].target)
          /\ Unused(c, routes[c].source, n)
          /\ ~(openers[n] # <<>>)
        BY <1>5 DEF RelayInv, RoutesBound
    <2>2. n \in Ids
        BY <1>1 DEF Routes
    <2> QED
        BY <2>1, <2>2 DEF RelayInv, RelayTypes
<1>7. /\ openers' = [openers EXCEPT ![n] = <<kind>>] /\ openers' \in [Ids -> Seq(FrameKinds)]
      /\ openers'[n] = <<kind>> /\ Len(openers'[n]) = 1
      /\ \A i \in Ids : i # n => openers'[i] = openers[i]
    BY <1>6 DEF Consume, RelayInv, RelayTypes
<1> HIDE DEF j, n
<1>8. /\ tasks' = [tasks EXCEPT ![t] = j] /\ tasks'[t] = j
      /\ tasks' \in [Tasks -> Jobs \cup Cleanups \cup {Idle}]
      /\ \A u \in Tasks : u # t => tasks'[u] = tasks[u]
      /\ \A d \in ConnIds : routes'[d] = IF d = c THEN r ELSE routes[d]
    BY <1>3, <1>5 DEF Does, RelayInv, RelayTypes, j
<1>9. RelayTypes'
    BY <1>2, <1>5, <1>7, <1>8 DEF RelayInv, RelayTypes
<1>10. BoundExact' /\ DeliveredBound'
    BY DEF RelayInv, BoundExact, DeliveredBound, OnBind
<1>11. OpenedBinds'
    BY <1>6, <1>7 DEF RelayInv, OpenedBinds, IsBind, Ids
<1>12. \A i \in 1..Len(bound) : i \in Ids
    BY RelayAssumption DEF RelayInv, RelayTypes, Ids
<1>13. RoutesBound'
    <2> SUFFICES ASSUME NEW d \in ConnIds, routes'[d] # NoRoute
                 PROVE  /\ IsBind(routes[d].id, d, routes[d].source, routes[d].target)'
                        /\ routes'[d].opened <=> openers'[routes'[d].id] # <<>>
                        /\ routes'[d].sealed => routes'[d].opened
                        /\ Unused(d, routes[d].source, routes[d].id)'
        BY DEF RoutesBound
    <2>1. CASE d = c
        <3>1. routes'[d] = r /\ openers'[n] # <<>> /\ r.id = n
            BY <1>2, <1>7, <1>8, <2>1
        <3>2. IsBind(routes[d].id, d, routes[d].source, routes[d].target)'
            BY <1>2, <1>6, <2>1, <3>1 DEF IsBind
        <3>3. Unused(d, routes[d].source, routes[d].id)'
            BY <1>2, <1>6, <1>7, <1>12, <2>1, <3>1 DEF Unused
        <3> QED
            BY <1>2, <3>1, <3>2, <3>3
    <2>2. CASE d # c
        <3>1. /\ routes'[d] = routes[d]
              /\ IsBind(routes[d].id, d, routes[d].source, routes[d].target)
              /\ routes[d].opened <=> openers[routes[d].id] # <<>>
              /\ routes[d].sealed => routes[d].opened
              /\ Unused(d, routes[d].source, routes[d].id)
            BY <1>8, <2>2 DEF RelayInv, RoutesBound
        <3>2. routes[d].id # n /\ routes[d].id \in Ids
            BY <1>6, <1>12, <2>2, <3>1 DEF IsBind
        <3>3. Unused(d, routes[d].source, routes[d].id)'
            BY <1>6, <1>7, <1>12, <2>2, <3>1 DEF Unused, IsBind
        <3> QED
            BY <1>7, <3>1, <3>2, <3>3 DEF IsBind
    <2> QED
        BY <2>1, <2>2
<1>14. BindJob(t)' /\ FoundJob(t)'
    BY <1>4, <1>8 DEF BindJob, FoundJob
<1>15. RouteJob(t)'
    BY <1>4, <1>6, <1>7, <1>8 DEF RouteJob, IsJob, IsBind
<1>16. ASSUME NEW u \in Tasks, u # t PROVE BindJob(u)' /\ RouteJob(u)' /\ FoundJob(u)'
    <2>1. BindJob(u) /\ RouteJob(u) /\ FoundJob(u) /\ tasks'[u] = tasks[u]
        BY <1>8, <1>16 DEF RelayInv, JobsBound
    <2>2. BindJob(u)'
        BY <1>6, <1>7, <1>12, <1>16, <2>1 DEF BindJob, Unused, IsBind
    <2>3. RouteJob(u)'
        <3>1. \A i \in 1..Len(bound) : openers[i] # <<>> => openers'[i] # <<>>
            BY <1>7, <1>12
        <3> QED
            BY <2>1, <3>1 DEF RouteJob, IsJob, IsBind
    <2>4. tasks[u].at \in {"expired", "stored", "loaded"} => tasks[u].conn \in ConnIds
        BY TaskKinds DEF RelayInv, IsJob, Jobs
    <2>5. \A d \in ConnIds : routes[d] # NoRoute =>
              /\ routes'[d] # NoRoute /\ routes'[d].id = routes[d].id
              /\ routes'[d].expired = routes[d].expired
        BY <1>2, <1>8 DEF n
    <2>6. \A d \in ConnIds : routes'[d] # NoRoute => routes[d] # NoRoute
        BY <1>8
    <2>7. FoundJob(u)'
        BY <2>1, <2>4, <2>5, <2>6 DEF FoundJob
    <2> QED
        BY <2>2, <2>3, <2>7
<1> QED
    BY <1>9, <1>10, <1>11, <1>13, <1>14, <1>15, <1>16 DEF RelayInv, JobsBound

LEMMA OpenBoundKeeps ==
    ASSUME RelayInv, NEW s \in Sessions, NEW c \in ConnIds,
           RelayConnect(s, c) \/ RelayFlow(s, c)
    PROVE  RelayInv'
<1>1. PICK k \in {"stream", "flow"}, kind \in {"connect", "flow"}, at \in {"send", "opening"} :
          OpenBound(s, c, k, kind, at)
    BY DEF RelayConnect, RelayFlow
<1> DEFINE t == <<s, k>>
<1> DEFINE r == routes[c]
<1>2. t \in Tasks /\ t[1] = s /\ kind \in FrameKinds
    BY LaneTask DEF Readers, FrameKinds
<1>3. /\ r # NoRoute /\ r.source = s /\ OnRoute(r, s) /\ Acknowledged(s, c)
      /\ UNCHANGED <<known, bound, closers, load, delivered>>
    BY <1>1 DEF OpenBound, sessionVars, OnRoute
<1>4. r \in Routes
    BY <1>3 DEF RelayInv, RelayTypes
<1>5. CASE /\ Consume(c, kind)
           /\ routes' = [routes EXCEPT ![c].opened = TRUE]
           /\ Does(t, Job(at, kind, c, r, r.target, FALSE))
    <2> DEFINE q == [r EXCEPT !.opened = TRUE]
    <2>1. routes' = [routes EXCEPT ![c] = q]
        BY <1>5
    <2>2. /\ q \in Routes /\ q.opened /\ q.expired = r.expired
          /\ q.id = r.id /\ q.source = r.source /\ q.target = r.target
        BY <1>4 DEF Routes
    <2>3. \A u \in Tasks : u # t /\ tasks[u].at = "bind" /\ tasks[u].conn = c
                                => tasks[u].source # t[1]
        BY <1>3 DEF RelayInv, JobsBound, BindJob, Acknowledged, Tasks
    <2>4. t[1] = r.source
        BY <1>2, <1>3
    <2> HIDE DEF t, q
    <2> QED
        BY <1>2, <1>3, <1>5, <2>1, <2>2, <2>3, <2>4, RouteOpened
<1>6. CASE /\ r.expired /\ UNCHANGED <<routes, openers>>
           /\ Does(t, Job("expired", kind, c, r, r.target, FALSE))
    <2> DEFINE j == Job("expired", kind, c, r, r.target, FALSE)
    <2>1. j \in Jobs
        BY <1>2, <1>3, <1>4, JobType DEF RelayInv, Routes
    <2>2. /\ j.at = "expired" /\ j.conn = c /\ j.id = r.id /\ j.source = r.source
          /\ j.target = r.target
        BY DEF Job, JobFor
    <2>3. IsBind(r.id, c, r.source, r.target)
        BY <1>3 DEF RelayInv, RoutesBound
    <2>4. tasks' = [tasks EXCEPT ![t] = j] /\ tasks'[t] = j
        BY <1>2, <1>6 DEF Does, RelayInv, RelayTypes
    <2> HIDE DEF j, t
    <2>5. BindJob(t)' /\ FoundJob(t)'
        BY <1>6, <2>2, <2>4 DEF BindJob, FoundJob
    <2>6. RouteJob(t)'
        BY <1>3, <1>6, <2>2, <2>3, <2>4 DEF RouteJob, IsBind
    <2>7. DeliveredBound'
        BY <1>3 DEF RelayInv, DeliveredBound, OnBind
    <2> QED
        BY <1>2, <1>3, <1>6, <2>1, <2>4, <2>5, <2>6, <2>7, OneTask DEF RelayInv, RelayTypes
<1> QED
    BY <1>1, <1>5, <1>6 DEF OpenBound

LEMMA ForwardControlKeeps ==
    ASSUME RelayInv, NEW s \in Sessions, NEW c \in ConnIds, NEW p \in Peers,
           NEW kind \in FrameKinds, ForwardControl(s, c, p, kind)
    PROVE  RelayInv'
<1> DEFINE t == <<s, "control">>
<1> DEFINE r == routes[c]
<1>1. t \in Tasks /\ t[1] = s /\ (kind = "abort") \in BOOLEAN
    BY LaneTask DEF Readers
<1>2. /\ r # NoRoute /\ OnRoute(r, s) /\ tasks[t] = Idle
      /\ Does(t, Job("send", kind, c, r, Other(r, s), kind = "abort"))
      /\ UNCHANGED <<known, bound, closers, load, delivered>>
    BY DEF ForwardControl, sessionVars, Reads
<1>3. r \in Routes /\ Other(r, s) \in Sessions
    BY <1>2, OtherType DEF RelayInv, RelayTypes
<1>4. CASE /\ s = r.source /\ Consume(c, kind)
           /\ routes' = [routes EXCEPT ![c].opened = TRUE, ![c].sealed = TRUE]
    <2> DEFINE q == [r EXCEPT !.opened = TRUE, !.sealed = TRUE]
    <2>0. routes' = [routes EXCEPT ![c] = q]
        BY <1>4 DEF RelayInv, RelayTypes
    <2>1. Other(r, s) = r.target
        BY <1>4 DEF Other
    <2>2. \A u \in Tasks : u # t /\ tasks[u].at = "bind" /\ tasks[u].conn = c
                                => tasks[u].source # t[1]
        BY DEF RelayInv, JobsBound, BindJob, Tasks
    <2>3. t[1] = r.source
        BY <1>1, <1>4
    <2>5. /\ q \in Routes /\ q.opened /\ q.expired = r.expired
          /\ q.id = r.id /\ q.source = r.source /\ q.target = r.target
        BY <1>3 DEF Routes
    <2>4. Does(t, Job("send", kind, c, r, r.target, kind = "abort"))
        BY <1>2, <2>1
    <2> HIDE DEF t, q
    <2> QED
        BY <1>1, <1>2, <1>4, <2>0, <2>2, <2>3, <2>4, <2>5, RouteOpened
<1>5. CASE r.sealed /\ UNCHANGED <<routes, openers>>
    <2>1. r.opened
        BY <1>2, <1>5 DEF RelayInv, RoutesBound
    <2> HIDE DEF t
    <2> QED
        BY <1>1, <1>2, <1>3, <1>5, <2>1, ReadsRoute
<1> QED
    BY <1>4, <1>5 DEF ForwardControl

-----------------------------------------------------------------------------

LEMMA StepRelay == RelayInv /\ [Next]_vars => RelayInv'
<1> SUFFICES ASSUME RelayInv, [Next]_vars PROVE RelayInv'
    OBVIOUS
<1>1. ASSUME NEW t \in Tasks, TaskStep(t) PROVE RelayInv'
    BY <1>1, BindInsertKeeps, RemoveKeeps, CloseLoadsKeeps, CloseReleasesKeeps, SendKeeps,
       ScanKeeps, CleanKeeps, PurgeClosesKeeps DEF TaskStep
<1>2. ASSUME NEW s \in Sessions, NEW c \in ConnIds,
             RelayConnect(s, c) \/ RelayFlow(s, c) \/ CloseStores(s, c)
      PROVE  RelayInv'
    BY <1>2, OpenBoundKeeps, CloseStoresKeeps
<1>3. ASSUME NEW s \in Sessions, NEW c \in ConnIds, NEW p \in Peers,
             BindLookup(s, c, p) \/ \E kind \in FrameKinds : ForwardControl(s, c, p, kind)
      PROVE  RelayInv'
    BY <1>3, BindLookupKeeps, ForwardControlKeeps
<1>4. ASSUME NEW s \in Sessions, NEW c \in ConnIds, NEW kind \in FrameKinds,
             Forward(s, c, kind)
      PROVE  RelayInv'
    BY <1>4, ForwardKeeps
<1>5. ASSUME NEW c \in ConnIds, Age(c) PROVE RelayInv'
    BY <1>5, AgeKeeps
<1>6. ASSUME NEW s \in Sessions, CarrierCloses(s) \/ EndRun(s) PROVE RelayInv'
    BY <1>6, EndingKeeps
<1>7. ASSUME NEW s \in Sessions, NEW who \in {"leave", "purge"}, LeaveList(s, who)
      PROVE  RelayInv'
    BY <1>7, LeaveListKeeps
<1>8. CASE ScopeRemoved \/ UNCHANGED vars
    <2>1. /\ UNCHANGED <<known, routes, tasks, bound, openers, closers, load, delivered>>
        BY <1>8 DEF ScopeRemoved, vars, historyVars
    <2>2. tasks' \in [Tasks -> Jobs \cup Cleanups \cup {Idle}]
        BY <2>1 DEF RelayInv, RelayTypes
    <2> QED
        BY <2>1, <2>2, TasksDropped
<1> QED
    BY <1>1, <1>2, <1>3, <1>4, <1>5, <1>6, <1>7, <1>8 DEF Next

LEMMA AlwaysRelay == Spec => []RelayInv
BY InitRelay, StepRelay, PTL DEF Spec

(* A frame reaches only the session at the other end of a route of its     *)
(* sender, and a route leads to the Peer that was asked for, whatever      *)
(* handlers run in parallel (forward_client_relay and the others that      *)
(* release the map before they send).                                      *)
THEOREM FramesStayOnRoute == Spec => []ExactRoute
<1>1. RelayInv => ExactRoute
    <2> SUFFICES ASSUME RelayInv PROVE ExactRoute
        OBVIOUS
    <2>1. DOMAIN bound = 1..Len(bound)
        BY DEF RelayInv, RelayTypes
    <2>2. \A m \in delivered : \E i \in DOMAIN bound :
              bound[i].conn = m[1] /\ {bound[i].source, bound[i].target} = {m[2], m[3]}
        BY <2>1 DEF RelayInv, DeliveredBound, OnBind
    <2> QED
        BY <2>1, <2>2 DEF RelayInv, BoundExact, ExactRoute
<1> QED
    BY <1>1, AlwaysRelay, PTL

-----------------------------------------------------------------------------
(* What opened the route that a frame is under way for.                    *)

Openers == {"connect", "flow", "control", "abort"}

OpenerOf(kind) == IF kind = "abort" THEN "control" ELSE kind

(* A sealed route was opened by encrypted control, and what is under way   *)
(* for a route as an opener is of the kind that opened it.                 *)
SealedRoutes ==
    \A c \in ConnIds : routes[c] # NoRoute /\ routes[c].sealed =>
        openers[routes[c].id] = <<"control">>

UnderWay(t) == tasks[t].at \in {"stored", "loaded", "send", "opening", "copying"}

KindJob(t) ==
    UnderWay(t) /\ tasks[t].kind \in Openers =>
        openers[tasks[t].id] = <<OpenerOf(tasks[t].kind)>>

KindInv == SealedRoutes /\ \A t \in Tasks : KindJob(t)

(* What has an opener keeps it, and routes and tasks keep what they had or *)
(* got it from the opener.                                                 *)
LEMMA KindsKept ==
    ASSUME RelayInv, KindInv,
           \A i \in Ids : openers[i] # <<>> => openers'[i] = openers[i],
           \A c \in ConnIds : routes'[c] # NoRoute /\ routes'[c].sealed =>
               \/ /\ routes[c] # NoRoute /\ routes[c].sealed
                  /\ routes'[c].id = routes[c].id
               \/ openers'[routes'[c].id] = <<"control">>,
           \A t \in Tasks : tasks'[t] # tasks[t] /\ UnderWay(t)' /\ tasks'[t].kind \in Openers =>
               \/ /\ UnderWay(t)
                  /\ tasks'[t].kind = tasks[t].kind /\ tasks'[t].id = tasks[t].id
               \/ openers'[tasks'[t].id] = <<OpenerOf(tasks'[t].kind)>>
    PROVE  KindInv'
<1>0. \A i \in 1..Len(bound) : i \in Ids
    BY RelayAssumption DEF RelayInv, RelayTypes, Ids
<1>1. ASSUME NEW c \in ConnIds, routes'[c] # NoRoute, routes'[c].sealed
      PROVE  openers'[routes'[c].id] = <<"control">>
    <2>1. CASE routes[c] # NoRoute /\ routes[c].sealed /\ routes'[c].id = routes[c].id
        <3>1. openers[routes[c].id] = <<"control">>
            BY <2>1 DEF KindInv, SealedRoutes
        <3>2. routes[c].id \in Ids
            BY <1>0, <2>1 DEF RelayInv, RoutesBound, IsBind
        <3>3. <<"control">> # <<>>
            OBVIOUS
        <3>4. openers'[routes[c].id] = openers[routes[c].id]
            BY <3>1, <3>2, <3>3
        <3> QED
            BY <2>1, <3>1, <3>4
    <2> QED
        BY <1>1, <2>1
<1>2. ASSUME NEW t \in Tasks, UnderWay(t)', tasks'[t].kind \in Openers
      PROVE  openers'[tasks'[t].id] = <<OpenerOf(tasks'[t].kind)>>
    <2>1. CASE /\ UnderWay(t)
               /\ tasks'[t].kind = tasks[t].kind /\ tasks'[t].id = tasks[t].id
        <3>1. tasks[t].id \in Ids
            BY <1>0, <2>1 DEF UnderWay, RelayInv, JobsBound, RouteJob, IsJob, IsBind
        <3>2. openers[tasks[t].id] = <<OpenerOf(tasks[t].kind)>>
            BY <1>2, <2>1 DEF KindInv, KindJob
        <3> QED
            BY <2>1, <3>1, <3>2
    <2>2. CASE tasks'[t] = tasks[t]
        BY <1>2, <2>1, <2>2 DEF UnderWay
    <2> QED
        BY <1>2, <2>1, <2>2
<1> QED
    BY <1>1, <1>2 DEF KindInv, SealedRoutes, KindJob

(* A step that opens nothing, with at most one task's work changed.        *)
LEMMA KindsUnopened ==
    ASSUME RelayInv, KindInv, NEW t \in Tasks, UNCHANGED openers,
           \A u \in Tasks : u # t => tasks'[u] = tasks[u],
           UnderWay(t)' => /\ UnderWay(t)
                           /\ tasks'[t].kind = tasks[t].kind /\ tasks'[t].id = tasks[t].id,
           \A c \in ConnIds : routes'[c] # NoRoute /\ routes'[c].sealed =>
               routes[c] # NoRoute /\ routes[c].sealed /\ routes'[c].id = routes[c].id
    PROVE  KindInv'
BY KindsKept

LEMMA KindsTaskStep ==
    ASSUME RelayInv, KindInv, NEW t \in Tasks, TaskStep(t)
    PROVE  KindInv'
<1>1. /\ routes \in [ConnIds -> Routes \cup {NoRoute}]
      /\ tasks \in [Tasks -> Jobs \cup Cleanups \cup {Idle}]
    BY DEF RelayInv, RelayTypes
<1>2. UNCHANGED openers
    BY DEF TaskStep, BindInsert, RemoveExpired, CloseLoads, CloseReleases, Send, SendRefused,
           FlowOpens, FlowEnds, RemoveRoute, ScanRoutes, CleanRoutes, PurgeCloses, historyVars
<1>3. \A u \in Tasks : u # t => tasks'[u] = tasks[u]
    BY <1>1 DEF TaskStep, BindInsert, RemoveExpired, CloseLoads, CloseReleases, Send,
           SendRefused, FlowOpens, FlowEnds, RemoveRoute, ScanRoutes, CleanRoutes, PurgeCloses,
           Does, Moves
<1>4. UnderWay(t)' => /\ UnderWay(t)
                      /\ tasks'[t].kind = tasks[t].kind /\ tasks'[t].id = tasks[t].id
    <2>1. CASE CloseLoads(t) \/ CloseReleases(t) \/ FlowOpens(t) \/ FlowEnds(t)
        <3>1. UnderWay(t)
            BY <2>1 DEF CloseLoads, CloseReleases, FlowOpens, FlowEnds, UnderWay
        <3>2. tasks[t] \in Jobs
            BY <3>1, TaskKinds DEF UnderWay, IsJob, RelayInv
        <3>3. \/ \E b : tasks'[t] = [tasks[t] EXCEPT !.at = "loaded", !.last = b]
              \/ \E at : tasks'[t] = [tasks[t] EXCEPT !.at = at]
            BY <1>1, <2>1 DEF CloseLoads, CloseReleases, FlowOpens, FlowEnds, Does, Moves
        <3>4. tasks'[t].kind = tasks[t].kind /\ tasks'[t].id = tasks[t].id
            BY <3>2, <3>3 DEF Jobs
        <3> QED
            BY <3>1, <3>4
    <2>2. CASE Send(t) \/ SendRefused(t)
        <3>1. tasks'[t] = Idle \/ tasks'[t] = [tasks[t] EXCEPT !.at = "remove"]
            BY <1>1, <2>2 DEF Send, SendRefused, Does, Moves
        <3>2. tasks[t] \in Jobs
            BY <2>2, TaskKinds DEF Send, SendRefused, IsJob, RelayInv
        <3> QED
            BY <3>1, <3>2 DEF UnderWay, Jobs, Idle
    <2>3. CASE BindInsert(t) \/ RemoveExpired(t) \/ RemoveRoute(t) \/ PurgeCloses(t)
        <3>1. tasks'[t] = Idle
            BY <1>1, <2>3 DEF BindInsert, RemoveExpired, RemoveRoute, PurgeCloses, Does
        <3> QED
            BY <3>1 DEF UnderWay, Idle
    <2>4. CASE ScanRoutes(t)
        <3>1. tasks'[t].at = "clean"
            BY <1>1, <2>4 DEF ScanRoutes, Does
        <3> QED
            BY <3>1 DEF UnderWay
    <2>5. CASE CleanRoutes(t)
        <3>1. tasks'[t] = Idle \/ tasks'[t] = [tasks[t] EXCEPT !.at = "close"]
            BY <1>1, <2>5 DEF CleanRoutes, Does, Moves
        <3>2. tasks[t] \in Cleanups
            BY <2>5, TaskKinds DEF CleanRoutes, RelayInv
        <3> QED
            BY <3>1, <3>2 DEF UnderWay, Cleanups, Idle
    <2> QED
        BY <2>1, <2>2, <2>3, <2>4, <2>5 DEF TaskStep
<1>5. ASSUME NEW c \in ConnIds, routes'[c] # NoRoute, routes'[c].sealed
      PROVE  routes[c] # NoRoute /\ routes[c].sealed /\ routes'[c].id = routes[c].id
    <2>1. CASE BindInsert(t)
        <3> DEFINE r == [id |-> Len(bound) + 1, source |-> tasks[t].source,
                         target |-> tasks[t].target, expired |-> FALSE, opened |-> FALSE,
                         sealed |-> FALSE, closed |-> {}]
        <3>1. routes' = routes \/ routes' = [routes EXCEPT ![tasks[t].conn] = r]
            BY <2>1 DEF BindInsert
        <3>2. ~r.sealed
            OBVIOUS
        <3> HIDE DEF r
        <3>3. routes'[c] \in {r, routes[c]}
            BY <1>1, <3>1
        <3> QED
            BY <1>5, <3>2, <3>3
    <2>2. CASE CloseReleases(t)
        <3>1. tasks[t].conn \in ConnIds /\ routes[tasks[t].conn] # NoRoute
            BY <2>2, TaskKinds DEF CloseReleases, RelayInv, JobsBound, FoundJob, IsJob, Jobs
        <3>2. routes[tasks[t].conn] \in Routes
            BY <1>1, <3>1
        <3>3. CASE tasks[t].conn = c
            <4>1. routes'[c] = [routes[c] EXCEPT !.closed = @ \cup {t[1]}]
                BY <1>1, <2>2, <3>3 DEF CloseReleases
            <4> QED
                BY <1>5, <3>1, <3>2, <3>3, <4>1 DEF Routes
        <3>4. CASE tasks[t].conn # c
            BY <1>1, <1>5, <2>2, <3>4 DEF CloseReleases
        <3> QED
            BY <3>3, <3>4
    <2>3. CASE RemoveExpired(t) \/ RemoveRoute(t) \/ CleanRoutes(t)
        BY <1>1, <1>5, <2>3 DEF RemoveExpired, RemoveRoute, CleanRoutes
    <2>4. CASE UNCHANGED routes
        BY <1>5, <2>4
    <2> QED
        BY <2>1, <2>2, <2>3, <2>4
           DEF TaskStep, CloseLoads, Send, SendRefused, FlowOpens, FlowEnds, ScanRoutes,
               PurgeCloses
<1> QED
    BY <1>2, <1>3, <1>4, <1>5, KindsUnopened

(* A handler that opens a route, or goes on where its own kind opened it.  *)
LEMMA KindsOpened ==
    ASSUME RelayInv, KindInv, NEW t \in Tasks, NEW c \in ConnIds, routes[c] # NoRoute,
           NEW at, NEW kind \in Openers, NEW d, NEW last,
           Does(t, Job(at, kind, c, routes[c], d, last)),
           \/ /\ Consume(c, kind) /\ kind # "abort"
              /\ \/ routes' = [routes EXCEPT ![c].opened = TRUE]
                 \/ /\ routes' = [routes EXCEPT ![c].opened = TRUE, ![c].sealed = TRUE]
                    /\ kind = "control"
           \/ /\ UNCHANGED <<routes, openers>>
              /\ at = "expired" \/ (routes[c].sealed /\ kind \in {"control", "abort"})
    PROVE  KindInv'
<1> DEFINE n == routes[c].id
<1> DEFINE j == Job(at, kind, c, routes[c], d, last)
<1>1. /\ routes \in [ConnIds -> Routes \cup {NoRoute}] /\ routes[c] \in Routes
      /\ tasks \in [Tasks -> Jobs \cup Cleanups \cup {Idle}]
      /\ openers \in [Ids -> Seq(FrameKinds)]
    BY DEF RelayInv, RelayTypes
<1>2. n \in Ids
    BY <1>1 DEF Routes
<1>3. j.at = at /\ j.id = n /\ j.kind = kind
    BY DEF Job, JobFor
<1>4. tasks'[t] = j /\ \A u \in Tasks : u # t => tasks'[u] = tasks[u]
    BY <1>1 DEF Does
<1>5. CASE /\ Consume(c, kind) /\ kind # "abort"
           /\ \/ routes' = [routes EXCEPT ![c].opened = TRUE]
              \/ /\ routes' = [routes EXCEPT ![c].opened = TRUE, ![c].sealed = TRUE]
                 /\ kind = "control"
    <2>1. openers[n] = <<>>
        BY <1>5 DEF Consume, RelayInv, RoutesBound
    <2>2. openers'[n] = <<kind>> /\ \A i \in Ids : i # n => openers'[i] = openers[i]
        BY <1>1, <1>2, <1>5, <2>1 DEF Consume
    <2>3. OpenerOf(kind) = kind
        BY <1>5 DEF OpenerOf
    <2>4. \A e \in ConnIds : e # c => routes'[e] = routes[e]
        BY <1>1, <1>5
    <2>5. \/ routes'[c] = [routes[c] EXCEPT !.opened = TRUE]
          \/ kind = "control" /\ routes'[c] = [routes[c] EXCEPT !.opened = TRUE, !.sealed = TRUE]
        BY <1>1, <1>5
    <2>6. /\ routes'[c].id = n
          /\ routes'[c].sealed => routes[c].sealed \/ kind = "control"
        BY <1>1, <2>5 DEF Routes
    <2> HIDE DEF j, n
    <2> QED
        BY <1>2, <1>3, <1>4, <2>1, <2>2, <2>3, <2>4, <2>6, KindsKept DEF n
<1>6. CASE /\ UNCHANGED <<routes, openers>>
           /\ at = "expired" \/ (routes[c].sealed /\ kind \in {"control", "abort"})
    <2>1. at = "expired" \/ openers[n] = <<OpenerOf(kind)>>
        BY <1>6 DEF KindInv, SealedRoutes, OpenerOf
    <2> HIDE DEF j, n
    <2> QED
        BY <1>3, <1>4, <1>6, <2>1, KindsKept DEF UnderWay
<1> QED
    BY <1>5, <1>6

(* A handler of another kind of frame.                                     *)
LEMMA KindsOther ==
    ASSUME RelayInv, KindInv, NEW t \in Tasks, NEW c, NEW r, NEW p, NEW at,
           NEW kind, kind \notin Openers, NEW d, NEW last,
           Does(t, JobFor(p, at, kind, c, r, d, last)), UNCHANGED <<routes, openers>>
    PROVE  KindInv'
<1> DEFINE j == JobFor(p, at, kind, c, r, d, last)
<1>1. tasks \in [Tasks -> Jobs \cup Cleanups \cup {Idle}]
    BY DEF RelayInv, RelayTypes
<1>2. j.kind = kind
    BY DEF JobFor
<1>3. tasks'[t] = j /\ \A u \in Tasks : u # t => tasks'[u] = tasks[u]
    BY <1>1 DEF Does
<1> HIDE DEF j
<1> QED
    BY <1>2, <1>3, KindsKept

LEMMA KindsReaders ==
    ASSUME RelayInv, KindInv, NEW s \in Sessions, NEW c \in ConnIds,
           \/ RelayConnect(s, c) \/ RelayFlow(s, c) \/ CloseStores(s, c)
           \/ \E p \in Peers :
                 \/ BindLookup(s, c, p)
                 \/ \E kind \in FrameKinds : ForwardControl(s, c, p, kind)
           \/ \E kind \in FrameKinds : Forward(s, c, kind)
    PROVE  KindInv'
<1>0. \A k \in {"control", "stream", "datagram", "flow"} : <<s, k>> \in Tasks
    BY LaneTask DEF Readers
<1>1. CASE RelayConnect(s, c) \/ RelayFlow(s, c)
    <2>1. PICK k \in {"stream", "flow"}, kind \in {"connect", "flow"},
               at \in {"send", "opening"} : OpenBound(s, c, k, kind, at)
        BY <1>1 DEF RelayConnect, RelayFlow
    <2>2. kind \in Openers /\ kind # "abort" /\ <<s, k>> \in Tasks
        BY <1>0 DEF Openers
    <2>3. /\ routes[c] # NoRoute
          /\ \/ /\ Consume(c, kind) /\ routes' = [routes EXCEPT ![c].opened = TRUE]
                /\ Does(<<s, k>>, Job(at, kind, c, routes[c], routes[c].target, FALSE))
             \/ /\ UNCHANGED <<routes, openers>>
                /\ Does(<<s, k>>, Job("expired", kind, c, routes[c], routes[c].target, FALSE))
        BY <2>1 DEF OpenBound
    <2> QED
        BY <2>2, <2>3, KindsOpened
<1>2. CASE CloseStores(s, c)
    <2>1. /\ UNCHANGED <<routes, openers>> /\ "close" \notin Openers
          /\ \E at, d, last : Does(<<s, "stream">>, Job(at, "close", c, routes[c], d, last))
        BY <1>2 DEF CloseStores, historyVars, Openers
    <2> QED
        BY <1>0, <2>1, KindsOther DEF Job
<1>3. ASSUME NEW p \in Peers, BindLookup(s, c, p) PROVE KindInv'
    <2>1. /\ UNCHANGED <<routes, openers>> /\ "bind" \notin Openers
          /\ \E r, d : Does(<<s, "control">>, JobFor(p, "bind", "bind", c, r, d, FALSE))
        BY <1>3 DEF BindLookup, historyVars, Openers
    <2> QED
        BY <1>0, <2>1, KindsOther
<1>4. ASSUME NEW p \in Peers, NEW kind \in FrameKinds, ForwardControl(s, c, p, kind)
      PROVE  KindInv'
    <2>1. /\ routes[c] # NoRoute /\ kind \in {"control", "abort"} /\ kind \in Openers
          /\ Does(<<s, "control">>,
                  Job("send", kind, c, routes[c], Other(routes[c], s), kind = "abort"))
          /\ \/ /\ kind = "control" /\ Consume(c, kind)
                /\ routes' = [routes EXCEPT ![c].opened = TRUE, ![c].sealed = TRUE]
             \/ routes[c].sealed /\ UNCHANGED <<routes, openers>>
        BY <1>4 DEF ForwardControl, Openers
    <2> QED
        BY <1>0, <2>1, KindsOpened
<1>5. ASSUME NEW kind \in FrameKinds, Forward(s, c, kind) PROVE KindInv'
    <2>1. /\ UNCHANGED <<routes, openers>> /\ kind \notin Openers
          /\ \E at, d, last : Does(<<s, LaneOf(kind)>>, Job(at, kind, c, routes[c], d, last))
          /\ <<s, LaneOf(kind)>> \in Tasks
        BY <1>0, <1>5 DEF Forward, historyVars, Openers, LaneOf
    <2> QED
        BY <2>1, KindsOther DEF Job
<1> QED
    BY <1>1, <1>2, <1>3, <1>4, <1>5

LEMMA StepKinds == RelayInv /\ KindInv /\ [Next]_vars => KindInv'
<1> SUFFICES ASSUME RelayInv, KindInv, [Next]_vars PROVE KindInv'
    OBVIOUS
<1>1. /\ routes \in [ConnIds -> Routes \cup {NoRoute}]
      /\ tasks \in [Tasks -> Jobs \cup Cleanups \cup {Idle}]
    BY DEF RelayInv, RelayTypes
<1>2. ASSUME NEW c \in ConnIds, Age(c) PROVE KindInv'
    <2>1. /\ UNCHANGED <<tasks, openers>> /\ routes[c] \in Routes
          /\ \A d \in ConnIds : d # c => routes'[d] = routes[d]
          /\ routes'[c] = [routes[c] EXCEPT !.expired = TRUE] /\ routes[c] # NoRoute
        BY <1>1, <1>2 DEF Age, historyVars
    <2>2. routes'[c].sealed = routes[c].sealed /\ routes'[c].id = routes[c].id
        BY <2>1 DEF Routes
    <2> QED
        BY <2>1, <2>2, KindsKept
<1>3. ASSUME NEW s \in Sessions, NEW who \in {"leave", "purge"}, LeaveList(s, who)
      PROVE  KindInv'
    <2>1. <<s, who>> \in Tasks
        BY LaneTask
    <2>2. /\ UNCHANGED <<routes, openers>>
          /\ \A u \in Tasks : tasks'[u] # tasks[u] => tasks'[u].at = "scan"
        BY <1>1, <1>3, <2>1 DEF LeaveList, Does, historyVars
    <2> QED
        BY <2>2, KindsKept DEF UnderWay
<1>4. ASSUME NEW s \in Sessions, CarrierCloses(s) \/ EndRun(s) PROVE KindInv'
    <2>1. /\ UNCHANGED <<routes, openers>>
          /\ \A u \in Tasks : tasks'[u] \in {tasks[u], Idle}
        BY <1>4 DEF CarrierCloses, EndRun, historyVars
    <2> QED
        BY <2>1, KindsKept DEF UnderWay, Idle
<1>5. CASE ScopeRemoved \/ UNCHANGED vars
    <2>1. UNCHANGED <<routes, openers, tasks>>
        BY <1>5 DEF ScopeRemoved, historyVars, vars
    <2> QED
        BY <2>1, KindsKept
<1> QED
    BY <1>2, <1>3, <1>4, <1>5, KindsTaskStep, KindsReaders DEF Next

LEMMA AlwaysKinds == Spec => []KindInv
<1>1. Init => KindInv
    BY DEF Init, KindInv, SealedRoutes, KindJob, UnderWay, Idle
<1> QED
    BY <1>1, StepKinds, AlwaysRelay, PTL DEF Spec

(* Every route is for one kind of traffic: what is under way for a bind    *)
(* was preceded by exactly one opener, and openers only by their own kind  *)
(* (consume_bound and the sealed flag), whatever handlers race for it.     *)
THEOREM OneOpenerPerBind == Spec => []ExclusiveOpener
<1>1. RelayInv /\ KindInv => ExclusiveOpener
    <2> SUFFICES ASSUME RelayInv, KindInv, NEW t \in Tasks,
                        tasks[t].at \in {"send", "opening", "copying"}
                 PROVE  /\ Len(openers[tasks[t].id]) = 1
                        /\ tasks[t].kind \in Openers =>
                              openers[tasks[t].id] = <<OpenerOf(tasks[t].kind)>>
        BY DEF ExclusiveOpener, Openers, OpenerOf
    <2>1. tasks[t].id \in 1..Len(bound) /\ openers[tasks[t].id] # <<>>
        BY DEF RelayInv, JobsBound, RouteJob, IsJob, IsBind
    <2>2. tasks[t].id \in Ids
        BY <2>1, RelayAssumption DEF RelayInv, RelayTypes, Ids
    <2>3. openers[tasks[t].id] \in Seq(FrameKinds) /\ Len(openers[tasks[t].id]) <= 1
        BY <2>2 DEF RelayInv, RelayTypes, OpenedBinds
    <2>4. Len(openers[tasks[t].id]) = 1
        <3>1. Len(openers[tasks[t].id]) \in Nat \ {0}
            BY <2>1, <2>3, EmptySeq, Zenon
        <3>2. \A n \in Nat \ {0} : n <= 1 => n = 1
            OBVIOUS
        <3> QED
            BY <2>3, <3>1, <3>2, Zenon
    <2> QED
        BY <2>4 DEF KindInv, KindJob, UnderWay
<1> QED
    BY <1>1, AlwaysRelay, AlwaysKinds, PTL

-----------------------------------------------------------------------------
(* What a step may do to a route.                                          *)

(* A route gets another id only from a bind that may take the entry over.  *)
LEMMA IdKept ==
    ASSUME RelayInv, [Next]_vars, NEW c \in ConnIds, routes[c] # NoRoute,
           routes'[c] # NoRoute, ~MayBind(c)
    PROVE  routes'[c].id = routes[c].id
<1>1. routes[c] \in Routes /\ routes \in [ConnIds -> Routes \cup {NoRoute}]
    BY DEF RelayInv, RelayTypes
<1>2. ASSUME NEW r \in Routes, NEW d \in ConnIds, routes' = [routes EXCEPT ![d] = r],
             r.id = routes[d].id
      PROVE  routes'[c].id = routes[c].id
    BY <1>1, <1>2
<1>3. CASE UNCHANGED routes
    BY <1>3
<1>4. ASSUME NEW t \in Tasks, TaskStep(t) PROVE routes'[c].id = routes[c].id
    <2>1. CASE BindInsert(t)
        <3>1. tasks[t].conn = c => UNCHANGED routes
            BY <2>1 DEF BindInsert
        <3>2. tasks[t].conn # c => routes'[c] = routes[c]
            BY <1>1, <2>1 DEF BindInsert
        <3> QED
            BY <3>1, <3>2
    <2>2. CASE RemoveExpired(t) \/ RemoveRoute(t) \/ CleanRoutes(t)
        BY <1>1, <2>2 DEF RemoveExpired, RemoveRoute, CleanRoutes
    <2>3. CASE CloseReleases(t)
        <3>1. tasks[t].conn # c => routes'[c] = routes[c]
            BY <1>1, <2>3 DEF CloseReleases
        <3>2. tasks[t].conn = c => routes'[c] = [routes[c] EXCEPT !.closed = @ \cup {t[1]}]
            BY <1>1, <2>3 DEF CloseReleases
        <3> QED
            BY <1>1, <3>1, <3>2 DEF Routes
    <2>4. CASE UNCHANGED routes
        BY <2>4
    <2> QED
        BY <1>4, <2>1, <2>2, <2>3, <2>4
           DEF TaskStep, CloseLoads, Send, SendRefused, FlowOpens, FlowEnds, ScanRoutes,
               PurgeCloses
<1>5. ASSUME NEW s \in Sessions, NEW d \in ConnIds,
             \/ RelayConnect(s, d) \/ RelayFlow(s, d)
             \/ \E p \in Peers, kind \in FrameKinds : ForwardControl(s, d, p, kind)
      PROVE  routes'[c].id = routes[c].id
    <2>1. \/ routes' = [routes EXCEPT ![d].opened = TRUE]
          \/ routes' = [routes EXCEPT ![d].opened = TRUE, ![d].sealed = TRUE]
          \/ UNCHANGED routes
        BY <1>5 DEF RelayConnect, RelayFlow, OpenBound, ForwardControl
    <2>2. CASE d # c
        BY <1>1, <2>1, <2>2
    <2>3. CASE d = c
        <3>1. \/ routes'[c] = [routes[c] EXCEPT !.opened = TRUE]
              \/ routes'[c] = [routes[c] EXCEPT !.opened = TRUE, !.sealed = TRUE]
              \/ UNCHANGED routes
            BY <1>1, <2>1, <2>3
        <3> QED
            BY <1>1, <3>1 DEF Routes
    <2> QED
        BY <2>2, <2>3
<1>6. ASSUME NEW s \in Sessions, NEW d \in ConnIds,
             \/ CloseStores(s, d)
             \/ \E p \in Peers : BindLookup(s, d, p)
             \/ \E kind \in FrameKinds : Forward(s, d, kind)
      PROVE  UNCHANGED routes
    BY <1>6 DEF CloseStores, BindLookup, Forward
<1>7. ASSUME NEW d \in ConnIds, Age(d) PROVE routes'[c].id = routes[c].id
    <2>1. CASE d # c
        BY <1>1, <1>7, <2>1 DEF Age
    <2>2. CASE d = c
        <3>1. routes'[c] = [routes[c] EXCEPT !.expired = TRUE]
            BY <1>1, <1>7, <2>2 DEF Age
        <3> QED
            BY <1>1, <3>1 DEF Routes
    <2> QED
        BY <2>1, <2>2
<1>8. ASSUME NEW s \in Sessions,
             CarrierCloses(s) \/ EndRun(s)
             \/ \E who \in {"leave", "purge"} : LeaveList(s, who)
      PROVE  UNCHANGED routes
    BY <1>8 DEF CarrierCloses, EndRun, LeaveList
<1>9. CASE ScopeRemoved \/ UNCHANGED vars
    BY <1>9 DEF ScopeRemoved, vars
<1> QED
    BY <1>3, <1>4, <1>5, <1>6, <1>7, <1>8, <1>9 DEF Next

(* A route disappears by one of three steps.                               *)
LEMMA WhoRemoves ==
    ASSUME RelayInv, [Next]_vars, NEW c \in ConnIds, routes[c] # NoRoute,
           routes'[c] = NoRoute
    PROVE  \E t \in Tasks : RemoveExpired(t) \/ RemoveRoute(t) \/ CleanRoutes(t)
<1>1. routes[c] \in Routes /\ routes \in [ConnIds -> Routes \cup {NoRoute}]
    BY DEF RelayInv, RelayTypes
<1>2. ASSUME NEW r, NEW d \in ConnIds, routes' = [routes EXCEPT ![d] = r], r # NoRoute
      PROVE  FALSE
    BY <1>1, <1>2
<1>3. UNCHANGED routes => FALSE
    OBVIOUS
<1>4. ASSUME NEW d \in ConnIds, routes[d] # NoRoute
      PROVE  /\ [routes[d] EXCEPT !.opened = TRUE] # NoRoute
             /\ [routes[d] EXCEPT !.opened = TRUE, !.sealed = TRUE] # NoRoute
             /\ [routes[d] EXCEPT !.expired = TRUE] # NoRoute
             /\ \A t : [routes[d] EXCEPT !.closed = @ \cup {t}] # NoRoute
    <2>1. routes[d] \in Routes
        BY <1>1, <1>4
    <2> QED
        BY <2>1 DEF Routes, NoRoute
<1>5. ASSUME NEW t \in Tasks, TaskStep(t)
      PROVE  RemoveExpired(t) \/ RemoveRoute(t) \/ CleanRoutes(t)
    <2>1. CASE BindInsert(t)
        <3> DEFINE r == [id |-> Len(bound) + 1, source |-> tasks[t].source,
                         target |-> tasks[t].target, expired |-> FALSE, opened |-> FALSE,
                         sealed |-> FALSE, closed |-> {}]
        <3>1. routes' = [routes EXCEPT ![tasks[t].conn] = r]
            BY <1>3, <2>1 DEF BindInsert
        <3>2. r # NoRoute
            BY DEF NoRoute
        <3> HIDE DEF r
        <3>3. routes'[c] \in {r, routes[c]}
            BY <1>1, <3>1
        <3> QED
            BY <3>2, <3>3
    <2>2. CASE CloseReleases(t)
        <3>1. tasks[t].conn \in ConnIds /\ routes[tasks[t].conn] # NoRoute
            BY <2>2, TaskKinds DEF CloseReleases, RelayInv, JobsBound, FoundJob, IsJob, Jobs
        <3> QED
            BY <1>2, <1>4, <2>2, <3>1 DEF CloseReleases
    <2>3. CASE UNCHANGED routes
        BY <1>3, <2>3
    <2> QED
        BY <1>5, <2>1, <2>2, <2>3
           DEF TaskStep, CloseLoads, Send, SendRefused, FlowOpens, FlowEnds, ScanRoutes,
               PurgeCloses
<1>6. ASSUME NEW s \in Sessions, NEW d \in ConnIds,
             \/ RelayConnect(s, d) \/ RelayFlow(s, d)
             \/ \E p \in Peers, kind \in FrameKinds : ForwardControl(s, d, p, kind)
      PROVE  FALSE
    <2>1. /\ routes[d] # NoRoute
          /\ \/ routes' = [routes EXCEPT ![d].opened = TRUE]
             \/ routes' = [routes EXCEPT ![d].opened = TRUE, ![d].sealed = TRUE]
             \/ UNCHANGED routes
        BY <1>6 DEF RelayConnect, RelayFlow, OpenBound, ForwardControl
    <2>2. \/ routes'[c] = routes[c]
          \/ d = c /\ routes'[c] = [routes[c] EXCEPT !.opened = TRUE]
          \/ d = c /\ routes'[c] = [routes[c] EXCEPT !.opened = TRUE, !.sealed = TRUE]
        BY <1>1, <2>1
    <2> QED
        BY <1>4, <2>1, <2>2
<1>7. ASSUME NEW d \in ConnIds, Age(d) PROVE FALSE
    BY <1>2, <1>4, <1>7 DEF Age
<1>8. ASSUME NEW s \in Sessions, NEW d \in ConnIds,
             \/ CloseStores(s, d)
             \/ \E p \in Peers : BindLookup(s, d, p)
             \/ \E kind \in FrameKinds : Forward(s, d, kind)
      PROVE  UNCHANGED routes
    BY <1>8 DEF CloseStores, BindLookup, Forward
<1>9. ASSUME NEW s \in Sessions,
             CarrierCloses(s) \/ EndRun(s)
             \/ \E who \in {"leave", "purge"} : LeaveList(s, who)
      PROVE  UNCHANGED routes
    BY <1>9 DEF CarrierCloses, EndRun, LeaveList
<1>10. CASE ScopeRemoved \/ UNCHANGED vars
    BY <1>3, <1>10 DEF ScopeRemoved, vars
<1> QED
    BY <1>3, <1>5, <1>6, <1>7, <1>8, <1>9, <1>10 DEF Next

(* A bind that is neither used nor expired is removed only for a session   *)
(* that leaves.                                                            *)
THEOREM FreshBindKept == Spec => FreshBindSurvives
<1>1. ASSUME RelayInv, [Next]_vars, NEW c \in ConnIds, routes[c] # NoRoute,
             ~load.reuse, ~routes[c].expired, ~routes[c].opened, routes'[c] = NoRoute
      PROVE  \E t \in Tasks : tasks[t].at = "clean" /\ tasks'[t].at # "clean"
    <2>1. PICK t \in Tasks : RemoveExpired(t) \/ RemoveRoute(t) \/ CleanRoutes(t)
        BY <1>1, WhoRemoves
    <2> DEFINE j == tasks[t]
    <2>2. BindJob(t) /\ RouteJob(t) /\ FoundJob(t)
        BY <1>1 DEF RelayInv, JobsBound
    <2>3. routes \in [ConnIds -> Routes \cup {NoRoute}] /\ routes[c] \in Routes
        BY <1>1 DEF RelayInv, RelayTypes
    <2>4. CASE RemoveExpired(t)
        <3>1. j.at = "expired" /\ j.conn = c /\ routes[c].id = j.id
            BY <1>1, <2>3, <2>4 DEF RemoveExpired
        <3> QED
            BY <1>1, <2>2, <3>1 DEF FoundJob
    <2>5. CASE RemoveRoute(t)
        <3>1. /\ j.at = "remove" /\ j.conn = c
              /\ routes[c].source = j.source /\ routes[c].target = j.target
            BY <1>1, <2>3, <2>5 DEF RemoveRoute, SameEndpoints
        <3>2. IsBind(j.id, c, j.source, j.target) /\ openers[j.id] # <<>>
            BY <2>2, <3>1 DEF RouteJob, IsJob
        <3>3. Unused(c, j.source, routes[c].id) /\ ~(openers[routes[c].id] # <<>>)
            BY <1>1, <3>1 DEF RelayInv, RoutesBound
        <3>4. j.id = routes[c].id
            BY <1>1, <3>2, <3>3 DEF Unused, IsBind
        <3> QED
            BY <3>2, <3>3, <3>4
    <2>6. CASE CleanRoutes(t)
        <3>1. j.at = "clean" /\ j \in Cleanups
            BY <1>1, <2>6, TaskKinds DEF CleanRoutes, RelayInv
        <3>2. tasks \in [Tasks -> Jobs \cup Cleanups \cup {Idle}]
            BY <1>1 DEF RelayInv, RelayTypes
        <3>3. tasks'[t] = Idle \/ tasks'[t] = [j EXCEPT !.at = "close"]
            BY <2>6, <3>2 DEF CleanRoutes, Moves, Does
        <3>4. tasks'[t].at # "clean"
            BY <3>1, <3>3 DEF Cleanups, Idle
        <3> QED
            BY <3>1, <3>4
    <2> QED
        BY <2>1, <2>4, <2>5, <2>6
<1>2. RelayInv /\ [Next]_vars =>
          [\A c \in ConnIds :
              ~load.reuse /\ routes[c] # NoRoute /\ ~routes[c].expired /\ ~routes[c].opened
              /\ routes'[c] # routes[c] /\ routes'[c] = NoRoute
                 => \E t \in Tasks : tasks[t].at = "clean" /\ tasks'[t].at # "clean"]_vars
    BY <1>1
<1> QED
    BY <1>2, AlwaysRelay, PTL DEF Spec, FreshBindSurvives

-----------------------------------------------------------------------------
(* An opened route does not outlive its sessions: the second invariant.    *)

(* Handlers run in the readers and the flow task, clean-ups in the others. *)
JobTasks ==
    \A t \in Tasks :
        /\ IsJob(t) => t[2] \in Readers \cup {"flow"}
        /\ tasks[t].at \in {"scan", "clean"} => t[2] \in {"leave", "purge"}
        /\ tasks[t].at = "close" => t[2] = "purge"

(* A session whose run has returned is closed, and leaves after that. *)
Stages ==
    /\ stage \in [Sessions -> {"attached", "ended", "gone"}]
    /\ \A s \in Sessions :
          /\ stage[s] # "attached" => s \notin open
          /\ tasks[<<s, "leave">>] # Idle => stage[s] = "ended"
    /\ clients \in Seq(Sessions)

(* While the Scope stands, nobody but a session itself takes it off the    *)
(* list, after its run.                                                    *)
Leaving(s) ==
    /\ tasks[<<s, "purge">>] = Idle
    /\ stage[s] # "gone" /\ tasks[<<s, "leave">>] = Idle => s \in Range(clients)

(* The session is gone, or about to remove routes of which this is none.   *)
Past(s, c) ==
    \/ stage[s] = "gone"
    \/ /\ tasks[<<s, "leave">>].at = "clean"
       /\ \A x \in tasks[<<s, "leave">>].stale :
             ~(x.conn = c /\ SameEndpoints(c, x.source, x.target))

(* The task that opened the route is going to remove it. *)
Removes(t, c) ==
    /\ IsJob(t) /\ tasks[t].conn = c /\ tasks[t].id = routes[c].id
    /\ tasks[t].kind \in {"connect", "flow", "control"}
    /\ \/ tasks[t].at \in {"opening", "copying", "remove"}
       \/ tasks[t].at = "send" /\ tasks[t].dest \notin open

EndsWatched(c) ==
    routes[c] # NoRoute /\ routes[c].opened =>
        \A s \in {routes[c].source, routes[c].target} :
            Past(s, c) => \E t \in Tasks : Removes(t, c)

EndsInv ==
    /\ JobTasks /\ Stages
    /\ ~scopeGone => (\A s \in Sessions : Leaving(s)) /\ (\A c \in ConnIds : EndsWatched(c))

LEMMA InitEnds == Init => EndsInv
<1> SUFFICES ASSUME Init PROVE EndsInv
    OBVIOUS
<1>1. load.sessions \subseteq Sessions /\ tasks = [t \in Tasks |-> Idle]
    BY RelayAssumption DEF Init, LoadType
<1>2. JobTasks
    BY <1>1 DEF JobTasks, IsJob, Idle
<1>3. clients \in Seq(Sessions) /\ Range(clients) = load.sessions
    <2> DEFINE n == Cardinality(load.sessions)
    <2>1. IsFiniteSet(load.sessions) /\ n \in Nat
        BY <1>1, RelayAssumption, FS_Subset, FS_CardinalityType
    <2>2. clients \in Injection(1..n, load.sessions)
        BY DEF Init, SetToSeqs, Injection, IsInjective
    <2>3. Cardinality(1..n) = n
        BY <2>1, FS_Interval
    <2>4. clients \in Surjection(1..n, load.sessions)
        BY <2>1, <2>2, <2>3, FS_Injection
    <2>5. clients \in [1..n -> load.sessions]
        BY DEF Init, SetToSeqs
    <2>6. Range(clients) = load.sessions
        BY <2>4, <2>5 DEF Surjection, Range
    <2>7. clients \in [1..n -> Sessions]
        BY <1>1, <2>5
    <2> QED
        BY <2>1, <2>6, <2>7
<1>4. Stages
    BY <1>1, <1>3, LaneTask DEF Init, Stages
<1>5. \A s \in Sessions : Leaving(s)
    BY <1>1, <1>3, LaneTask DEF Init, Leaving
<1>6. \A c \in ConnIds : EndsWatched(c)
    BY DEF Init, EndsWatched
<1> QED
    BY <1>2, <1>4, <1>5, <1>6 DEF EndsInv

(* The opened route is the one that was there, opened.                     *)
SameRoute(c) ==
    /\ routes[c] # NoRoute /\ routes[c].opened
    /\ routes'[c].id = routes[c].id
    /\ routes'[c].source = routes[c].source /\ routes'[c].target = routes[c].target

(* A step of handlers: of what is watched, either nothing is lost, or the  *)
(* route has just been opened by a task that will remove it or between     *)
(* sessions that have not left.                                            *)
LEMMA HandlersStep ==
    ASSUME RelayInv, RelayInv', EndsInv, UNCHANGED <<clients, stage, scopeGone>>,
           open' \subseteq open,
           \A u \in Tasks : tasks'[u] # tasks[u] =>
               /\ u[2] \in Readers \cup {"flow"}
               /\ tasks'[u].at \notin {"scan", "clean", "close"},
           \A c \in ConnIds : routes'[c] # NoRoute /\ routes'[c].opened /\ ~scopeGone =>
               \/ /\ SameRoute(c)
                  /\ \A u \in Tasks : tasks'[u] # tasks[u] /\ Removes(u, c) => Removes(u, c)'
               \/ \E u \in Tasks : Removes(u, c)'
               \/ \A s \in {routes'[c].source, routes'[c].target} : ~Past(s, c)'
    PROVE  EndsInv'
<1>1. JobTasks'
    <2> SUFFICES ASSUME NEW u \in Tasks
                 PROVE  /\ IsJob(u)' => u[2] \in Readers \cup {"flow"}
                        /\ tasks'[u].at \in {"scan", "clean"} => u[2] \in {"leave", "purge"}
                        /\ tasks'[u].at = "close" => u[2] = "purge"
        BY DEF JobTasks
    <2> QED
        BY DEF EndsInv, JobTasks, IsJob
<1>3. ASSUME NEW s \in Sessions
      PROVE  /\ tasks'[<<s, "leave">>] = tasks[<<s, "leave">>]
             /\ tasks'[<<s, "purge">>] = tasks[<<s, "purge">>]
    <2>1. /\ <<s, "leave">> \in Tasks /\ <<s, "leave">>[2] \notin Readers \cup {"flow"}
          /\ <<s, "purge">> \in Tasks /\ <<s, "purge">>[2] \notin Readers \cup {"flow"}
        BY LaneTask DEF Readers
    <2> QED
        BY <2>1
<1>2. Stages'
    BY <1>3 DEF EndsInv, Stages
<1>4. ~scopeGone => \A s \in Sessions : Leaving(s)'
    BY <1>3 DEF EndsInv, Leaving
<1>5. ASSUME ~scopeGone, NEW c \in ConnIds PROVE EndsWatched(c)'
    <2> SUFFICES ASSUME routes'[c] # NoRoute, routes'[c].opened,
                        NEW s \in {routes'[c].source, routes'[c].target}, Past(s, c)'
                 PROVE  \E u \in Tasks : Removes(u, c)'
        BY DEF EndsWatched
    <2>1. s \in Sessions
        BY DEF RelayInv, RelayTypes, Routes
    <2>2. CASE /\ SameRoute(c)
               /\ \A u \in Tasks : tasks'[u] # tasks[u] /\ Removes(u, c) => Removes(u, c)'
        <3>1. Past(s, c)
            <4>1. \A x, y : SameEndpoints(c, x, y)' <=> SameEndpoints(c, x, y)
                BY <2>2 DEF SameEndpoints, SameRoute
            <4>2. tasks'[<<s, "leave">>] = tasks[<<s, "leave">>] /\ stage' = stage
                BY <1>3, <2>1
            <4>3. \/ stage'[s] = "gone"
                  \/ /\ tasks'[<<s, "leave">>].at = "clean"
                     /\ \A x \in tasks'[<<s, "leave">>].stale :
                           ~(x.conn = c /\ SameEndpoints(c, x.source, x.target)')
                BY DEF Past, SameEndpoints
            <4> QED
                BY <4>1, <4>2, <4>3 DEF Past
        <3>2. PICK u \in Tasks : Removes(u, c)
            BY <1>5, <2>2, <3>1 DEF EndsInv, EndsWatched, SameRoute
        <3>3. tasks'[u] = tasks[u] => Removes(u, c)'
            BY <2>2, <3>2 DEF Removes, IsJob, SameRoute
        <3> QED
            BY <2>2, <3>2, <3>3
    <2> QED
        BY <1>5, <2>2
<1> QED
    BY <1>1, <1>2, <1>4, <1>5 DEF EndsInv

(* A step in which one handler goes on and no route changes.               *)
LEMMA HandlerStep ==
    ASSUME RelayInv, RelayInv', EndsInv, UNCHANGED <<clients, stage, open, scopeGone, routes>>,
           NEW t \in Tasks, t[2] \in Readers \cup {"flow"}, NEW j, Does(t, j),
           j.at \notin {"scan", "clean", "close"},
           \A c \in ConnIds : Removes(t, c) => Removes(t, c)'
    PROVE  EndsInv'
<1>1. \A u \in Tasks : u # t => tasks'[u] = tasks[u]
    BY DEF Does, RelayInv, RelayTypes
<1>2. tasks'[t] = j
    BY DEF Does, RelayInv, RelayTypes
<1>3. \A u \in Tasks : tasks'[u] # tasks[u] =>
               /\ u[2] \in Readers \cup {"flow"}
               /\ tasks'[u].at \notin {"scan", "clean", "close"}
    BY <1>1, <1>2
<1>4. \A c \in ConnIds : routes'[c] # NoRoute /\ routes'[c].opened /\ ~scopeGone =>
          /\ SameRoute(c)
          /\ \A u \in Tasks : tasks'[u] # tasks[u] /\ Removes(u, c) => Removes(u, c)'
    BY <1>1 DEF SameRoute
<1>5. open' \subseteq open
    OBVIOUS
<1> QED
    BY <1>3, <1>4, <1>5, HandlersStep

LEMMA ReadersEnds ==
    ASSUME RelayInv, RelayInv', EndsInv, NEW s \in Sessions, NEW c \in ConnIds,
           \/ CloseStores(s, c)
           \/ \E p \in Peers : BindLookup(s, c, p)
           \/ \E kind \in FrameKinds : Forward(s, c, kind)
    PROVE  EndsInv'
<1>1. PICK k, j : /\ k \in Readers
                  /\ tasks[<<s, k>>] = Idle /\ Does(<<s, k>>, j)
                  /\ j.at \notin {"scan", "clean", "close"}
    <2>1. CASE CloseStores(s, c)
        BY <2>1 DEF CloseStores, Reads, Readers, Job, JobFor
    <2>2. ASSUME NEW p \in Peers, BindLookup(s, c, p)
          PROVE  \E j : /\ tasks[<<s, "control">>] = Idle /\ Does(<<s, "control">>, j)
                        /\ j.at \notin {"scan", "clean", "close"}
        BY <2>2 DEF BindLookup, Reads, Job, JobFor
    <2>3. ASSUME NEW kind \in FrameKinds, Forward(s, c, kind)
          PROVE  \E j : /\ tasks[<<s, LaneOf(kind)>>] = Idle /\ Does(<<s, LaneOf(kind)>>, j)
                        /\ j.at \notin {"scan", "clean", "close"}
        BY <2>3 DEF Forward, Reads, Job, JobFor
    <2>4. "control" \in Readers /\ \A kind : LaneOf(kind) \in Readers
        BY DEF LaneOf, Readers
    <2> QED
        BY <2>1, <2>2, <2>3, <2>4
<1>2. UNCHANGED <<clients, stage, open, scopeGone, routes>>
    BY DEF CloseStores, BindLookup, Forward, sessionVars
<1> DEFINE t == <<s, k>>
<1>3. t \in Tasks /\ t[2] = k
    BY <1>1, LaneTask
<1>4. \A d \in ConnIds : ~Removes(t, d)
    BY <1>1 DEF Removes, IsJob, Idle
<1> HIDE DEF t
<1> QED
    BY <1>1, <1>2, <1>3, <1>4, HandlerStep DEF t

LEMMA SendEnds ==
    ASSUME RelayInv, RelayInv', EndsInv, NEW t \in Tasks,
           CloseLoads(t) \/ Send(t) \/ SendRefused(t) \/ FlowOpens(t) \/ FlowEnds(t)
    PROVE  EndsInv'
<1>1. IsJob(t) /\ t[2] \in Readers \cup {"flow"} /\ tasks[t] \in Jobs
    <2>1. IsJob(t)
        BY DEF CloseLoads, Send, SendRefused, FlowOpens, FlowEnds, IsJob
    <2> QED
        BY <2>1, TaskKinds DEF EndsInv, JobTasks, RelayInv
<1>2. UNCHANGED <<clients, stage, open, scopeGone, routes>>
    BY DEF CloseLoads, Send, SendRefused, FlowOpens, FlowEnds, sessionVars
<1>3. tasks \in [Tasks -> Jobs \cup Cleanups \cup {Idle}]
    BY DEF RelayInv, RelayTypes
<1>4. CASE CloseLoads(t)
    <2> DEFINE j == [tasks[t] EXCEPT !.at = "loaded",
                                     !.last = BothClosed(routes[tasks[t].conn], t[1])]
    <2>1. Does(t, j) /\ j.at = "loaded"
        BY <1>1, <1>4 DEF CloseLoads, Jobs
    <2> HIDE DEF j
    <2>2. \A c \in ConnIds : ~Removes(t, c)
        BY <1>4 DEF CloseLoads, Removes
    <2> QED
        BY <1>1, <1>2, <2>1, <2>2, HandlerStep
<1>5. CASE Does(t, Idle) /\ (Send(t) \/ SendRefused(t) \/ FlowOpens(t) \/ FlowEnds(t))
    <2>0. tasks'[t].at = "idle"
        BY <1>3, <1>5 DEF Does, Idle
    <2>1. \A at : Moves(t, at) => tasks'[t].at = at
        BY <1>1, <1>3 DEF Moves, Jobs
    <2>2. \/ tasks[t].at = "send" /\ tasks[t].dest \in open
          \/ tasks[t].at = "send" /\ tasks[t].kind = "udp"
        BY <1>5, <2>0, <2>1 DEF Send, SendRefused, FlowOpens, FlowEnds
    <2>3. \A c \in ConnIds : ~Removes(t, c)
        BY <2>2 DEF Removes
    <2>4. Idle.at = "idle"
        BY DEF Idle
    <2> QED
        BY <1>1, <1>2, <1>5, <2>3, <2>4, HandlerStep
<1>6. ASSUME NEW at \in {"remove", "copying"}, Moves(t, at) PROVE EndsInv'
    <2> DEFINE j == [tasks[t] EXCEPT !.at = at]
    <2>1. /\ j.at = at /\ j.conn = tasks[t].conn /\ j.id = tasks[t].id
          /\ j.kind = tasks[t].kind
        BY <1>1 DEF Jobs
    <2>2. Does(t, j) /\ tasks'[t] = j
        BY <1>3, <1>6 DEF Moves, Does
    <2> HIDE DEF j
    <2>3. \A c \in ConnIds : Removes(t, c) => Removes(t, c)'
        BY <1>2, <2>1, <2>2 DEF Removes, IsJob
    <2> QED
        BY <1>1, <1>2, <2>1, <2>2, <2>3, HandlerStep
<1> QED
    BY <1>4, <1>5, <1>6 DEF Send, SendRefused, FlowOpens, FlowEnds

LEMMA AgeEnds ==
    ASSUME RelayInv, RelayInv', EndsInv, NEW d \in ConnIds, Age(d)
    PROVE  EndsInv'
<1>1. UNCHANGED <<clients, stage, open, scopeGone, tasks>>
    BY DEF Age, sessionVars
<1>2. routes[d] \in Routes /\ routes'[d] = [routes[d] EXCEPT !.expired = TRUE]
    BY DEF Age, RelayInv, RelayTypes
<1>3. \A c \in ConnIds : c # d => routes'[c] = routes[c]
    BY DEF Age, RelayInv, RelayTypes
<1>4. /\ routes[d] # NoRoute /\ routes'[d].opened = routes[d].opened
      /\ routes'[d].id = routes[d].id
      /\ routes'[d].source = routes[d].source /\ routes'[d].target = routes[d].target
    BY <1>2 DEF Age, Routes
<1>5. \A c \in ConnIds : routes'[c] # NoRoute /\ routes'[c].opened => SameRoute(c)
    BY <1>3, <1>4 DEF SameRoute
<1>6. open' \subseteq open
    BY <1>1
<1> QED
    BY <1>1, <1>5, <1>6, HandlersStep

LEMMA CarrierEnds ==
    ASSUME RelayInv, RelayInv', EndsInv, NEW s \in Sessions, CarrierCloses(s)
    PROVE  EndsInv'
<1>1. UNCHANGED <<clients, stage, scopeGone, tasks, routes>> /\ open' \subseteq open
    BY DEF CarrierCloses
<1>2. \A c \in ConnIds : routes'[c] # NoRoute /\ routes'[c].opened => SameRoute(c)
    BY <1>1 DEF SameRoute
<1> QED
    BY <1>1, <1>2, HandlersStep

LEMMA CloseReleasesEnds ==
    ASSUME RelayInv, RelayInv', EndsInv, NEW t \in Tasks, CloseReleases(t)
    PROVE  EndsInv'
<1> DEFINE d == tasks[t].conn
<1>1. tasks[t].at = "loaded" /\ UNCHANGED <<clients, stage, open, scopeGone>>
    BY DEF CloseReleases, sessionVars
<1>2. IsJob(t) /\ tasks[t] \in Jobs /\ t[2] \in Readers \cup {"flow"}
    BY <1>1, TaskKinds DEF IsJob, EndsInv, JobTasks, RelayInv
<1>3. d \in ConnIds /\ routes[d] # NoRoute
    BY <1>1, <1>2 DEF Jobs, RelayInv, JobsBound, FoundJob
<1>4. tasks'[t].at = "send" /\ \A u \in Tasks : u # t => tasks'[u] = tasks[u]
    BY <1>2 DEF CloseReleases, Moves, RelayInv, RelayTypes, Jobs
<1>5. routes[d] \in Routes /\ routes'[d] = [routes[d] EXCEPT !.closed = @ \cup {t[1]}]
    BY <1>3 DEF CloseReleases, RelayInv, RelayTypes
<1>6. \A c \in ConnIds : c # d => routes'[c] = routes[c]
    BY <1>3 DEF CloseReleases, RelayInv, RelayTypes
<1>7. /\ routes'[d].opened = routes[d].opened /\ routes'[d].id = routes[d].id
      /\ routes'[d].source = routes[d].source /\ routes'[d].target = routes[d].target
    BY <1>5 DEF Routes
<1> HIDE DEF d
<1>8. \A c \in ConnIds : routes'[c] # NoRoute /\ routes'[c].opened => SameRoute(c)
    BY <1>3, <1>6, <1>7 DEF SameRoute
<1>9. \A c \in ConnIds : ~Removes(t, c)
    BY <1>1 DEF Removes
<1>10. open' \subseteq open
    BY <1>1
<1> QED
    BY <1>1, <1>2, <1>4, <1>8, <1>9, <1>10, HandlersStep

LEMMA RemoveEnds ==
    ASSUME RelayInv, RelayInv', EndsInv, NEW t \in Tasks, RemoveExpired(t) \/ RemoveRoute(t)
    PROVE  EndsInv'
<1> DEFINE j == tasks[t]
<1>1. j.at \in {"expired", "remove"} /\ UNCHANGED <<clients, stage, open, scopeGone>>
    BY DEF RemoveExpired, RemoveRoute, sessionVars
<1>2. IsJob(t) /\ j \in Jobs /\ t[2] \in Readers \cup {"flow"} /\ RouteJob(t)
    BY <1>1, TaskKinds DEF IsJob, EndsInv, JobTasks, RelayInv, JobsBound
<1>3. tasks'[t] = Idle /\ \A u \in Tasks : u # t => tasks'[u] = tasks[u]
    BY DEF RemoveExpired, RemoveRoute, Does, RelayInv, RelayTypes
<1>4. routes' = routes \/ routes' = [routes EXCEPT ![j.conn] = NoRoute]
    BY DEF RemoveExpired, RemoveRoute
<1>5. \A c \in ConnIds : routes'[c] # NoRoute => routes'[c] = routes[c]
    BY <1>4 DEF RelayInv, RelayTypes
<1>6. ASSUME NEW c \in ConnIds, routes'[c] # NoRoute, Removes(t, c) PROVE FALSE
    <2>1. j.at = "remove" /\ j.conn = c /\ j.id = routes[c].id /\ routes[c] # NoRoute
        BY <1>1, <1>5, <1>6 DEF Removes
    <2>2. /\ IsBind(j.id, c, j.source, j.target)
          /\ IsBind(j.id, c, routes[c].source, routes[c].target)
        BY <1>2, <2>1 DEF RouteJob, RelayInv, RoutesBound
    <2>3. SameEndpoints(c, j.source, j.target)
        BY <2>1, <2>2 DEF IsBind, SameEndpoints
    <2>4. routes'[c] = NoRoute
        BY <2>1, <2>3 DEF RemoveExpired, RemoveRoute, RelayInv, RelayTypes
    <2> QED
        BY <1>6, <2>4
<1>7. \A c \in ConnIds : routes'[c] # NoRoute /\ routes'[c].opened => SameRoute(c)
    BY <1>5 DEF SameRoute
<1>8. tasks'[t].at = "idle" /\ open' \subseteq open
    BY <1>1, <1>3 DEF Idle
<1> QED
    BY <1>1, <1>2, <1>3, <1>6, <1>7, <1>8, HandlersStep

LEMMA BindInsertEnds ==
    ASSUME RelayInv, RelayInv', EndsInv, NEW t \in Tasks, BindInsert(t)
    PROVE  EndsInv'
<1>1. tasks[t].at = "bind" /\ UNCHANGED <<clients, stage, open, scopeGone>>
    BY DEF BindInsert, sessionVars
<1>2. IsJob(t) /\ t[2] \in Readers \cup {"flow"}
    BY <1>1 DEF IsJob, EndsInv, JobTasks
<1>3. tasks'[t] = Idle /\ \A u \in Tasks : u # t => tasks'[u] = tasks[u]
    BY DEF BindInsert, Does, RelayInv, RelayTypes
<1>4. \A c \in ConnIds : routes'[c] # NoRoute /\ routes'[c].opened => routes'[c] = routes[c]
    BY DEF BindInsert, RelayInv, RelayTypes
<1>5. \A c \in ConnIds : routes'[c] # NoRoute /\ routes'[c].opened => SameRoute(c)
    BY <1>4 DEF SameRoute
<1>6. \A c \in ConnIds : ~Removes(t, c)
    BY <1>1 DEF Removes
<1>7. tasks'[t].at = "idle" /\ open' \subseteq open
    BY <1>1, <1>3 DEF Idle
<1> QED
    BY <1>1, <1>2, <1>3, <1>5, <1>6, <1>7, HandlersStep

(* A route that is opened: its source is attached, and its target still    *)
(* has its carrier, or the opener finds it closed and removes the route.   *)
LEMMA OpenedEnds ==
    ASSUME RelayInv, RelayInv', EndsInv, NEW s \in Sessions, NEW d \in ConnIds,
           NEW k \in Readers \cup {"flow"}, NEW j,
           Reads(s, k), routes[d] # NoRoute, routes[d].source = s,
           Does(<<s, k>>, j), j.at \in {"send", "opening"}, j.conn = d,
           j.id = routes[d].id, j.kind \in {"connect", "flow", "control"},
           j.dest = routes[d].target,
           \A c \in ConnIds : c # d => routes'[c] = routes[c],
           routes'[d].id = routes[d].id, routes'[d].source = routes[d].source,
           routes'[d].target = routes[d].target,
           UNCHANGED <<clients, stage, open, scopeGone>>
    PROVE  EndsInv'
<1> DEFINE t == <<s, k>>
<1>1. t \in Tasks /\ t[2] = k
    BY LaneTask
<1>2. tasks'[t] = j /\ \A u \in Tasks : u # t => tasks'[u] = tasks[u]
    BY <1>1 DEF Does, RelayInv, RelayTypes
<1>3. stage[s] = "attached" /\ tasks[t] = Idle
    BY DEF Reads
<1>4. routes[d].target \in Sessions
    BY DEF RelayInv, RelayTypes, Routes
<1> HIDE DEF t
<1>5. \A c \in ConnIds : ~Removes(t, c)
    BY <1>3 DEF Removes, IsJob, Idle
<1>6. ASSUME ~scopeGone, NEW x \in Sessions, stage[x] = "attached" PROVE ~Past(x, d)'
    <2>1. tasks[<<x, "leave">>] = Idle /\ <<x, "leave">> \in Tasks
        BY <1>6, LaneTask DEF EndsInv, Stages
    <2>2. <<x, "leave">> # t
        BY <1>1 DEF Readers
    <2>3. tasks'[<<x, "leave">>] = Idle
        BY <1>2, <2>1, <2>2
    <2>4. tasks'[<<x, "leave">>].at = "idle"
        BY <2>3 DEF Idle
    <2> QED
        BY <1>6, <2>4 DEF Past
<1>7. ~scopeGone => \/ Removes(t, d)'
                    \/ \A x \in {routes'[d].source, routes'[d].target} : ~Past(x, d)'
    <2>1. CASE routes[d].target \in open
        <3>1. stage[routes[d].target] = "attached"
            BY <1>4, <2>1 DEF EndsInv, Stages
        <3> QED
            BY <1>3, <1>4, <1>6, <3>1
    <2>2. CASE routes[d].target \notin open
        BY <1>2, <2>2 DEF Removes, IsJob
    <2> QED
        BY <2>1, <2>2
<1>8. \A c \in ConnIds : c # d /\ routes'[c] # NoRoute /\ routes'[c].opened => SameRoute(c)
    BY DEF SameRoute
<1>9. \A u \in Tasks : tasks'[u] # tasks[u] =>
          /\ u[2] \in Readers \cup {"flow"}
          /\ tasks'[u].at \notin {"scan", "clean", "close"}
    BY <1>1, <1>2
<1>10. open' \subseteq open
    OBVIOUS
<1>11. \A c \in ConnIds : routes'[c] # NoRoute /\ routes'[c].opened /\ ~scopeGone =>
          \/ /\ SameRoute(c)
             /\ \A u \in Tasks : tasks'[u] # tasks[u] /\ Removes(u, c) => Removes(u, c)'
          \/ \E u \in Tasks : Removes(u, c)'
          \/ \A x \in {routes'[c].source, routes'[c].target} : ~Past(x, c)'
    BY <1>1, <1>2, <1>5, <1>7, <1>8
<1> QED
    BY <1>9, <1>10, <1>11, HandlersStep

LEMMA OpenBoundEnds ==
    ASSUME RelayInv, RelayInv', EndsInv, NEW s \in Sessions, NEW c \in ConnIds,
           RelayConnect(s, c) \/ RelayFlow(s, c)
    PROVE  EndsInv'
<1>1. PICK k \in {"stream", "flow"}, kind \in {"connect", "flow"}, at \in {"send", "opening"} :
          OpenBound(s, c, k, kind, at)
    BY DEF RelayConnect, RelayFlow
<1> DEFINE r == routes[c]
<1>2. /\ Reads(s, k) /\ r # NoRoute /\ r.source = s /\ k \in Readers \cup {"flow"}
      /\ UNCHANGED <<clients, stage, open, scopeGone>>
    BY <1>1 DEF OpenBound, sessionVars, Readers
<1>3. r \in Routes
    BY <1>2 DEF RelayInv, RelayTypes
<1>4. CASE /\ routes' = [routes EXCEPT ![c].opened = TRUE]
           /\ Does(<<s, k>>, Job(at, kind, c, r, r.target, FALSE))
    <2> DEFINE j == Job(at, kind, c, r, r.target, FALSE)
    <2>1. /\ j.at = at /\ j.conn = c /\ j.id = r.id /\ j.kind = kind /\ j.dest = r.target
        BY DEF Job, JobFor
    <2>2. routes'[c] = [r EXCEPT !.opened = TRUE] /\ \A d \in ConnIds : d # c => routes'[d] = routes[d]
        BY <1>4 DEF RelayInv, RelayTypes
    <2>3. routes'[c].id = r.id /\ routes'[c].source = r.source /\ routes'[c].target = r.target
        BY <1>3, <2>2 DEF Routes
    <2>4. j.at \in {"send", "opening"} /\ j.kind \in {"connect", "flow", "control"}
        BY <2>1
    <2>5. Does(<<s, k>>, j)
        BY <1>4
    <2> HIDE DEF j
    <2> QED
        BY <1>2, <2>1, <2>2, <2>3, <2>4, <2>5, OpenedEnds
<1>5. CASE /\ UNCHANGED routes
           /\ Does(<<s, k>>, Job("expired", kind, c, r, r.target, FALSE))
    <2> DEFINE j == Job("expired", kind, c, r, r.target, FALSE)
    <2>1. j.at = "expired"
        BY DEF Job, JobFor
    <2> DEFINE t == <<s, k>>
    <2>2. t \in Tasks /\ t[2] = k /\ tasks[t] = Idle
        BY <1>2, LaneTask DEF Reads
    <2> HIDE DEF j, t
    <2>3. \A d \in ConnIds : ~Removes(t, d)
        BY <2>2 DEF Removes, IsJob, Idle
    <2> QED
        BY <1>2, <1>5, <2>1, <2>2, <2>3, HandlerStep DEF j, t
<1> QED
    BY <1>1, <1>4, <1>5 DEF OpenBound

LEMMA ForwardControlEnds ==
    ASSUME RelayInv, RelayInv', EndsInv, NEW s \in Sessions, NEW c \in ConnIds, NEW p \in Peers,
           NEW kind \in FrameKinds, ForwardControl(s, c, p, kind)
    PROVE  EndsInv'
<1> DEFINE r == routes[c]
<1> DEFINE j == Job("send", kind, c, r, Other(r, s), kind = "abort")
<1>1. /\ Reads(s, "control") /\ r # NoRoute /\ Does(<<s, "control">>, j)
      /\ "control" \in Readers \cup {"flow"}
      /\ UNCHANGED <<clients, stage, open, scopeGone>>
    BY DEF ForwardControl, sessionVars, Readers
<1>2. r \in Routes
    BY <1>1 DEF RelayInv, RelayTypes
<1>3. j.at = "send" /\ j.conn = c /\ j.id = r.id /\ j.kind = kind /\ j.dest = Other(r, s)
    BY DEF Job, JobFor
<1>4. CASE /\ kind = "control" /\ s = r.source
           /\ routes' = [routes EXCEPT ![c].opened = TRUE, ![c].sealed = TRUE]
    <2>1. /\ routes'[c] = [r EXCEPT !.opened = TRUE, !.sealed = TRUE]
          /\ \A d \in ConnIds : d # c => routes'[d] = routes[d]
        BY <1>4 DEF RelayInv, RelayTypes
    <2>2. routes'[c].id = r.id /\ routes'[c].source = r.source /\ routes'[c].target = r.target
        BY <1>2, <2>1 DEF Routes
    <2>3. j.dest = r.target
        BY <1>3, <1>4 DEF Other
    <2>4. j.at \in {"send", "opening"} /\ j.kind \in {"connect", "flow", "control"}
        BY <1>3, <1>4
    <2>5. r.source = s
        BY <1>4
    <2> HIDE DEF j
    <2> QED
        BY <1>1, <1>3, <2>1, <2>2, <2>3, <2>4, <2>5, OpenedEnds
<1>5. CASE UNCHANGED routes
    <2> DEFINE t == <<s, "control">>
    <2>1. t \in Tasks /\ t[2] = "control" /\ tasks[t] = Idle
        BY <1>1, LaneTask DEF Reads
    <2> HIDE DEF j, t
    <2>2. \A d \in ConnIds : ~Removes(t, d)
        BY <2>1 DEF Removes, IsJob, Idle
    <2> QED
        BY <1>1, <1>3, <1>5, <2>1, <2>2, HandlerStep DEF t
<1> QED
    BY <1>4, <1>5 DEF ForwardControl

(* While the Scope stands, run returns only when its readers are idle.     *)
LEMMA EndRunEnds ==
    ASSUME RelayInv, RelayInv', EndsInv, NEW s \in Sessions, EndRun(s)
    PROVE  EndsInv'
<1>1. /\ stage[s] = "attached" /\ stage' = [stage EXCEPT ![s] = "ended"]
      /\ open' = open \ {s} /\ UNCHANGED <<clients, scopeGone, routes>>
      /\ \A t \in Tasks : tasks'[t] \in {tasks[t], Idle}
    BY DEF EndRun
<1>2. JobTasks'
    BY <1>1 DEF EndsInv, JobTasks, IsJob, Idle
<1>3. Stages'
    BY <1>1, LaneTask DEF EndsInv, Stages
<1>4. ASSUME ~scopeGone PROVE tasks' = tasks
    <2>1. \A t \in Tasks : tasks'[t] = tasks[t]
        BY <1>4 DEF EndRun
    <2> QED
        BY <2>1 DEF RelayInv, RelayTypes
<1>5. ~scopeGone => \A x \in Sessions : Leaving(x)'
    BY <1>1, <1>4 DEF EndsInv, Stages, Leaving
<1>6. ASSUME ~scopeGone, NEW c \in ConnIds PROVE EndsWatched(c)'
    <2> SUFFICES ASSUME routes[c] # NoRoute, routes[c].opened,
                        NEW x \in {routes[c].source, routes[c].target}, Past(x, c)'
                 PROVE  \E u \in Tasks : Removes(u, c)'
        BY <1>1 DEF EndsWatched
    <2>1. x \in Sessions
        BY DEF RelayInv, RelayTypes, Routes
    <2>2. Past(x, c)
        BY <1>1, <1>4, <1>6, <2>1 DEF Past, SameEndpoints, EndsInv, Stages
    <2>3. PICK u \in Tasks : Removes(u, c)
        BY <1>6, <2>2 DEF EndsInv, EndsWatched
    <2>4. Removes(u, c)'
        BY <1>1, <1>4, <1>6, <2>3 DEF Removes, IsJob
    <2> QED
        BY <2>4
<1> QED
    BY <1>1, <1>2, <1>3, <1>5, <1>6 DEF EndsInv

LEMMA LeaveListEnds ==
    ASSUME RelayInv, RelayInv', EndsInv, NEW s \in Sessions, NEW who \in {"leave", "purge"},
           LeaveList(s, who)
    PROVE  EndsInv'
<1> DEFINE t == <<s, who>>
<1> DEFINE j == [at |-> "scan", stale |-> {}]
<1>1. t \in Tasks /\ t[1] = s /\ t[2] = who /\ tasks[t] = Idle
    BY LaneTask DEF LeaveList
<1>2. UNCHANGED <<open, routes, scopeGone>>
    BY DEF LeaveList
<1>3. CASE /\ clients = <<>> /\ stage' = [stage EXCEPT ![s] = "gone"]
           /\ UNCHANGED <<clients, tasks>>
    <2>1. scopeGone
        <3>1. Range(clients) = {}
            BY <1>3 DEF Range
        <3> QED
            BY <1>1, <3>1 DEF LeaveList, EndsInv, Leaving
    <2>2. JobTasks'
        BY <1>3 DEF EndsInv, JobTasks, IsJob
    <2>3. s \notin open
        BY <1>3 DEF LeaveList, EndsInv, Stages, Range
    <2>4. Stages'
        <3>1. who = "leave"
            BY <1>3 DEF LeaveList, Range
        <3> QED
            BY <1>1, <1>2, <1>3, <2>3, <3>1 DEF EndsInv, Stages
    <2> QED
        BY <1>2, <2>1, <2>2, <2>4 DEF EndsInv
<1>4. CASE clients' = RemoveFirst(clients, s) /\ Does(t, j) /\ UNCHANGED stage
    <2>1. /\ clients' \in Seq(Sessions)
          /\ \A x \in Range(clients) : x # s => x \in Range(clients')
        BY <1>4, RemoveFirstEntries DEF EndsInv, Stages
    <2>2. tasks'[t] = j /\ \A u \in Tasks : u # t => tasks'[u] = tasks[u]
        BY <1>1, <1>4 DEF Does, RelayInv, RelayTypes
    <2>3. j.at = "scan"
        OBVIOUS
    <2> HIDE DEF j, t
    <2>4. JobTasks'
        BY <1>1, <2>2, <2>3 DEF EndsInv, JobTasks, IsJob
    <2>5. Stages'
        <3>1. \A x \in Sessions : <<x, "leave">> \in Tasks
            BY LaneTask
        <3>2. \A x \in Sessions : <<x, "leave">> = t => stage[x] = "ended"
            BY DEF LeaveList, t
        <3> QED
            BY <1>2, <1>4, <2>1, <2>2, <3>1, <3>2 DEF EndsInv, Stages
    <2>6. ASSUME ~scopeGone PROVE who = "leave" /\ stage[s] = "ended"
        BY <2>6 DEF LeaveList, EndsInv, Leaving
    <2>7. ASSUME ~scopeGone, NEW x \in Sessions PROVE Leaving(x)'
        <3>1. Leaving(x)
            BY <2>7 DEF EndsInv
        <3>2. /\ <<x, "purge">> \in Tasks /\ <<x, "leave">> \in Tasks /\ <<x, "purge">> # t
              /\ <<x, "leave">> = t <=> x = s
            BY <2>6, <2>7, LaneTask DEF t
        <3>3. CASE x = s
            <4>1. tasks'[<<x, "leave">>] # Idle
                BY <2>2, <2>3, <3>2, <3>3 DEF Idle
            <4> QED
                BY <1>4, <2>2, <2>6, <2>7, <3>1, <3>2, <3>3, <4>1 DEF Leaving
        <3>4. CASE x # s
            BY <1>4, <2>1, <2>2, <3>1, <3>2, <3>4 DEF Leaving
        <3> QED
            BY <3>3, <3>4
    <2>8. ASSUME ~scopeGone, NEW c \in ConnIds PROVE EndsWatched(c)'
        <3> SUFFICES ASSUME routes[c] # NoRoute, routes[c].opened,
                            NEW x \in {routes[c].source, routes[c].target}, Past(x, c)'
                     PROVE  \E u \in Tasks : Removes(u, c)'
            BY <1>2 DEF EndsWatched
        <3>1. x \in Sessions /\ <<x, "leave">> \in Tasks
            BY LaneTask DEF RelayInv, RelayTypes, Routes
        <3>2. <<x, "leave">> # t => tasks'[<<x, "leave">>] = tasks[<<x, "leave">>]
            BY <2>2, <3>1
        <3>3. <<x, "leave">> = t => stage[x] = "gone"
            BY <1>4, <2>2, <2>3 DEF Past
        <3>4. Past(x, c)
            BY <1>2, <1>4, <3>2, <3>3 DEF Past, SameEndpoints
        <3>5. PICK u \in Tasks : Removes(u, c)
            BY <2>8, <3>4 DEF EndsInv, EndsWatched
        <3>6. u # t
            BY <1>1, <3>5 DEF Removes, IsJob, Idle
        <3>7. Removes(u, c)'
            BY <1>2, <2>2, <3>5, <3>6 DEF Removes, IsJob
        <3> QED
            BY <3>7
    <2> QED
        BY <1>2, <2>4, <2>5, <2>7, <2>8 DEF EndsInv
<1> QED
    BY <1>3, <1>4 DEF LeaveList

(* The clean-up of a session: it finds every route of the session that is  *)
(* open by then.                                                           *)
LEMMA ScanEnds ==
    ASSUME RelayInv, RelayInv', EndsInv, NEW t \in Tasks, ScanRoutes(t)
    PROVE  EndsInv'
<1> DEFINE stale == {c \in ConnIds : Stale(routes[c], t[1])}
<1> DEFINE j == [at |-> "clean",
                 stale |-> {[conn |-> c, source |-> routes[c].source,
                             target |-> routes[c].target] : c \in stale}]
<1>1. /\ tasks[t].at = "scan" /\ Does(t, j)
      /\ UNCHANGED <<clients, stage, open, scopeGone, routes>>
    BY DEF ScanRoutes, sessionVars
<1>2. tasks'[t] = j /\ \A u \in Tasks : u # t => tasks'[u] = tasks[u]
    BY <1>1 DEF Does, RelayInv, RelayTypes
<1>3. t[1] \in Sessions /\ t[2] \in {"leave", "purge"} /\ t = <<t[1], t[2]>>
    BY <1>1 DEF EndsInv, JobTasks, Tasks
<1>4. /\ j.at = "clean"
      /\ \A c \in ConnIds : Stale(routes[c], t[1]) =>
            \E x \in j.stale : /\ x.conn = c /\ x.source = routes[c].source
                               /\ x.target = routes[c].target
    <2>1. j.stale = {[conn |-> c, source |-> routes[c].source,
                      target |-> routes[c].target] : c \in stale} /\ j.at = "clean"
        OBVIOUS
    <2> HIDE DEF j
    <2>2. ASSUME NEW c \in ConnIds, Stale(routes[c], t[1])
          PROVE  [conn |-> c, source |-> routes[c].source, target |-> routes[c].target]
                    \in j.stale
        BY <2>1, <2>2
    <2> QED
        BY <2>1, <2>2
<1> HIDE DEF j
<1>5. JobTasks'
    BY <1>2, <1>3, <1>4 DEF EndsInv, JobTasks, IsJob
<1>6. Stages'
    <2>1. \A x \in Sessions : <<x, "leave">> \in Tasks
        BY LaneTask
    <2>2. tasks[t] # Idle
        BY <1>1 DEF Idle
    <2> QED
        BY <1>1, <1>2, <2>1, <2>2 DEF EndsInv, Stages
<1>7. ASSUME ~scopeGone, NEW x \in Sessions PROVE Leaving(x)'
    <2>1. Leaving(x) /\ Leaving(t[1])
        BY <1>3, <1>7 DEF EndsInv
    <2>2. tasks[t] # Idle /\ j # Idle
        BY <1>1, <1>4 DEF Idle
    <2>3. <<x, "leave">> \in Tasks /\ <<x, "purge">> \in Tasks
        BY LaneTask
    <2>4. <<x, "purge">> # t
        BY <2>1, <2>2 DEF Leaving
    <2>5. CASE <<x, "leave">> = t
        BY <1>1, <1>2, <2>1, <2>2, <2>3, <2>4, <2>5 DEF Leaving
    <2>6. CASE <<x, "leave">> # t
        BY <1>1, <1>2, <2>1, <2>3, <2>4, <2>6 DEF Leaving
    <2> QED
        BY <2>5, <2>6
<1>8. ASSUME ~scopeGone, NEW c \in ConnIds PROVE EndsWatched(c)'
    <2> SUFFICES ASSUME routes[c] # NoRoute, routes[c].opened,
                        NEW x \in {routes[c].source, routes[c].target}, Past(x, c)'
                 PROVE  \E u \in Tasks : Removes(u, c)'
        BY <1>1 DEF EndsWatched
    <2>1. x \in Sessions /\ <<x, "leave">> \in Tasks
        BY LaneTask DEF RelayInv, RelayTypes, Routes
    <2>2. CASE <<x, "leave">> = t
        <3>1. stage[x] = "ended"
            <4>1. tasks[<<x, "leave">>] # Idle
                BY <1>1, <2>2 DEF Idle
            <4> QED
                BY <2>1, <4>1 DEF EndsInv, Stages
        <3>2. Stale(routes[c], t[1])
            <4>1. t[1] = x
                BY <2>2
            <4> QED
                BY <4>1 DEF Stale, OnRoute
        <3>3. PICK y \in j.stale : /\ y.conn = c /\ y.source = routes[c].source
                                   /\ y.target = routes[c].target
            BY <1>4, <3>2
        <3>4. tasks'[<<x, "leave">>] = j
            BY <1>2, <2>2
        <3>5. ~Past(x, c)'
            BY <1>1, <3>1, <3>3, <3>4 DEF Past, SameEndpoints
        <3> QED
            BY <3>5
    <2>3. CASE <<x, "leave">> # t
        <3>1. tasks'[<<x, "leave">>] = tasks[<<x, "leave">>]
            BY <1>2, <2>1, <2>3
        <3>2. Past(x, c)
            BY <1>1, <3>1 DEF Past, SameEndpoints
        <3>3. PICK u \in Tasks : Removes(u, c)
            BY <1>8, <3>2 DEF EndsInv, EndsWatched
        <3>4. u # t
            BY <1>1, <3>3 DEF Removes, IsJob
        <3>5. Removes(u, c)'
            BY <1>1, <1>2, <3>3, <3>4 DEF Removes, IsJob
        <3> QED
            BY <3>5
    <2> QED
        BY <2>2, <2>3
<1> QED
    BY <1>1, <1>5, <1>6, <1>7, <1>8 DEF EndsInv

(* ... and what it leaves behind was past it before.                       *)
LEMMA CleanEnds ==
    ASSUME RelayInv, RelayInv', EndsInv, NEW t \in Tasks, CleanRoutes(t)
    PROVE  EndsInv'
<1> DEFINE s == t[1]
<1>1. tasks[t].at = "clean" /\ UNCHANGED <<clients, open, scopeGone>>
    BY DEF CleanRoutes
<1>2. s \in Sessions /\ t[2] \in {"leave", "purge"} /\ t = <<s, t[2]>>
    BY <1>1 DEF EndsInv, JobTasks, Tasks
<1>3. tasks[t] \in Cleanups
    BY <1>1, TaskKinds DEF RelayInv
<1>4. /\ \A u \in Tasks : u # t => tasks'[u] = tasks[u]
      /\ t[2] = "purge" => tasks'[t].at = "close" /\ stage' = stage
      /\ t[2] # "purge" => tasks'[t] = Idle /\ stage' = [stage EXCEPT ![s] = "gone"]
    BY <1>3 DEF CleanRoutes, Moves, Does, RelayInv, RelayTypes, Cleanups
<1>5. JobTasks'
    BY <1>2, <1>4 DEF EndsInv, JobTasks, IsJob, Idle
<1>6. ASSUME ~scopeGone PROVE t = <<s, "leave">> /\ t[2] # "purge" /\ stage[s] = "ended"
    <2>1. tasks[t] # Idle
        BY <1>1 DEF Idle
    <2> QED
        BY <1>2, <1>6, <2>1 DEF EndsInv, Stages, Leaving
<1> HIDE DEF s
<1>7. ASSUME t[2] # "purge" PROVE s \notin open
    <2>1. t = <<s, "leave">> /\ tasks[t] # Idle
        BY <1>1, <1>2, <1>7 DEF Idle
    <2> QED
        BY <1>2, <2>1 DEF EndsInv, Stages
<1>8. Stages'
    <2>1. \A x \in Sessions : <<x, "leave">> \in Tasks /\ (<<x, "leave">> = t => x = s)
        BY <1>2, LaneTask
    <2>2. CASE t[2] = "purge"
        <3>1. \A x \in Sessions : <<x, "leave">> # t
            BY <2>2
        <3> QED
            BY <1>1, <1>4, <2>1, <2>2, <3>1 DEF EndsInv, Stages
    <2>3. CASE t[2] # "purge"
        <3>1. t = <<s, "leave">>
            BY <1>2, <2>3
        <3>2. stage' = [stage EXCEPT ![s] = "gone"] /\ tasks'[t] = Idle
            BY <1>4, <2>3
        <3> QED
            BY <1>1, <1>2, <1>4, <1>7, <2>1, <2>3, <3>1, <3>2 DEF EndsInv, Stages
    <2> QED
        BY <2>2, <2>3
<1>9. ASSUME ~scopeGone, NEW x \in Sessions PROVE Leaving(x)'
    <2>1. Leaving(x) /\ stage \in [Sessions -> {"attached", "ended", "gone"}]
        BY <1>9 DEF EndsInv, Stages
    <2>2. <<x, "leave">> \in Tasks /\ <<x, "purge">> \in Tasks /\ <<x, "purge">> # t
        BY <1>6, <1>9, LaneTask
    <2>3. CASE x = s
        BY <1>1, <1>4, <1>6, <1>9, <2>1, <2>2, <2>3 DEF Leaving
    <2>4. CASE x # s
        <3>1. <<x, "leave">> # t
            BY <1>6, <1>9, <2>4
        <3> QED
            BY <1>1, <1>4, <1>6, <1>9, <2>1, <2>2, <2>4, <3>1 DEF Leaving
    <2> QED
        BY <2>3, <2>4
<1>10. ASSUME ~scopeGone, NEW c \in ConnIds PROVE EndsWatched(c)'
    <2> SUFFICES ASSUME routes'[c] # NoRoute, routes'[c].opened,
                        NEW x \in {routes'[c].source, routes'[c].target}, Past(x, c)'
                 PROVE  \E u \in Tasks : Removes(u, c)'
        BY DEF EndsWatched
    <2>1. /\ routes'[c] = routes[c]
          /\ ~ \E y \in tasks[t].stale : y.conn = c /\ SameEndpoints(c, y.source, y.target)
        BY DEF CleanRoutes
    <2>2. x \in Sessions /\ <<x, "leave">> \in Tasks
        BY <2>1, LaneTask DEF RelayInv, RelayTypes, Routes
    <2>3. Past(x, c)
        <3>1. CASE x = s
            BY <1>1, <1>6, <1>10, <2>1, <3>1 DEF Past
        <3>2. CASE x # s
            <4>1. tasks'[<<x, "leave">>] = tasks[<<x, "leave">>]
                BY <1>4, <1>6, <1>10, <2>2, <3>2
            <4>2. stage'[x] = stage[x]
                BY <1>4, <1>6, <1>10, <2>2, <3>2 DEF EndsInv, Stages
            <4> QED
                BY <2>1, <4>1, <4>2 DEF Past, SameEndpoints
        <3> QED
            BY <3>1, <3>2
    <2>4. PICK u \in Tasks : Removes(u, c)
        BY <1>10, <2>1, <2>3 DEF EndsInv, EndsWatched
    <2>5. u # t
        BY <1>1, <2>4 DEF Removes, IsJob
    <2>6. Removes(u, c)'
        BY <1>1, <1>4, <2>1, <2>4, <2>5 DEF Removes, IsJob
    <2> QED
        BY <2>6
<1> QED
    BY <1>1, <1>5, <1>8, <1>9, <1>10 DEF EndsInv

LEMMA PurgeClosesEnds ==
    ASSUME RelayInv, RelayInv', EndsInv, NEW t \in Tasks, PurgeCloses(t)
    PROVE  EndsInv'
<1>1. /\ tasks[t].at = "close" /\ open' = open \ {t[1]}
      /\ UNCHANGED <<clients, stage, scopeGone>>
    BY DEF PurgeCloses
<1>2. t[2] = "purge" /\ t[1] \in Sessions /\ t = <<t[1], "purge">>
    BY <1>1 DEF EndsInv, JobTasks, Tasks
<1>3. scopeGone
    <2>1. tasks[<<t[1], "purge">>] # Idle
        BY <1>1, <1>2 DEF Idle
    <2> QED
        BY <1>2, <2>1 DEF EndsInv, Leaving
<1>4. \A u \in Tasks : tasks'[u] \in {tasks[u], Idle}
    BY DEF PurgeCloses, Does, RelayInv, RelayTypes
<1>5. JobTasks'
    BY <1>4 DEF EndsInv, JobTasks, IsJob, Idle
<1>6. Stages'
    BY <1>1, <1>4, LaneTask DEF EndsInv, Stages
<1> QED
    BY <1>1, <1>3, <1>5, <1>6 DEF EndsInv

LEMMA StepEnds == RelayInv /\ RelayInv' /\ EndsInv /\ [Next]_vars => EndsInv'
<1> SUFFICES ASSUME RelayInv, RelayInv', EndsInv, [Next]_vars PROVE EndsInv'
    OBVIOUS
<1>1. ASSUME NEW t \in Tasks, TaskStep(t) PROVE EndsInv'
    BY <1>1, BindInsertEnds, RemoveEnds, CloseReleasesEnds, SendEnds, ScanEnds, CleanEnds,
       PurgeClosesEnds DEF TaskStep
<1>2. ASSUME NEW s \in Sessions, NEW c \in ConnIds,
             \/ RelayConnect(s, c) \/ RelayFlow(s, c) \/ CloseStores(s, c)
             \/ \E p \in Peers : BindLookup(s, c, p)
             \/ \E kind \in FrameKinds : Forward(s, c, kind)
      PROVE  EndsInv'
    BY <1>2, OpenBoundEnds, ReadersEnds
<1>3. ASSUME NEW s \in Sessions, NEW c \in ConnIds, NEW p \in Peers, NEW kind \in FrameKinds,
             ForwardControl(s, c, p, kind)
      PROVE  EndsInv'
    BY <1>3, ForwardControlEnds
<1>4. ASSUME NEW c \in ConnIds, Age(c) PROVE EndsInv'
    BY <1>4, AgeEnds
<1>5. ASSUME NEW s \in Sessions,
             CarrierCloses(s) \/ EndRun(s) \/ \E who \in {"leave", "purge"} : LeaveList(s, who)
      PROVE  EndsInv'
    BY <1>5, CarrierEnds, EndRunEnds, LeaveListEnds
<1>6. CASE ScopeRemoved
    BY <1>6 DEF ScopeRemoved, historyVars, EndsInv, JobTasks, Stages, IsJob
<1>7. CASE UNCHANGED vars
    BY <1>7 DEF vars, EndsInv, JobTasks, Stages, IsJob, Leaving, EndsWatched, Past, Removes,
                SameEndpoints
<1> QED
    BY <1>1, <1>2, <1>3, <1>4, <1>5, <1>6, <1>7 DEF Next

LEMMA AlwaysEnds == Spec => []EndsInv
BY InitEnds, StepEnds, AlwaysRelay, PTL DEF Spec

(* While the Scope stands, an opened route does not outlive its sessions:  *)
(* when no task is busy, none of them has left, however the binds, openers *)
(* and senders interleave with unregister.                                 *)
THEOREM RoutesEndWithSessions == Spec => []OpenRouteEnds
<1>1. RelayInv /\ EndsInv => OpenRouteEnds
    <2> SUFFICES ASSUME RelayInv, EndsInv, Quiet, ~scopeGone, NEW c \in ConnIds,
                        routes[c] # NoRoute, routes[c].opened,
                        NEW s \in {routes[c].source, routes[c].target}, stage[s] = "gone"
                 PROVE  FALSE
        BY DEF OpenRouteEnds
    <2>1. PICK t \in Tasks : Removes(t, c)
        BY DEF EndsInv, EndsWatched, Past
    <2>2. tasks[t].at = "idle"
        BY DEF Quiet, Idle
    <2> QED
        BY <2>1, <2>2 DEF Removes, IsJob
<1> QED
    BY <1>1, AlwaysRelay, AlwaysEnds, PTL

-----------------------------------------------------------------------------
(* What an unregister has collected: the third invariant.                  *)

(* A session that has left, or is leaving, is not on the list of clients.  *)
Listed ==
    /\ IsInjective(clients)
    /\ \A s \in Sessions :
          stage[s] = "gone" \/ tasks[<<s, "leave">>] # Idle => s \notin Range(clients)

(* The unregister of a session has collected its routes, and those with a  *)
(* dead end.                                                               *)
Collected(t) ==
    tasks[t].at = "clean" =>
        \A x \in tasks[t].stale :
            t[1] \in {x.source, x.target} \/ ~Alive(x.source) \/ ~Alive(x.target)

LeftInv == Listed /\ \A t \in Tasks : Collected(t)

(* A step wakes no dead session: only live ones work, and on live ones.    *)
LEMMA DeadStays ==
    ASSUME \A s \in Sessions : stage'[s] # "gone" => stage[s] # "gone",
           \A t \in Tasks : tasks'[t] # tasks[t] /\ tasks'[t] # Idle =>
               /\ Alive(t[1])
               /\ IsJob(t)' => \/ IsJob(t) /\ tasks'[t].dest = tasks[t].dest
                               \/ Alive(tasks'[t].dest),
           NEW s \in Sessions, Alive(s)'
    PROVE  Alive(s)
<1>1. CASE stage'[s] # "gone"
    BY <1>1 DEF Alive
<1>2. ASSUME NEW t \in Tasks, tasks'[t] # Idle, s = t[1] PROVE Alive(s)
    BY <1>2 DEF Alive
<1>3. ASSUME NEW t \in Tasks, tasks'[t] # Idle, IsJob(t)', s = tasks'[t].dest PROVE Alive(s)
    <2>1. CASE IsJob(t) /\ tasks'[t].dest = tasks[t].dest
        BY <1>3, <2>1 DEF Alive, IsJob, Idle
    <2>2. CASE tasks'[t] = tasks[t]
        BY <1>3, <2>2 DEF Alive, IsJob
    <2> QED
        BY <1>3, <2>1, <2>2
<1> QED
    BY <1>1, <1>2, <1>3 DEF Alive

(* What a task of its own does next keeps its session and destination.     *)
LEMMA TaskStepAlive ==
    ASSUME RelayInv, NEW t \in Tasks, TaskStep(t)
    PROVE  /\ \A u \in Tasks : u # t => tasks'[u] = tasks[u]
           /\ tasks'[t] # tasks[t] /\ tasks'[t] # Idle =>
                 /\ Alive(t[1])
                 /\ IsJob(t)' => IsJob(t) /\ tasks'[t].dest = tasks[t].dest
<1>1. tasks \in [Tasks -> Jobs \cup Cleanups \cup {Idle}]
    BY DEF RelayInv, RelayTypes
<1>2. \A u \in Tasks : u # t => tasks'[u] = tasks[u]
    BY <1>1 DEF TaskStep, BindInsert, RemoveExpired, CloseLoads, CloseReleases, Send,
           SendRefused, FlowOpens, FlowEnds, RemoveRoute, ScanRoutes, CleanRoutes, PurgeCloses,
           Does, Moves
<1>3. tasks[t] # Idle
    BY DEF TaskStep, BindInsert, RemoveExpired, CloseLoads, CloseReleases, Send,
           SendRefused, FlowOpens, FlowEnds, RemoveRoute, ScanRoutes, CleanRoutes, PurgeCloses,
           Idle
<1>4. Alive(t[1])
    BY <1>3 DEF Alive
<1>5. ASSUME IsJob(t)' PROVE IsJob(t) /\ tasks'[t].dest = tasks[t].dest
    <2>1. CASE ScanRoutes(t) \/ CleanRoutes(t)
        <3>1. \/ tasks'[t].at \in {"clean", "idle"}
              \/ tasks[t] \in Cleanups /\ tasks'[t] = [tasks[t] EXCEPT !.at = "close"]
            BY <1>1, <2>1, TaskKinds DEF ScanRoutes, CleanRoutes, Does, Moves, Idle, RelayInv
        <3> QED
            BY <1>5, <3>1 DEF IsJob, Cleanups
    <2>2. CASE BindInsert(t) \/ RemoveExpired(t) \/ RemoveRoute(t) \/ PurgeCloses(t)
        <3>1. tasks'[t] = Idle
            BY <1>1, <2>2 DEF BindInsert, RemoveExpired, RemoveRoute, PurgeCloses, Does
        <3> QED
            BY <1>5, <3>1 DEF IsJob, Idle
    <2>3. CASE \/ CloseLoads(t) \/ CloseReleases(t) \/ FlowOpens(t) \/ FlowEnds(t)
               \/ Send(t) \/ SendRefused(t)
        <3>1. IsJob(t)
            BY <2>3 DEF CloseLoads, CloseReleases, FlowOpens, FlowEnds, Send, SendRefused, IsJob
        <3>2. tasks[t] \in Jobs
            BY <3>1, TaskKinds DEF RelayInv
        <3>3. \/ \E b : tasks'[t] = [tasks[t] EXCEPT !.at = "loaded", !.last = b]
              \/ \E at : tasks'[t] = [tasks[t] EXCEPT !.at = at]
              \/ tasks'[t] = Idle
            BY <1>1, <2>3
               DEF CloseLoads, CloseReleases, FlowOpens, FlowEnds, Send, SendRefused, Does, Moves
        <3>4. tasks'[t] = Idle \/ tasks'[t].dest = tasks[t].dest
            BY <3>2, <3>3 DEF Jobs
        <3> QED
            BY <1>5, <3>1, <3>4 DEF IsJob, Idle
    <2> QED
        BY <2>1, <2>2, <2>3 DEF TaskStep
<1> QED
    BY <1>2, <1>4, <1>5

(* A reader takes up work: it is attached, and its destination lives.      *)
Begins(s) ==
    \E k, j :
        /\ k \in Readers \cup {"flow"}
        /\ tasks' = [tasks EXCEPT ![<<s, k>>] = j]
        /\ stage[s] = "attached" /\ Alive(j.dest)
        /\ j.at \notin {"idle", "scan", "clean", "close"}

LEMMA BeginsJob ==
    ASSUME NEW s, NEW k \in Readers \cup {"flow"}, Reads(s, k), NEW p, NEW kind, NEW c, NEW r,
           NEW at \in {"bind", "expired", "stored", "send", "opening", "remove"},
           NEW d, Alive(d), NEW last, Does(<<s, k>>, JobFor(p, at, kind, c, r, d, last))
    PROVE  Begins(s)
<1> DEFINE j == JobFor(p, at, kind, c, r, d, last)
<1>1. j.at = at /\ j.dest = d
    BY DEF JobFor
<1>2. tasks' = [tasks EXCEPT ![<<s, k>>] = j] /\ stage[s] = "attached"
    BY DEF Does, Reads
<1> HIDE DEF j
<1> QED
    BY <1>1, <1>2 DEF Begins

(* A reader is attached, and sends to a live session or removes a route.   *)
LEMMA ReadersAlive ==
    ASSUME RelayInv, EndsInv, LeftInv, NEW s \in Sessions, NEW c \in ConnIds,
           \/ RelayConnect(s, c) \/ RelayFlow(s, c) \/ CloseStores(s, c)
           \/ \E p \in Peers :
                 \/ BindLookup(s, c, p)
                 \/ \E kind \in FrameKinds : ForwardControl(s, c, p, kind)
           \/ \E kind \in FrameKinds : Forward(s, c, kind)
    PROVE  Begins(s)
<1>1. \A k : Reads(s, k) => Alive(s)
    BY DEF Reads, Alive
<1>2. ASSUME NEW k \in {"stream", "flow"}, NEW kind, NEW at \in {"send", "opening"},
             OpenBound(s, c, k, kind, at)
      PROVE  Begins(s)
    <2>1. PICK a \in {"send", "opening", "expired"} :
              Does(<<s, k>>, Job(a, kind, c, routes[c], routes[c].target, FALSE))
        BY <1>2 DEF OpenBound
    <2>2. Reads(s, k) /\ Alive(routes[c].target) /\ k \in Readers \cup {"flow"}
        BY <1>2 DEF OpenBound, Live, Readers
    <2> QED
        BY <2>1, <2>2, BeginsJob DEF Job
<1>3. CASE CloseStores(s, c)
    <2>1. PICK a, d, last :
              /\ a \in {"stored", "remove"} /\ Alive(d)
              /\ Does(<<s, "stream">>, Job(a, "close", c, routes[c], d, last))
        BY <1>1, <1>3 DEF CloseStores, Live, Other
    <2>2. Reads(s, "stream") /\ "stream" \in Readers \cup {"flow"}
        BY <1>3 DEF CloseStores, Readers
    <2> QED
        BY <2>1, <2>2, BeginsJob DEF Job
<1>4. ASSUME NEW p \in Peers, BindLookup(s, c, p) PROVE Begins(s)
    <2>1. PICK d, r :
              /\ d \in TargetOf(s, p)
              /\ Does(<<s, "control">>, JobFor(p, "bind", "bind", c, r, d, FALSE))
        BY <1>4 DEF BindLookup
    <2>2. d \in Range(clients) /\ d \in Sessions
        BY <2>1 DEF TargetOf, Range, EndsInv, Stages
    <2>3. Alive(d)
        BY <2>2 DEF LeftInv, Listed, Alive
    <2>4. Reads(s, "control") /\ "control" \in Readers \cup {"flow"}
        BY <1>4 DEF BindLookup, Readers
    <2> QED
        BY <2>1, <2>3, <2>4, BeginsJob
<1>5. ASSUME NEW p \in Peers, NEW kind \in FrameKinds, ForwardControl(s, c, p, kind)
      PROVE  Begins(s)
    <2>1. PICK d, last : Does(<<s, "control">>, Job("send", kind, c, routes[c], d, last)) /\ Alive(d)
        BY <1>5 DEF ForwardControl, Live, Other
    <2>2. Reads(s, "control") /\ "control" \in Readers \cup {"flow"}
        BY <1>5 DEF ForwardControl, Readers
    <2> QED
        BY <2>1, <2>2, BeginsJob DEF Job
<1>6. ASSUME NEW kind \in FrameKinds, Forward(s, c, kind) PROVE Begins(s)
    <2>1. PICK a, d, last :
              /\ a \in {"send", "remove"} /\ Alive(d)
              /\ Does(<<s, LaneOf(kind)>>, Job(a, kind, c, routes[c], d, last))
        BY <1>1, <1>6 DEF Forward, Live, Other
    <2>2. Reads(s, LaneOf(kind)) /\ LaneOf(kind) \in Readers \cup {"flow"}
        BY <1>6 DEF Forward, Readers, LaneOf
    <2> QED
        BY <2>1, <2>2, BeginsJob DEF Job
<1>7. RelayConnect(s, c) \/ RelayFlow(s, c) => Begins(s)
    BY <1>2 DEF RelayConnect, RelayFlow
<1> QED
    BY <1>3, <1>4, <1>5, <1>6, <1>7

(* The list and what was collected, where no clean-up begins.              *)
LEMMA LeftKept ==
    ASSUME RelayInv, LeftInv, clients' = clients,
           \A s \in Sessions : Alive(s)' => Alive(s),
           \A s \in Sessions : stage'[s] = "gone" =>
               stage[s] = "gone" \/ tasks[<<s, "leave">>] # Idle,
           \A s \in Sessions : tasks'[<<s, "leave">>] # Idle => tasks[<<s, "leave">>] # Idle,
           \A t \in Tasks : tasks'[t].at = "clean" => tasks'[t] = tasks[t]
    PROVE  LeftInv'
<1>1. Listed'
    BY DEF LeftInv, Listed
<1>2. ASSUME NEW t \in Tasks, tasks'[t].at = "clean", NEW x \in tasks'[t].stale
      PROVE  t[1] \in {x.source, x.target} \/ ~Alive(x.source)' \/ ~Alive(x.target)'
    <2>1. tasks[t].at = "clean" /\ x \in tasks[t].stale
        BY <1>2
    <2>2. x.source \in Sessions /\ x.target \in Sessions
        BY <2>1, TaskKinds DEF RelayInv, Cleanups
    <2> QED
        BY <2>1, <2>2 DEF LeftInv, Collected
<1> QED
    BY <1>1, <1>2 DEF LeftInv, Collected

LEMMA LeftTaskStep ==
    ASSUME RelayInv, EndsInv, LeftInv, NEW t \in Tasks, TaskStep(t)
    PROVE  LeftInv'
<1>1. /\ tasks \in [Tasks -> Jobs \cup Cleanups \cup {Idle}]
      /\ stage \in [Sessions -> {"attached", "ended", "gone"}]
      /\ t[1] \in Sessions
    BY DEF RelayInv, RelayTypes, EndsInv, Stages, Tasks
<1>2. \A u \in Tasks : u # t => tasks'[u] = tasks[u]
    BY TaskStepAlive
<1>3. clients' = clients
    BY DEF TaskStep, BindInsert, RemoveExpired, CloseLoads, CloseReleases, Send, SendRefused,
           FlowOpens, FlowEnds, RemoveRoute, ScanRoutes, CleanRoutes, PurgeCloses, sessionVars
<1>4. tasks[t] # Idle
    BY DEF TaskStep, BindInsert, RemoveExpired, CloseLoads, CloseReleases, Send,
           SendRefused, FlowOpens, FlowEnds, RemoveRoute, ScanRoutes, CleanRoutes, PurgeCloses,
           Idle
<1>5. \/ UNCHANGED stage
      \/ /\ t[2] # "purge" /\ tasks[t].at = "clean"
         /\ stage' = [stage EXCEPT ![t[1]] = "gone"]
    BY DEF TaskStep, BindInsert, RemoveExpired, CloseLoads, CloseReleases, Send, SendRefused,
           FlowOpens, FlowEnds, RemoveRoute, ScanRoutes, CleanRoutes, PurgeCloses, sessionVars
<1>6. tasks[t].at = "clean" /\ t[2] # "purge" => t = <<t[1], "leave">>
    BY DEF EndsInv, JobTasks, Tasks
<1>7. \A s \in Sessions : stage'[s] = "gone" =>
          stage[s] = "gone" \/ tasks[<<s, "leave">>] # Idle
    BY <1>1, <1>4, <1>5, <1>6
<1>8. \A s \in Sessions : Alive(s)' => Alive(s)
    <2>1. \A s \in Sessions : stage'[s] # "gone" => stage[s] # "gone"
        BY <1>1, <1>5
    <2> QED
        BY <1>2, <2>1, TaskStepAlive, DeadStays
<1>9. \A s \in Sessions : tasks'[<<s, "leave">>] # Idle => tasks[<<s, "leave">>] # Idle
    BY <1>2, <1>4, LaneTask
<1>10. CASE ~ScanRoutes(t)
    <2>1. tasks'[t].at # "clean"
        <3>1. CASE BindInsert(t) \/ RemoveExpired(t) \/ RemoveRoute(t) \/ PurgeCloses(t)
            BY <1>1, <3>1 DEF BindInsert, RemoveExpired, RemoveRoute, PurgeCloses, Does, Idle
        <3>2. CASE CleanRoutes(t)
            <4>1. tasks'[t] = Idle \/ tasks'[t] = [tasks[t] EXCEPT !.at = "close"]
                BY <1>1, <3>2 DEF CleanRoutes, Does, Moves
            <4>2. tasks[t] \in Cleanups
                BY <3>2, TaskKinds DEF CleanRoutes, RelayInv
            <4> QED
                BY <4>1, <4>2 DEF Cleanups, Idle
        <3>3. CASE \/ CloseLoads(t) \/ CloseReleases(t) \/ FlowOpens(t) \/ FlowEnds(t)
                   \/ Send(t) \/ SendRefused(t)
            <4>1. IsJob(t)
                BY <3>3
                   DEF CloseLoads, CloseReleases, FlowOpens, FlowEnds, Send, SendRefused, IsJob
            <4>2. tasks[t] \in Jobs
                BY <4>1, TaskKinds DEF RelayInv
            <4>3. CASE CloseLoads(t)
                <5>1. PICK b : tasks'[t] = [tasks[t] EXCEPT !.at = "loaded", !.last = b]
                    BY <1>1, <4>3 DEF CloseLoads, Does
                <5> QED
                    BY <4>2, <5>1 DEF Jobs
            <4>4. CASE ~CloseLoads(t)
                <5>1. \/ tasks'[t] = [tasks[t] EXCEPT !.at = "send"]
                      \/ tasks'[t] = [tasks[t] EXCEPT !.at = "copying"]
                      \/ tasks'[t] = [tasks[t] EXCEPT !.at = "remove"]
                      \/ tasks'[t] = Idle
                    BY <1>1, <3>3, <4>4
                       DEF CloseReleases, FlowOpens, FlowEnds, Send, SendRefused, Does, Moves
                <5> QED
                    BY <4>2, <5>1 DEF Jobs, Idle
            <4> QED
                BY <4>3, <4>4
        <3> QED
            BY <1>10, <3>1, <3>2, <3>3 DEF TaskStep
    <2>2. \A u \in Tasks : tasks'[u].at = "clean" => tasks'[u] = tasks[u]
        BY <1>2, <2>1
    <2> QED
        BY <1>3, <1>7, <1>8, <1>9, <2>2, LeftKept
<1>11. CASE ScanRoutes(t)
    <2>1. Listed'
        BY <1>3, <1>7, <1>9 DEF LeftInv, Listed
    <2>2. ASSUME NEW u \in Tasks, u # t PROVE Collected(u)'
        <3> SUFFICES ASSUME tasks[u].at = "clean", NEW x \in tasks[u].stale
                     PROVE  \/ u[1] \in {x.source, x.target}
                            \/ ~Alive(x.source)' \/ ~Alive(x.target)'
            BY <1>2, <2>2 DEF Collected
        <3>1. x.source \in Sessions /\ x.target \in Sessions
            BY TaskKinds DEF RelayInv, Cleanups
        <3> QED
            BY <1>8, <3>1 DEF LeftInv, Collected
    <2>3. Collected(t)'
        <3>1. tasks'[t] = [at |-> "clean",
                           stale |-> {[conn |-> c, source |-> routes[c].source,
                                       target |-> routes[c].target] :
                                          c \in {d \in ConnIds : Stale(routes[d], t[1])}}]
            BY <1>1, <1>11 DEF ScanRoutes, Does
        <3> SUFFICES ASSUME NEW x \in tasks'[t].stale
                     PROVE  \/ t[1] \in {x.source, x.target}
                            \/ ~Alive(x.source)' \/ ~Alive(x.target)'
            BY DEF Collected
        <3>2. PICK c \in ConnIds :
                  /\ Stale(routes[c], t[1])
                  /\ x.source = routes[c].source /\ x.target = routes[c].target
            BY <3>1
        <3>3. x.source \in Sessions /\ x.target \in Sessions
            BY <3>2 DEF Stale, RelayInv, RelayTypes, Routes
        <3> QED
            BY <1>8, <3>2, <3>3 DEF Stale, Live, OnRoute
    <2> QED
        BY <2>1, <2>2, <2>3 DEF LeftInv
<1> QED
    BY <1>10, <1>11

LEMMA LeftReaders ==
    ASSUME RelayInv, EndsInv, LeftInv, NEW s \in Sessions, Begins(s),
           UNCHANGED <<clients, stage>>
    PROVE  LeftInv'
<1>1. PICK k, j :
          /\ k \in Readers \cup {"flow"}
          /\ tasks' = [tasks EXCEPT ![<<s, k>>] = j]
          /\ stage[s] = "attached" /\ Alive(j.dest)
          /\ j.at \notin {"idle", "scan", "clean", "close"}
    BY DEF Begins
<1> DEFINE t == <<s, k>>
<1>2. t \in Tasks /\ t[1] = s /\ t[2] = k
    BY <1>1, LaneTask
<1>3. tasks'[t] = j /\ \A u \in Tasks : u # t => tasks'[u] = tasks[u]
    BY <1>1, <1>2 DEF RelayInv, RelayTypes
<1>4. Alive(s)
    BY <1>1 DEF Alive
<1>5. \A x \in Sessions : <<x, "leave">> \in Tasks /\ <<x, "leave">> # t
    BY <1>1, <1>2, LaneTask DEF Readers
<1> HIDE DEF t
<1>6. \A x \in Sessions : Alive(x)' => Alive(x)
    BY <1>1, <1>2, <1>3, <1>4, DeadStays DEF IsJob
<1>7. \A u \in Tasks : tasks'[u].at = "clean" => tasks'[u] = tasks[u]
    BY <1>1, <1>3
<1> QED
    BY <1>3, <1>5, <1>6, <1>7, LeftKept

LEMMA LeftLeaves ==
    ASSUME RelayInv, EndsInv, LeftInv, NEW s \in Sessions, NEW who \in {"leave", "purge"},
           LeaveList(s, who)
    PROVE  LeftInv'
<1> DEFINE t == <<s, who>>
<1> DEFINE j == [at |-> "scan", stale |-> {}]
<1>0. /\ stage \in [Sessions -> {"attached", "ended", "gone"}]
      /\ clients \in Seq(Sessions)
      /\ tasks \in [Tasks -> Jobs \cup Cleanups \cup {Idle}]
    BY DEF EndsInv, Stages, RelayInv, RelayTypes
<1>1. t \in Tasks /\ t[1] = s /\ t[2] = who /\ tasks[t] = Idle
    BY LaneTask DEF LeaveList
<1>2. \A x \in Sessions : <<x, "leave">> \in Tasks
    BY LaneTask
<1>3. CASE /\ clients = <<>> /\ stage' = [stage EXCEPT ![s] = "gone"]
           /\ UNCHANGED <<clients, tasks>>
    <2>1. Range(clients') = {}
        BY <1>3 DEF Range
    <2>2. \A x \in Sessions : Alive(x)' => Alive(x)
        <3>1. \A x \in Sessions : stage'[x] # "gone" => stage[x] # "gone"
            BY <1>0, <1>3
        <3> QED
            BY <1>3, <3>1, DeadStays
    <2>3. Listed'
        BY <1>3, <2>1 DEF LeftInv, Listed
    <2>4. ASSUME NEW u \in Tasks PROVE Collected(u)'
        <3> SUFFICES ASSUME tasks[u].at = "clean", NEW x \in tasks[u].stale
                     PROVE  \/ u[1] \in {x.source, x.target}
                            \/ ~Alive(x.source)' \/ ~Alive(x.target)'
            BY <1>3 DEF Collected
        <3>1. x.source \in Sessions /\ x.target \in Sessions
            BY TaskKinds DEF RelayInv, Cleanups
        <3> QED
            BY <2>2, <3>1 DEF LeftInv, Collected
    <2> QED
        BY <2>3, <2>4 DEF LeftInv
<1>4. CASE clients' = RemoveFirst(clients, s) /\ Does(t, j) /\ UNCHANGED stage
    <2>1. /\ IsInjective(clients')
          /\ \A x \in Range(clients') : x \in Range(clients) /\ x # s
        BY <1>0, <1>4, RemoveFirstOnce DEF LeftInv, Listed
    <2>2. tasks'[t] = j /\ \A u \in Tasks : u # t => tasks'[u] = tasks[u]
        BY <1>0, <1>1, <1>4 DEF Does
    <2>3. j.at = "scan"
        OBVIOUS
    <2>4. Alive(s)
        <3>1. \/ stage[s] = "ended"
              \/ s \in Range(clients)
            BY DEF LeaveList
        <3> QED
            BY <3>1 DEF LeftInv, Listed, Alive
    <2>5. \A x \in Sessions : x # s => <<x, "leave">> # t
        BY <1>1
    <2> HIDE DEF t, j
    <2>6. \A x \in Sessions : Alive(x)' => Alive(x)
        BY <1>1, <1>4, <2>2, <2>3, <2>4, DeadStays DEF IsJob
    <2>7. Listed'
        <3>1. ASSUME NEW x \in Sessions, stage'[x] = "gone" \/ tasks'[<<x, "leave">>] # Idle
              PROVE  x \notin Range(clients')
            <4>1. CASE x = s
                BY <2>1, <4>1
            <4>2. CASE x # s
                BY <1>2, <1>4, <2>1, <2>2, <2>5, <3>1, <4>2 DEF LeftInv, Listed
            <4> QED
                BY <4>1, <4>2
        <3> QED
            BY <2>1, <3>1 DEF Listed
    <2>8. ASSUME NEW u \in Tasks PROVE Collected(u)'
        <3> SUFFICES ASSUME tasks'[u].at = "clean", NEW x \in tasks'[u].stale
                     PROVE  \/ u[1] \in {x.source, x.target}
                            \/ ~Alive(x.source)' \/ ~Alive(x.target)'
            BY DEF Collected
        <3>1. tasks'[u] = tasks[u]
            BY <2>2, <2>3
        <3>2. x.source \in Sessions /\ x.target \in Sessions
            BY <3>1, TaskKinds DEF RelayInv, Cleanups
        <3> QED
            BY <2>6, <3>1, <3>2 DEF LeftInv, Collected
    <2> QED
        BY <2>7, <2>8 DEF LeftInv
<1> QED
    BY <1>3, <1>4 DEF LeaveList

LEMMA StepLeft == RelayInv /\ EndsInv /\ LeftInv /\ [Next]_vars => LeftInv'
<1> SUFFICES ASSUME RelayInv, EndsInv, LeftInv, [Next]_vars PROVE LeftInv'
    OBVIOUS
<1>1. ASSUME NEW s \in Sessions, NEW c \in ConnIds,
             \/ RelayConnect(s, c) \/ RelayFlow(s, c) \/ CloseStores(s, c)
             \/ \E p \in Peers :
                   \/ BindLookup(s, c, p)
                   \/ \E kind \in FrameKinds : ForwardControl(s, c, p, kind)
             \/ \E kind \in FrameKinds : Forward(s, c, kind)
      PROVE  LeftInv'
    <2>1. Begins(s)
        BY <1>1, ReadersAlive
    <2>2. UNCHANGED <<clients, stage>>
        BY <1>1 DEF RelayConnect, RelayFlow, OpenBound, CloseStores, BindLookup, ForwardControl,
                    Forward, sessionVars
    <2> QED
        BY <2>1, <2>2, LeftReaders
<1>2. ASSUME clients' = clients, \A t \in Tasks : tasks'[t] \in {tasks[t], Idle},
             \A s \in Sessions : stage'[s] = stage[s] \/ {stage[s], stage'[s]} = {"attached", "ended"}
      PROVE  LeftInv'
    <2>1. \A s \in Sessions : stage'[s] = "gone" <=> stage[s] = "gone"
        BY <1>2
    <2>2. \A s \in Sessions : Alive(s)' => Alive(s)
        BY <1>2, <2>1, DeadStays
    <2>3. \A t \in Tasks : tasks'[t].at = "clean" => tasks'[t] = tasks[t]
        BY <1>2 DEF Idle
    <2>4. \A s \in Sessions : tasks'[<<s, "leave">>] # Idle => tasks[<<s, "leave">>] # Idle
        BY <1>2, LaneTask
    <2> QED
        BY <1>2, <2>1, <2>2, <2>3, <2>4, LeftKept
<1>3. ASSUME NEW s \in Sessions, EndRun(s) PROVE LeftInv'
    <2>1. /\ clients' = clients /\ stage[s] = "attached"
          /\ stage' = [stage EXCEPT ![s] = "ended"]
          /\ \A t \in Tasks : tasks'[t] \in {tasks[t], Idle}
        BY <1>3 DEF EndRun
    <2>2. stage \in [Sessions -> {"attached", "ended", "gone"}]
        BY DEF EndsInv, Stages
    <2>3. \A x \in Sessions : stage'[x] = stage[x] \/ {stage[x], stage'[x]} = {"attached", "ended"}
        BY <2>1, <2>2
    <2> QED
        BY <1>2, <2>1, <2>3
<1>4. CASE \/ \E c \in ConnIds : Age(c)
           \/ \E s \in Sessions : CarrierCloses(s)
           \/ ScopeRemoved \/ UNCHANGED vars
    <2>1. UNCHANGED <<clients, stage, tasks>>
        BY <1>4 DEF Age, CarrierCloses, ScopeRemoved, vars, sessionVars
    <2> QED
        BY <1>2, <2>1
<1> QED
    BY <1>1, <1>3, <1>4, LeftTaskStep, LeftLeaves DEF Next

LEMMA AlwaysLeft == Spec => []LeftInv
<1>1. Init => LeftInv
    <2> SUFFICES ASSUME Init PROVE LeftInv
        OBVIOUS
    <2>1. clients \in SetToSeqs(load.sessions)
        BY DEF Init
    <2>2. IsInjective(clients) /\ \A x \in Range(clients) : x \in load.sessions
        BY <2>1 DEF SetToSeqs, IsInjective, Range
    <2>3. \A s \in Sessions : tasks[<<s, "leave">>] = Idle
        BY LaneTask DEF Init
    <2>4. \A s \in Sessions : stage[s] = "gone" => s \notin load.sessions
        BY DEF Init
    <2>5. \A t \in Tasks : tasks[t].at # "clean"
        BY DEF Init, Idle
    <2> QED
        BY <2>2, <2>3, <2>4, <2>5 DEF LeftInv, Listed, Collected
<1> QED
    BY <1>1, StepLeft, AlwaysRelay, AlwaysEnds, PTL DEF Spec

(* An open route between two live sessions is not displaced by a bind, and *)
(* as long as used conn_ids are not bound again it is taken away only by a *)
(* task that ends this very route or by the unregister of one of its ends, *)
(* although the removals compare sessions and not routes.                  *)
THEOREM OpenedRouteKept == Spec => OpenRouteKept
<1>1. ASSUME RelayInv, LeftInv, [Next]_vars, NEW c \in ConnIds, routes[c] # NoRoute,
             routes[c].opened, Live(routes[c]), routes'[c].id # routes[c].id
      PROVE  /\ routes'[c] = NoRoute
             /\ load.reuse \/ \E t \in Tasks :
                   /\ tasks'[t] # tasks[t]
                   /\ \/ tasks[t].at \in {"remove", "expired"} /\ tasks[t].id = routes[c].id
                      \/ tasks[t].at = "clean" /\ OnRoute(routes[c], t[1])
    <2>1. routes'[c] = NoRoute
        BY <1>1, IdKept DEF MayBind
    <2>2. PICK t \in Tasks : RemoveExpired(t) \/ RemoveRoute(t) \/ CleanRoutes(t)
        BY <1>1, <2>1, WhoRemoves
    <2> DEFINE j == tasks[t]
    <2>3. /\ routes \in [ConnIds -> Routes \cup {NoRoute}] /\ routes[c] \in Routes
          /\ tasks \in [Tasks -> Jobs \cup Cleanups \cup {Idle}]
        BY <1>1 DEF RelayInv, RelayTypes
    <2>4. CASE RemoveExpired(t)
        <3>1. j.at = "expired" /\ j.conn = c /\ routes[c].id = j.id
            BY <1>1, <2>1, <2>3, <2>4 DEF RemoveExpired
        <3>2. tasks'[t] # tasks[t]
            BY <2>3, <2>4, <3>1 DEF RemoveExpired, Does, Idle
        <3> QED
            BY <2>1, <3>1, <3>2
    <2>5. CASE RemoveRoute(t)
        <3>1. /\ j.at = "remove" /\ j.conn = c
              /\ routes[c].source = j.source /\ routes[c].target = j.target
            BY <1>1, <2>1, <2>3, <2>5 DEF RemoveRoute, SameEndpoints
        <3>2. IsBind(j.id, c, j.source, j.target) /\ openers[j.id] # <<>>
            BY <1>1, <3>1 DEF RelayInv, JobsBound, RouteJob, IsJob
        <3>3. Unused(c, j.source, routes[c].id)
            BY <1>1, <3>1 DEF RelayInv, RoutesBound
        <3>4. load.reuse \/ j.id = routes[c].id
            BY <3>2, <3>3 DEF Unused, IsBind
        <3>5. tasks'[t] # tasks[t]
            BY <2>3, <2>5, <3>1 DEF RemoveRoute, Does, Idle
        <3> QED
            BY <2>1, <3>1, <3>4, <3>5
    <2>6. CASE CleanRoutes(t)
        <3>1. PICK x \in j.stale : x.conn = c /\ SameEndpoints(c, x.source, x.target)
            BY <1>1, <2>1, <2>3, <2>6 DEF CleanRoutes
        <3>2. j.at = "clean"
            BY <2>6 DEF CleanRoutes
        <3>3. OnRoute(routes[c], t[1])
            BY <1>1, <3>1, <3>2 DEF LeftInv, Collected, SameEndpoints, Live, OnRoute
        <3>4. j \in Cleanups
            BY <1>1, <3>2, TaskKinds DEF RelayInv
        <3>5. tasks'[t] = Idle \/ tasks'[t] = [j EXCEPT !.at = "close"]
            BY <2>3, <2>6 DEF CleanRoutes, Moves, Does
        <3>6. tasks'[t] # tasks[t]
            BY <3>2, <3>4, <3>5 DEF Cleanups, Idle
        <3> QED
            BY <2>1, <3>2, <3>3, <3>6
    <2> QED
        BY <2>2, <2>4, <2>5, <2>6
<1>2. RelayInv /\ LeftInv /\ [Next]_vars =>
          [\A c \in ConnIds :
              LET r == routes[c] IN
              r # NoRoute /\ r.opened /\ Live(r) /\ routes'[c].id # r.id =>
                  /\ routes'[c] = NoRoute
                  /\ load.reuse \/ \E t \in Tasks :
                        /\ tasks'[t] # tasks[t]
                        /\ \/ tasks[t].at \in {"remove", "expired"} /\ tasks[t].id = r.id
                           \/ tasks[t].at = "clean" /\ OnRoute(r, t[1])]_vars
    BY <1>1
<1> QED
    BY <1>2, AlwaysRelay, AlwaysLeft, PTL DEF Spec, OpenRouteKept
=============================================================================
