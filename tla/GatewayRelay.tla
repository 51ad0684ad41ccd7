----------------------------- MODULE GatewayRelay -----------------------------
(***************************************************************************)
(* Exact-Peer relay routes of one Tunnel: client_relays in                 *)
(* crates/tp-gateway/src/lib.rs, used by the reader tasks, the TCP flow    *)
(* tasks, the unregister of a session and the purge of a removed Scope,    *)
(* which run in parallel.  A route is bound, opened once, carries frames   *)
(* between its two sessions and is removed.                                *)
(*                                                                         *)
(* A handler is one step up to the point where it releases the route map   *)
(* or awaits, and another step from there: what it read in the first may   *)
(* be out of date in the second.                                           *)
(***************************************************************************)
EXTENDS Naturals, Sequences, FiniteSets, SequencesExt

CONSTANTS
    Sessions,       \* ClientConn values
    Peers,          \* stable Peer ids
    PeerOf,         \* the authenticated Peer of a session
    ConnIds,        \* conn_id values
    MaxRoutes,      \* bound: routes ever bound
    Loads           \* bound: what a behaviour may consist of, see LoadType

FrameKinds == {"connect",   \* Connect, opens a route
               "accepted",  \* ConnectResponse with success
               "refused",   \* ConnectResponse without
               "data", "udp", "close",
               "control",   \* EncryptedPeerControlV2
               "abort",     \* ... with route_abort
               "flow"}      \* a TCP flow stream, opens a route

LoadType == [sessions : SUBSET Sessions,   \* who is attached at first
             routes : 0..MaxRoutes,       \* how many routes are bound
             frames : SUBSET FrameKinds,  \* which frames are sent
             leavers : SUBSET Sessions,   \* whose carrier may close
             reuse : BOOLEAN,             \* whether a used conn_id is bound again
             scopeMayGo : BOOLEAN]        \* whether the Scope may be removed

ASSUME RelayAssumption ==
    /\ IsFiniteSet(Sessions)
    /\ PeerOf \in [Sessions -> Peers]
    /\ MaxRoutes \in Nat
    /\ Loads \subseteq LoadType

VARIABLES
    clients,     \* the Tunnel's entry of Gateway.clients, oldest first
    known,       \* sessions whose stable id is in the Peer registry
    stage,       \* of a session: attached, ended (run returned), gone
    open,        \* sessions whose sender is not closed
    routes,      \* client_relays
    tasks,       \* what the tasks are doing
    scopeGone,   \* the Scope has been removed
    bound,       \* every route ever bound, in order
    openers,     \* what opened each of them, in order
    closers,     \* the sessions that closed each of them
    delivered,   \* <<conn, from, to>> of every frame handed to a session
    load         \* the member of Loads this behaviour stays within

vars == <<clients, known, stage, open, routes, tasks, scopeGone,
          bound, openers, closers, delivered, load>>

Readers == {"control", "stream", "datagram"}
Tasks   == Sessions \X (Readers \cup {"flow", "leave", "purge"})
Ids     == 1..MaxRoutes

NoRoute == [id |-> 0]
Routes  == [id : Ids, source : Sessions, target : Sessions, expired : BOOLEAN,
            opened : BOOLEAN, sealed : BOOLEAN, closed : SUBSET Sessions]

Idle == [at |-> "idle"]
Jobs == [at : {"bind", "expired", "stored", "loaded", "send", "opening", "copying",
               "remove"},
         kind : FrameKinds \cup {"bind"}, conn : ConnIds, id : Ids \cup {0}, peer : Peers,
         source : Sessions, target : Sessions, dest : Sessions, last : BOOLEAN]
Cleanups == [at : {"scan", "clean", "close"},
             stale : SUBSET [conn : ConnIds, source : Sessions, target : Sessions]]

TypeOK ==
    /\ Range(clients) \subseteq Sessions /\ IsInjective(clients)
    /\ known \subseteq Sessions /\ open \subseteq Sessions
    /\ stage \in [Sessions -> {"attached", "ended", "gone"}]
    /\ routes \in [ConnIds -> Routes \cup {NoRoute}]
    /\ \A c \in ConnIds : routes[c] # NoRoute =>
          /\ routes[c].id <= Len(bound) /\ bound[routes[c].id].conn = c
          /\ routes[c].opened = (openers[routes[c].id] # <<>>)
    /\ tasks \in [Tasks -> Jobs \cup Cleanups \cup {Idle}]
    /\ scopeGone \in BOOLEAN
    /\ bound \in Seq([conn : ConnIds, source : Sessions, target : Sessions, peer : Peers])
    /\ Len(bound) <= MaxRoutes
    /\ openers \in [Ids -> Seq(FrameKinds)]
    /\ closers \in [Ids -> SUBSET Sessions]
    /\ delivered \subseteq ConnIds \X Sessions \X Sessions
    /\ load \in Loads

(* Every session has registered; GatewayAttachment has the way there. *)
Init ==
    /\ load \in Loads
    /\ clients \in SetToSeqs(load.sessions)
    /\ known = load.sessions
    /\ stage = [s \in Sessions |-> IF s \in load.sessions THEN "attached" ELSE "gone"]
    /\ open = load.sessions
    /\ routes = [c \in ConnIds |-> NoRoute]
    /\ tasks = [t \in Tasks |-> Idle]
    /\ scopeGone = FALSE
    /\ bound = <<>>
    /\ openers = [i \in Ids |-> <<>>]
    /\ closers = [i \in Ids |-> {}]
    /\ delivered = {}

-----------------------------------------------------------------------------

IsJob(t) == tasks[t].at \notin {"idle", "scan", "clean", "close"}

(* Weak::upgrade: a session lives until it is gone and no task holds it. *)
Alive(s) ==
    \/ stage[s] # "gone"
    \/ \E t \in Tasks : tasks[t] # Idle /\ (s = t[1] \/ (IsJob(t) /\ s = tasks[t].dest))

(* A read guard of the route keeps writers out. *)
Unguarded(c) ==
    \A t \in Tasks : tasks[t].at \in {"stored", "loaded"} => tasks[t].conn # c

Live(r)       == Alive(r.source) /\ Alive(r.target)
Other(r, s)   == IF s = r.source THEN r.target ELSE r.source
OnRoute(r, s) == s \in {r.source, r.target}

(* A reader task takes its next message; a flow task is spawned. *)
Reads(s, k) == stage[s] = "attached" /\ tasks[<<s, k>>] = Idle

JobFor(p, at, kind, c, r, d, last) ==
    [at |-> at, kind |-> kind, conn |-> c, id |-> r.id, peer |-> p, source |-> r.source,
     target |-> r.target, dest |-> d, last |-> last]

Job(at, kind, c, r, d, last) == JobFor(PeerOf[d], at, kind, c, r, d, last)

Does(t, job) == tasks' = [tasks EXCEPT ![t] = job]
Moves(t, at) == tasks' = [tasks EXCEPT ![t].at = at]

(* Mutant of SameEndpoints: the target is not compared. *)
SameSource(c, source, target) ==
    routes[c] # NoRoute /\ routes[c].source = source

SameEndpoints(c, source, target) ==
    routes[c] # NoRoute /\ routes[c].source = source /\ routes[c].target = target

sessionVars == <<clients, known, stage, open, scopeGone, load>>
historyVars == <<bound, openers, closers, delivered, load>>

-----------------------------------------------------------------------------
(* Binding. *)

(* p2p_v2_target_in_tunnel: the newest session of the Peer. *)
TargetOf(s, p) ==
    IF s \in known /\ p # PeerOf[s]
    THEN LET found == {i \in DOMAIN clients : clients[i] \in known /\ PeerOf[clients[i]] = p}
         IN  {clients[i] : i \in {i \in found : \A j \in found : j <= i}}
    ELSE {}

(* The first half of bind_client_relay_route.  A Client draws a new        *)
(* conn_id for every route and binds one again only if the bind was never  *)
(* used (proxy_mode.rs); the Gateway does not ask, and load.reuse says     *)
(* whether this behaviour's Clients keep to it.                            *)
BindLookup(s, c, p) ==
    /\ Reads(s, "control")
    /\ Len(bound) < load.routes
    /\ load.reuse \/ \A i \in DOMAIN bound : bound[i].conn = c => openers[i] = <<>>
    /\ \E target \in TargetOf(s, p) :
          Does(<<s, "control">>,
               JobFor(p, "bind", "bind", c, [id |-> 0, source |-> s, target |-> target],
                      target, FALSE))
    /\ UNCHANGED <<sessionVars, routes, historyVars>>

MayBind(c) ==
    LET r == routes[c] IN r = NoRoute \/ (r.expired /\ ~r.opened) \/ ~Live(r)

(* The second half: the entry is taken over, or left as it is. *)
BindInsert(t) ==
    LET j == tasks[t]
        c == j.conn
    IN  /\ j.at = "bind"
        /\ Unguarded(c)
        /\ IF MayBind(c) /\ Len(bound) < load.routes
           THEN /\ routes' = [routes EXCEPT ![c] =
                      [id |-> Len(bound) + 1, source |-> j.source, target |-> j.target,
                       expired |-> FALSE, opened |-> FALSE, sealed |-> FALSE,
                       closed |-> {}]]
                /\ bound' = Append(bound, [conn |-> c, source |-> j.source,
                                           target |-> j.target, peer |-> j.peer])
           ELSE UNCHANGED <<routes, bound>>
        /\ Does(t, Idle)
        /\ UNCHANGED <<sessionVars, openers, closers, delivered>>

(* CLIENT_RELAY_BOUND_TTL passes. *)
Age(c) ==
    /\ routes[c] # NoRoute
    /\ ~routes[c].expired
    /\ routes' = [routes EXCEPT ![c].expired = TRUE]
    /\ UNCHANGED <<sessionVars, tasks, historyVars>>

-----------------------------------------------------------------------------
(* Opening. *)

(* A Peer opens a route after its bind was acknowledged. *)
Acknowledged(s, c) ==
    LET j == tasks[<<s, "control">>] IN j.at = "bind" => j.conn # c

(* Mutant of Consume: the flag is not compared before it is set. *)
ConsumeAgain(c, kind) ==
    /\ ~routes[c].expired
    /\ openers' = [openers EXCEPT ![routes[c].id] = Append(@, kind)]

(* consume_bound succeeds. *)
Consume(c, kind) ==
    /\ ~routes[c].expired /\ ~routes[c].opened
    /\ openers' = [openers EXCEPT ![routes[c].id] = Append(@, kind)]

(* consume_bound_client_relay_target, for a Connect and for a TCP flow. *)
OpenBound(s, c, k, kind, at) ==
    LET r == routes[c]
    IN  /\ Reads(s, k)
        /\ kind \in load.frames
        /\ Acknowledged(s, c)
        /\ r # NoRoute /\ Live(r) /\ r.source = s
        /\ \/ /\ Consume(c, kind)
              /\ routes' = [routes EXCEPT ![c].opened = TRUE]
              /\ Does(<<s, k>>, Job(at, kind, c, r, r.target, FALSE))
           \/ /\ r.expired
              /\ Does(<<s, k>>, Job("expired", kind, c, r, r.target, FALSE))
              /\ UNCHANGED <<routes, openers>>
        /\ UNCHANGED <<sessionVars, bound, closers, delivered>>

RelayConnect(s, c) == OpenBound(s, c, "stream", "connect", "send")
RelayFlow(s, c)    == OpenBound(s, c, "flow", "flow", "opening")

(* Mutant of RemoveExpired: whatever is bound by now is removed. *)
RemoveExpiredBlindly(t) ==
    LET j == tasks[t]
    IN  /\ j.at = "expired"
        /\ Unguarded(j.conn)
        /\ routes' = [routes EXCEPT ![j.conn] = NoRoute]
        /\ Does(t, Idle)
        /\ UNCHANGED <<sessionVars, historyVars>>

RemoveExpired(t) ==
    LET j == tasks[t]
    IN  /\ j.at = "expired"
        /\ Unguarded(j.conn)
        /\ routes' = IF routes[j.conn].id = j.id
                     THEN [routes EXCEPT ![j.conn] = NoRoute] ELSE routes
        /\ Does(t, Idle)
        /\ UNCHANGED <<sessionVars, historyVars>>

(* forward_encrypted_peer_control_v2 for a route, up to its send: the      *)
(* first control opens the route.                                          *)
ForwardControl(s, c, p, kind) ==
    LET r == routes[c]
    IN  /\ Reads(s, "control")
        /\ kind \in load.frames \cap {"control", "abort"}
        /\ s \in known
        /\ r # NoRoute /\ Live(r) /\ OnRoute(r, s)
        /\ p = PeerOf[Other(r, s)]
        /\ \/ /\ kind = "control" /\ s = r.source
              /\ Consume(c, kind)
              /\ routes' = [routes EXCEPT ![c].opened = TRUE, ![c].sealed = TRUE]
           \/ /\ r.sealed
              /\ kind = "control" => r.opened
              /\ UNCHANGED <<routes, openers>>
        /\ Does(<<s, "control">>, Job("send", kind, c, r, Other(r, s), kind = "abort"))
        /\ UNCHANGED <<sessionVars, bound, closers, delivered>>

-----------------------------------------------------------------------------
(* Forwarding. *)

LaneOf(kind) == IF kind = "udp" THEN "datagram" ELSE "stream"

(* Mutant of Forward: whoever names the route is taken for its source. *)
ForwardUnchecked(s, c, kind) ==
    LET r == routes[c]
        t == <<s, LaneOf(kind)>>
    IN  /\ Reads(s, LaneOf(kind))
        /\ kind \in load.frames \cap {"accepted", "refused", "data", "udp"}
        /\ r # NoRoute /\ r.opened
        /\ \/ /\ Live(r)
              /\ Does(t, Job("send", kind, c, r, IF s = r.target THEN r.source ELSE r.target,
                             kind = "refused"))
           \/ /\ ~Live(r)
              /\ Does(t, Job("remove", kind, c, r, s, TRUE))
        /\ UNCHANGED <<sessionVars, routes, historyVars>>

(* forward_client_relay up to its first await: the destination is chosen   *)
(* and the route map released.  A route with a dead end is removed.        *)
Forward(s, c, kind) ==
    LET r == routes[c]
        t == <<s, LaneOf(kind)>>
    IN  /\ Reads(s, LaneOf(kind))
        /\ kind \in load.frames \cap {"accepted", "refused", "data", "udp"}
        /\ r # NoRoute /\ r.opened
        /\ \/ /\ Live(r) /\ OnRoute(r, s)
              /\ Does(t, Job("send", kind, c, r, Other(r, s), kind = "refused"))
           \/ /\ ~Live(r)
              /\ Does(t, Job("remove", kind, c, r, s, TRUE))
        /\ UNCHANGED <<sessionVars, routes, historyVars>>

(* Close: the handler stores its own flag and loads the other's, with      *)
(* release and acquire ordering only, so the load may come before the      *)
(* store is visible to the other's handler.                                *)
CloseStores(s, c) ==
    LET r == routes[c]
        t == <<s, "stream">>
    IN  /\ Reads(s, "stream")
        /\ "close" \in load.frames
        /\ r # NoRoute /\ r.opened
        /\ \/ /\ Live(r) /\ OnRoute(r, s)
              /\ Does(t, Job("stored", "close", c, r, Other(r, s), FALSE))
           \/ /\ ~Live(r)
              /\ Does(t, Job("remove", "close", c, r, s, TRUE))
        /\ UNCHANGED <<sessionVars, routes, historyVars>>

BothClosed(r, s) == Other(r, s) \in r.closed

CloseLoads(t) ==
    LET j == tasks[t]
    IN  /\ j.at = "stored"
        /\ Does(t, [j EXCEPT !.at = "loaded", !.last = BothClosed(routes[j.conn], t[1])])
        /\ UNCHANGED <<sessionVars, routes, historyVars>>

(* Releasing the map makes the store visible, if it was not before. *)
CloseReleases(t) ==
    LET j == tasks[t]
    IN  /\ j.at = "loaded"
        /\ Moves(t, "send")
        /\ routes' = [routes EXCEPT ![j.conn].closed = @ \cup {t[1]}]
        /\ closers' = [closers EXCEPT ![j.id] = @ \cup {t[1]}]
        /\ UNCHANGED <<sessionVars, bound, openers, delivered>>

(* The message is queued for the destination, or its sender is closed. *)
Send(t) ==
    LET j == tasks[t]
    IN  /\ j.at = "send"
        /\ IF j.dest \in open
           THEN /\ delivered' = delivered \cup {<<j.conn, t[1], j.dest>>}
                /\ IF j.last THEN Moves(t, "remove") ELSE Does(t, Idle)
           ELSE Moves(t, "remove") /\ UNCHANGED delivered
        /\ UNCHANGED <<sessionVars, routes, bound, openers, closers>>

(* No budget or no room: a datagram is dropped, a data frame ends the      *)
(* route.  A target without datagrams ends it too.                         *)
SendRefused(t) ==
    LET j == tasks[t]
    IN  /\ j.at = "send"
        /\ \/ j.kind = "udp" /\ Does(t, Idle)
           \/ j.kind \in {"udp", "data", "connect"} /\ Moves(t, "remove")
        /\ UNCHANGED <<sessionVars, routes, historyVars>>

(* A TCP flow opens the target's stream and copies; its reservation ends   *)
(* with it.                                                                *)
FlowOpens(t) ==
    LET j == tasks[t]
    IN  /\ j.at = "opening"
        /\ IF j.dest \in open
           THEN /\ Moves(t, "copying")
                /\ delivered' = delivered \cup {<<j.conn, t[1], j.dest>>}
           ELSE Moves(t, "remove") /\ UNCHANGED delivered
        /\ UNCHANGED <<sessionVars, routes, bound, openers, closers>>

FlowEnds(t) ==
    /\ tasks[t].at \in {"opening", "copying"}
    /\ Moves(t, "remove")
    /\ UNCHANGED <<sessionVars, routes, historyVars>>

(* remove_client_relay_route_if_weak_endpoints, and the reservation's Drop. *)
RemoveRoute(t) ==
    LET j == tasks[t]
    IN  /\ j.at = "remove"
        /\ Unguarded(j.conn)
        /\ routes' = IF SameEndpoints(j.conn, j.source, j.target)
                     THEN [routes EXCEPT ![j.conn] = NoRoute] ELSE routes
        /\ Does(t, Idle)
        /\ UNCHANGED <<sessionVars, historyVars>>

-----------------------------------------------------------------------------
(* Leaving. *)

CarrierCloses(s) ==
    /\ s \in open \cap load.leavers
    /\ open' = open \ {s}
    /\ UNCHANGED <<clients, known, stage, routes, tasks, scopeGone, historyVars>>

(* run returns: the readers have drained a closed carrier, or the Scope    *)
(* fence drops them where they await.                                      *)
EndRun(s) ==
    LET mine == {s} \X Readers
    IN  /\ stage[s] = "attached"
        /\ \/ s \notin open /\ \A t \in mine : tasks[t] = Idle
           \/ scopeGone /\ \A t \in mine : tasks[t].at \in {"idle", "send"}
        /\ tasks' = [t \in Tasks |-> IF t \in mine THEN Idle ELSE tasks[t]]
        /\ stage' = [stage EXCEPT ![s] = "ended"]
        /\ open' = open \ {s}
        /\ UNCHANGED <<clients, known, routes, scopeGone, historyVars>>

ScopeRemoved ==
    /\ load.scopeMayGo
    /\ ~scopeGone
    /\ scopeGone' = TRUE
    /\ UNCHANGED <<clients, known, stage, open, routes, tasks, historyVars>>

(* unregister, by the session itself or by disconnect_tunnel_clients, first *)
(* leaves the list, which has it once; without a list for the Tunnel       *)
(* nothing else happens.  An empty list is removed a little later, and     *)
(* until then the call goes on.                                            *)
LeaveList(s, who) ==
    /\ tasks[<<s, who>>] = Idle
    /\ \/ who = "leave" /\ stage[s] = "ended"
       \/ who = "purge" /\ scopeGone /\ s \in Range(clients)
    /\ \/ /\ clients = <<>>
          /\ stage' = [stage EXCEPT ![s] = "gone"]
          /\ UNCHANGED <<clients, tasks>>
       \/ /\ clients' = RemoveFirst(clients, s)
          /\ Does(<<s, who>>, [at |-> "scan", stale |-> {}])
          /\ UNCHANGED stage
    /\ UNCHANGED <<known, open, routes, scopeGone, historyVars>>

(* Mutant of Stale: only routes that the session opened. *)
StaleSourceOnly(r, s) == r # NoRoute /\ (~Live(r) \/ s = r.source)

Stale(r, s) == r # NoRoute /\ (~Live(r) \/ OnRoute(r, s))

(* ... then it collects the routes of the session, and routes with a dead  *)
(* end, and tells the surviving ends (try_send, which a full queue drops). *)
ScanRoutes(t) ==
    LET s     == t[1]
        stale == {c \in ConnIds : Stale(routes[c], s)}
        ends  == {<<c, Other(routes[c], d), d>> : c \in stale, d \in open \ {s}}
        told  == {m \in ends : OnRoute(routes[m[1]], m[3])}
    IN  /\ tasks[t].at = "scan"
        /\ Does(t, [at |-> "clean",
                    stale |-> {[conn |-> c, source |-> routes[c].source,
                                target |-> routes[c].target] : c \in stale}])
        /\ \E full \in SUBSET told : delivered' = delivered \cup (told \ full)
        /\ UNCHANGED <<sessionVars, routes, bound, openers, closers>>

(* ... and removes them, and the session's registry entry. *)
CleanRoutes(t) ==
    LET s == t[1]
    IN  /\ tasks[t].at = "clean"
        /\ \A x \in tasks[t].stale : Unguarded(x.conn)
        /\ routes' = [c \in ConnIds |->
                        IF \E x \in tasks[t].stale :
                              x.conn = c /\ SameEndpoints(c, x.source, x.target)
                        THEN NoRoute ELSE routes[c]]
        /\ known' = known \ {s}
        /\ IF t[2] = "purge"
           THEN Moves(t, "close") /\ UNCHANGED stage
           ELSE Does(t, Idle) /\ stage' = [stage EXCEPT ![s] = "gone"]
        /\ UNCHANGED <<clients, open, scopeGone, historyVars>>

(* The purge closes the carrier last. *)
PurgeCloses(t) ==
    /\ tasks[t].at = "close"
    /\ open' = open \ {t[1]}
    /\ Does(t, Idle)
    /\ UNCHANGED <<clients, known, stage, routes, scopeGone, historyVars>>

TaskStep(t) ==
    \/ BindInsert(t) \/ RemoveExpired(t)
    \/ CloseLoads(t) \/ CloseReleases(t)
    \/ Send(t) \/ SendRefused(t)
    \/ FlowOpens(t) \/ FlowEnds(t) \/ RemoveRoute(t)
    \/ ScanRoutes(t) \/ CleanRoutes(t) \/ PurgeCloses(t)

Next ==
    \/ \E t \in Tasks : TaskStep(t)
    \/ \E s \in Sessions, c \in ConnIds :
          \/ RelayConnect(s, c) \/ RelayFlow(s, c) \/ CloseStores(s, c)
          \/ \E p \in Peers :
                \/ BindLookup(s, c, p)
                \/ \E kind \in FrameKinds : ForwardControl(s, c, p, kind)
          \/ \E kind \in FrameKinds : Forward(s, c, kind)
    \/ \E c \in ConnIds : Age(c)
    \/ \E s \in Sessions : CarrierCloses(s) \/ EndRun(s)
    \/ \E s \in Sessions, who \in {"leave", "purge"} : LeaveList(s, who)
    \/ ScopeRemoved

Spec == Init /\ [][Next]_vars

-----------------------------------------------------------------------------

(* A frame a session sends on a conn_id reaches only the session it shares *)
(* a route with, and the target of a route is a session of the Peer that   *)
(* was asked for (forward_client_relay, forward_encrypted_peer_control_v2).*)
ExactRoute ==
    /\ \A m \in delivered : \E i \in DOMAIN bound :
          /\ bound[i].conn = m[1]
          /\ {bound[i].source, bound[i].target} = {m[2], m[3]}
    /\ \A i \in DOMAIN bound :
          PeerOf[bound[i].target] = bound[i].peer /\ PeerOf[bound[i].source] # bound[i].peer

(* A bind is one route for one kind of traffic: what is under way for it   *)
(* on any lane was preceded by exactly one opener, and a Connect, a TCP    *)
(* flow and encrypted control only by an opener of their own kind, however *)
(* the three race for the bind, expire it and bind it again (consume_bound *)
(* and the sealed flag).                                                   *)
ExclusiveOpener ==
    \A t \in Tasks : tasks[t].at \in {"send", "opening", "copying"} =>
        /\ Len(openers[tasks[t].id]) = 1
        /\ tasks[t].kind \in {"connect", "flow", "control", "abort"} =>
              openers[tasks[t].id] =
                  <<IF tasks[t].kind = "abort" THEN "control" ELSE tasks[t].kind>>

(* An open route between two live sessions is taken away only by a task    *)
(* that ends this very route or by the unregister of one of its own ends:  *)
(* not by a bind of its conn_id, nor, as long as used conn_ids are not     *)
(* bound again, by what an earlier bind or the unregister of its target    *)
(* left to do, although the removals compare sessions and not routes       *)
(* (bind_client_relay_route, remove_client_relay_route_if_weak_endpoints). *)
OpenRouteKept ==
    [][\A c \in ConnIds :
          LET r == routes[c] IN
          r # NoRoute /\ r.opened /\ Live(r) /\ routes'[c].id # r.id =>
              /\ routes'[c] = NoRoute
              /\ load.reuse \/ \E t \in Tasks :
                    /\ tasks'[t] # tasks[t]
                    /\ \/ tasks[t].at \in {"remove", "expired"} /\ tasks[t].id = r.id
                       \/ tasks[t].at = "clean" /\ OnRoute(r, t[1])]_vars

(* A bind that nobody used and that has not expired is removed only for a  *)
(* session that leaves: the clean-up of the bind it replaced (after the    *)
(* guard was dropped) does not take it away.  (With a used conn_id bound   *)
(* again, what ends the old route may end the new one.)                    *)
FreshBindSurvives ==
    [][\A c \in ConnIds :
          ~load.reuse /\ routes[c] # NoRoute /\ ~routes[c].expired /\ ~routes[c].opened
          /\ routes'[c] # routes[c] /\ routes'[c] = NoRoute
             => \E t \in Tasks : tasks[t].at = "clean" /\ tasks'[t].at # "clean"]_vars

(* "one-way FIN": a forwarded Close removes the route only after both ends *)
(* have closed it.                                                         *)
OneWayFin ==
    \A t \in Tasks :
        tasks[t].at = "remove" /\ tasks[t].kind = "close" /\ tasks[t].last
        /\ tasks[t].dest # t[1]
           => closers[tasks[t].id] = {tasks[t].source, tasks[t].target}

Quiet == \A t \in Tasks : tasks[t] = Idle

(* While the Scope stands, an opened route does not outlive its sessions,  *)
(* whatever binds, opens and closes while one of them leaves (unregister). *)
OpenRouteEnds ==
    Quiet /\ ~scopeGone =>
        \A c \in ConnIds : routes[c] # NoRoute /\ routes[c].opened
                              => "gone" \notin {stage[routes[c].source], stage[routes[c].target]}

(* "ordinary Close retains the existing one-way FIN and two-way cleanup    *)
(* semantics" (docs/PROTOCOL.md:322): a route both ends closed is removed. *)
TwoWayCleanup ==
    Quiet => \A c \in ConnIds :
        routes[c] # NoRoute => closers[routes[c].id] # {routes[c].source, routes[c].target}
=============================================================================
