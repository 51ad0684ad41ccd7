------------------------------ MODULE PeerGossip ------------------------------
(***************************************************************************)
(* Pairwise gossip of runtime records between the Clients of a Tunnel:     *)
(* PeerGossipControllerV2 (crates/tp-client/src/peer_gossip.rs) and the    *)
(* part of Engine (crates/tp-client/src/engine.rs) that opens and closes   *)
(* its links, seals what it sends and copies its directory into the route  *)
(* matcher.                                                                *)
(*                                                                         *)
(* A payload is made under the lock of the controller, sealed later under  *)
(* the key of the PeerLink that is current by then, and sent by a task of  *)
(* its own: payloads may overtake each other, and are lost with the lane.  *)
(* The receiver opens only what the current session of the link sealed,    *)
(* and hands it to the controller later, under the lock.                   *)
(*                                                                         *)
(* The lanes of a link, direct sessions and the exact relay, are reduced   *)
(* to whether one is usable at this end.  The two ends of a link learn of  *)
(* keys and lanes independently of each other.                             *)
(***************************************************************************)
EXTENDS ExportDirectory, Bags

CONSTANTS
    Links,        \* the pairs of them that may negotiate a PeerLink
    Publishable,  \* by Peer: the records it may publish
    Setups        \* the configurations checked together, see SetupType

SetupType == [links: SUBSET Links,      \* the pairs that negotiate one
              digests: SUBSET PeerSet,  \* whose digest timer fires in the time looked at
              sessions: Nat,            \* bound: sessions negotiated on a link
              changes: Nat,             \* bound: record changes
              faults: Nat,              \* bound: lanes lost, payloads lost on usable ones
              resets: Nat]              \* bound: Peers retired, Clients reconnected

ASSUME GossipAssumption ==
    /\ Links \subseteq kSubset(2, PeerSet)
    /\ \A p \in PeerSet: Publishable[p] \subseteq Records /\ Publishable[p] # {}
    /\ Setups \subseteq SetupType

VARIABLES
    client,    \* by Peer: the state of its Client, see ClientType
    outbound,  \* payloads made and not yet sealed
    net,       \* sealed payloads on their way
    opened,    \* payloads opened and not yet handed to the controller
    sessions,  \* by link: external, sessions negotiated so far
    spent,     \* how much of each bound is used up
    setup      \* the member of Setups this behaviour runs with

vars == <<client, outbound, net, opened, sessions, spent, setup>>

Neighbours(p) == {q \in PeerSet: q # p /\ {p, q} \in setup.links}

-----------------------------------------------------------------------------
NoSession == 0

\* An entry of the controller's links: none, or one that still owes the first
\* record it receives an answer (reciprocal_pending), or one that does not.
LinkStates == {"closed", "pending", "answered"}

ClientType(p) ==
    LET N == Neighbours(p)
    IN  [record: Publishable[p],                       \* local_record
         key: [N -> NoSession..setup.sessions],       \* v2_peer_links: the session
         last: [N -> NoSession..setup.sessions],      \* the newest one ever installed
         lane: [N -> BOOLEAN],                     \* whether a lane is usable now
         usable: [N -> BOOLEAN],                   \* ... at the last reconciliation
         link: [N -> LinkStates],                  \* links
         directory: Directories(N),                \* the controller's
         routes: Directories(N)]                   \* the route matcher's

Payloads == [kind: {"RuntimeRecord", "Digest"}, record: Records]
              \cup [kind: {"Need"}]
Full(record) == [kind |-> "RuntimeRecord", record |-> record]
Digest(record) == [kind |-> "Digest", record |-> record]
Need == [kind |-> "Need"]

Message(p, q, payload) == [src |-> p, dst |-> q, payload |-> payload]

Bounds == {"changes", "faults", "resets"}
Spend(what) == /\ spent[what] < setup[what]
               /\ spent' = [spent EXCEPT ![what] = @ + 1]

\* One of each message of a set is added to a bag; one message is taken out.
AddAll(bag, S) == bag (+) SetToBag(S)
Take(bag, m) == bag (-) SetToBag({m})

Fresh(p, record) ==
    LET N == Neighbours(p)
    IN  [record |-> record,
         key |-> [q \in N |-> NoSession],
         last |-> [q \in N |-> NoSession],
         lane |-> [q \in N |-> FALSE],
         usable |-> [q \in N |-> FALSE],
         link |-> [q \in N |-> "closed"],
         directory |-> EmptyDirectory,
         routes |-> EmptyDirectory]

Init ==
    /\ setup \in Setups
    /\ client \in {f \in [PeerSet -> UNION {{Fresh(p, r): r \in Publishable[p]}: p \in PeerSet}]:
                     \A p \in PeerSet: \E r \in Publishable[p]: f[p] = Fresh(p, r)}
    /\ outbound = EmptyBag
    /\ net = EmptyBag
    /\ opened = EmptyBag
    /\ sessions = [l \in setup.links |-> NoSession]
    /\ spent = [b \in Bounds |-> 0]

\* send_v2_gossip_outbound: sealed under the session current at this end, if
\* there is one.
SealAll(p, c, S) ==
    {[src |-> p, dst |-> m.dst, payload |-> m.payload, session |-> c.key[m.dst]]:
        m \in {n \in S: c.key[n.dst] # NoSession}}

-----------------------------------------------------------------------------
(* The controller and the reconciler, on the state of one Client.          *)

link_closed(c, q) ==
    [c EXCEPT !.link[q] = "closed", !.directory = remove_origin(@, q)]

link_ready(c, q) == [c EXCEPT !.link[q] = "pending"]

\* The Peers whose last lane is gone, and those that have a first one.
Lost(c) == {q \in DOMAIN c.lane: c.usable[q] /\ ~c.lane[q]}
Gained(c) == {q \in DOMAIN c.lane: ~c.usable[q] /\ c.lane[q]}

\* The records of the origins that are usable.
Routable(c) ==
    [q \in {q \in DOMAIN c.directory.records: c.lane[q]} |-> c.directory.records[q]]

\* reconcile_v2_routes_and_runtime_locked: link_closed and link_ready as the
\* lanes say, then the route matcher follows the lanes and the directory.
Reconcile(c) ==
    [c EXCEPT !.link = [q \in DOMAIN c.link |-> IF q \in Lost(c) THEN "closed"
                                                ELSE IF q \in Gained(c) THEN "pending"
                                                ELSE c.link[q]],
              !.directory = Update(c.directory, Lost(c), <<>>),
              !.routes = Update(c.routes, {q \in DOMAIN c.lane: ~c.lane[q]}, Routable(c)),
              !.usable = c.lane]

\* ... and every link it opens is sent the full record.
Syncs(p, c) == {Message(p, q, Full(c.record)): q \in Gained(c)}

-----------------------------------------------------------------------------
(* Keys and lanes.                                                         *)

\* install_v2_peer_link: p installs the key of the newest session of the link,
\* or of one it now negotiates.  A key that replaces another on a usable link
\* opens the link again.
InstallLink(p, q) ==
    /\ \E s \in {sessions[{p, q}], sessions[{p, q}] + 1}:
         /\ s \in (client[p].last[q] + 1)..setup.sessions
         /\ LET keyed == [client[p] EXCEPT !.key[q] = s, !.last[q] = s]
                c == Reconcile(keyed)
                again == client[p].key[q] # NoSession /\ c.usable[q]
            IN  /\ client' = [client EXCEPT ![p] = IF again THEN link_ready(c, q) ELSE c]
                /\ net' = AddAll(AddAll(net, SealAll(p, keyed, Syncs(p, keyed))),
                                 SealAll(p, c, {Message(p, n, Full(c.record)):
                                                  n \in {m \in {q}: again}}))
         /\ sessions' = [sessions EXCEPT ![{p, q}] = s]
    /\ UNCHANGED <<outbound, opened, spent, setup>>

\* A first lane to a keyed Peer becomes usable; the last one goes away.
LaneUp(p, q) ==
    /\ client[p].key[q] # NoSession
    /\ ~client[p].lane[q]
    /\ client' = [client EXCEPT ![p].lane[q] = TRUE]
    /\ UNCHANGED <<outbound, net, opened, sessions, spent, setup>>

LaneDown(p, q) ==
    /\ client[p].lane[q]
    /\ Spend("faults")
    /\ client' = [client EXCEPT ![p].lane[q] = FALSE]
    /\ UNCHANGED <<outbound, net, opened, sessions, setup>>

\* Whoever changed the lanes, or any other caller, reconciles.
Observe(p) ==
    /\ client[p].usable # client[p].lane
    /\ UNCHANGED <<outbound, opened, sessions, spent, setup>>
    /\ client' = [client EXCEPT ![p] = Reconcile(client[p])]
    /\ net' = AddAll(net, SealAll(p, client[p], Syncs(p, client[p])))

\* MUTANT: the route matcher keeps the exports of a retired Peer.
RetireKeepingRoutes(p, q) ==
    /\ ~client[p].lane[q]
    /\ client[p].last[q] # NoSession
    /\ Spend("resets")
    /\ client' = [client EXCEPT ![p] =
                    link_closed([client[p] EXCEPT !.key[q] = NoSession,
                                                  !.usable[q] = FALSE], q)]
    /\ UNCHANGED <<outbound, net, opened, sessions, setup>>

\* retire_overlay_peer: a Peer without a lane that has been absent too long
\* loses its key, its link and its routes.
Retire(p, q) ==
    /\ ~client[p].lane[q]
    /\ client[p].last[q] # NoSession
    /\ Spend("resets")
    /\ LET c == link_closed([client[p] EXCEPT !.key[q] = NoSession,
                                              !.usable[q] = FALSE,
                                              !.routes = remove_origin(@, q)], q)
       IN  /\ client' = [client EXCEPT ![p] = Reconcile(c)]
           /\ net' = AddAll(net, SealAll(p, c, Syncs(p, c)))
    /\ UNCHANGED <<outbound, opened, sessions, setup>>

\* disconnect, then connect: everything learned is forgotten, and what was not
\* yet sealed is never sent.
Reconnect(p) ==
    /\ \E q \in Neighbours(p): client[p].last[q] # NoSession
    /\ Spend("resets")
    /\ client' = [client EXCEPT ![p] =
                    [Fresh(p, client[p].record) EXCEPT !.last = client[p].last]]
    /\ outbound' = [m \in {n \in DOMAIN outbound: n.src # p} |-> outbound[m]]
    /\ UNCHANGED <<net, opened, sessions, setup>>

-----------------------------------------------------------------------------
(* Payloads.                                                               *)

\* set_local_record: one full push to every open link.
SetLocalRecord(p) ==
    /\ \E r \in Publishable[p] \ {client[p].record}:
         /\ client' = [client EXCEPT ![p].record = r]
         /\ outbound' = AddAll(outbound,
                {Message(p, q, Full(r)): q \in {n \in Neighbours(p): client[p].link[n] # "closed"}})
    /\ Spend("changes")
    /\ UNCHANGED <<net, opened, sessions, setup>>

\* How many payloads of a kind are under way from p to q.
UnderWay(p, q, kind) ==
    LET Of(bag) == {m \in DOMAIN bag: m.src = p /\ m.dst = q /\ m.payload.kind = kind}
        Count(bag) == BagCardinality([m \in Of(bag) |-> bag[m]])
    IN  Count(outbound) + Count(net) + Count(opened)

\* poll_digests when the deadline of the link to q has passed.  The interval
\* is far longer than a round of repair: bounded to one round at a time, with
\* at most one record on its way.
PollDigest(p, q) ==
    /\ p \in setup.digests /\ q \in Neighbours(p)
    /\ client[p].link[q] # "closed"
    /\ UnderWay(p, q, "Digest") + UnderWay(q, p, "Need") = 0
    /\ UnderWay(p, q, "RuntimeRecord") <= 1
    /\ outbound' = AddAll(outbound, {Message(p, q, Digest(client[p].record))})
    /\ UNCHANGED <<client, net, opened, sessions, spent, setup>>

\* A payload that was made is sealed, or dropped for want of a key.
Seal(m) ==
    /\ outbound' = Take(outbound, m)
    /\ net' = AddAll(net, SealAll(m.src, client[m.src], {m}))
    /\ UNCHANGED <<client, opened, sessions, spent, setup>>

\* A sealed payload is lost, with the lane at either end or without.
Lose(m) ==
    /\ \/ ~(client[m.src].lane[m.dst] /\ client[m.dst].lane[m.src]) /\ UNCHANGED spent
       \/ Spend("faults")
    /\ net' = Take(net, m)
    /\ UNCHANGED <<client, outbound, opened, sessions, setup>>

\* MUTANT: every record is answered, not the first of each link generation.
AnswerEvery(c, q, payload) ==
    CASE payload.kind = "RuntimeRecord" -> {Full(c.record)}
      [] payload.kind = "Digest" /\ ~InSync(c.directory, q, payload.record) -> {Need}
      [] payload.kind = "Need" -> {Full(c.record)}
      [] OTHER -> {}

\* MUTANT: no record is answered.
AnswerNone(c, q, payload) ==
    CASE payload.kind = "Digest" /\ ~InSync(c.directory, q, payload.record) -> {Need}
      [] payload.kind = "Need" -> {Full(c.record)}
      [] OTHER -> {}

\* MUTANT: a digest asks for the record only where there is none.
AnswerMissing(c, q, payload) ==
    CASE payload.kind = "RuntimeRecord" /\ c.link[q] = "pending" -> {Full(c.record)}
      [] payload.kind = "Digest" /\ q \notin DOMAIN c.directory.records -> {Need}
      [] payload.kind = "Need" -> {Full(c.record)}
      [] OTHER -> {}

\* What PeerGossipControllerV2::receive answers: its own record to the first
\* one of a link generation and to a Need, a Need to a digest it does not match.
Answer(c, q, payload) ==
    CASE payload.kind = "RuntimeRecord" /\ c.link[q] = "pending" -> {Full(c.record)}
      [] payload.kind = "Digest" /\ ~InSync(c.directory, q, payload.record) -> {Need}
      [] payload.kind = "Need" -> {Full(c.record)}
      [] OTHER -> {}

\* ... and what it does to its own state.
Apply(c, q, payload) ==
    IF payload.kind = "RuntimeRecord"
    THEN [c EXCEPT !.directory = replace_origin(@, q, payload.record),
                   !.link[q] = "answered"]
    ELSE c

\* A sealed payload arrives: it is opened with the key of the session it
\* names, or dropped if that is not the current one.
Open(m) ==
    /\ net' = Take(net, m)
    /\ opened' = IF m.session = client[m.dst].key[m.src]
                 THEN AddAll(opened, {Message(m.src, m.dst, m.payload)})
                 ELSE opened
    /\ UNCHANGED <<client, outbound, sessions, spent, setup>>

\* receive_v2_gossip, later and under the lock, whatever the key is by now:
\* the controller takes the payload if the link is open, the reconciler runs
\* if the origin has a record now, and the answer is sent once the lock is
\* released.
Receive(m) ==
    LET p == m.dst
        q == m.src
    IN  /\ client[p].link[q] # "closed"
        /\ opened' = Take(opened, m)
        /\ \E applied \in {Apply(client[p], q, m.payload)}:
             IF q \in DOMAIN applied.directory.records
             THEN /\ client' = [client EXCEPT ![p] = Reconcile(applied)]
                  /\ net' = AddAll(net, SealAll(p, applied, Syncs(p, applied)))
             ELSE /\ client' = [client EXCEPT ![p] = applied]
                  /\ UNCHANGED net
        /\ outbound' = AddAll(outbound,
              {Message(p, q, a): a \in Answer(client[p], q, m.payload)})
        /\ UNCHANGED <<sessions, spent, setup>>

\* A payload for a link that is not open is refused.
Refuse(m) ==
    /\ client[m.dst].link[m.src] = "closed"
    /\ opened' = Take(opened, m)
    /\ UNCHANGED <<client, outbound, net, sessions, spent, setup>>

-----------------------------------------------------------------------------
LinkStep(p, q) == \/ InstallLink(p, q)
                  \/ LaneUp(p, q)
                  \/ LaneDown(p, q)
                  \/ Retire(p, q)
                  \/ PollDigest(p, q)

Next ==
    \/ \E p \in PeerSet: \/ \E q \in Neighbours(p): LinkStep(p, q)
                         \/ Observe(p)
                         \/ Reconnect(p)
                         \/ SetLocalRecord(p)
    \/ \E m \in DOMAIN outbound: Seal(m)
    \/ \E m \in DOMAIN net: Lose(m) \/ Open(m)
    \/ \E m \in DOMAIN opened: Receive(m) \/ Refuse(m)

Spec == Init /\ [][Next]_vars

\* Some payload on its way from p to q goes on: sealed, opened or handed over.
Deliver(p, q) ==
    LET Of(bag) == {m \in DOMAIN bag: m.src = p /\ m.dst = q}
    IN  \/ \E m \in Of(outbound): Seal(m)
        \/ \E m \in Of(net): Open(m)
        \/ \E m \in Of(opened): Receive(m) \/ Refuse(m)

\* Sends are tasks that end, lanes deliver what is not lost, a payload opened is
\* handed over, whoever changes a lane reconciles, and the digest timer of an
\* open link keeps firing.
FairSpec ==
    /\ Spec
    /\ \A p \in PeerSet: WF_vars(Observe(p))
    /\ \A l \in Links: \A p \in l: \A q \in l \ {p}:
         WF_vars(PollDigest(p, q)) /\ WF_vars(Deliver(p, q))

-----------------------------------------------------------------------------
(* Properties.                                                             *)

\* Every part of every Client, and every message, has its type.
TypeOK ==
    /\ setup \in Setups
    /\ spent \in [Bounds -> Nat]
    /\ IsABag(outbound) /\ IsABag(net) /\ IsABag(opened)
    /\ DOMAIN client = PeerSet
    /\ \A p \in PeerSet: client[p] \in ClientType(p)
    /\ \A m \in DOMAIN outbound \cup DOMAIN net \cup DOMAIN opened:
         m.src \in PeerSet /\ m.dst \in Neighbours(m.src) /\ m.payload \in Payloads
    /\ \A m \in DOMAIN net: m.session \in 1..sessions[{m.src, m.dst}]
    /\ sessions \in [setup.links -> NoSession..setup.sessions]

\* "Stops accepting the link's payloads and removes its learned origin": a
\* record is kept only of an origin whose link is open, under a key, and was
\* usable when the lanes were last looked at.
OnlyLinkedOrigins ==
    \A p \in PeerSet: \A q \in DOMAIN client[p].directory.records:
        /\ client[p].link[q] # "closed"
        /\ client[p].usable[q]
        /\ client[p].key[q] # NoSession

\* The route matcher, which picks the exporter of a new flow, and the gossip
\* controller, whose digests repair, hold the same records in the same order.
RoutesMirrorGossip ==
    \A p \in PeerSet: client[p].routes = client[p].directory

\* For every prefix the order lists exactly the origins that have it ready,
\* each once: none is chosen that has withdrawn it, none is left out.
OrderExact == \A p \in PeerSet: Exact(client[p].routes)

\* "in-memory, first-seen order ... a returning Peer enters at the tail"
\* (CONTEXT.md): no step swaps two exporters that stay, and whoever enters
\* stands behind everyone who stays, so the exporter of new flows changes only
\* when it leaves.
FirstSeenOrder ==
    [][\A p \in PeerSet: \A x \in LanPrefixes:
         LET old == client[p].routes.order[x]
             new == client'[p].routes.order[x]
         IN  IsPrefix(Retain(old, ToSet(new)), new)]_vars

Linked(p, q) ==
    /\ client[p].key[q] = client[q].key[p]
    /\ client[p].key[q] # NoSession
    /\ client[p].lane[q]
    /\ client[q].lane[p]

\* "It detects a missed update and requests a full replacement" (CONTEXT.md):
\* whatever was lost, reordered or sealed under a key that was replaced, a
\* Client that stays linked to one whose digests it is sent ends up with the
\* current record of that one.
Converges ==
    <>[](\A q \in setup.digests: \A p \in Neighbours(q):
            Linked(p, q) => InSync(client[p].directory, q, client[q].record))

Quiet ==
    /\ outbound = EmptyBag
    /\ net = EmptyBag
    /\ opened = EmptyBag
    /\ \A p \in PeerSet: client[p].usable = client[p].lane

\* "Reciprocating the first authenticated record of each link generation closes
\* that race without waiting for the periodic Digest/Need repair loop"
\* (peer_gossip.rs): whichever end installs a key or gains a lane first, once
\* nothing is under way two linked Clients have each other's record, as long as
\* no record changed, no payload was lost and no key was replaced since they
\* opened the link.
ReciprocalCloses ==
    Quiet /\ spent = [b \in Bounds |-> 0] =>
             \A p \in PeerSet: \A q \in Neighbours(p):
                 Linked(p, q) /\ sessions[{p, q}] = 1 => InSync(client[p].directory, q, client[q].record)

\* "two simultaneous initial pushes cannot form an echo loop" (peer_gossip.rs):
\* without the digest timer the exchange ends.
NoEcho == setup.digests = {} => <>[](outbound = EmptyBag /\ net = EmptyBag /\ opened = EmptyBag)
=============================================================================
