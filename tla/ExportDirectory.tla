--------------------------- MODULE ExportDirectory ---------------------------
(***************************************************************************)
(* PeerGossipDirectoryV2 of crates/tp-client/src/peer_runtime.rs: the      *)
(* runtime record of each remote origin, and for each LAN prefix the       *)
(* origins that export it, in the order in which this Client saw them.     *)
(* The Client keeps two: the gossip controller's and the route matcher's.  *)
(***************************************************************************)
EXTENDS Integers, Sequences, FiniteSets, SequencesExt

CONSTANTS
    LanPrefixes,
    Peers         \* the Clients of one Tunnel, as a sequence: their sorted ids

ASSUME PeersAssumption == IsInjective(Peers) /\ Peers \in Seq(ToSet(Peers))

PeerSet == ToSet(Peers)

\* A runtime record: from the prefixes it lists to whether each is ready.
Records == UNION {[D -> BOOLEAN]: D \in SUBSET LanPrefixes}

ready_prefixes(record) == {x \in DOMAIN record: record[x]}

\* A directory whose origins are among N.
Directories(N) == [records: UNION {[D -> Records]: D \in SUBSET N},
                   order: [LanPrefixes -> Seq(N)]]

\* An order of a prefix that nobody exports is the empty sequence.
EmptyDirectory == [records |-> <<>>, order |-> [x \in LanPrefixes |-> <<>>]]

ReadyFrom(d, origin) ==
    IF origin \in DOMAIN d.records THEN ready_prefixes(d.records[origin]) ELSE {}

\* The entries of s that are in T, in the order of s: entry k is the one at the
\* k-th of the places that are kept.
Kept(s, T) == {i \in DOMAIN s: s[i] \in T}
Place(s, T, k) == CHOOSE i \in Kept(s, T): Cardinality({j \in Kept(s, T): j <= i}) = k
Retain(s, T) == [k \in 1..Cardinality(Kept(s, T)) |-> s[Place(s, T, k)]]

Sorted(S) == Retain(Peers, S)

remove_from_order(peers, origins) == Retain(peers, PeerSet \ origins)

\* The origins that leave the order of x when those of `gone` are removed and
\* those of `new` have their record replaced, and the ones that enter it.
Leaving(d, gone, new, x) ==
    {q \in gone: x \in ReadyFrom(d, q)}
        \cup {q \in DOMAIN new: x \in ReadyFrom(d, q) \ ready_prefixes(new[q])}

Entering(d, new, x) ==
    {q \in DOMAIN new: /\ x \in ready_prefixes(new[q]) \ ReadyFrom(d, q)
                       /\ ~Contains(d.order[x], q)}

Replaced(records, gone, new) ==
    [q \in (DOMAIN records \ gone) \cup DOMAIN new |->
        IF q \in DOMAIN new THEN new[q] ELSE records[q]]

\* MUTANT: a new exporter of a prefix enters at the front.
UpdateFront(d, gone, new) ==
    [records |-> Replaced(d.records, gone, new),
     order |-> [x \in LanPrefixes |->
         Sorted(Entering(d, new, x)) \o remove_from_order(d.order[x], Leaving(d, gone, new, x))]]

\* MUTANT: the prefixes that a new record no longer has stay in the order.
UpdateKeeping(d, gone, new) ==
    [records |-> Replaced(d.records, gone, new),
     order |-> [x \in LanPrefixes |->
         remove_from_order(d.order[x], {q \in gone: x \in ReadyFrom(d, q)})
             \o Sorted(Entering(d, new, x))]]

\* remove_origin of each origin in `gone`, which leaves the directory and the
\* order of every prefix it had ready; then replace_origin of each origin in the
\* domain of `new`, by their ids: the record takes the place of its last one, and
\* the origin leaves the orders of the prefixes it no longer has ready and joins
\* the new ones at the tail.
Update(d, gone, new) ==
    [records |-> Replaced(d.records, gone, new),
     order |-> [x \in LanPrefixes |->
         remove_from_order(d.order[x], Leaving(d, gone, new, x))
             \o Sorted(Entering(d, new, x))]]

remove_origin(d, origin) == Update(d, {origin}, <<>>)

replace_origin(d, origin, record) == Update(d, {}, [q \in {origin} |-> record])

\* compare_digest: the hash of a record stands for the record.
InSync(d, origin, record) ==
    origin \in DOMAIN d.records /\ d.records[origin] = record

\* The order of every prefix lists the origins that have it ready, each once.
Exact(d) ==
    \A x \in LanPrefixes:
        /\ IsInjective(d.order[x])
        /\ ToSet(d.order[x]) = {q \in DOMAIN d.records: x \in ready_prefixes(d.records[q])}
=============================================================================
