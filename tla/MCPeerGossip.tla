----------------------------- MODULE MCPeerGossip -----------------------------
(* PeerGossip on a pair of Clients, and on a Client with two exporters. *)
EXTENDS PeerGossip

None == [x \in {} |-> FALSE]
Withdrawn == [x \in {"lan"} |-> FALSE]
Exported == [x \in {"lan"} |-> TRUE]

Pair == <<"a", "hub">>
Star == <<"a", "b", "hub">>
MayPublish(p) == CASE p = "a" -> {Exported, Withdrawn}
                   [] p = "b" -> {Exported}
                   [] p = "hub" -> {None}
PairRecords == [p \in ToSet(Pair) |-> MayPublish(p)]
StarRecords == [p \in ToSet(Star) |-> MayPublish(p)]

Setup(links, digests, sess, changes, faults, resets) ==
    [links |-> links, digests |-> digests, sessions |-> sess, changes |-> changes,
     faults |-> faults, resets |-> resets]

PairLinks == {{"a", "hub"}}
StarLinks == {{"a", "hub"}, {"b", "hub"}}

\* Two exporters open their links; on a pair the key is replaced, with any two of a
\* record change, a fault and a Peer retired or a Client reconnected.
Opening  == Setup(StarLinks, {}, 1, 1, 0, 0)
Retiring == {Setup(PairLinks, {}, 2, 0, 1, 1), Setup(PairLinks, {}, 2, 1, 0, 1)}
Rekeying == Setup(PairLinks, {}, 2, 1, 1, 0)
RouteSetups == {Opening, Rekeying} \cup Retiring

\* A pair opens its link, twice, and no digest timer fires; a lane or a payload is lost
\* and digests repair it.
Pushing == Setup(PairLinks, {}, 2, 1, 0, 0)
Losing  == Setup(PairLinks, {"a"}, 1, 1, 1, 0)
FairSetups == {Pushing, Losing}
=============================================================================
