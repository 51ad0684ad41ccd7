---------------------------- MODULE MCGatewayRelay ----------------------------
(* GatewayRelay with two Peers, one of them with two replicas. *)
EXTENDS GatewayRelay

OneAndTwo == [s \in {"a", "b1", "b2"} |-> IF s = "a" THEN "A" ELSE "B"]

Load(sessions, n, frames, leavers) ==
    [sessions |-> sessions, routes |-> n, frames |-> frames, leavers |-> leavers,
     reuse |-> FALSE, scopeMayGo |-> leavers # {}]

\* Both replicas send and close on one route; every kind of opener races for a
\* bind that expires and is bound again; both ends leave around an abort; the
\* target leaves while datagrams are under way; its unregister is still cleaning
\* when the conn_id is bound to the other replica; a used conn_id is bound again.
ExactLoad == Load({"a", "b1", "b2"}, 1, {"connect", "accepted", "refused", "data", "close"}, {})
OpenLoad  == Load({"a", "b1"}, 2, {"connect", "flow", "control", "abort"}, {})
LeaveLoad == Load({"a", "b1"}, 1, {"control", "abort"}, {"a", "b1"})
DatagramLoad == Load({"a", "b1"}, 1, {"control", "udp"}, {"b1"})
HandoverLoad ==
    [Load({"a", "b1", "b2"}, 2, {"control"}, {"b1"}) EXCEPT !.scopeMayGo = FALSE]
ReuseLoad ==
    [Load({"a", "b1"}, 2, {"connect", "flow", "refused"}, {"b1"}) EXCEPT
        !.scopeMayGo = FALSE, !.reuse = TRUE]
AllLoads ==
    {ExactLoad, OpenLoad, LeaveLoad, DatagramLoad, HandoverLoad, ReuseLoad}
=============================================================================
