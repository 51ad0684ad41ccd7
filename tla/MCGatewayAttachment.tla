------------------------- MODULE MCGatewayAttachment -------------------------
(* Small instances of GatewayAttachment. *)
EXTENDS GatewayAttachment, TLC

\* The Scope lists an operator or the Platform may present: nothing, Tunnel
\* "t" under its issuer, under another one, twice, or unverifiable.
MCListings ==
    LET file(i, ok) == [tunnel |-> "t", issuer |-> i, valid |-> ok] IN
    {<<>>, <<file("k1", TRUE)>>, <<file("k2", TRUE)>>,
     <<file("k1", TRUE), file("k1", TRUE)>>, <<file("k1", FALSE)>>}

Presents(p, f, r) ==
    [tunnel |-> "t", peer |-> p, family |-> f, replica |-> r, issuer |-> "k1"]

\* One replica that reconnects.
MCReconnect ==
    "s1" :> Presents("p", "f1", "f1-0") @@ "s2" :> Presents("p", "f1", "f1-0")

\* Three replicas of one family compete for two permits with a session of
\* another family of the same Peer.
MCReplicas ==
    "s1" :> Presents("p", "f1", "f1-0") @@ "s2" :> Presents("p", "f1", "f1-1")
        @@ "s3" :> Presents("p", "f1", "f1-2") @@ "s4" :> Presents("p", "f2", "f2-0")
=============================================================================
