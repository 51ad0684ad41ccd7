---------------------------- MODULE MCLocalExports ----------------------------
(* LocalExports with three prefixes, two networks and room for two exports. *)
EXTENDS LocalExports

\* "home" typed; the current LAN; both.
ThreeAnswers == {[configured |-> <<"home">>, auto_current_lan |-> FALSE],
                 [configured |-> <<>>, auto_current_lan |-> TRUE],
                 [configured |-> <<"home", "lab">>, auto_current_lan |-> TRUE]}

\* At home, where there is a second network, in the office, nowhere.
ThreeNetworks == {<<"guest", "home">>, <<"office">>, <<>>}
=============================================================================
