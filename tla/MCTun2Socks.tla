----------------------------- MODULE MCTun2Socks -----------------------------
(* Tun2Socks with two threads that start it, two that stop it and two sessions. *)
EXTENDS Tun2Socks

Setup(starters, stoppers, sessions, runs, calls, faults) ==
    [starters |-> starters, stoppers |-> stoppers, sessions |-> sessions,
     udp |-> IF Cardinality(sessions) = 1 THEN BOOLEAN ELSE {FALSE},
     ring |-> IF Cardinality(sessions) = 1 THEN 1 ELSE 0,
     runs |-> runs, stops |-> calls, faults |-> faults,
     max_session_count |-> IF Cardinality(sessions) = 2 THEN 2 ELSE 0]

\* Starts and stops race over two runs; a session of either kind lives across a
\* stop; two TCP sessions share a list with a limit; everything goes wrong.
Racing    == Setup(Starters, Stoppers, {}, 2, 2, {"task"})
Serving   == Setup({"t1"}, {"p1"}, {"s1"}, 1, 1, {})
Limited   == Setup({"t1"}, {"p1"}, Sessions, 1, 1, {})
Failing   == Setup({"t1"}, {"p1"}, {}, 2, 2, Faults)
AllSetups == {Racing, Serving, Limited, Failing}
=============================================================================
