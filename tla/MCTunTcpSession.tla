--------------------------- MODULE MCTunTcpSession ---------------------------
(* TunTcpSession with a ring that wraps and starts over, both ways at once. *)
EXTENDS TunTcpSession

Setup(up, down, patient, faults) ==
    [up |-> up, down |-> down, patient |-> patient, faults |-> faults]

\* A long stream from the server, one to it, both with every end of it, and
\* both with everything that can go wrong together.
Download  == Setup(0, 6, FALSE, {})
Upload    == Setup(4, 1, TRUE, {})
Impatient == Setup(3, 2, FALSE, {})
Failing   == Setup(2, 3, FALSE, {"timeout", "stop", "reset", "error", "output"})
Starved   == Setup(0, 4, FALSE, {"memory", "timeout"})
Lingering == Setup(3, 0, FALSE, {"msl"})
AllSetups == {Download, Upload, Impatient, Failing, Starved, Lingering}
=============================================================================
