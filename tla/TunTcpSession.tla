---------------------------- MODULE TunTcpSession ----------------------------
(***************************************************************************)
(* One TCP connection through the native half of the Android VPN:          *)
(* hev-socks5-session-tcp.c, hev-ring-buffer.c and what they use of lwIP.  *)
(*                                                                         *)
(* The session task moves bytes between the application, whose end is an   *)
(* lwIP pcb, and the socket to the SOCKS server.  It runs without a pause  *)
(* from one yield to the next; lwIP's callbacks run in other tasks between *)
(* its slices.  Towards the server bytes wait in a chain of pbufs.         *)
(* Towards the application they are read into a ring buffer and given to   *)
(* lwIP by address, not copied: lwIP sends them, again if need be, out of  *)
(* the ring until the application has acknowledged them.                   *)
(***************************************************************************)
EXTENDS Integers, Sequences, SequencesExt

CONSTANTS
    TcpBufferSize,   \* tcp-buffer-size of the configuration
    SndBuf,          \* TCP_SND_BUF
    Wnd,             \* TCP_WND
    SockBuf,         \* what the socket takes in either direction
    MaxUp,           \* bound: bytes from the application
    MaxDown,         \* bound: bytes from the server
    Setups           \* the configurations checked together, see SetupType

Faults == {"timeout",   \* the session's timeout runs out
           "stop",      \* the session is terminated from outside
           "reset",     \* lwIP loses the connection to the application
           "error",     \* the connection to the server fails
           "memory",    \* tcp_write has no memory
           "output",    \* writing the TUN fails, for good or with EAGAIN
           "msl"}       \* a wait is longer than lwIP's TIME-WAIT

SetupType == [up : 0..MaxUp, down : 0..MaxDown,  \* bytes that are sent
              patient : BOOLEAN,    \* the server closes after the application
              faults : SUBSET Faults]

ASSUME TcpAssumption ==
    /\ {TcpBufferSize, SndBuf, Wnd, SockBuf} \subseteq Nat \ {0}
    /\ MaxUp \in Nat /\ MaxDown \in Nat
    /\ Setups \subseteq SetupType

VARIABLES
    phase,           \* of the task: connecting, in the loop, draining, gone
    waiting,         \* the task waits; otherwise it is to run
    edge,            \* the reactor has an event of the socket to report
    terminated,      \* the timeout is 0
    res_f, res_b,
    queue,           \* bytes in the chain of pbufs
    pcb_eof,
    pcb,             \* the pointer is not NULL
    rp, wp, use_size, rda_size,
    data,            \* at each place of the ring the number of its byte
    \* lwIP
    state,           \* of the pcb
    snd_buf,
    unacked,         \* places of the ring lwIP may still send from, in order
    acked,           \* bytes the application acknowledged
    sent,            \* bytes the application sent
    recved,          \* bytes tcp_recved was called for
    \* the socket
    upSent, upRead,  \* bytes the server sent, and those read of them
    upEnd,           \* how the server's direction ended
    written, taken,  \* bytes written, and those the server took
    shut,            \* SHUT_WR
    setup            \* the member of Setups this behaviour runs with

fVars    == <<queue, recved, written, shut>>
bVars    == <<rp, wp, use_size, rda_size, data, snd_buf, unacked, upRead, state>>
taskVars == <<phase, waiting, terminated, pcb, res_f, res_b>>
vars     == <<fVars, bVars, taskVars, edge, pcb_eof, acked, sent, upSent, upEnd,
              taken, setup>>

(* Mutant of max_size: the size is taken as it is configured. *)
Unclamped == TcpBufferSize

\* hev_config_parse_doc cuts the size down to what lwIP takes.
max_size == IF TcpBufferSize > SndBuf THEN SndBuf ELSE TcpBufferSize

States == {"ESTABLISHED", "CLOSE_WAIT", "FIN_WAIT_1", "FIN_WAIT_2", "CLOSING",
           "LAST_ACK", "TIME_WAIT", "freed"}

Init ==
    /\ phase = "connecting" /\ waiting = FALSE /\ edge = FALSE
    /\ terminated = FALSE /\ res_f = 1 /\ res_b = 1
    /\ queue = 0 /\ pcb_eof = FALSE /\ pcb = TRUE
    /\ rp = 0 /\ wp = 0 /\ use_size = 0 /\ rda_size = 0
    /\ data = [i \in 0..max_size - 1 |-> 0]
    /\ state = "ESTABLISHED" /\ snd_buf = SndBuf /\ unacked = <<>> /\ acked = 0
    /\ sent = 0 /\ recved = 0
    /\ upSent = 0 /\ upRead = 0 /\ upEnd = "open" /\ written = 0 /\ taken = 0
    /\ shut = FALSE
    /\ setup \in Setups
-----------------------------------------------------------------------------
(***************************************************************************)
(* tcp_splice_f.  A part of the chain may be written: the socket takes no   *)
(* more, or the chain has more than 64 pieces.                             *)
(***************************************************************************)
Room == SockBuf - (written - taken)

WriteQueue ==
    \/ /\ upEnd # "error"
       /\ \E n \in 1..queue :
             /\ n <= Room
             /\ queue' = queue - n /\ written' = written + n
             /\ recved' = IF pcb THEN recved + n ELSE recved
       /\ res_f' = 1 /\ UNCHANGED shut
    \/ upEnd # "error" /\ Room = 0 /\ res_f' = 0 /\ UNCHANGED fVars
    \/ upEnd = "error" /\ res_f' = -1 /\ UNCHANGED fVars

ShutDown == res_f' = -1 /\ shut' = TRUE /\ UNCHANGED <<queue, recved, written>>

(* Mutant of SpliceF: the end of the stream is looked at before the queue. *)
SpliceEofFirst ==
    \/ pcb_eof /\ ShutDown
    \/ ~pcb_eof /\ queue > 0 /\ WriteQueue
    \/ ~pcb_eof /\ queue = 0 /\ res_f' = 0 /\ UNCHANGED fVars

SpliceF ==
    \/ queue > 0 /\ WriteQueue
    \/ queue = 0 /\ pcb_eof /\ ShutDown
    \/ queue = 0 /\ ~pcb_eof /\ res_f' = 0 /\ UNCHANGED fVars
-----------------------------------------------------------------------------
(***************************************************************************)
(* tcp_splice_b and the ring buffer.                                       *)
(***************************************************************************)
\* hev_ring_buffer_writing: the space from wp on, around the end of the ring.
Space == max_size - use_size

\* What readv gives: bytes, 0 for EAGAIN or no space, -1 at the end.
Reads ==
    IF Space = 0 THEN {0}
    ELSE IF upRead < upSent
    THEN {n \in 1..Space : n <= upSent - upRead}
    ELSE IF upEnd = "open" THEN {0} ELSE {-1}

\* hev_ring_buffer_write_finish.
Filled(n) ==
    /\ wp' = (wp + n) % max_size
    /\ use_size' = use_size + n
    /\ upRead' = upRead + n
    /\ data' = [i \in DOMAIN data |->
                  LET k == (i - wp) % max_size
                  IN  IF k < n THEN upRead + k + 1 ELSE data[i]]

Places(from, n) == [k \in 1..n |-> from + k - 1]

\* hev_ring_buffer_reading gives the n unread bytes in one or two pieces; each
\* is offered to tcp_write, which takes all of it or nothing of it.
Taken(n, refused) ==
    LET first == IF n <= max_size - rp THEN n ELSE max_size - rp
        one   == IF 1 \notin refused /\ first <= snd_buf
                 THEN Places(rp, first) ELSE <<>>
    IN  one \o IF 2 \notin refused /\ n - first <= snd_buf - Len(one)
               THEN Places(0, n - first) ELSE <<>>

\* tcp_output hands on the error of the TUN; lwIP keeps what was not sent.
Outputs == IF "output" \in setup.faults THEN {"OK", "ERR_IF"} ELSE {"OK"}

Refusals == IF "memory" \in setup.faults THEN SUBSET {1, 2} ELSE {{}}

(* Mutant of HandOver: a refusal by tcp_write is overlooked. *)
HandOverBlindly(n) ==
    \E refused \in Refusals :
       /\ unacked' = unacked \o Taken(n, refused)
       /\ snd_buf' = snd_buf - Len(Taken(n, refused))
       /\ rp' = (rp + n) % max_size /\ rda_size' = 0
       /\ res_b' = 1
       /\ UNCHANGED state

\* Taken or not, all bytes count as read.  An error of tcp_output ends the
\* direction as one of tcp_write does, although every piece may be taken.
HandOver(n) ==
    \E refused \in Refusals, output \in Outputs :
       /\ unacked' = unacked \o Taken(n, refused)
       /\ snd_buf' = snd_buf - Len(Taken(n, refused))
       /\ rp' = (rp + n) % max_size /\ rda_size' = 0
       /\ res_b' = IF Len(Taken(n, refused)) = n /\ output = "OK" THEN 1 ELSE -1
       /\ UNCHANGED state

\* tcp_shutdown of the sending side.
Fin == CASE state = "ESTABLISHED" -> "FIN_WAIT_1"
         [] state = "CLOSE_WAIT"  -> "LAST_ACK"
         [] OTHER -> state

SpliceB ==
    \E r \in Reads :
       LET n == IF r > 0 THEN r ELSE 0
       IN  /\ Filled(n)
           /\ \/ pcb /\ rda_size + n > 0 /\ HandOver(rda_size + n)
              \/ /\ pcb /\ rda_size + n = 0
                 /\ state' = (IF r < 0 THEN Fin ELSE state) /\ res_b' = r
                 /\ UNCHANGED <<rp, rda_size, snd_buf, unacked>>
              \/ /\ ~pcb
                 /\ rda_size' = rda_size + n /\ res_b' = -1
                 /\ UNCHANGED <<rp, snd_buf, unacked, state>>
-----------------------------------------------------------------------------
(***************************************************************************)
(* hev_socks5_session_tcp_splice and hev_socks5_session_tcp_destruct.      *)
(***************************************************************************)
\* The pcb is aborted, with what lwIP still has to send, and the queue freed.
Destruct == phase' = "gone" /\ waiting' = FALSE /\ pcb' = FALSE

\* task_io_yielder: with a timeout of 0 there is no waiting, and the session
\* ends, through the second loop if it was in the first.
WaitIn(there) ==
    IF terminated THEN Destruct
    ELSE phase' = there /\ waiting' = TRUE /\ UNCHANGED pcb

\* The second loop: what the application has not acknowledged is waited for.
Drain(used) == IF pcb /\ used > 0 THEN WaitIn("drain") ELSE Destruct

\* hev_socks5_session_run up to the splicer.  A terminate is lost if the
\* handshake stores its timeout afterwards.
Connected ==
    /\ phase = "connecting"
    /\ terminated' \in {terminated, FALSE}
    /\ IF pcb THEN phase' = "loop" /\ UNCHANGED <<waiting, pcb>> ELSE Destruct
    /\ UNCHANGED <<fVars, bVars, res_f, res_b, edge, pcb_eof, acked, sent, upSent,
                   upEnd, taken, setup>>

ConnectFails ==
    /\ phase = "connecting"
    /\ setup.faults \cap {"timeout", "stop", "reset", "error"} # {}
    /\ Destruct
    /\ UNCHANGED <<fVars, bVars, terminated, res_f, res_b, edge, pcb_eof, acked,
                   sent, upSent, upEnd, taken, setup>>

\* One turn of the first loop.
Splice ==
    /\ phase = "loop" /\ ~waiting
    /\ IF res_f >= 0 THEN SpliceF ELSE UNCHANGED <<res_f, fVars>>
    /\ IF res_b >= 0 THEN SpliceB ELSE UNCHANGED <<res_b, bVars>>
    /\ \/ (res_f' > 0 \/ res_b' > 0) /\ UNCHANGED <<phase, waiting, pcb>>
       \/ 0 \in {res_f', res_b'} /\ 1 \notin {res_f', res_b'} /\ WaitIn("loop")
       \/ res_f' < 0 /\ res_b' < 0 /\ Drain(use_size')
    /\ UNCHANGED <<terminated, edge, pcb_eof, acked, sent, upSent, upEnd, taken,
                   setup>>

Drains ==
    /\ phase = "drain" /\ ~waiting
    /\ Drain(use_size)
    /\ UNCHANGED <<fVars, bVars, terminated, res_f, res_b, edge, pcb_eof, acked,
                   sent, upSent, upEnd, taken, setup>>

TimesOut ==
    /\ "timeout" \in setup.faults /\ waiting
    /\ IF phase = "loop" THEN Drain(use_size) ELSE Destruct
    /\ UNCHANGED <<fVars, bVars, terminated, res_f, res_b, edge, pcb_eof, acked,
                   sent, upSent, upEnd, taken, setup>>

\* An event of the socket, reported once, wakes the task if it waits.
Poll ==
    /\ edge /\ phase # "gone"
    /\ edge' = FALSE /\ waiting' = FALSE
    /\ UNCHANGED <<fVars, bVars, phase, terminated, pcb, res_f, res_b, pcb_eof,
                   acked, sent, upSent, upEnd, taken, setup>>

\* hev_socks5_session_terminate.
Terminate == terminated' = TRUE /\ waiting' = FALSE

Stopped ==
    /\ "stop" \in setup.faults /\ phase # "gone" /\ ~terminated
    /\ Terminate
    /\ UNCHANGED <<fVars, bVars, phase, pcb, res_f, res_b, edge, pcb_eof, acked,
                   sent, upSent, upEnd, taken, setup>>
-----------------------------------------------------------------------------
(***************************************************************************)
(* lwIP and its callbacks.                                                 *)
(***************************************************************************)
Callbacks == phase # "gone" /\ pcb /\ state # "freed"

\* tcp_recv_handler with data the window allows.  A chain longer than the
\* window is refused, and lwIP keeps the data and offers it again.
Recv(n) ==
    /\ Callbacks /\ ~pcb_eof
    /\ sent + n <= setup.up /\ sent + n - recved <= Wnd
    /\ queue <= Wnd
    /\ queue' = queue + n /\ sent' = sent + n /\ waiting' = FALSE
    /\ UNCHANGED <<bVars, phase, terminated, pcb, res_f, res_b, recved, written,
                   shut, edge, pcb_eof, acked, upSent, upEnd, taken, setup>>

\* tcp_recv_handler with the end of the application's stream.
RecvFin ==
    /\ Callbacks /\ ~pcb_eof
    /\ pcb_eof' = TRUE /\ waiting' = FALSE
    /\ state' = CASE state = "ESTABLISHED" -> "CLOSE_WAIT"
                  [] state = "FIN_WAIT_1"  -> "CLOSING"
                  [] state = "FIN_WAIT_2"  -> "TIME_WAIT"
    /\ UNCHANGED <<fVars, rp, wp, use_size, rda_size, data, snd_buf, unacked,
                   upRead, phase, terminated, pcb, res_f, res_b, edge, acked,
                   sent, upSent, upEnd, taken, setup>>

(* Mutant of Release: the ring starts over when all of it was handed on. *)
ReleaseRead(n) ==
    /\ use_size' = use_size - n
    /\ rp' = (IF rda_size = 0 THEN 0 ELSE rp) /\ wp' = IF rda_size = 0 THEN 0 ELSE wp

\* hev_ring_buffer_read_release.
Release(n) ==
    /\ use_size' = use_size - n
    /\ rp' = (IF use_size' = 0 THEN 0 ELSE rp)
    /\ wp' = (IF use_size' = 0 THEN 0 ELSE wp)

(* Mutant of Sent: the session is not woken. *)
SentQuietly(n) ==
    /\ Callbacks /\ n <= Len(unacked)
    /\ unacked' = SubSeq(unacked, n + 1, Len(unacked))
    /\ acked' = acked + n /\ snd_buf' = snd_buf + n
    /\ Release(n)
    /\ UNCHANGED <<fVars, rda_size, data, upRead, state, phase, waiting, terminated,
                   pcb, res_f, res_b, edge, pcb_eof, sent, upSent, upEnd, taken,
                   setup>>

\* An acknowledgement, and tcp_sent_handler.
Sent(n) ==
    /\ Callbacks /\ n <= Len(unacked)
    /\ unacked' = SubSeq(unacked, n + 1, Len(unacked))
    /\ acked' = acked + n /\ snd_buf' = snd_buf + n
    /\ Release(n)
    /\ waiting' = FALSE
    /\ UNCHANGED <<fVars, rda_size, data, upRead, state, phase, terminated, pcb,
                   res_f, res_b, edge, pcb_eof, sent, upSent, upEnd, taken, setup>>

\* The application acknowledges the end of the stream.  In LAST_ACK that ends
\* the connection and tcp_err_handler is called with ERR_CLSD.
SentFin ==
    /\ Callbacks /\ unacked = <<>>
    /\ state \in {"FIN_WAIT_1", "CLOSING", "LAST_ACK"}
    /\ IF state = "LAST_ACK"
       THEN state' = "freed" /\ pcb' = FALSE /\ Terminate
       ELSE /\ state' = IF state = "CLOSING" THEN "TIME_WAIT" ELSE "FIN_WAIT_2"
            /\ UNCHANGED <<pcb, terminated, waiting>>
    /\ UNCHANGED <<fVars, rp, wp, use_size, rda_size, data, snd_buf, unacked,
                   upRead, phase, res_f, res_b, edge, pcb_eof, acked, sent, upSent,
                   upEnd, taken, setup>>

\* tcp_err_handler: a reset, or lwIP gives the connection up.
Err ==
    /\ "reset" \in setup.faults /\ Callbacks /\ state # "TIME_WAIT"
    /\ state' = "freed" /\ pcb' = FALSE /\ Terminate
    /\ UNCHANGED <<fVars, rp, wp, use_size, rda_size, data, snd_buf, unacked,
                   upRead, phase, res_f, res_b, edge, pcb_eof, acked, sent, upSent,
                   upEnd, taken, setup>>

\* tcp_slowtmr frees a pcb that was long in TIME_WAIT, and tells nobody.
TimeWaitEnds ==
    /\ "msl" \in setup.faults /\ Callbacks /\ state = "TIME_WAIT" /\ waiting
    /\ state' = "freed"
    /\ UNCHANGED <<fVars, rp, wp, use_size, rda_size, data, snd_buf, unacked,
                   upRead, taskVars, edge, pcb_eof, acked, sent, upSent, upEnd,
                   taken, setup>>
-----------------------------------------------------------------------------
(***************************************************************************)
(* The SOCKS server's end of the socket.                                   *)
(***************************************************************************)
UpSends(n) ==
    /\ phase # "gone" /\ upEnd = "open"
    /\ upSent + n <= setup.down /\ upSent + n - upRead <= SockBuf
    /\ upSent' = upSent + n /\ edge' = TRUE
    /\ UNCHANGED <<fVars, bVars, taskVars, pcb_eof, acked, sent, upEnd, taken, setup>>

UpTakes ==
    /\ phase # "gone" /\ upEnd # "error" /\ taken < written
    /\ taken' = written /\ edge' = TRUE
    /\ UNCHANGED <<fVars, bVars, taskVars, pcb_eof, acked, sent, upSent, upEnd, setup>>

UpCloses ==
    /\ phase # "gone" /\ upEnd = "open" /\ (setup.patient => shut)
    /\ upEnd' = "eof" /\ edge' = TRUE
    /\ UNCHANGED <<fVars, bVars, taskVars, pcb_eof, acked, sent, upSent, taken, setup>>

UpFails ==
    /\ "error" \in setup.faults /\ phase # "gone" /\ upEnd # "error"
    /\ upEnd' = "error" /\ edge' = TRUE
    /\ UNCHANGED <<fVars, bVars, taskVars, pcb_eof, acked, sent, upSent, taken, setup>>
-----------------------------------------------------------------------------
SessionStep == Connected \/ Splice \/ Drains
Next ==
    \/ SessionStep \/ ConnectFails \/ TimesOut \/ Poll \/ Stopped
    \/ \E n \in 1..Wnd : Recv(n)
    \/ \E n \in 1..SndBuf : Sent(n)
    \/ RecvFin \/ SentFin \/ Err \/ TimeWaitEnds
    \/ \E n \in 1..SockBuf : UpSends(n)
    \/ UpTakes \/ UpCloses \/ UpFails

\* The task system runs what is to run and reports what the socket has; both
\* peers go on: they take, acknowledge and close.
Fairness ==
    /\ WF_vars(SessionStep) /\ WF_vars(Poll)
    /\ WF_vars(RecvFin) /\ WF_vars(SentFin) /\ WF_vars(\E n \in 1..SndBuf : Sent(n))
    /\ WF_vars(UpTakes) /\ WF_vars(UpCloses)

Spec == Init /\ [][Next]_vars /\ Fairness
-----------------------------------------------------------------------------
\* Every place lwIP may send or resend from holds the byte that is due there:
\* the task never reads over bytes that are not acknowledged, around the end
\* of the ring and when read_release starts it over.  It needs a tcp_write that
\* does not run out of memory.
StreamExact ==
    "memory" \notin setup.faults =>
       \A k \in DOMAIN unacked : data[unacked[k]] = acked + k

\* Whatever readv may put into the ring fits into lwIP's send buffer, whose
\* limit is not the ring's: tcp_write never refuses a piece for its size, which
\* would lose it and end the session.
RoomForRead ==
    phase = "loop" /\ pcb => rda_size + (max_size - use_size) <= snd_buf

\* The application sees an end of the stream only after everything the server
\* had sent was given to lwIP: no byte is left behind in the socket, in the ring
\* or in a tcp_write that failed.
FinComplete ==
    state \notin {"ESTABLISHED", "CLOSE_WAIT", "freed"} =>
       acked + Len(unacked) = upRead /\ upRead = upSent

\* The server sees an end of the stream only after every byte the application
\* sent before its own end was written.
ShutComplete == shut => pcb_eof /\ queue = 0 /\ written = sent

\* Undisturbed, a session ends, and only when the application acknowledged
\* everything the server sent; a server that waits for the application to close
\* has also been sent everything.
Delivered ==
    setup.faults = {} ~> /\ phase = "gone" /\ acked = upSent
                         /\ setup.patient => written = sent
-----------------------------------------------------------------------------
(***************************************************************************)
(* What does not hold, see section 4 of the README.                        *)
(***************************************************************************)
\* The pcb the session points to exists.
PcbAlive == pcb => state # "freed"

\* The application sees an end of the stream only if the server ended it.
FinMeansEof ==
    [][state' \in {"FIN_WAIT_1", "LAST_ACK"} /\ state' # state => upEnd = "eof"]_vars

\* Bytes lwIP takes follow each other without a gap, even if some are refused.
NoGap == \A k \in DOMAIN unacked : data[unacked[k]] = acked + k

\* A session delivers everything when the TUN is full for a moment.
DeliveredThroughOutput ==
    setup.faults \subseteq {"output"} ~> phase = "gone" /\ acked = upSent

\* A connection both ends have closed delivers what the application sent.
AllSent == setup.faults = {} ~> phase = "gone" /\ written = sent
=============================================================================
