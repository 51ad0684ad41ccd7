------------------------------ MODULE Tun2Socks ------------------------------
(***************************************************************************)
(* The native half of the Android VPN: tun2socks_jni.c and the             *)
(* hev-socks5-tunnel runtime under it.                                     *)
(*                                                                         *)
(* Threads of the application call start and stop.  start runs the whole   *)
(* tunnel and returns when it has ended; stop is called from other threads *)
(* and only asks for that.  They share tun2socks_running, stop_requested   *)
(* and event_fds, without a lock: every access is a step of its own.       *)
(*                                                                         *)
(* Inside start a cooperative task system runs the event task, the lwIP    *)
(* I/O task, the lwIP timer task and one task for each session.  A task    *)
(* keeps the processor up to its next yield, so what it does between two   *)
(* yields is one step.  The mutex around lwIP is never contended, because  *)
(* no task yields while it holds it.                                       *)
(***************************************************************************)
EXTENDS Naturals, Sequences, FiniteSets, SequencesExt

CONSTANTS
    Starters,        \* threads that call Tun2SocksNative.start
    Stoppers,        \* threads that call Tun2SocksNative.stop
    Sessions,        \* session objects, each used again once it is gone
    Ring,            \* bound: slices a session is busy for without an ACK
    MaxRuns,         \* bound: start calls that get past the running flag
    MaxStops,        \* bound: stop calls
    Setups           \* the configurations checked together, see SetupType

Faults == {"tunnel",   \* tunnel_init fails
           "task",     \* a task cannot be made
           "store",    \* a store becomes visible after a later load
           "tun",      \* reading the TUN fails for good
           "chatter"}  \* a UDP remote never pauses for as long as a timeout

SetupType == [starters : SUBSET Starters,    \* who calls start
              stoppers : SUBSET Stoppers,    \* who calls stop
              sessions : SUBSET Sessions,    \* which sessions are accepted
              udp : SUBSET BOOLEAN,          \* whether they carry UDP
              ring : 0..Ring,                \* how long they are busy
              runs : 0..MaxRuns,             \* how many runs there are
              stops : 0..MaxStops,           \* how many stop calls there are
              faults : SUBSET Faults,        \* what may go wrong
              max_session_count : Nat]  \* the limit, 0 for none

ASSUME TunAssumption ==
    /\ Setups \subseteq SetupType
    /\ Ring \in Nat /\ MaxRuns \in Nat /\ MaxStops \in Nat
    /\ Sessions \cap {"event", "io", "timer"} = {}

VARIABLES
    running,         \* tun2socks_running
    stop_requested,
    event_fd,        \* event_fds[1] as stored: the run that made it, 0 for -1
    open_fd,         \* the run whose socket pair is open, 0 for none
    event_data,      \* an unread byte is in the open socket pair
    run,
    pcbs,            \* the run that made the listeners tcp and udp point to
    listeners,       \* the run whose listeners exist, 0 for none
    gen,             \* number of the current or last run
    at,              \* where each starter is in start
    dups,            \* starters whose duplicate of the TUN is open
    contexts,        \* starters with a task system context
    stopAt,          \* where each stopper is in stop
    stopFd,          \* the descriptor a stopper has read
    unseen,          \* stoppers whose store of stop_requested is not visible
    state,           \* HevTaskState of each task
    eventAt,         \* what the event task is waiting for
    parked,          \* the timer task waits without a timeout
    tunDead,         \* reading the TUN fails
    session_set,
    sess,            \* of each session: see SessionType
    setup,           \* the member of Setups this behaviour runs with
    stops,           \* history: number of stop calls
    asked,           \* history: runs that were asked to stop
    fresh,           \* history: a stop arrived since the last run was cleared
    aborted          \* history: wakeup was called on a stopped task

flagVars    == <<running, stop_requested, gen, at, dups, contexts>>
fdVars      == <<event_fd, open_fd, event_data>>
gatewayVars == <<pcbs, listeners>>
stopVars    == <<stopAt, stopFd, unseen, stops, asked, setup>>
sessionVars == <<session_set, sess>>
taskVars    == <<run, state, eventAt, parked, tunDead>>
vars        == <<flagVars, fdVars, gatewayVars, stopVars, sessionVars, taskVars,
                 fresh, aborted>>

Tasks  == {"event", "io", "timer"} \cup Sessions
Runs   == 0..MaxRuns
Phases == <<"new", "connect", "handshake", "splice">>

NoSession == [phase |-> "gone"]
SessionType == [phase : Range(Phases),
                udp : BOOLEAN,
                timeout : {"unset", "zero", "full"},
                pcb : BOOLEAN,      \* lwIP still has the connection
                fuel : 0..Ring]     \* busy slices left: queued data, free ring

TypeOK ==
    /\ running \in BOOLEAN /\ stop_requested \in BOOLEAN /\ run \in BOOLEAN
    /\ {event_fd, open_fd, pcbs, listeners, gen} \subseteq Runs
    /\ event_data \in BOOLEAN /\ parked \in BOOLEAN /\ tunDead \in BOOLEAN
    /\ at \in [Starters -> {"idle", "exchange", "main", "check", "sched", "ret",
                            "close", "forget", "clear", "leave", "shut"}]
    /\ dups \subseteq Starters /\ contexts \subseteq Starters
    /\ stopAt \in [Stoppers -> {"idle", "set", "fd", "write"}]
    /\ stopFd \in [Stoppers -> Runs] /\ unseen \subseteq Stoppers
    /\ state \in [Tasks -> {"stopped", "running", "waiting"}]
    /\ eventAt \in {"read", "io", "timer", "done"}
    /\ Range(session_set) \subseteq Sessions /\ IsInjective(session_set)
    /\ sess \in [Sessions -> SessionType \cup {NoSession}]
    /\ stops \in 0..MaxStops /\ asked \subseteq Runs
    /\ fresh \in BOOLEAN /\ aborted \in BOOLEAN /\ setup \in Setups

Init ==
    /\ running = FALSE /\ stop_requested = FALSE /\ run = FALSE
    /\ event_fd = 0 /\ open_fd = 0 /\ event_data = FALSE
    /\ pcbs = 0 /\ listeners = 0 /\ gen = 0
    /\ at = [t \in Starters |-> "idle"] /\ dups = {} /\ contexts = {}
    /\ stopAt = [p \in Stoppers |-> "idle"] /\ stopFd = [p \in Stoppers |-> 0]
    /\ unseen = {}
    /\ state = [k \in Tasks |-> "stopped"]
    /\ eventAt = "read" /\ parked = FALSE /\ tunDead = FALSE
    /\ session_set = <<>> /\ sess = [s \in Sessions |-> NoSession]
    /\ stops = 0 /\ asked = {} /\ fresh = FALSE /\ aborted = FALSE
    /\ setup \in Setups
-----------------------------------------------------------------------------
(***************************************************************************)
(* Tun2SocksNative.start and hev_socks5_tunnel_main_inner.                 *)
(***************************************************************************)
Goto(t, there) == at' = [at EXCEPT ![t] = there]

\* dup of the caller's descriptor; a failing dup returns at once.
Start(t) ==
    /\ at[t] = "idle" /\ t \in setup.starters /\ gen < setup.runs
    /\ Goto(t, "exchange") /\ dups' = dups \cup {t}
    /\ UNCHANGED <<running, stop_requested, gen, contexts, fdVars, gatewayVars,
                   stopVars, sessionVars, taskVars, fresh, aborted>>

\* atomic_exchange of the flag: who finds it set closes the duplicate, -2.
Exchange(t) ==
    /\ at[t] = "exchange"
    /\ \/ running /\ Goto(t, "shut") /\ UNCHANGED <<running, gen>>
       \/ /\ ~running /\ gen < setup.runs
          /\ Goto(t, "main") /\ running' = TRUE /\ gen' = gen + 1
    /\ UNCHANGED <<stop_requested, dups, contexts, fdVars, gatewayVars, stopVars,
                   sessionVars, taskVars, fresh, aborted>>

\* The configuration, a logger or the task system is refused, -1 to -4: the
\* thread may already have a context.  Nothing of what was set up is undone.
MainRefused(t) ==
    /\ at[t] = "main"
    /\ Goto(t, "leave")
    /\ UNCHANGED <<running, stop_requested, gen, dups, contexts, fdVars,
                   gatewayVars, stopVars, sessionVars, taskVars, fresh, aborted>>

\* hev_socks5_tunnel_init and the head of hev_socks5_tunnel_run: the listeners
\* and the socket pair exist from here, and the three tasks are queued.
Initialise(t) ==
    /\ at[t] = "main" /\ t \notin contexts
    /\ contexts' = contexts \cup {t}
    /\ pcbs' = gen /\ listeners' = gen
    /\ event_fd' = gen /\ open_fd' = gen /\ event_data' = FALSE
    /\ state' = [k \in Tasks |-> IF k \in Sessions THEN "stopped" ELSE "running"]
    /\ eventAt' = "read" /\ parked' = FALSE /\ run' = TRUE
    /\ Goto(t, "check")
    /\ UNCHANGED <<running, stop_requested, gen, dups, stopVars, sessionVars,
                   tunDead, fresh, aborted>>

(* Mutant of InitFails: the failed start returns without the fini. *)
InitFailsAtOnce(t, step) ==
    /\ at[t] = "main" /\ t \notin contexts
    /\ contexts' = contexts \cup {t}
    /\ pcbs' = gen /\ listeners' = gen /\ event_fd' = gen /\ open_fd' = gen
    /\ eventAt' = "read"
    /\ Goto(t, "leave")
    /\ UNCHANGED <<running, stop_requested, gen, dups, event_data, stopVars,
                   sessionVars, run, state, parked, tunDead, fresh, aborted>>

\* A step of the initialisation fails and hev_socks5_tunnel_fini runs: the
\* TUN, before any listener is made, or a task, after the socket pair is.
InitFails(t, step) ==
    /\ at[t] = "main" /\ t \notin contexts
    /\ contexts' = contexts \cup {t}
    /\ \/ step = "tunnel" /\ UNCHANGED <<gatewayVars, event_fd, open_fd>>
       \/ /\ step = "task"
          /\ pcbs' = gen /\ listeners' = gen /\ event_fd' = gen /\ open_fd' = gen
    /\ eventAt' = "read"
    /\ Goto(t, "close")
    /\ UNCHANGED <<running, stop_requested, gen, dups, event_data, stopVars,
                   sessionVars, run, state, parked, tunDead, fresh, aborted>>

(* Mutant of CheckStop: stop_requested is not looked at. *)
CheckNothing(t) ==
    /\ at[t] = "check"
    /\ Goto(t, "sched")
    /\ UNCHANGED <<running, stop_requested, gen, dups, contexts, fdVars,
                   gatewayVars, stopVars, sessionVars, taskVars, fresh, aborted>>

\* hev_socks5_tunnel_run looks for a stop that came before the socket pair.
CheckStop(t) ==
    /\ at[t] = "check"
    /\ event_data' = (event_data \/ stop_requested)
    /\ Goto(t, "sched")
    /\ UNCHANGED <<running, stop_requested, gen, dups, contexts, event_fd, open_fd,
                   gatewayVars, stopVars, sessionVars, taskVars, fresh, aborted>>

\* hev_task_system_run returns when every task has ended.
Scheduled(t) ==
    /\ at[t] = "sched" /\ \A k \in Tasks : state[k] = "stopped"
    /\ Goto(t, "ret")
    /\ UNCHANGED <<running, stop_requested, gen, dups, contexts, fdVars,
                   gatewayVars, stopVars, sessionVars, taskVars, fresh, aborted>>

Returned(t) ==
    /\ at[t] = "ret"
    /\ stop_requested' = FALSE
    /\ Goto(t, "close")
    /\ UNCHANGED <<running, gen, dups, contexts, fdVars, gatewayVars, stopVars,
                   sessionVars, taskVars, fresh, aborted>>

\* event_task_fini closes the pair first and forgets its number afterwards.
CloseFds(t) ==
    /\ at[t] = "close"
    /\ open_fd' = 0 /\ event_data' = FALSE
    /\ Goto(t, "forget")
    /\ UNCHANGED <<running, stop_requested, gen, dups, contexts, event_fd,
                   gatewayVars, stopVars, sessionVars, taskVars, fresh, aborted>>

\* ... and gateway_fini closes what tcp and udp point to.
ForgetFds(t) ==
    /\ at[t] = "forget"
    /\ event_fd' = 0
    /\ listeners' = IF pcbs = listeners THEN 0 ELSE listeners
    /\ Goto(t, "clear")
    /\ UNCHANGED <<running, stop_requested, gen, dups, contexts, open_fd,
                   event_data, pcbs, stopVars, sessionVars, taskVars, fresh, aborted>>

(* Mutant of ClearStop: only hev_socks5_tunnel_run takes the request back. *)
ClearRun(t) ==
    /\ at[t] = "clear"
    /\ run' = FALSE /\ fresh' = FALSE
    /\ contexts' = IF eventAt = "done" THEN contexts \ {t} ELSE contexts
    /\ Goto(t, "leave")
    /\ UNCHANGED <<running, stop_requested, gen, dups, fdVars, gatewayVars,
                   stopVars, sessionVars, state, eventAt, parked, tunDead, aborted>>

\* The end of hev_socks5_tunnel_fini.  A failed start leaves its context.
ClearStop(t) ==
    /\ at[t] = "clear"
    /\ run' = FALSE /\ stop_requested' = FALSE /\ fresh' = FALSE
    /\ contexts' = IF eventAt = "done" THEN contexts \ {t} ELSE contexts
    /\ Goto(t, "leave")
    /\ UNCHANGED <<running, gen, dups, fdVars, gatewayVars, stopVars, sessionVars,
                   state, eventAt, parked, tunDead, aborted>>

Leave(t) ==
    /\ at[t] = "leave"
    /\ running' = FALSE
    /\ Goto(t, "shut")
    /\ UNCHANGED <<stop_requested, gen, dups, contexts, fdVars, gatewayVars,
                   stopVars, sessionVars, taskVars, fresh, aborted>>

Shut(t) ==
    /\ at[t] = "shut"
    /\ dups' = dups \ {t}
    /\ Goto(t, "idle")
    /\ UNCHANGED <<running, stop_requested, gen, contexts, fdVars, gatewayVars,
                   stopVars, sessionVars, taskVars, fresh, aborted>>

StartStep(t) ==
    \/ Exchange(t) \/ MainRefused(t) \/ Initialise(t)
    \/ \E step \in setup.faults \cap {"tunnel", "task"} : InitFails(t, step)
    \/ CheckStop(t) \/ Scheduled(t) \/ Returned(t) \/ CloseFds(t)
    \/ ForgetFds(t) \/ ClearStop(t) \/ Leave(t) \/ Shut(t)
-----------------------------------------------------------------------------
(***************************************************************************)
(* Tun2SocksNative.stop, hev_socks5_tunnel_stop and signal_stop_event.     *)
(***************************************************************************)
StopGoto(p, there) == stopAt' = [stopAt EXCEPT ![p] = there]

\* A run can still be asked to stop up to the end of its task system.
Live == \E t \in Starters : at[t] \in {"main", "check", "sched"}

Stop(p) ==
    /\ stopAt[p] = "idle" /\ p \in setup.stoppers \ unseen /\ stops < setup.stops
    /\ stops' = stops + 1
    /\ StopGoto(p, IF running THEN "set" ELSE "idle")
    /\ UNCHANGED <<flagVars, fdVars, gatewayVars, stopFd, unseen, asked,
                   sessionVars, setup, taskVars, fresh, aborted>>

\* The store of stop_requested, which may stay in the store buffer.
SetStop(p) ==
    /\ stopAt[p] = "set"
    /\ \/ /\ stop_requested' = TRUE /\ fresh' = TRUE /\ UNCHANGED unseen
       \/ /\ "store" \in setup.faults
          /\ unseen' = unseen \cup {p} /\ UNCHANGED <<stop_requested, fresh>>
    /\ asked' = IF Live THEN asked \cup {gen} ELSE asked
    /\ StopGoto(p, "fd")
    /\ UNCHANGED <<running, gen, at, dups, contexts, fdVars, gatewayVars, stopFd,
                   stops, sessionVars, setup, taskVars, aborted>>

StoreSeen(p) ==
    /\ p \in unseen
    /\ unseen' = unseen \ {p} /\ stop_requested' = TRUE /\ fresh' = TRUE
    /\ UNCHANGED <<running, gen, at, dups, contexts, fdVars, gatewayVars, stopAt,
                   stopFd, stops, asked, sessionVars, setup, taskVars, aborted>>

ReadFd(p) ==
    /\ stopAt[p] = "fd"
    /\ stopFd' = [stopFd EXCEPT ![p] = event_fd]
    /\ StopGoto(p, IF event_fd = 0 THEN "idle" ELSE "write")
    /\ UNCHANGED <<flagVars, fdVars, gatewayVars, unseen, stops, asked,
                   sessionVars, setup, taskVars, fresh, aborted>>

\* A number that has been closed since is nobody's, or somebody else's: the
\* kernel may have given it to the socket pair of the next run.
WriteFd(p) ==
    /\ stopAt[p] = "write"
    /\ \E hit \in IF stopFd[p] = open_fd THEN {TRUE}
                  ELSE IF open_fd # 0 THEN BOOLEAN ELSE {FALSE} :
          /\ event_data' = (event_data \/ hit)
          /\ fresh' = (fresh \/ hit)
    /\ stopFd' = [stopFd EXCEPT ![p] = 0]
    /\ StopGoto(p, "idle")
    /\ UNCHANGED <<flagVars, event_fd, open_fd, gatewayVars, unseen, stops, asked,
                   sessionVars, setup, taskVars, aborted>>

StopStep(p) == SetStop(p) \/ StoreSeen(p) \/ ReadFd(p) \/ WriteFd(p)
-----------------------------------------------------------------------------
(***************************************************************************)
(* The task system.                                                        *)
(***************************************************************************)
Scheduling == \E t \in Starters : at[t] = "sched"

\* A task is given the processor, unless the I/O task never gives it back.
Gets(k) == Scheduling /\ ~tunDead /\ state[k] = "running"

\* The scheduler looks at the reactor and the timers while k is not running.
Polls(k) == Scheduling /\ ~tunDead /\ state[k] = "waiting"

\* hev_task_wakeup of the tasks in ks, in the task states st.
Woken(st, ks) ==
    [k \in Tasks |-> IF k \in ks /\ st[k] = "waiting" THEN "running" ELSE st[k]]

\* wakeup calls abort for a task that is in no task system.
Wakes(st, ks) == aborted' = (aborted \/ \E k \in ks : st[k] = "stopped")

\* hev_task_executer: a task that ends wakes the task that joins it.
Ended(st, k) ==
    [Woken(st, IF eventAt = k THEN {"event"} ELSE {}) EXCEPT ![k] = "stopped"]

\* hev_socks5_session_terminate of the sessions in ss: the timeout is what a
\* session looks at when it has nothing to do.
Terminated(sx, ss) ==
    [s \in Sessions |-> IF s \in ss THEN [sx[s] EXCEPT !.timeout = "zero"] ELSE sx[s]]

\* What the event task does from the join it is at: a task that has not ended
\* is woken and waited for.
Joining(st) ==
    IF st["io"] # "stopped" THEN "io"
    ELSE IF st["timer"] # "stopped" THEN "timer" ELSE "done"

Join(st) ==
    /\ eventAt' = Joining(st)
    /\ state' = IF Joining(st) = "done"
                THEN [st EXCEPT !["event"] = "stopped"]
                ELSE [Woken(st, {Joining(st)}) EXCEPT !["event"] = "waiting"]

\* event_task_entry with nothing to read.
EventWaits ==
    /\ Gets("event") /\ eventAt = "read" /\ ~event_data
    /\ state' = [state EXCEPT !["event"] = "waiting"]
    /\ UNCHANGED <<flagVars, fdVars, gatewayVars, stopVars, sessionVars, run,
                   eventAt, parked, tunDead, fresh, aborted>>

\* ... which the reactor ends when the byte arrives.
EventPoll ==
    /\ Polls("event") /\ eventAt = "read" /\ event_data
    /\ state' = Woken(state, {"event"})
    /\ UNCHANGED <<flagVars, fdVars, gatewayVars, stopVars, sessionVars, run,
                   eventAt, parked, tunDead, fresh, aborted>>

\* The byte is read: every session is terminated and the joins begin.
EventStops ==
    /\ Gets("event") /\ eventAt = "read" /\ event_data
    /\ event_data' = FALSE /\ run' = FALSE
    /\ sess' = Terminated(sess, Range(session_set))
    /\ Wakes(state, Range(session_set))
    /\ Join(Woken(state, Range(session_set)))
    /\ UNCHANGED <<flagVars, event_fd, open_fd, gatewayVars, stopVars, session_set,
                   parked, tunDead, fresh>>

EventJoins ==
    /\ Gets("event") /\ eventAt \in {"io", "timer"}
    /\ Join(state)
    /\ UNCHANGED <<flagVars, fdVars, gatewayVars, stopVars, sessionVars, run,
                   parked, tunDead, fresh, aborted>>
-----------------------------------------------------------------------------
(***************************************************************************)
(* lwip_io_task_entry and the lwIP callbacks it makes.  It reads on while   *)
(* there are packets; that is the same as a wakeup for each of them, as    *)
(* long as the TUN is not readable for ever.                               *)
(***************************************************************************)
TunReadable ==
    /\ Polls("io")
    /\ state' = Woken(state, {"io"})
    /\ UNCHANGED <<flagVars, fdVars, gatewayVars, stopVars, sessionVars, run,
                   eventAt, parked, tunDead, fresh, aborted>>

\* EAGAIN: task_io_yielder waits for the TUN.
IoWaits ==
    /\ Gets("io") /\ run
    /\ state' = [state EXCEPT !["io"] = "waiting"]
    /\ UNCHANGED <<flagVars, fdVars, gatewayVars, stopVars, sessionVars, run,
                   eventAt, parked, tunDead, fresh, aborted>>

\* Any other error: the loop tries again at once, for ever, without a yield.
TunFails ==
    /\ "tun" \in setup.faults /\ Gets("io") /\ run
    /\ tunDead' = TRUE
    /\ UNCHANGED <<flagVars, fdVars, gatewayVars, stopVars, sessionVars, run,
                   state, eventAt, parked, fresh, aborted>>

IoEnds ==
    /\ Gets("io") /\ ~run
    /\ state' = Ended(state, "io")
    /\ UNCHANGED <<flagVars, fdVars, gatewayVars, stopVars, sessionVars, run,
                   eventAt, parked, tunDead, fresh, aborted>>

\* hev_socks5_tunnel_insert_session with n sessions in the list.
Full(n) == setup.max_session_count # 0 /\ n >= setup.max_session_count

(* Mutant of TimerWoken: the timer task is left alone. *)
TimerLeft(st) == st

\* The accept handlers wake the timer task.
TimerWoken(st) == Woken(st, {"timer"})

\* A new session joins the list, which may terminate the first of it, its task
\* is started and the timer is woken.  With a limit of 1 the first of the list
\* is the new session, whose task is not in the task system yet.
Accept(s, udp) ==
    /\ Gets("io") /\ run /\ s \in setup.sessions /\ sess[s] = NoSession
    /\ session_set' = Append(session_set, s)
    /\ LET new == [phase |-> "new", udp |-> udp, timeout |-> "unset",
                   pcb |-> TRUE, fuel |-> setup.ring]
           out == IF Full(Len(session_set'))
                  THEN {Head(session_set')} ELSE {}
           st  == Woken(state, out)
       IN  /\ sess' = Terminated([sess EXCEPT ![s] = new], out)
           /\ state' = TimerWoken([st EXCEPT ![s] = "running"])
           /\ Wakes(state, out \cup {"timer"})
    /\ parked' = (parked /\ state'["timer"] = "waiting")
    /\ UNCHANGED <<flagVars, fdVars, gatewayVars, stopVars, run, eventAt,
                   tunDead, fresh>>

\* A handler that has no memory for the session or its task leaves all alone.
tcp_accept_handler(s) == FALSE \in setup.udp /\ Accept(s, FALSE)
udp_recv_handler(s)   == TRUE \in setup.udp /\ Accept(s, TRUE)

\* tcp_recv_handler, tcp_sent_handler, udp_recv_handler of a session: there is
\* data to forward or room in the ring.
Packet(s) ==
    /\ Gets("io") /\ run /\ sess[s] # NoSession /\ sess[s].pcb
    /\ sess' = [sess EXCEPT ![s].fuel = setup.ring]
    /\ state' = Woken(state, {s})
    /\ Wakes(state, {s})
    /\ UNCHANGED <<flagVars, fdVars, gatewayVars, stopVars, session_set, run,
                   eventAt, parked, tunDead, fresh>>

\* tcp_err_handler, out of a packet or out of the timer.
Broken(s) ==
    /\ sess[s] # NoSession /\ sess[s].pcb
    /\ sess' = [Terminated(sess, {s}) EXCEPT ![s].pcb = sess[s].udp]
    /\ Wakes(state, {s})

PacketBreaks(s) ==
    /\ Gets("io") /\ run
    /\ Broken(s)
    /\ state' = Woken(state, {s})
    /\ UNCHANGED <<flagVars, fdVars, gatewayVars, stopVars, session_set, run,
                   eventAt, parked, tunDead, fresh>>
-----------------------------------------------------------------------------
(***************************************************************************)
(* lwip_timer_task_entry.  With no session it waits until one is accepted. *)
(***************************************************************************)
TimerTicks ==
    /\ Gets("timer") /\ run
    /\ parked' = (session_set = <<>>)
    /\ \/ /\ state' = [state EXCEPT !["timer"] = "waiting"]
          /\ UNCHANGED <<sess, aborted>>
       \/ \E s \in Sessions :
             /\ Broken(s)
             /\ state' = [Woken(state, {s}) EXCEPT !["timer"] = "waiting"]
    /\ UNCHANGED <<flagVars, fdVars, gatewayVars, stopVars, session_set, run,
                   eventAt, tunDead, fresh>>

TimerSleeps ==
    /\ Polls("timer") /\ ~parked
    /\ state' = Woken(state, {"timer"})
    /\ UNCHANGED <<flagVars, fdVars, gatewayVars, stopVars, sessionVars, run,
                   eventAt, parked, tunDead, fresh, aborted>>

TimerEnds ==
    /\ Gets("timer") /\ ~run
    /\ state' = Ended(state, "timer")
    /\ UNCHANGED <<flagVars, fdVars, gatewayVars, stopVars, sessionVars, run,
                   eventAt, parked, tunDead, fresh, aborted>>
-----------------------------------------------------------------------------
(***************************************************************************)
(* hev_socks5_session_task_entry.  In one slice a session goes from its    *)
(* phase to the same or a later one; hev_socks5_client_connect and         *)
(* hev_socks5_client_handshake set the timeout on the way, over whatever a *)
(* terminate has stored there.                                             *)
(***************************************************************************)
Rank(phase) == CHOOSE i \in DOMAIN Phases : Phases[i] = phase

TimeoutAt(s, phase) ==
    LET from == sess[s].phase IN
    IF \/ from = "new"
       \/ from = "connect" /\ phase # "connect"
       \/ from = "handshake" /\ phase = "splice" /\ sess[s].udp
    THEN "full" ELSE sess[s].timeout

\* hev_socks5_tunnel_update_session keeps the list in the order of last use.
Touched(s, phase) ==
    IF setup.max_session_count # 0 /\ phase = "splice"
    THEN Append(RemoveFirst(session_set, s), s) ELSE session_set

\* The session is left with nothing to do: it sleeps for its timeout.
SessionWaits(s) ==
    /\ Gets(s)
    /\ \E phase \in Range(Phases) \ {"new"} :
          /\ Rank(phase) >= Rank(sess[s].phase)
          /\ sess[s].pcb \/ phase # "splice" \/ sess[s].phase = "splice"
          /\ TimeoutAt(s, phase) # "zero"
          /\ sess' = [sess EXCEPT ![s].phase = phase,
                                  ![s].timeout = TimeoutAt(s, phase)]
          /\ session_set' = Touched(s, phase)
    /\ state' = [state EXCEPT ![s] = "waiting"]
    /\ UNCHANGED <<flagVars, fdVars, gatewayVars, stopVars, run, eventAt,
                   parked, tunDead, fresh, aborted>>

\* A splice that moved something yields without looking at the timeout.
SessionYields(s) ==
    /\ Gets(s) /\ sess[s].fuel > 0 /\ sess[s].pcb
    /\ sess' = [sess EXCEPT ![s].phase = "splice", ![s].fuel = @ - 1,
                            ![s].timeout = TimeoutAt(s, "splice")]
    /\ session_set' = Touched(s, "splice")
    /\ UNCHANGED <<flagVars, fdVars, gatewayVars, stopVars, run, state,
                   eventAt, parked, tunDead, fresh, aborted>>

(* Mutant of Gone: the session is destroyed and stays in the list. *)
GoneButListed(s) ==
    /\ sess' = [sess EXCEPT ![s] = NoSession]
    /\ session_set' = session_set
    /\ state' = [state EXCEPT ![s] = "stopped"]

\* Any failure, the end of both directions, or nothing to do after a
\* terminate: the session leaves the list, is destroyed and its task ends.
Gone(s) ==
    /\ sess' = [sess EXCEPT ![s] = NoSession]
    /\ session_set' = RemoveFirst(session_set, s)
    /\ state' = [state EXCEPT ![s] = "stopped"]

SessionEnds(s) ==
    /\ Gets(s)
    /\ Gone(s)
    /\ UNCHANGED <<flagVars, fdVars, gatewayVars, stopVars, run, eventAt,
                   parked, tunDead, fresh, aborted>>

\* The reactor: the session's socket is readable or writable.
SocketReady(s) ==
    /\ Polls(s)
    /\ state' = Woken(state, {s})
    /\ UNCHANGED <<flagVars, fdVars, gatewayVars, stopVars, sessionVars, run,
                   eventAt, parked, tunDead, fresh, aborted>>

\* The timeout has passed since the session went to sleep.
TimesOut(s) ==
    /\ Polls(s)
    /\ Gone(s)
    /\ UNCHANGED <<flagVars, fdVars, gatewayVars, stopVars, run, eventAt,
                   parked, tunDead, fresh, aborted>>

SessionSlice(s) == SessionWaits(s) \/ SessionYields(s) \/ SessionEnds(s)

EventStep == EventWaits \/ EventPoll \/ EventStops \/ EventJoins
IoStep    == IoWaits \/ IoEnds
TimerStep == TimerTicks \/ TimerSleeps \/ TimerEnds
-----------------------------------------------------------------------------
Next ==
    \/ \E t \in Starters : Start(t) \/ StartStep(t)
    \/ \E p \in Stoppers : Stop(p) \/ StopStep(p)
    \/ EventStep \/ IoStep \/ TimerStep \/ TunReadable \/ TunFails
    \/ \E s \in Sessions :
          \/ tcp_accept_handler(s) \/ udp_recv_handler(s)
          \/ Packet(s) \/ PacketBreaks(s) \/ SocketReady(s) \/ TimesOut(s)
          \/ SessionSlice(s)

\* A TCP session comes to rest, because the ring fills up when nobody hands in
\* ACKs.  A UDP session needs none: it rests only when its remote does.
Rests(s) == ~sess[s].udp \/ "chatter" \notin setup.faults

\* A call goes on; the scheduler serves every task of its running tree, by
\* sched_key; sleeps end; the TUN is not readable for ever without a pause.
Fairness ==
    /\ \A t \in Starters : WF_vars(StartStep(t))
    /\ WF_vars(\E p \in Stoppers : StopStep(p))
    /\ WF_vars(EventStep) /\ WF_vars(IoStep) /\ WF_vars(TimerTicks \/ TimerEnds)
    /\ \A s \in Sessions : WF_vars(SessionSlice(s)) /\ SF_vars(TimesOut(s) /\ Rests(s))

Spec == Init /\ [][Next]_vars /\ Fairness
-----------------------------------------------------------------------------
\* A stop that reaches the store of stop_requested while a run can still hear
\* it ends that run, whether it comes before or after the socket pair: start
\* returns and the flag goes down.  This needs stores that become visible in
\* order, a TUN whose reads do not fail, and UDP remotes that pause.
StopHeard ==
    running /\ gen \in asked /\ setup.faults \cap {"store", "tun", "chatter"} = {}
       ~> ~running

\* A run is ended only by a stop that arrived after the run before it was
\* cleared: hev_socks5_tunnel_fini leaves no request behind that the next run
\* would take for its own.
EndedByStop == eventAt # "read" /\ Scheduling => fresh

\* hev_task_wakeup is never called for a task that has ended or was never
\* started, which would abort the process: sessions are woken by lwIP, by the
\* list's limit and by the event task, the timer by the accept handlers.  A
\* limit of 1 does abort, at the first session: see section 4 of the README.
NoAbort == setup.max_session_count # 1 => ~aborted

\* The lwIP timer task never waits without a timeout while a session exists:
\* retransmissions and lwIP's own timeouts would stop.
TimerServes == Scheduling /\ session_set # <<>> => ~(parked /\ state["timer"] = "waiting")

\* Between calls of start nothing of a run is left open: not the duplicate of
\* the TUN, not the socket pair, whichever way the last call came back.
NothingLeftOpen ==
    (\A t \in Starters : at[t] = "idle") => dups = {} /\ open_fd = 0 /\ event_fd = 0
-----------------------------------------------------------------------------
(***************************************************************************)
(* What does not hold, see section 4 of the README.                        *)
(***************************************************************************)
\* A stop is heard whatever the remotes of UDP sessions do.
StopHeardInChatter ==
    running /\ gen \in asked /\ setup.faults \cap {"store", "tun"} = {} ~> ~running

\* A run is ended only by a stop called while it could hear one.
StopEndsOwnRun == eventAt # "read" /\ Scheduling => gen \in asked

\* A stop writes to the socket pair it found.
OwnDescriptor == \A p \in Stoppers : stopAt[p] = "write" => stopFd[p] = open_fd

\* gateway_fini closes listeners that exist.
ClosesItsOwn == \A t \in Starters : at[t] = "forget" => pcbs \in {0, listeners}

\* A terminated session does not go to sleep again.
TerminateIsFinal ==
    [][\A s \in Sessions :
          sess[s] # NoSession /\ sess'[s] # NoSession /\ sess[s].timeout = "zero"
             => sess'[s].timeout = "zero"]_vars
=============================================================================
