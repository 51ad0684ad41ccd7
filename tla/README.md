# Lantunnel: verification project

Lantunnel is a mesh of symmetric Peers. A Gateway admits the Peers of a Tunnel, relays sealed frames
between them and carries the signalling by which they find a direct path. This directory holds TLA+
modules translated from the source (Rust, and the C of the Android tunnel), TLC configurations that check them on small instances, and
TLAPS proofs of properties that hold for every instance.

`PROJECT.json` names, for every definition, the source lines it stands for.

## 1. Inventory

| Part | Source | State | Operations | What is hard | Module |
|---|---|---|---|---|---|
| Scope store | `tp-gateway/src/scope.rs` | static and managed partitions, pinned issuers | reload, managed snapshot, lookup | two tasks replace one lookup | `ScopeStore` |
| Attachment lifecycle | `tp-gateway/src/lib.rs`, `client_conn.rs`, `p2p.rs` | slots, family leases, client lists, peer registry | challenge, proof, lease, register, fence, purge, unregister, evict | sessions, purges and sweeps interleave | `GatewayAttachment` |
| Relay usage | `tp-gateway/src/lib.rs`, `gateway_control.rs`, `main.rs` | meters, write-ahead log, unacknowledged items | count, flush, record, report, acknowledge, compact, replay | crash, torn write, lost or repeated acknowledgement | `RelayUsageWal`, `RelayUsage` |
| Relay quota | `tp-gateway/src/lib.rs`, `gateway_control.rs` | remainder, expected Platform remainder | consume, commit, refund, update, acknowledge | local and Platform counts cross each other | `RelayQuota` |
| Relay routes | `tp-gateway/src/lib.rs`, `client_conn.rs` | route table by connection | bind, open, forward, close, abort, expire, clean up | handlers release the map between check and use | `GatewayRelay` |
| Local LAN exports | `tp-client/src/peer_runtime.rs`, `engine.rs`, desktop `main.rs` | one value in four places | save, scan, resolve, publish | no lock covers two places | `LocalExports` |
| Peer gossip | `tp-client/src/peer_gossip.rs`, `peer_runtime.rs`, `engine.rs` | links, records, export order, route copy | record, digest, need, link up and down, retire | loss, reordering, key replacement | `ExportDirectory`, `PeerGossip` |
| Gateway control session | `lantunnel-gateway/src/gateway_control.rs` | phase, applied digest | challenge, snapshot, state, usage, acknowledgement | order of side effects and of what is reported | partly, above |
| Android tunnel, runtime | `android-proxy/.../jni/tun2socks_jni.c`, `hev-socks5-tunnel/src/hev-main.c`, `hev-socks5-tunnel.c`, `hev-socks5-session.c` | running flag, stop request, socket pair, tasks, session list | start, stop, accept, terminate, join | threads share plain variables; tasks wake each other by pointer | `Tun2Socks` |
| Android tunnel, TCP session | `hev-socks5-session-tcp.c`, `misc/hev-ring-buffer.c`, lwIP's `tcp.c`, `tcp_in.c`, `tcp_out.c` | pbuf queue, ring buffer, pcb | splice both ways, lwIP callbacks, drain, abort | the ring is sent from by address until acknowledged | `TunTcpSession` |
| Certificate lifecycle | `lantunnel-gateway/src/certificate_lifecycle.rs` | self-signed identity, file permissions | create, reuse, check | a file created by another process | not modelled |
| Peer link manager | `tp-client/src/peer_link_manager.rs` | links, first-absent times, retirement queue | snapshot, retire, confirm | absence grace against reconnection | planned |
| Route matcher | `tp-client/src/route_matcher.rs` | overlay, aliases, exports | upsert, replace, remove, match | stale owners | exports only |
| P2P manager and sessions | `tp-client/src/p2p/` | attempts, lanes, cooldowns | offer, answer, dial, install, replace | timeouts, simultaneous dialling | planned |
| Transports | `tp-transport` | queues, schedulers | send, drop oldest, schedule | queue limits | planned |

How they interact: the control session replaces the managed partition of the Scope store, and the
tasks that replace a partition purge attachments; attachments own relay routes and registry entries;
the relay takes from the quota and feeds the usage meters; the control session reports the log and
feeds acknowledgements and budgets back. On the Client, local exports are the record that gossip
sends, gossip fills the directory that the route matcher reads, and the lanes open and close its links.
On Android the VPN service starts and stops the native tunnel, which turns the connections of the TUN
into SOCKS connections to the Client in the same process.

Every part the sources name, with what is left out of it, is listed under `components` of `PROJECT.json`;
everything in this code that is hard to reach with a test is under `hazards`, each at its line.

## 2. Modules and the code

**`ScopeStore`**, extended by **`GatewayAttachment`**. A Scope file is its Tunnel, its issuer and whether
it verifies; a listing is a sequence of them and is accepted or rejected whole. A session is a task and
each action one of its critical sections: `AuthenticateCarrier`, `SendChallenge` (which captures the
issuer), `VerifyProof`, `AcquirePermit`, `RecordIdentity`, `Register`, `StartRunning` or `RejectStale`,
`Announce`, `CarrierCloses` / `ScopeFence` / `StopRunning`, `ReleasePermit`. `unregister` takes its locks one after the
other and so is several steps: `LeaveList` takes the session out of its list, `DropList` removes the list if it is
(still) empty, `DropEntry` removes the registry entry; `FindNoList` is its early return. A session's own task and each Scope
task may be in it for the same session at the same time. The two Scope tasks (`StaticReload`, `ManagedSnapshot`) purge
through `SnapshotVictims`, which clones the client list, and unregister and close each clone. `EvictIdle` is the registry
sweeper. A call of the registry updates its two maps in one step. Deadlines may always pass.

**`RelayUsageWal`**, extended by **`RelayUsage`**. The log is a sequence of tokens: whole records, newlines
and parts of records that a failed write left behind, with the length that is synced. Two tasks flush
(the control task and, at shutdown, `main`), each in `TakePending`, `RecordTaken` or its failure, and
`SubtractTaken`. `CompactLog` is separate from `ApplyAck` because `ack` drops the mutex in between. `Faults`
selects what may fail. The Platform, which bills an item once by its number and account, is external.
**`UsageLedger`** is what metering promises: a byte moves from volatile to durable to billed, and only a volatile
one can be lost. **`RelayUsageRefinement`** maps the detailed state to it: what an account
has of a set of items is the number of their bytes, each byte counted once.

**`RelayQuota`** has one Tunnel on one Gateway and moves bytes one at a time. The log is a list of items, since
`RelayUsage` has its failures, and an item is kept as the bytes of each month recorded up to and including it. `ApplySnapshot` applies Scopes and budget in one step,
although `handle_text` publishes the Scopes before `prepare_applied_snapshot` applies the budgets: what a Peer that attaches in
between relays before its budget is not in the model. `AckFails` is an acknowledgement that was marked in the meter and
that the log then refused, which ends the connection. `Changes` selects what happens around it: a quota that grows, is
lowered, lifted or withdrawn, a new month, a lost connection, a refused acknowledgement, a restart.

**`GatewayRelay`** has one Tunnel. A handler is one step up to where it releases the route map or awaits, and
another from there; `tasks` holds what it carries over. `Close` is a store and a later load (`CloseStores`,
`CloseLoads`) with the store buffering that release and acquire allow. An unregister scans all routes in
one step (`ScanRoutes`), sends and cleans in another. The relay clean-up of `unregister` is here and not in
`GatewayAttachment`. A bind keeps the Peer that was asked for beside the session that was found. Clients do not bind a
conn_id again that they have used (`proxy_mode.rs:1376`), and open one only after its bind was acknowledged; a load with `reuse`
drops the first of these, so that the refusal of a bind on an open route is taken as well.

**`LocalExports`** has the thread in `save_settings` and the watchdog task, one action per lock acquisition, over
the answer, the record that authorizes inbound flows, the one that is shown and the one that gossip sends.

**`ExportDirectory`** is `PeerGossipDirectoryV2` as a value. **`PeerGossip`** has several Clients. A payload is made
under the lock (`outbound`), sealed later under the key current by then (`net`), opened if its session is the
current one (`opened`), and applied later under the lock (`Receive`). `Reconcile` is
`reconcile_v2_routes_and_runtime_locked`. The lanes of a link are one Boolean per end.

**`Tun2Socks`** has the threads in `Tun2SocksNative.start` and `stop`, each access to a shared variable a step of its own:
`Exchange` (the atomic flag), `CheckStop`, `SetStop`, `ReadFd`, `WriteFd`, `CloseFds`, `ForgetFds`, `ClearStop`. The
descriptor of the socket pair is the number of the run that made it; since the kernel gives numbers out again, a late `WriteFd`
to a closed pair may also reach the pair of the next run. Inside a run the event, I/O, timer and session
tasks are cooperative, so a step is what a task does up to its next yield; `state` is `HevTaskState`, `Woken` is
`hev_task_wakeup` and `Wakes` its abort. A session is its phase (connect, handshake, splice), its timeout and how long it
stays busy. `fresh`, `asked` and `aborted` are history. A store that becomes visible late is fault `"store"`: `WRITE_ONCE` is
volatile and orders nothing. A UDP remote that never pauses is fault `"chatter"`.

**`TunTcpSession`** has one session in detail. `SpliceF` and `SpliceB` are the two directions, `Splice` a turn of the loop,
`Drain` the second loop, `WaitIn` the yielder. The ring is `rp`, `wp`, `use_size`, `rda_size` and, at each place, the number
of the byte that is there (`data`); `unacked` lists the places lwIP still sends from. The pcb is its state, its free send
buffer and the callbacks `Recv`, `RecvFin`, `Sent`, `SentFin`, `Err`. The socket is edge-triggered (`edge`, `Poll`).
Faults are a timeout, a terminate, a reset of either connection, memory refused by `tcp_write`, an expired TIME_WAIT, and
`"output"`: `tcp_output` fails because the TUN does not take the packet, and the direction ends although every piece was queued.

## 3. Runs

| Run | Instance | Shows |
|---|---|---|
| `attachment_safety` | 2 sessions of one replica; both Scope tasks; idle eviction; 2 slots; fair; 18,398 states | one source and one issuer per Tunnel, no session of a removed Tunnel escapes both its own check and the purge, no identity without an attachment that is still to drop it; removed Tunnels drain and admissions end |
| `attachment_leases` | 4 sessions: 3 replicas of one family and one of another; 3 slots, 2 permits; one Scope task, which removes the Tunnel and brings it back; 669,589 states | slots add up, one runtime family per Peer within the replica limit; no unregister, of another session or of a purge, takes a registered session out of its list |
| `usage_ledger` | 2 accounts, 2 items in a report, 3 failures among failed appends and compactions, power loss and lost connection; fair | metering implements the ledger, a number the Platform has billed never stands for another item, the log can always be opened, and what survived is reported and acknowledged |
| `usage_any_fault` | the same with every kind of failure but power loss, four of them, torn and orphaned logs, kills and the shutdown's flush included | nothing is billed twice |
| `quota_balance` | 4 bytes, 2 months, allowances unlimited, 2 and 3, 2 changes, a refused acknowledgement among them; 2,388,927 states | local and Platform remainders are in balance until usage is left unacknowledged; the excess over the allowance is at most that usage |
| `relay_routes` | a Peer with one session, one with two; one conn_id; six loads; 783,576 states | frames stay on the exact route and go to the Peer that was asked for, whoever works on a route has one opener, an open route is taken away only by its own traffic or its own ends, a new bind survives the clean-up of an expired one, every open route ends when its sessions leave |
| `exports_settle` | 1 save, 2 moves, 1 failed scan, 2 exports; fair | the record that admits inbound flows settles on the answer in force; without a save, so do the one that is shown and the one gossip sends; typed prefixes are kept at the limit |
| `gossip_repair` | a pair without digests, 2 sessions and a change of a record; a pair with one digest sender, a change and a fault; fair | the exchange of records ends; digests repair loss, reordering and a one-sided outage |
| `gossip_routes` | a hub and two exporters of one prefix, 1 change of a record; and a pair with 2 sessions and any two of a change, a fault and a reset | both ends have the other's record before any digest; the order is exact and first-seen; the route matcher agrees with the directory through rekeying, retirement and reconnection |
| `tun_stop` | four setups: 2 starters and 2 stoppers over 2 runs; a TCP or UDP session across a stop; 2 sessions at the list's limit; every failure; fair | a stop is heard whenever it comes, none is left over, no ended task is woken, the timer serves every session, every exit closes its duplicate of the TUN and the socket pair |
| `tun_tcp` | a ring of 3 bytes under a configured 4, 6 bytes down, 4 up; six setups of peers and faults; fair | no byte is overwritten before it is acknowledged, what is read fits the send buffer, ends do not overtake bytes, all is delivered |
| `usage_torn_append` | 1 torn append and 1 kill | violated: the Gateway does not start (section 4) |

The bounds are the smallest at which the interleavings of the hazards happen: two sessions of one replica whose
unregisters meet, three replicas and a second family for two permits, two accounts so that a flush has two records to be torn between, two routes on one
conn_id, two exporters of one prefix, two runs of the native tunnel, a stream twice as long as its ring.
`CHECK_DEADLOCK FALSE` is set where the bounded environment, or the system itself, may simply stop.

`relay_routes`, `gossip_routes`, `gossip_repair`, `tun_stop` and `tun_tcp` split their behaviours instead of
bounding them all alike: a constant (`Loads`, `Setups`) lists what a behaviour may have and how much of it,
and `Init` picks one. In `relay_routes` `ExactLoad` has both replicas send and close, `OpenLoad` has every kind of opener race
for a bind that expires and is bound again, `LeaveLoad` has both ends leave, by a closed carrier, the Scope
fence or the purge, around an abort, `DatagramLoad` has the target leave while datagrams are under way, `HandoverLoad` binds the
conn_id to the other replica while the unregister of the first still cleans, `ReuseLoad` has a Client bind a conn_id that it has
used. What takes two of these together is not in the run.

`usage_any_fault` alone has the shutdown's flush beside that of the control task. `NeverOverbilled` is about counting twice; the
loss by an orphaned log is `RecordedIsKept` in section 4. The fair run `gossip_repair` changes keys only in its setup
without digests.

`usage_ledger` has power losses and no kills, because a power loss that takes nothing away is a kill, and
`usage_any_fault` the other way round. With both, a power loss after a restart can take away what `open` replayed and
did not sync: that breaks `ReportIdExact` and `NeverOverbilled` (section 4).

Fairness. `GatewayAttachment`: weak fairness, for every session, of the steps that wait for nothing from the Client and of the
proof deadline, and for each Scope task of its purge: Tokio runs a task that can run. `RelayUsage`: the control
task, the Platform's answers and restarts; failures are bounded. `LocalExports`: both threads run on, and the
watchdog's timer ticks. `PeerGossip`: spawned sends end, lanes deliver what is not lost, an opened payload is
handed over, whoever changes a lane reconciles, and the digest timer fires. Nothing is assumed to make a lane
or a key come up. `Tun2Socks`: calls go on, the scheduler serves every task of its running tree by `sched_key`, sleeps end,
the TUN is not readable for ever without a pause. `TimesOut` is strongly fair for a session that rests (`Rests`). A TCP session
always does: the edges of its socket stop once its ring is full and nothing is acknowledged. A UDP session drains its
socket into the TUN and waits for nobody (`hev-socks5-session-udp.c:112`), so it rests only if its remote pauses for as long as
the timeout. The code does not make it pause: this is an assumption about the network, `StopHeard` names it, and section 4 has what
happens without it. `TunTcpSession`: the task runs, the reactor reports, both peers take, acknowledge and close.

Each module's `TypeOK`, and `LeaseIntegrity` and `OnlyLinkedOrigins` (both also proved), `AckWithinPrefix` and `OneWayFin`,
are stated and hold in the instances above; no run lists them, because the other properties say more.

## 4. Where the code and its words disagree

One of them is a run that TLC must find violated; `findings` of `PROJECT.json` quotes both sides.

- `usage_torn_append`: a failed append leaves part of a line that the next one continues, and the Gateway cannot start.

The properties below are stated in the modules and no run checks them. TLC refutes each with the instance of the
module's run, changed as given.

| Property | Change | What happens | Source |
|---|---|---|---|
| `IdentityKept` | `attachment_safety` with `IdleEviction = FALSE` | a purge that has removed the last list comes to `peers.remove` late: the session's own unregister finds no list and returns, its permit is released, the replica attaches again and its identity is removed with the old one's | `tp-gateway/src/lib.rs:2694` |
| `AnnouncedPeerVisible` | `attachment_safety` | a re-announce after idle eviction restores the endpoint, not the identity | `tp-gateway/src/p2p.rs:103` |
| `RecordedIsKept` | `Faults = {"orphan", "kill"}` | a compaction that fails after its rename leaves appends going to an unlinked file | `tp-gateway/src/lib.rs:347` |
| `NeverOverbilled` | `Faults = {"append", "kill", "power"}`, `MaxFaults = 4`, `MaxItems = 2` | two failed appends leave two attempts at the same numbers, a start replays the newer one without syncing it, it is billed, and a power loss leaves the older attempt, which is counted again | `tp-gateway/src/lib.rs:210` |
| `StopsAtAllowance` | `Changes = {"restart"}` or `{"link"}` | the allowance can be exceeded after a restart or a lost acknowledgement | `tp-gateway/src/lib.rs:392`, `:429` |
| `AbsentMeansUnlimited` | `Changes = {"withdraw"}`, `Allowances <- NoBudgetOrThree` | a withdrawn budget stays in force | `lantunnel-gateway/src/gateway_control.rs:669` |
| `PlatformAuthoritative` | `Changes = {"lower"}`, `Allowances = {2, 3}` | a lowered budget is taken off twice | `tp-gateway/src/lib.rs:422` |
| `TwoWayCleanup` | a load of two sessions with control and close frames | two simultaneous Closes can each miss the other's flag and leave the route | `tp-gateway/src/lib.rs:2239` |
| `PublishedFollows` | `exports_settle` | a save that overlaps the watchdog can leave gossip, and likewise what is shown, on the older value, and no later scan corrects it | `tp-client/src/engine.rs:9007` |
| `SaveTakesEffect` | `exports_settle` | for a while a save leaves inbound flows admitted by the old answer | `tp-client/src/engine.rs:9033` |
| `ReciprocalCloses` | `gossip_routes`, without the condition on the number of sessions | a record of the old session can use up the answer owed to the new one, and the other end waits for a digest | `tp-client/src/engine.rs:6935` |
| `StopEndsOwnRun` | `tun_stop` | a stop that read the flag during one run can end the next | `jni/tun2socks_jni.c:58` |
| `OwnDescriptor` | `tun_stop` | a stop can write to a descriptor that was closed, and perhaps opened by somebody else, after it was read | `hev-socks5-tunnel.c:125` |
| `ClosesItsOwn` | `tun_stop` | a start whose TUN fails closes the listeners of the run before it again | `hev-socks5-tunnel.c:497` |
| `StopHeard` | `tun_stop`, without the condition on faults | a stop is lost if its store becomes visible after its load of the descriptor; and a TUN whose reads fail keeps the processor for ever | `hev-socks5-tunnel.c:717`, `:327` |
| `StopHeardInChatter` | `tun_stop` with a setup of one UDP session and fault `"chatter"` | the session stores its timeout over the terminate's 0 and a remote that keeps sending arms its sleep again for every datagram: `start` never returns | `hev-socks5-client.c:404`, `:414`, `hev-socks5-session-udp.c:112`, `:278`, `misc.c:47` |
| `NoAbort` | `tun_stop` with a session limit of 1, without the condition on it | a defect: the first accepted connection is over the limit itself, `insert_session` wakes its task before it runs and the process aborts. The application does not set this limit | `hev-socks5-tunnel.c:145`, `hev-task-system-schedule.c:151` |
| `TerminateIsFinal` | `tun_stop` | connect and handshake store their timeout over the terminate's 0, and the session stays for that long | `hev-socks5-client.c:277`, `:404` |
| `DeliveredThroughOutput` | `tun_tcp` with fault `"output"` alone | a TUN that does not take one packet, if only because it is full, ends the download: the error of `tcp_output` is taken for one of the connection | `hev-socks5-session-tcp.c:120`, `:127`, `hev-socks5-tunnel.c:79` |
| `PcbAlive` | `tun_tcp` | lwIP frees a pcb that was 2 MSL (120 s) in TIME_WAIT without telling the session, whose own timeout is longer | lwIP `tcp.c:1486` |
| `FinMeansEof` | `tun_tcp` | an error of the server's connection is shown to the application as a clean end | `hev-socks5-session-tcp.c:99`, `:123` |
| `NoGap` | `tun_tcp` | when memory is refused for the first piece only, the second follows without it | `hev-socks5-session-tcp.c:116` |
| `AllSent` | `tun_tcp` | if the application closes first, the acknowledgement of the last end terminates the session although bytes for the server are queued | `hev-socks5-session-tcp.c:171` |

## 5. Proofs

**`GatewayAttachmentProofs`**, for every set of sessions, Tunnels, Peers and listings and every limit. `Base` is
types and slot accounting, and each theorem adds what its property needs to be inductive:

- `SlotsAccounted`: from `Base`, by the cardinality of the sessions that hold a slot.
- `IssuerTrusted`, `SourceUnique`: `TrustInv` adds that whatever a partition holds, and whatever a session captured
  before its await, is the pinned issuer of that Tunnel, which never changes once set.
- `RegistrationNotClobbered` (`RegistrationKept`), `RegistrationRaceClosed`: inductive together (`RaceInv`). A session that registered is
  listed, or a purge is unregistering that very session and will close it, or has. No hypothesis: Tunnels are removed, and
  purges and sessions meet inside `unregister`.
- `FamilyExclusive`: `LeaseInv` adds that replicas under a lease are distinct, of the leased family and within the limit.
- `IdentityNotOrphaned` (`NoOrphanIdentity`): inductive with `Base`, whose part `CallsInv` says who is in which section of `unregister`.
  While an identity is bound its attachment is about to register, is listed, or is in an unregister that has yet to come to
  the registry. The converse, that a running attachment has its identity, is false (`IdentityKept`, section 4).

**`RelayUsageProofs`**, for every set of accounts, batch size, report size and number of failures. The log is seen through
`Views`: the well-formed logs that a start could find if the process, or the machine, stopped now, that is every prefix of the
file from what is synced on, with the newline `open` may add. A statement about every view is a statement about every
later crash, and a step is judged by what it does to the set of views: an append adds some, a sync or a compaction
removes some, a start picks one. Two conditions on `Faults` appear as hypotheses. `StopsOneWay` says that power loss does not come with
kills or shutdowns of the process; without it the statements are false (section 4). `CleanFaults` adds that no append is torn
and no handle lost, with which a log can be refused or lost (section 4). Failed appends between lines, failed compactions,
lost connections and repeated reports and acknowledgements are always allowed.

- `UsageTypeCorrect` (`TypeOK`): no hypothesis.
- `NothingOverbilled` (`NeverOverbilled`), from `StopsOneWay`, torn appends and orphaned logs included. In `CoreInv`, `SumInv` says
  that what is billed, reported, unacknowledged or to be replayed from any view, with what is still in the meters, is covered by
  what was relayed. That is not inductive alone: a failed append leaves lines whose numbers are given out again, and a
  restart replays them beside a later attempt. `TailInv` says why no account is counted twice then: `snapshot_pending_relay_usage` sorts by account and
  a failed flush leaves the meters alone, so every attempt offers each account at least what the one before did, at the same number
  or a later one, and of what several attempts leave no account shows twice. `FlushInv` has the snapshot of the
  flush under way within the meters, `FileInv` what is synced.
- `ReportIdsExact` (`ReportIdExact`) and `RestartAlwaysSucceeds` (`RestartSucceeds`), from `CleanFaults`. `ExactInv` adds that the
  file alternates records and newlines, that every view has what memory has and, below `nextSeq`, nothing else (`LoggedIn`), that
  every billed item is acknowledged in every view or is there as it was billed (`BilledIn`), and that reports and answers
  on their way are about items as they are in memory (`LinkInv`). So no replay gives out a used number.
- `MeteringIsLedger` (`UsageIsLedger`), from `CleanFaults`: initial states map to initial states of `UsageLedger` and, under the two
  invariants, every action maps to one of its steps or leaves the ledger alone. The delicate ones are the failed append, whose lines
  stay volatile; the stop, which loses only volatile bytes; and the start, after which the leftover lines of the view it
  picked are recorded, by `TailInv` once per account.
- `RecordedStays` (`RecordedIsKept`), from `CleanFaults`: what is recorded or billed never becomes less, read off the ledger's steps.

**`RelayQuotaProofs`**, for every allowance, report size and number of months, restarts and lost connections, as long as the
Platform only grants more (`OnlyGrows`: a quota may grow or be lifted, but is neither lowered nor withdrawn; for those two
section 4 has what goes wrong). `QuotaInv` has these parts:

- `Books`: the log only grows and the Platform has billed a prefix of it.
- `Chain`, `Told`: quotas and months do not decrease from what was told over the snapshots on their way to what the
  Platform grants now, so a snapshot that arrives late is never above the next one.
- `Crossing(x)`: every snapshot on its way was taken when some prefix was billed that the acknowledgements before it on the same
  connection cover, or the `x` items the Platform had billed when the last connection broke.
- `Forgotten`: what a restart lost was exposed by it, and nothing is relayed before the first budget after one.
- `Within`: the remainder and what is outstanding stay within the expected Platform remainder, up to what was carried over
  or exposed, and the other way round when nothing was carried.
- `Bounded(x)`: what was relayed and may still be, plus what the Platform has billed and the Gateway does not know of yet,
  stays within the quota up to what was carried over or exposed.

`SnapshotBalance` is the heart of it: in each case of `update` (first budget after a restart, first of a month, growth, correction
upwards capped by the Platform's remainder, correction downwards saturating at zero) both parts hold again. `BooksBalance`
(`Balanced`) follows from `Within` and `Forgotten`, `OverrunStaysBounded` (`OverrunBounded`) from `Bounded`.

**`LocalExportsProofs`**, for every set of prefixes, answers and networks and every limit. It assumes what the code checks before it
saves: a typed list has no duplicates and is within the limit. `ExportsInv` says that a save under way holds the resolution of the
answer it installs, and that the watchdog, while its generation is the current one, holds the resolution of the answer in force, except
between the installation of an answer and the bump of the generation. `TypedPrefixesSurvive` (`TypedSurvives`) then follows from
`TypedAdmitted`, by counting what precedes a typed prefix.

**`GatewayRelayProofs`**, for every finite set of sessions, every set of Peers and conn_ids and every load. `RelayInv` says that every
route, task and delivered frame is of a bind that some session made for the Peer it asked for; `KindInv` that a route and the tasks that
work on it are of the kind that opened it; `EndsInv` that a route one of whose ends has left still has a task that will remove it;
`LeftInv` that an unregister has collected only routes of the session that leaves or with a dead end, and that who has left is not looked up.

- `FramesStayOnRoute` (`ExactRoute`) and `FreshBindKept` (`FreshBindSurvives`): from `RelayInv`.
- `OneOpenerPerBind` (`ExclusiveOpener`): from `RelayInv` and `KindInv`.
- `OpenedRouteKept` (`OpenRouteKept`): from `RelayInv` and `LeftInv`.
- `RoutesEndWithSessions` (`OpenRouteEnds`): from `RelayInv` and `EndsInv`.

**`Tun2SocksProofs`**, for every set of sessions and calls and every session limit (`NoAbort` excepts 1); names of sessions differ from those of
the three permanent tasks. `CallInv` says that at most one call runs, that it owns whatever is open, and that whatever can end
a run has come since the last one was cleared; `TaskInv` that a session is listed exactly while its task lives, and that the timer is awake
as long as the list has a session to serve.

- `RunsEndByStop` (`EndedByStop`), `CallsCloseEverything` (`NothingLeftOpen`): from `CallInv`.
- `TasksNeverAbort` (`NoAbort`), `TimerServesSessions` (`TimerServes`): from both.

**`TunTcpSessionProofs`**, for every buffer size and length of the streams. `BackInv` follows the ring: from the oldest unacknowledged
place on, the bytes in it are consecutive bytes of what the server sent, whatever wraps in between, and what
lwIP was handed is a prefix of them (as long as `tcp_write` does not run out of memory, as the property says; the counts
hold with that fault as well). `ForthInv` counts the queue of the other direction.

- `StreamStaysExact` (`StreamExact`), `ReadsFit` (`RoomForRead`), `FinLast` (`FinComplete`): from `BackInv`.
- `ShutLast` (`ShutComplete`): from `ForthInv`.

**`PeerGossipProofs`**, for every set of Clients, links, records and prefixes and every bound of a setup. The first part is about the
directory: `Retain` keeps the entries of a list in their order, and replacing or removing origins leaves every list of exporters
exact (`UpdatedList`), so that the one batch the controller applies and the two the route matcher applies end in the same directory.
`GossipInv` says that the route matcher's copy is the directory, that the directory knows only origins whose link is open, that a
link is open exactly if the last look at the lanes found it usable, and that keys, lanes and messages are of sessions that were negotiated.

- `GossipTypeCorrect` (`TypeOK`), `RoutesAlwaysMirror` (`RoutesMirrorGossip`), `OrderAlwaysExact` (`OrderExact`),
  `OriginsAlwaysLinked` (`OnlyLinkedOrigins`): from `GossipInv`, through loss, reordering, rekeying, retirement and lanes that come and go.
- `OrderOnlyGrowsBehind` (`FirstSeenOrder`): every step, from `GossipInv` and the lemmas about the directory.
- `ReciprocationCloses` (`ReciprocalCloses`): `OpeningInv` follows the first session of a link as long as nothing was lost, changed or reset: an end that
  opened its link has the other's record, or one is coming, or the other end has yet to open its link or to answer a record
  that is on its way to it. When nothing is under way only the first of the four is left.

TLC finds every inductive invariant above to hold on the instance of its component's run as well (`QuotaInv`,
`CoreInv` and `ExactInv` on instances that meet their hypotheses).

Only model-checked, because it is outside the prover's reach: liveness under fairness (`EverythingReported`, `StopHeard`,
`Delivered` and the other `~>` and `<>` properties). Every invariant that a passing run lists is also a theorem, under the
hypotheses named above.

## 6. What is not modelled

- Usage: pruning of flushed meters. The exit waits for the section in which the control task syncs.
- Relay: destination policy, bandwidth limiter, byte counters, and the stateless forwarding of control frames without a conn_id.
- Exports: prefix parsing and validation, the rollback of a failed save, concurrent saves, and the first installation
  of settings, which the desktop does before it connects.
- Gossip: hashes and encodings (a digest is the record it stands for), the membership list (a keyed Peer is in the
  runtime directory), choice among lanes. A lane change and the reconciliation it triggers are two steps, although for
  direct lanes one lock covers both. Digests are bounded to one round of repair at a time.
- Android tunnel: UDP splicing and mapped DNS (the application does not configure it); what stays open when a start
  fails with -5, the context of the task system and the loggers (`hev-main.c:75`): `NothingLeftOpen` is about the duplicate of the TUN and
  the socket pair; inside lwIP, segments, retransmission, windows and out of memory at
  the FIN. Wakeups of a task that is already running are no steps.
- Third-party C. Nearly all C in the repository is vendored: lwIP, libyaml, the task system, and of lwIP mostly parts this
  program never calls (sockets API, PPP, IPv6 discovery, applications). They are modelled as far as the tunnel relies on
  them and no further, so by lines of C the modules cover little; the program's own logic is the Rust above.
- Hazards that a refuted property states are in the table of section 4 and not under `hazards`.
- TLS, QUIC, sockets, signatures, cryptography, configuration files, platform routing and user interfaces.

## 7. Plan

Done, in this order: Scope store and attachments; usage and ledger; quota; relay routes; local exports; gossip; the native
Android tunnel.

To come:

1. `RouteMatcher`: longest prefix, overlay owners and `match_v2_destination` over the directory; access policy.
2. `GatewayControl`: the phases of the session, registration, and the digest that is reported only after side effects.
3. `PeerLinkManager` with the link watchdog: absence grace, retirement queue, confirmation.
4. `P2pManager`: offers and answers, simultaneous dialling, cooldowns, installation and replacement of lanes.
5. `DropOldest` and the datagram scheduler; onboarding and `atomic_file`.
