----------------------------- MODULE LocalExports -----------------------------
(***************************************************************************)
(* How one Client decides which LAN prefixes it exports, and publishes     *)
(* them: LocalLanExportConfigV2 in crates/tp-client/src/peer_runtime.rs,   *)
(* set_v2_local_lan_export_config and the LAN export watchdog in           *)
(* crates/tp-client/src/engine.rs, called by save_settings of the desktop  *)
(* application.                                                            *)
(*                                                                         *)
(* One value is kept four times: what the owner answered, the record that  *)
(* authorizes inbound flows, the record the user is shown, and the record  *)
(* that gossip sends to the other Peers.  Each has a lock of its own and   *)
(* none covers two of them, so the settings save, on its own thread, and   *)
(* the watchdog interleave between any two.                                *)
(***************************************************************************)
EXTENDS Integers, Sequences, FiniteSets, SequencesExt

CONSTANTS
    LanPrefixes,  \* LAN prefixes
    Answers,      \* what the owner may save: [configured, auto_current_lan]
    Networks,     \* what the machine may be attached to: sequences of prefixes
    MaxExports,   \* MAX_LAN_EXPORTS_PER_PEER_V2
    MaxSaves,     \* bound: settings saves
    MaxMoves,     \* bound: changes of network
    MaxFailures   \* bound: interface scans that fail

AnswerType == [configured: Seq(LanPrefixes), auto_current_lan: BOOLEAN]

\* A list that is too long or has a prefix twice is refused before it is saved.
ASSUME ExportsAssumption ==
    /\ Answers \subseteq AnswerType
    /\ \A answer \in Answers :
          IsInjective(answer.configured) /\ Len(answer.configured) <= MaxExports
    /\ Answers # {}
    /\ Networks \subseteq Seq(LanPrefixes)
    /\ Networks # {}
    /\ {MaxExports, MaxSaves, MaxMoves, MaxFailures} \subseteq Nat

VARIABLES
    config,       \* v2_local_lan_export_config
    generation,   \* v2_local_lan_export_generation
    localRecord,  \* v2_local_runtime_record: what inbound flows are checked against
    localExports, \* v2_runtime.local_exports: what the user is shown
    gossipRecord, \* local_record of the gossip controller: what other Peers are sent
    save,         \* the thread in save_settings
    scan,         \* the watchdog task
    network,      \* external: what the machine is attached to
    moves,        \* changes of network so far
    failures      \* failed scans so far

vars == <<config, generation, localRecord, localExports, gossipRecord,
          save, scan, network, moves, failures>>

-----------------------------------------------------------------------------
\* A Peer runtime record: from the prefixes it lists to whether each is ready.
Records == UNION {[D -> BOOLEAN]: D \in SUBSET LanPrefixes}

Unavailable == <<"discovery failed">>
Inventories == Networks \cup {Unavailable}

\* What discovery found, Unavailable counting as nothing.
Connected(inventory) == IF inventory = Unavailable THEN <<>> ELSE inventory

\* The prefixes that join the export list, in the order they are offered: each
\* once, until the list is full.
Admitted(prefixes) ==
    {prefixes[i] : i \in {i \in DOMAIN prefixes :
        Cardinality({prefixes[j] : j \in 1..(i - 1)}) < MaxExports}}

\* MUTANT: the networks the machine is on are admitted before the typed list.
ResolveAutoFirst(answer, inventory) ==
    LET connected == Connected(inventory)
        auto == IF answer.auto_current_lan THEN connected ELSE <<>>
    IN  [p \in Admitted(auto \o answer.configured) |-> Contains(connected, p)]

\* The typed prefixes come first, each ready while the machine is attached to
\* it; the networks it is attached to follow if the owner asked for them.
Resolve(answer, inventory) ==
    LET connected == Connected(inventory)
        auto == IF answer.auto_current_lan THEN connected ELSE <<>>
    IN  [p \in Admitted(answer.configured \o auto) |-> Contains(connected, p)]

-----------------------------------------------------------------------------
NoAnswer == [configured |-> <<>>, auto_current_lan |-> FALSE]
NoRecord == Resolve(NoAnswer, <<>>)

SaveIdle(done) == [pc |-> "idle", answer |-> NoAnswer, inventory |-> <<>>,
                   record |-> NoRecord, done |-> done]
ScanIdle == [pc |-> "idle", generation |-> 0, inventory |-> <<>>, next |-> NoRecord]

\* The engine is connected, with an answer installed before it was.
Init ==
    /\ config \in Answers
    /\ generation = 1
    /\ network \in Networks
    /\ localRecord = Resolve(config, network)
    /\ localExports = localRecord
    /\ gossipRecord = localRecord
    /\ save = SaveIdle(0)
    /\ scan = ScanIdle
    /\ moves = 0
    /\ failures = 0

\* The machine is attached to other networks.
Move ==
    /\ moves < MaxMoves
    /\ \E n \in Networks \ {network}: network' = n
    /\ moves' = moves + 1
    /\ UNCHANGED <<config, generation, localRecord, localExports, gossipRecord,
                   save, scan, failures>>

\* discover_connected_lan_prefixes: the networks now, or a failure.
Discover(inventory) ==
    \/ inventory = network /\ UNCHANGED failures
    \/ inventory = Unavailable /\ failures < MaxFailures /\ failures' = failures + 1

-----------------------------------------------------------------------------
(* The settings save.                                                      *)

\* save_settings compiles the new answer against a scan of its own ...
SaveCompile ==
    /\ save.pc = "idle"
    /\ save.done < MaxSaves
    /\ \E answer \in Answers, inventory \in Inventories:
         /\ Discover(inventory)
         /\ save' = [save EXCEPT !.pc = "install", !.answer = answer,
                                 !.inventory = inventory]
    /\ UNCHANGED <<config, generation, localRecord, localExports, gossipRecord,
                   scan, network, moves>>

\* ... replaces the answer and resolves it, under the lock of the answer ...
SaveInstall ==
    /\ save.pc = "install"
    /\ config' = save.answer
    /\ save' = [save EXCEPT !.pc = "bump",
                            !.record = Resolve(save.answer, save.inventory)]
    /\ UNCHANGED <<generation, localRecord, localExports, gossipRecord,
                   scan, network, moves, failures>>

\* ... advances the generation ...
SaveBump ==
    /\ save.pc = "bump"
    /\ generation' = generation + 1
    /\ save' = [save EXCEPT !.pc = "record"]
    /\ UNCHANGED <<config, localRecord, localExports, gossipRecord,
                   scan, network, moves, failures>>

\* ... and publishes: the record, what is shown, what gossip sends.
SavePublishRecord ==
    /\ save.pc = "record"
    /\ localRecord' = save.record
    /\ save' = [save EXCEPT !.pc = "show"]
    /\ UNCHANGED <<config, generation, localExports, gossipRecord,
                   scan, network, moves, failures>>

SavePublishShown ==
    /\ save.pc = "show"
    /\ localExports' = save.record
    /\ save' = [save EXCEPT !.pc = "gossip"]
    /\ UNCHANGED <<config, generation, localRecord, gossipRecord,
                   scan, network, moves, failures>>

SavePublishGossip ==
    /\ save.pc = "gossip"
    /\ gossipRecord' = save.record
    /\ save' = SaveIdle(save.done + 1)
    /\ UNCHANGED <<config, generation, localRecord, localExports,
                   scan, network, moves, failures>>

Save == \/ SaveCompile \/ SaveInstall \/ SaveBump
        \/ SavePublishRecord \/ SavePublishShown \/ SavePublishGossip

-----------------------------------------------------------------------------
(* The watchdog.                                                           *)

\* MUTANT: the generation is read once, when the watchdog starts.
ScanTickOnce ==
    /\ scan.pc = "idle"
    /\ scan' = [scan EXCEPT !.pc = "discover", !.generation = 1]
    /\ UNCHANGED <<config, generation, localRecord, localExports, gossipRecord,
                   save, network, moves, failures>>

\* A tick: the generation is read before the blocking scan ...
ScanTick ==
    /\ scan.pc = "idle"
    /\ scan' = [scan EXCEPT !.pc = "discover", !.generation = generation]
    /\ UNCHANGED <<config, generation, localRecord, localExports, gossipRecord,
                   save, network, moves, failures>>

ScanDiscover ==
    /\ scan.pc = "discover"
    /\ \E inventory \in Inventories:
         /\ Discover(inventory)
         /\ scan' = [scan EXCEPT !.pc = "check", !.inventory = inventory]
    /\ UNCHANGED <<config, generation, localRecord, localExports, gossipRecord,
                   save, network, moves>>

\* ... and compared after it: a save in between has published already.
ScanCheck ==
    /\ scan.pc = "check"
    /\ scan' = IF generation = scan.generation
               THEN [scan EXCEPT !.pc = "resolve"]
               ELSE ScanIdle
    /\ UNCHANGED <<config, generation, localRecord, localExports, gossipRecord,
                   save, network, moves, failures>>

ScanResolve ==
    /\ scan.pc = "resolve"
    /\ scan' = [scan EXCEPT !.pc = "compare",
                            !.next = Resolve(config, scan.inventory)]
    /\ UNCHANGED <<config, generation, localRecord, localExports, gossipRecord,
                   save, network, moves, failures>>

\* Nothing is published when the record would not change.
ScanCompare ==
    /\ scan.pc = "compare"
    /\ scan' = IF localRecord = scan.next
               THEN ScanIdle
               ELSE [scan EXCEPT !.pc = "record"]
    /\ UNCHANGED <<config, generation, localRecord, localExports, gossipRecord,
                   save, network, moves, failures>>

ScanPublishRecord ==
    /\ scan.pc = "record"
    /\ localRecord' = scan.next
    /\ scan' = [scan EXCEPT !.pc = "show"]
    /\ UNCHANGED <<config, generation, localExports, gossipRecord,
                   save, network, moves, failures>>

\* MUTANT: the settings page keeps what it showed.
ScanPublishUnshown ==
    /\ scan.pc = "show"
    /\ scan' = [scan EXCEPT !.pc = "gossip"]
    /\ UNCHANGED <<config, generation, localRecord, localExports, gossipRecord,
                   save, network, moves, failures>>

ScanPublishShown ==
    /\ scan.pc = "show"
    /\ localExports' = scan.next
    /\ scan' = [scan EXCEPT !.pc = "gossip"]
    /\ UNCHANGED <<config, generation, localRecord, gossipRecord,
                   save, network, moves, failures>>

ScanPublishGossip ==
    /\ scan.pc = "gossip"
    /\ gossipRecord' = scan.next
    /\ scan' = ScanIdle
    /\ UNCHANGED <<config, generation, localRecord, localExports,
                   save, network, moves, failures>>

Scan == \/ ScanTick \/ ScanDiscover \/ ScanCheck \/ ScanResolve \/ ScanCompare
        \/ ScanPublishRecord \/ ScanPublishShown \/ ScanPublishGossip

-----------------------------------------------------------------------------
Next == Move \/ Save \/ Scan

Spec == Init /\ [][Next]_vars

\* The watchdog's interval never stops ticking while the engine is connected,
\* its discovery returns, and a settings save runs to its end once it begins.
FairSpec ==
    /\ Spec
    /\ WF_vars(Scan)
    /\ WF_vars(Save /\ save.pc # "idle")

-----------------------------------------------------------------------------
(* Properties.                                                             *)

\* Every copy of the record is a record, and the threads are where they can be.
TypeOK ==
    /\ config \in Answers
    /\ generation = 1 + save.done + (IF save.pc \in {"record", "show", "gossip"} THEN 1 ELSE 0)
    /\ {localRecord, localExports, gossipRecord, save.record, scan.next} \subseteq Records
    /\ save.pc \in {"idle", "install", "bump", "record", "show", "gossip"}
    /\ scan.pc \in {"idle", "discover", "check", "resolve", "compare",
                    "record", "show", "gossip"}
    /\ scan.generation \in 0..generation
    /\ {save.inventory, scan.inventory} \subseteq Inventories \cup {<<>>}
    /\ network \in Networks
    /\ save.done \in 0..MaxSaves
    /\ moves \in 0..MaxMoves
    /\ failures \in 0..MaxFailures

\* "a machine on many networks cannot silently push a prefix its owner asked
\* for out of the record" (peer_runtime.rs): every record a save resolves, and
\* every record the watchdog resolves for the answer in force, lists all the
\* typed prefixes, ready exactly where the scan it used found the network.
TypedSurvives ==
    LET Lists(record, answer, inventory) ==
            \A p \in ToSet(answer.configured):
                /\ p \in DOMAIN record
                /\ record[p] <=> (inventory # Unavailable /\ Contains(inventory, p))
    IN  /\ save.pc \in {"bump", "record", "show", "gossip"}
             => Lists(save.record, save.answer, save.inventory)
        /\ (/\ scan.pc \in {"compare", "record", "show", "gossip"}
            /\ generation = scan.generation
            /\ save.pc # "bump")
             => Lists(scan.next, config, scan.inventory)

\* "The published record above is derived from this and the live interface
\* list on every scan" (engine.rs): once the owner and the machine stay put,
\* the record that authorizes inbound flows settles on what the answer now in
\* force resolves to.  It does whatever the threads did to each other before.
RecordFollows == <>[](localRecord = Resolve(config, network))

\* The same comment of what is published: the record gossip hands to every
\* other Peer settles there too.
PublishedFollows == <>[](gossipRecord = Resolve(config, network))

\* "This is what makes an automatic Export follow the machine" (engine.rs):
\* while the owner saves nothing, the watchdog alone brings what is shown and
\* what gossip sends to the networks the machine is on.
WatchdogFollows ==
    [](save = SaveIdle(0)) =>
        <>[](/\ localExports = Resolve(config, network)
             /\ gossipRecord = Resolve(config, network))

\* "that save already published its own resolution" (engine.rs): while nobody
\* is publishing, inbound flows are not let in to a prefix that the saved
\* answer neither lists nor leaves to the current LAN.
SaveTakesEffect ==
    (/\ save.pc = "idle"
     /\ scan.pc \in {"idle", "discover", "check"}
     /\ ~config.auto_current_lan)
    => DOMAIN localRecord \subseteq ToSet(config.configured)
=============================================================================
