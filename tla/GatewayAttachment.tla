--------------------------- MODULE GatewayAttachment ---------------------------
(***************************************************************************)
(* How a carrier session becomes a live attachment of a Tunnel and how it  *)
(* leaves (crates/tp-gateway/src/lib.rs, run_client_session and the code   *)
(* it calls), interleaved with the two tasks that replace Scope            *)
(* partitions and purge the attachments of removed Tunnels, and with the   *)
(* sweeper that evicts idle peer-registry entries.                         *)
(*                                                                         *)
(* Every session is its own task of a multi-threaded runtime; each action  *)
(* below is one critical section of that task.  unregister, which a        *)
(* session's task and a purge may run for the same session at once, is     *)
(* three of them.  A PeerRegistry call updates its two maps in one step.   *)
(* Data that no decision of the Gateway reads (addresses, metrics,         *)
(* bandwidth) is left out; time is abstracted to "the deadline may pass"   *)
(* and "the entry may be idle".                                            *)
(***************************************************************************)
EXTENDS ScopeStore, FiniteSets

CONSTANTS
    Sessions,             \* carrier sessions that may ever be accepted
    Peers,                \* stable Peer ids
    Families,             \* runtime families (the replica id without its index)
    Replicas,             \* runtime replica ids (AuthParams.client_id)
    Info,                 \* what each session presents: Tunnel, Peer, replica, issuer
    MaxAttachments,       \* p2p_config.max_v2_attachments
    MaxReplicasPerPeer,   \* p2p_config.max_replicas_per_peer
    IdleEviction,         \* p2p_config.enabled: the sweeper runs
    Tasks,                \* the tasks that replace Scopes: "static", "managed"
    NoPeer, NoFamily

Tunnel(s)  == Info[s].tunnel
Peer(s)    == Info[s].peer
Replica(s) == Info[s].replica
Family(s)  == Info[s].family
PeerKey(s) == <<Tunnel(s), Peer(s)>>
PeerKeys   == Tunnels \X Peers

ASSUME InfoAssumption ==
    Info \in [Sessions -> [tunnel : Tunnels, peer : Peers, family : Families,
                           replica : Replicas, issuer : Issuers]]

(* A replica id embeds its Tunnel and a random family drawn by one runtime *)
(* of one Peer, so it determines all three.                                *)
ASSUME ReplicaAssumption ==
    \A s1, s2 \in Sessions :
        Replica(s1) = Replica(s2) =>
            /\ PeerKey(s1) = PeerKey(s2)
            /\ Family(s1) = Family(s2)

ASSUME LimitsAssumption ==
    /\ MaxAttachments \in Nat
    /\ MaxReplicasPerPeer \in Nat
    /\ IdleEviction \in BOOLEAN
    /\ Tasks \subseteq {"static", "managed"}
    /\ IsFiniteSet(Sessions)

ASSUME MarkersAssumption == NoPeer \notin Peers /\ NoFamily \notin Families

VARIABLES
    pc,             \* where each session's task stands
    captured,       \* issuer of the Scope fetched before the challenge
    freeSlots,      \* v2_attachment_slots: permits left
    leaseFamily,    \* V2PeerAttachmentLimiter.live: family of the lease, or NoFamily
    leaseReplicas,  \* ... and its live_replica_ids
    lists,          \* Gateway.clients: Tunnels that have a list, maybe empty
    listed,         \* ... and the sessions in the lists
    emptied,        \* unregisters <<caller, session>> that emptied a list
    unlisted,       \* ... and those with only the registry entry left to drop
    endpoints,      \* PeerRegistry.inner: replicas with a recorded endpoint
    identity,       \* PeerRegistry.stable_peer_by_replica
    closing,        \* sessions whose sender was closed by a purge
    doomed,         \* per Scope task: removed Tunnels still to be disconnected
    victims         \* per Scope task: snapshot of attachments still to be purged

Callers == {"self"} \cup Tasks   \* who unregisters a session
Calls   == Callers \X Sessions

sessionVars  == <<pc, captured>>
clientVars   == <<lists, listed, emptied, unlisted>>
leaseVars    == <<leaseFamily, leaseReplicas>>
registryVars == <<endpoints, identity>>
purgeVars    == <<closing, doomed, victims>>
vars == <<scopeVars, sessionVars, freeSlots, leaseVars, clientVars, registryVars, purgeVars>>

Stages == {"new", "carried", "proving", "proved", "permitted", "recorded",
           "registered", "running", "stopped", "leaving", "closed"}

HoldsSlot   == {"proving", "proved", "permitted", "recorded", "registered",
                "running", "stopped", "leaving"}
HoldsPermit == HoldsSlot \ {"proving", "proved"}

TypeOK ==
    /\ staticScopes \in Partition
    /\ managedScopes \in Partition
    /\ seenIssuers \in Partition
    /\ pc \in [Sessions -> Stages]
    /\ captured \in [Sessions -> Issuers \cup {NoIssuer}]
    /\ freeSlots \in 0..MaxAttachments
    /\ leaseFamily \in [PeerKeys -> Families \cup {NoFamily}]
    /\ leaseReplicas \in [PeerKeys -> SUBSET Replicas]
    /\ lists \subseteq Tunnels
    /\ listed \subseteq Sessions
    /\ emptied \subseteq Calls
    /\ unlisted \subseteq Calls
    /\ endpoints \subseteq Replicas
    /\ identity \in [Replicas -> Peers \cup {NoPeer}]
    /\ closing \subseteq Sessions
    /\ doomed \in [Tasks -> SUBSET Tunnels]
    /\ victims \in [Tasks -> SUBSET Sessions]

Init ==
    /\ ScopeInit
    /\ pc = [s \in Sessions |-> "new"]
    /\ captured = [s \in Sessions |-> NoIssuer]
    /\ freeSlots = MaxAttachments
    /\ leaseFamily = [k \in PeerKeys |-> NoFamily]
    /\ leaseReplicas = [k \in PeerKeys |-> {}]
    /\ lists = {}
    /\ listed = {}
    /\ emptied = {}
    /\ unlisted = {}
    /\ endpoints = {}
    /\ identity = [r \in Replicas |-> NoPeer]
    /\ closing = {}
    /\ doomed = [k \in Tasks |-> {}]
    /\ victims = [k \in Tasks |-> {}]

-----------------------------------------------------------------------------
(* Admission of one session. *)

Goto(s, stage) == pc' = [pc EXCEPT ![s] = stage]

(* GatewayAuth::authenticate: the transport hands over only sessions of a  *)
(* Tunnel this Gateway knows.                                              *)
AuthenticateCarrier(s) ==
    /\ pc[s] = "new"
    /\ Goto(s, IF Contains(Tunnel(s)) THEN "carried" ELSE "closed")
    /\ UNCHANGED <<scopeVars, captured, freeSlots, leaseVars, clientVars,
                   registryVars, purgeVars>>

(* A global slot, then the Scope as it is now, then the challenge. *)
SendChallenge(s) ==
    /\ pc[s] = "carried"
    /\ freeSlots > 0
    /\ Contains(Tunnel(s))
    /\ freeSlots' = freeSlots - 1
    /\ captured' = [captured EXCEPT ![s] = ScopeOf(Tunnel(s))]
    /\ Goto(s, "proving")
    /\ UNCHANGED <<scopeVars, leaseVars, clientVars, registryVars, purgeVars>>

(* No slot is left, or the Scope went away since the carrier authenticated *)
(* (the slot is returned with the early return).                           *)
RefuseChallenge(s) ==
    /\ pc[s] = "carried"
    /\ freeSlots = 0 \/ ~Contains(Tunnel(s))
    /\ Goto(s, "closed")
    /\ UNCHANGED <<scopeVars, captured, freeSlots, leaseVars, clientVars,
                   registryVars, purgeVars>>

(* The membership verifies against the Scope captured before the await. *)
VerifyProof(s) ==
    /\ pc[s] = "proving"
    /\ Info[s].issuer = captured[s]
    /\ Goto(s, "proved")
    /\ UNCHANGED <<scopeVars, captured, freeSlots, leaseVars, clientVars,
                   registryVars, purgeVars>>

(* Mutant of RejectProof: no deadline on the answer. *)
RejectProofWithoutDeadline(s) ==
    /\ pc[s] = "proving"
    /\ Info[s].issuer # captured[s]
    /\ freeSlots' = freeSlots + 1
    /\ Goto(s, "closed")
    /\ UNCHANGED <<scopeVars, captured, leaseVars, clientVars, registryVars, purgeVars>>

(* Deadline, disconnect, wrong message or a proof that does not verify. *)
RejectProof(s) ==
    /\ pc[s] = "proving"
    /\ freeSlots' = freeSlots + 1
    /\ Goto(s, "closed")
    /\ UNCHANGED <<scopeVars, captured, leaseVars, clientVars, registryVars, purgeVars>>

(* Mutant of MayAttach: one replica too many. *)
MayAttachOffByOne(s) ==
    LET k == PeerKey(s) IN
    /\ leaseFamily[k] \in {NoFamily, Family(s)}
    /\ Replica(s) \notin leaseReplicas[k]
    /\ Cardinality(leaseReplicas[k]) <= MaxReplicasPerPeer

(* V2PeerAttachmentLimiter::try_acquire *)
MayAttach(s) ==
    LET k == PeerKey(s) IN
    /\ leaseFamily[k] \in {NoFamily, Family(s)}
    /\ Replica(s) \notin leaseReplicas[k]
    /\ Cardinality(leaseReplicas[k]) < MaxReplicasPerPeer

AcquirePermit(s) ==
    /\ pc[s] = "proved"
    /\ MayAttach(s)
    /\ leaseFamily' = [leaseFamily EXCEPT ![PeerKey(s)] = Family(s)]
    /\ leaseReplicas' = [leaseReplicas EXCEPT ![PeerKey(s)] = @ \cup {Replica(s)}]
    /\ Goto(s, "permitted")
    /\ UNCHANGED <<scopeVars, captured, freeSlots, clientVars, registryVars, purgeVars>>

(* Mutant of RefusePermit: the slot leaks. *)
RefusePermitKeepsSlot(s) ==
    /\ pc[s] = "proved"
    /\ ~MayAttach(s)
    /\ Goto(s, "closed")
    /\ UNCHANGED <<scopeVars, captured, freeSlots, leaseVars, clientVars,
                   registryVars, purgeVars>>

RefusePermit(s) ==
    /\ pc[s] = "proved"
    /\ ~MayAttach(s)
    /\ freeSlots' = freeSlots + 1
    /\ Goto(s, "closed")
    /\ UNCHANGED <<scopeVars, captured, leaseVars, clientVars, registryVars, purgeVars>>

(* peers.upsert and peers.bind_v2_identity *)
RecordIdentity(s) ==
    /\ pc[s] = "permitted"
    /\ endpoints' = endpoints \cup {Replica(s)}
    /\ identity' = [identity EXCEPT ![Replica(s)] = Peer(s)]
    /\ Goto(s, "recorded")
    /\ UNCHANGED <<scopeVars, captured, freeSlots, leaseVars, clientVars, purgeVars>>

Register(s) ==
    /\ pc[s] = "recorded"
    /\ lists' = lists \cup {Tunnel(s)}
    /\ listed' = listed \cup {s}
    /\ Goto(s, "registered")
    /\ UNCHANGED <<scopeVars, captured, freeSlots, leaseVars, emptied, unlisted,
                   registryVars, purgeVars>>

-----------------------------------------------------------------------------
(* Departure. *)

(* Mutant of StartRunning: no check after registration. *)
StartRunningUnchecked(s) ==
    /\ pc[s] = "registered"
    /\ Goto(s, "running")
    /\ UNCHANGED <<scopeVars, captured, freeSlots, leaseVars, clientVars,
                   registryVars, purgeVars>>

(* reject_stale_session_after_registration: still current ... *)
StartRunning(s) ==
    /\ pc[s] = "registered"
    /\ Contains(Tunnel(s))
    /\ Goto(s, "running")
    /\ UNCHANGED <<scopeVars, captured, freeSlots, leaseVars, clientVars,
                   registryVars, purgeVars>>

(* ... or the Scope was removed before the registration completed: the     *)
(* session unregisters as at the end of a run.                             *)
RejectStale(s) ==
    /\ pc[s] = "registered"
    /\ ~Contains(Tunnel(s))
    /\ Goto(s, "stopped")
    /\ UNCHANGED <<scopeVars, captured, freeSlots, leaseVars, clientVars,
                   registryVars, purgeVars>>

(* An inbound P2pAnnounce: handle_announce refreshes the endpoint only.    *)
(* Frames queued before a purge closed the sender are still handled.       *)
Announce(s) ==
    /\ pc[s] = "running"
    /\ endpoints' = endpoints \cup {Replica(s)}
    /\ UNCHANGED <<scopeVars, sessionVars, freeSlots, leaseVars, clientVars,
                   identity, purgeVars>>

StopRunning(s) ==
    /\ pc[s] = "running"
    /\ Goto(s, "stopped")
    /\ UNCHANGED <<scopeVars, captured, freeSlots, leaseVars, clientVars,
                   registryVars, purgeVars>>

(* The peer goes away at a moment of its own. *)
PeerDisconnects(s) == StopRunning(s)

(* A purge closed the sender: the readers end. *)
CarrierCloses(s) == s \in closing /\ StopRunning(s)

(* wait_until_scope_is_invalid: the periodic fence of a live session. *)
ScopeFence(s) == ~Contains(Tunnel(s)) /\ StopRunning(s)

(* V2PeerAttachmentPermit::drop, then the global slot. *)
ReleasePermit(s) ==
    LET rest == leaseReplicas[PeerKey(s)] \ {Replica(s)} IN
    /\ pc[s] = "leaving"
    /\ leaseReplicas' = [leaseReplicas EXCEPT ![PeerKey(s)] = rest]
    /\ leaseFamily' = [leaseFamily EXCEPT ![PeerKey(s)] =
                          IF rest = {} THEN NoFamily ELSE @]
    /\ freeSlots' = freeSlots + 1
    /\ Goto(s, "closed")
    /\ UNCHANGED <<scopeVars, captured, clientVars, registryVars, purgeVars>>

-----------------------------------------------------------------------------
(* The tasks that replace Scopes and disconnect what they removed. *)

Idle(task) == doomed[task] = {} /\ victims[task] = {}

(* SIGHUP: reload_static, then disconnect_tunnel_clients per removed id. *)
StaticReload(listing) ==
    /\ "static" \in Tasks /\ Idle("static")
    /\ \/ /\ ReloadStatic(listing)
          /\ doomed' = [doomed EXCEPT !["static"] =
                           RemovedIds(staticScopes, Candidate(listing))]
       \/ /\ RejectListing(listing, managedScopes)
          /\ UNCHANGED doomed
    /\ UNCHANGED <<sessionVars, freeSlots, leaseVars, clientVars, registryVars,
                   closing, victims>>

(* The control session: replace_managed_snapshot, then the disconnects. *)
ManagedSnapshot(listing) ==
    /\ "managed" \in Tasks /\ Idle("managed")
    /\ \/ /\ ReplaceManagedSnapshot(listing)
          /\ doomed' = [doomed EXCEPT !["managed"] =
                           RemovedIds(managedScopes, Candidate(listing))]
       \/ /\ RejectListing(listing, staticScopes)
          /\ UNCHANGED doomed
    /\ UNCHANGED <<sessionVars, freeSlots, leaseVars, clientVars, registryVars,
                   closing, victims>>

(* disconnect_tunnel_clients clones the list under its lock ... *)
SnapshotVictims(task, t) ==
    /\ t \in doomed[task] /\ victims[task] = {}
    /\ doomed' = [doomed EXCEPT ![task] = @ \ {t}]
    /\ victims' = [victims EXCEPT ![task] = {s \in listed : Tunnel(s) = t}]
    /\ UNCHANGED <<scopeVars, sessionVars, freeSlots, leaseVars, clientVars,
                   registryVars, closing>>

-----------------------------------------------------------------------------
(* Gateway::unregister, run by the session itself once it stopped or by a  *)
(* purge for one clone after the other.                                    *)

UnderWay == emptied \cup unlisted

MayUnregister(by, s) ==
    /\ \/ by = "self" /\ pc[s] = "stopped" /\ <<by, s>> \notin UnderWay
       \/ by \in Tasks /\ s \in victims[by] /\ \A u \in Sessions : <<by, u>> \notin UnderWay

(* What follows the call: the session goes on to release its permit; the   *)
(* purge closes the carrier and turns to the next clone.                   *)
Return(by, s) ==
    \/ /\ by = "self"
       /\ Goto(s, "leaving")
       /\ UNCHANGED <<captured, purgeVars>>
    \/ /\ by \in Tasks
       /\ closing' = closing \cup {s}
       /\ victims' = [victims EXCEPT ![by] = @ \ {s}]
       /\ UNCHANGED <<sessionVars, doomed>>

(* Nothing to do: the Tunnel has no list any more. *)
FindNoList(by, s) ==
    /\ MayUnregister(by, s)
    /\ Tunnel(s) \notin lists
    /\ Return(by, s)
    /\ UNCHANGED <<scopeVars, freeSlots, leaseVars, clientVars, registryVars>>

(* Step 1 of the comment: retain under the list's lock. *)
LeaveList(by, s) ==
    LET empty == \A c \in listed \ {s} : Tunnel(c) # Tunnel(s) IN
    /\ MayUnregister(by, s)
    /\ Tunnel(s) \in lists
    /\ listed' = listed \ {s}
    /\ emptied' = IF empty THEN emptied \cup {<<by, s>>} ELSE emptied
    /\ unlisted' = IF empty THEN unlisted ELSE unlisted \cup {<<by, s>>}
    /\ UNCHANGED <<scopeVars, sessionVars, freeSlots, leaseVars, lists, registryVars,
                   purgeVars>>

(* Mutant of DropList: remove instead of remove_if. *)
DropListUnchecked(by, s) ==
    /\ <<by, s>> \in emptied
    /\ lists' = lists \ {Tunnel(s)}
    /\ listed' = {c \in listed : Tunnel(c) # Tunnel(s)}
    /\ emptied' = emptied \ {<<by, s>>}
    /\ unlisted' = unlisted \cup {<<by, s>>}
    /\ UNCHANGED <<scopeVars, sessionVars, freeSlots, leaseVars, registryVars, purgeVars>>

(* Step 2: remove_if, for the list may have been pushed to meanwhile. *)
DropList(by, s) ==
    /\ <<by, s>> \in emptied
    /\ lists' = IF \A c \in listed : Tunnel(c) # Tunnel(s)
                THEN lists \ {Tunnel(s)} ELSE lists
    /\ emptied' = emptied \ {<<by, s>>}
    /\ unlisted' = unlisted \cup {<<by, s>>}
    /\ UNCHANGED <<scopeVars, sessionVars, freeSlots, leaseVars, listed, registryVars,
                   purgeVars>>

(* Mutant of RemovePeer: only the endpoint is dropped. *)
RemovePeerEndpoint(r) ==
    /\ endpoints' = endpoints \ {r}
    /\ UNCHANGED identity

(* PeerRegistry::remove, by replica id and not by attachment. *)
RemovePeer(r) ==
    /\ endpoints' = endpoints \ {r}
    /\ identity' = [identity EXCEPT ![r] = NoPeer]

(* Then, with the relay routes cleaned (GatewayRelay), the registry entry. *)
DropEntry(by, s) ==
    /\ <<by, s>> \in unlisted
    /\ unlisted' = unlisted \ {<<by, s>>}
    /\ RemovePeer(Replica(s))
    /\ Return(by, s)
    /\ UNCHANGED <<scopeVars, freeSlots, leaseVars, lists, listed, emptied>>

Unregister(by, s) ==
    FindNoList(by, s) \/ LeaveList(by, s) \/ DropList(by, s) \/ DropEntry(by, s)

-----------------------------------------------------------------------------
(* The sweeper. *)

(* PeerRegistry::evict_older_than: idle endpoints go, and with them every  *)
(* identity whose endpoint is gone.                                        *)
EvictIdle(idle) ==
    /\ IdleEviction
    /\ endpoints' = endpoints \ idle
    /\ identity' = [r \in Replicas |->
                       IF r \in endpoints \ idle THEN identity[r] ELSE NoPeer]
    /\ UNCHANGED <<scopeVars, sessionVars, freeSlots, leaseVars, clientVars, purgeVars>>

-----------------------------------------------------------------------------

SessionStep(s) ==
    \/ AuthenticateCarrier(s) \/ SendChallenge(s) \/ RefuseChallenge(s)
    \/ VerifyProof(s) \/ RejectProof(s) \/ AcquirePermit(s) \/ RefusePermit(s)
    \/ RecordIdentity(s) \/ Register(s) \/ StartRunning(s) \/ RejectStale(s)
    \/ Announce(s) \/ PeerDisconnects(s) \/ CarrierCloses(s) \/ ScopeFence(s)
    \/ ReleasePermit(s)

ScopeTaskStep ==
    \/ \E listing \in Listings : StaticReload(listing) \/ ManagedSnapshot(listing)
    \/ \E task \in Tasks :
          \E t \in Tunnels : SnapshotVictims(task, t)

Next ==
    \/ \E s \in Sessions : SessionStep(s)
    \/ ScopeTaskStep
    \/ \E by \in Callers, s \in Sessions : Unregister(by, s)
    \/ \E r \in Replicas : EvictIdle({r})

Spec == Init /\ [][Next]_vars

\* What a session's task does once it is scheduled.
TaskStep(s) ==
    \/ SendChallenge(s) \/ RefuseChallenge(s) \/ RejectProof(s)
    \/ AcquirePermit(s) \/ RefusePermit(s) \/ RecordIdentity(s) \/ Register(s)
    \/ StartRunning(s) \/ RejectStale(s) \/ CarrierCloses(s) \/ ScopeFence(s)
    \/ Unregister("self", s) \/ ReleasePermit(s)

PurgeStep(task) ==
    \/ \E t \in Tunnels : SnapshotVictims(task, t)
    \/ \E s \in Sessions : Unregister(task, s)

(* A spawned task that can run does run; the challenge deadline fires; the *)
(* Scope fence ticks every second; a closed carrier ends its readers.      *)
(* Nothing forces a peer to disconnect, a listing to arrive or an entry to *)
(* be idle.                                                                *)
Fairness ==
    /\ \A s \in Sessions : WF_vars(TaskStep(s))
    /\ \A task \in Tasks : WF_vars(PurgeStep(task))

FairSpec == Spec /\ Fairness

-----------------------------------------------------------------------------
(* Properties. *)

Holders(k) == {s \in Sessions : pc[s] \in HoldsPermit /\ PeerKey(s) = k}

(* CONTEXT.md: after proof the Gateway leases one active runtime family    *)
(* per stable Peer.  Whatever the interleaving of admissions and           *)
(* departures, the sessions that hold a permit of one (Tunnel, Peer) are   *)
(* replicas of one family, no replica twice, at most the configured number *)
(* (try_acquire and the permit's drop in run_client_session).              *)
OneFamilyPerPeer ==
    \A k \in PeerKeys :
        /\ \A s1, s2 \in Holders(k) :
              /\ Family(s1) = Family(s2)
              /\ Replica(s1) = Replica(s2) => s1 = s2
        /\ Cardinality(Holders(k)) <= MaxReplicasPerPeer

(* The lease table is exactly what the live permits add up to: no departure *)
(* path leaks a replica or a family, and none frees a lease another         *)
(* session still holds ("the family lease leaves with its last Replica").   *)
LeaseIntegrity ==
    \A k \in PeerKeys :
        /\ leaseReplicas[k] = {Replica(s) : s \in Holders(k)}
        /\ leaseFamily[k] = NoFamily <=> Holders(k) = {}

(* Every exit of run_client_session returns its global slot exactly once. *)
SlotAccounting ==
    freeSlots + Cardinality({s \in Sessions : pc[s] \in HoldsSlot}) = MaxAttachments

(* A Tunnel is never served from both partitions (source conflicts are     *)
(* rejected in both directions), so static precedence in get never hides a *)
(* managed Scope.                                                          *)
SingleSource ==
    \A t \in Tunnels : ~(Holds(staticScopes, t) /\ Holds(managedScopes, t))

(* authenticate_v2_attachment verifies a membership against the Scope it   *)
(* fetched before awaiting the proof.  The Scope may be replaced or        *)
(* removed and re-added meanwhile; still, no admitted session is trusted   *)
(* under an issuer other than the one its Tunnel has now.                  *)
TrustedIssuer ==
    \A s \in Sessions :
        /\ pc[s] \in HoldsPermit \cup {"proved"}
        /\ Contains(Tunnel(s))
        => Info[s].issuer = ScopeOf(Tunnel(s))

(* "Close the last Scope-authentication->register race window": without    *)
(* counting on the periodic fence, a running session of a removed Tunnel   *)
(* is closed already or is bound to be found by a purge under way.         *)
RaceWindowClosed ==
    \A s \in Sessions :
        pc[s] = "running" /\ ~Contains(Tunnel(s)) =>
            \/ s \in closing
            \/ \E task \in Tasks : s \in victims[task] \/ Tunnel(s) \in doomed[task]

(* A stable identity in the PeerRegistry belongs to an attachment that is  *)
(* about to register, is registered, or whose unregister is under way and  *)
(* has yet to come to peers.remove: no departure, the early return of      *)
(* unregister included, and no meeting of a purge with the session's own   *)
(* unregister leaves one behind for lookups to find.                       *)
NoOrphanIdentity ==
    \A r \in Replicas :
        identity[r] # NoPeer =>
            \E s \in Sessions :
                /\ Replica(s) = r /\ Peer(s) = identity[r]
                /\ \/ pc[s] = "recorded" \/ s \in listed
                   \/ \E by \in Callers : <<by, s>> \in UnderWay

(* "a concurrent `register` that pushed a fresh `ClientConn` between step  *)
(* 1 and step 2 is not clobbered" (unregister): a session that registered  *)
(* and has not stopped is in the list that lookups and purges read, unless *)
(* a purge is unregistering this very session or has closed it; no         *)
(* unregister of another session, however late, takes it out.              *)
RegistrationKept ==
    \A s \in Sessions :
        pc[s] \in {"registered", "running"} /\ s \notin listed =>
            s \in closing \/ \E task \in Tasks : <<task, s>> \in UnderWay

(* A registered attachment can be looked up under its stable Peer id: the  *)
(* late unregister of an earlier attachment of the same replica does not   *)
(* take the registry entry of its successor with it.  Refuted: a purge     *)
(* that works on an old clone does (README, section 4).                    *)
IdentityKept ==
    \A s \in listed :
        pc[s] = "running" => identity[Replica(s)] = Peer(s)

(* The client re-announces so that an evicted entry comes back: a          *)
(* registered attachment that has a recorded endpoint also has its stable  *)
(* identity (handle_announce after evict_older_than).                      *)
AnnouncedPeerVisible ==
    \A s \in listed :
        pc[s] = "running" /\ Replica(s) \in endpoints
            => identity[Replica(s)] = Peer(s)

(* Removing a Scope closes the Tunnel's attachments: an attachment of a    *)
(* Tunnel that neither partition holds is gone, permits included, unless   *)
(* the Tunnel comes back first.                                            *)
RemovedScopeDrains ==
    \A s \in Sessions :
        (pc[s] = "running" /\ ~Holds(staticScopes, Tunnel(s))
                          /\ ~Holds(managedScopes, Tunnel(s)))
            ~> (pc[s] = "closed" \/ Holds(staticScopes, Tunnel(s))
                                \/ Holds(managedScopes, Tunnel(s)))

(* No admitted carrier hangs half-way: it runs or its session is closed    *)
(* and its slot returned, even if the peer never answers the challenge.    *)
AdmissionDecides ==
    \A s \in Sessions : pc[s] = "carried" ~> pc[s] \in {"running", "closed"}

=============================================================================
