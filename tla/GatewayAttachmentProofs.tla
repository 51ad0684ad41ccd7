------------------------ MODULE GatewayAttachmentProofs ------------------------
(***************************************************************************)
(* TLAPS proofs about GatewayAttachment, for every set of sessions,        *)
(* Tunnels, Peers and listings.                                            *)
(***************************************************************************)
EXTENDS GatewayAttachment, FiniteSetTheorems, TLAPS

USE DEF Stages, HoldsSlot, HoldsPermit, clientVars

-----------------------------------------------------------------------------
(* Facts about the operators. *)

(* A listing, once reduced to a partition, is a partition. *)
LEMMA CandidateType ==
    ASSUME NEW listing \in Listings
    PROVE  Candidate(listing) \in Partition
<1>1. listing \in Seq(ScopeFile)
    BY ListingsAssumption
<1>2. \A i \in 1..Len(listing) : listing[i] \in ScopeFile
    BY <1>1
<1>3. ASSUME NEW t \in Tunnels, \E i \in 1..Len(listing) : listing[i].tunnel = t
      PROVE  listing[CHOOSE i \in 1..Len(listing) : listing[i].tunnel = t].issuer
                 \in Issuers
    <2> DEFINE c == CHOOSE i \in 1..Len(listing) : listing[i].tunnel = t
    <2>1. c \in 1..Len(listing)
        BY <1>3
    <2> QED
        BY <2>1, <1>2 DEF ScopeFile
<1> QED
    BY <1>3 DEF Candidate, Partition

(* What a session presents has its type. *)
LEMMA InfoType ==
    ASSUME NEW s \in Sessions
    PROVE  /\ Tunnel(s) \in Tunnels /\ Peer(s) \in Peers
           /\ Replica(s) \in Replicas /\ Family(s) \in Families
           /\ PeerKey(s) \in PeerKeys /\ Info[s].issuer \in Issuers
BY InfoAssumption DEF Tunnel, Peer, Replica, Family, PeerKey, PeerKeys

(* The Scope of a Tunnel is an issuer or the marker. *)
LEMMA ScopeOfType ==
    ASSUME TypeOK, NEW t \in Tunnels
    PROVE  ScopeOf(t) \in Issuers \cup {NoIssuer}
BY DEF TypeOK, ScopeOf, Partition

(* The tasks are not called "self". *)
LEMMA CallerTypes == "self" \notin Tasks /\ "self" \in Callers /\ Tasks \subseteq Callers
BY LimitsAssumption DEF Callers

-----------------------------------------------------------------------------
(* Slots.  SlotHolders is the set SlotAccounting counts. *)

SlotHolders == {s \in Sessions : pc[s] \in HoldsSlot}

LEMMA SlotHoldersFinite == IsFiniteSet(SlotHolders) /\ Cardinality(SlotHolders) \in Nat
<1>1. SlotHolders \subseteq Sessions
    BY DEF SlotHolders
<1> QED
    BY <1>1, LimitsAssumption, FS_Subset, FS_CardinalityType

(* A session that holds a slot leaves room for its return. *)
LEMMA SlotReturns ==
    ASSUME TypeOK, SlotAccounting, NEW s \in Sessions,
           pc[s] \in HoldsSlot, freeSlots' = freeSlots + 1,
           pc' = [pc EXCEPT ![s] = "closed"]
    PROVE  freeSlots' \in 0..MaxAttachments /\ SlotAccounting'
<1>1. SlotHolders' = SlotHolders \ {s}
    BY DEF SlotHolders, TypeOK
<1>2. s \in SlotHolders
    BY DEF SlotHolders
<1>3. Cardinality(SlotHolders') = Cardinality(SlotHolders) - 1
    BY <1>1, <1>2, SlotHoldersFinite, FS_RemoveElement
<1>4. Cardinality(SlotHolders) # 0
    BY <1>2, SlotHoldersFinite, FS_EmptySet
<1>5. freeSlots + Cardinality(SlotHolders) = MaxAttachments
    BY DEF SlotAccounting, SlotHolders
<1>6. freeSlots' + Cardinality(SlotHolders') = MaxAttachments
    BY <1>3, <1>5, SlotHoldersFinite DEF TypeOK
<1> QED
    BY <1>3, <1>4, <1>5, <1>6, SlotHoldersFinite, LimitsAssumption
    DEF TypeOK, SlotAccounting, SlotHolders

(* A step of a session that neither takes nor returns a slot. *)
LEMMA SlotKept ==
    ASSUME TypeOK, SlotAccounting, NEW s \in Sessions, NEW stage \in Stages,
           pc[s] \in HoldsSlot <=> stage \in HoldsSlot,
           freeSlots' = freeSlots, pc' = [pc EXCEPT ![s] = stage]
    PROVE  SlotAccounting'
<1>1. SlotHolders' = SlotHolders
    BY DEF SlotHolders, TypeOK
<1> QED
    BY <1>1 DEF SlotAccounting, SlotHolders

LEMMA SlotTaken ==
    ASSUME TypeOK, SlotAccounting, NEW s \in Sessions,
           pc[s] = "carried", freeSlots > 0, freeSlots' = freeSlots - 1,
           pc' = [pc EXCEPT ![s] = "proving"]
    PROVE  freeSlots' \in 0..MaxAttachments /\ SlotAccounting'
<1>1. SlotHolders' = SlotHolders \cup {s} /\ s \notin SlotHolders
    BY DEF SlotHolders, TypeOK
<1>2. Cardinality(SlotHolders') = Cardinality(SlotHolders) + 1
    BY <1>1, SlotHoldersFinite, FS_AddElement
<1>3. freeSlots + Cardinality(SlotHolders) = MaxAttachments
    BY DEF SlotAccounting, SlotHolders
<1>4. freeSlots' + Cardinality(SlotHolders') = MaxAttachments
    BY <1>2, <1>3, SlotHoldersFinite DEF TypeOK
<1> QED
    BY <1>4, SlotHoldersFinite, LimitsAssumption DEF TypeOK, SlotAccounting, SlotHolders

-----------------------------------------------------------------------------
(* The facts every other proof starts from: types and slots together,      *)
(* because the range of freeSlots follows from the accounting, and who     *)
(* unregisters what, because a session leaves only after it stopped.       *)

\* Unregisters under way: in one section each, called by a stopped session for
\* itself or by a purge for a clone it still has.
CallsInv ==
    /\ emptied \cap unlisted = {}
    /\ \A s \in Sessions : <<"self", s>> \in UnderWay => pc[s] = "stopped"
    /\ \A task \in Tasks, s \in Sessions :
           <<task, s>> \in UnderWay => s \in victims[task]

Base == TypeOK /\ SlotAccounting /\ CallsInv

LEMMA BaseInit == Init => Base
<1> SUFFICES ASSUME Init PROVE Base
    OBVIOUS
<1>1. TypeOK
    BY LimitsAssumption DEF Init, ScopeInit, TypeOK, Partition
<1>2. SlotHolders = {}
    BY DEF Init, SlotHolders
<1>3. Cardinality(SlotHolders) = 0
    BY <1>2, FS_EmptySet
<1>4. CallsInv
    BY DEF Init, CallsInv, UnderWay
<1> QED
    BY <1>1, <1>3, <1>4, LimitsAssumption DEF Init, Base, SlotAccounting, SlotHolders

(* A step of a session other than an unregister touches no unregister, and *)
(* a stopped session takes no such step.                                   *)
LEMMA CallsSession ==
    ASSUME Base, NEW s \in Sessions, SessionStep(s)
    PROVE  CallsInv'
<1>1. /\ UNCHANGED <<emptied, unlisted, victims>>
      /\ \A u \in Sessions : pc[u] = "stopped" => pc'[u] = "stopped"
    BY DEF SessionStep, AuthenticateCarrier, SendChallenge, RefuseChallenge,
        VerifyProof, RejectProof, AcquirePermit, RefusePermit, RecordIdentity,
        Register, StartRunning, RejectStale, Announce, PeerDisconnects,
        CarrierCloses, ScopeFence, StopRunning, ReleasePermit, Goto, purgeVars,
        sessionVars, Base, TypeOK
<1> QED
    BY <1>1 DEF Base, CallsInv, UnderWay

(* Each step of a session keeps the types and the accounting. *)
LEMMA BaseSession ==
    ASSUME Base, NEW s \in Sessions, SessionStep(s)
    PROVE  Base'
<1> SUFFICES TypeOK' /\ SlotAccounting'
    BY CallsSession DEF Base
<1> USE DEF Base
<1>1. CASE AuthenticateCarrier(s)
    BY <1>1, SlotKept DEF AuthenticateCarrier, Goto, TypeOK, scopeVars, leaseVars,
        registryVars, purgeVars
<1>2. CASE SendChallenge(s)
    <2>1. ScopeOf(Tunnel(s)) \in Issuers \cup {NoIssuer}
        BY ScopeOfType, InfoType
    <2>2. freeSlots' \in 0..MaxAttachments /\ SlotAccounting'
        BY <1>2, SlotTaken DEF SendChallenge, Goto
    <2> QED
        BY <1>2, <2>1, <2>2 DEF SendChallenge, Goto, TypeOK, scopeVars, leaseVars,
            registryVars, purgeVars
<1>3. CASE RefuseChallenge(s)
    BY <1>3, SlotKept DEF RefuseChallenge, Goto, TypeOK, scopeVars, leaseVars,
        registryVars, purgeVars
<1>4. CASE VerifyProof(s)
    BY <1>4, SlotKept DEF VerifyProof, Goto, TypeOK, scopeVars, leaseVars,
        registryVars, purgeVars
<1>5. CASE RejectProof(s)
    <2>1. freeSlots' \in 0..MaxAttachments /\ SlotAccounting'
        BY <1>5, SlotReturns DEF RejectProof, Goto
    <2> QED
        BY <1>5, <2>1 DEF RejectProof, Goto, TypeOK, scopeVars, leaseVars,
            registryVars, purgeVars
<1>6. CASE AcquirePermit(s)
    BY <1>6, SlotKept, InfoType DEF AcquirePermit, Goto, TypeOK, scopeVars,
        registryVars, purgeVars
<1>7. CASE RefusePermit(s)
    <2>1. freeSlots' \in 0..MaxAttachments /\ SlotAccounting'
        BY <1>7, SlotReturns DEF RefusePermit, Goto
    <2> QED
        BY <1>7, <2>1 DEF RefusePermit, Goto, TypeOK, scopeVars, leaseVars,
            registryVars, purgeVars
<1>8. CASE RecordIdentity(s)
    BY <1>8, SlotKept, InfoType DEF RecordIdentity, Goto, TypeOK, scopeVars,
        leaseVars, purgeVars
<1>9. CASE Register(s)
    BY <1>9, SlotKept, InfoType DEF Register, Goto, TypeOK, scopeVars, leaseVars,
        registryVars, purgeVars
<1>10. CASE StartRunning(s)
    BY <1>10, SlotKept DEF StartRunning, Goto, TypeOK, scopeVars, leaseVars,
        registryVars, purgeVars
<1>11. CASE RejectStale(s)
    BY <1>11, SlotKept DEF RejectStale, Goto, TypeOK, scopeVars, leaseVars,
        registryVars, purgeVars
<1>12. CASE Announce(s)
    BY <1>12, InfoType DEF Announce, TypeOK, SlotAccounting, sessionVars,
        scopeVars, leaseVars, purgeVars
<1>13. CASE StopRunning(s)
    BY <1>13, SlotKept DEF StopRunning, Goto, TypeOK, scopeVars, leaseVars,
        registryVars, purgeVars
<1>14. CASE ReleasePermit(s)
    <2>1. freeSlots' \in 0..MaxAttachments /\ SlotAccounting'
        BY <1>14, SlotReturns DEF ReleasePermit, Goto
    <2> QED
        BY <1>14, <2>1, InfoType DEF ReleasePermit, Goto, TypeOK, scopeVars,
            registryVars, purgeVars
<1> QED
    BY <1>1, <1>2, <1>3, <1>4, <1>5, <1>6, <1>7, <1>8, <1>9, <1>10, <1>11,
       <1>12, <1>13, <1>14
    DEF SessionStep, PeerDisconnects, CarrierCloses, ScopeFence

(* Pinning the issuers of an accepted candidate keeps the partition type. *)
LEMMA RecordIssuersType ==
    ASSUME TypeOK, NEW candidate \in Partition, RecordIssuers(candidate)
    PROVE  seenIssuers' \in Partition
BY DEF TypeOK, RecordIssuers, Partition

(* So does each step of the tasks that replace Scopes; a purge clones a    *)
(* list only when it has no clone left, so none it is unregistering.       *)
LEMMA BaseScopeTask ==
    ASSUME Base, ScopeTaskStep
    PROVE  Base'
<1> USE DEF Base
<1>1. ASSUME NEW listing \in Listings, StaticReload(listing)
      PROVE  Base'
    BY <1>1, CandidateType, RecordIssuersType DEF StaticReload, ReloadStatic,
        RejectListing, RemovedIds, TypeOK, SlotAccounting, CallsInv, UnderWay,
        sessionVars, scopeVars, leaseVars, registryVars
<1>2. ASSUME NEW listing \in Listings, ManagedSnapshot(listing)
      PROVE  Base'
    BY <1>2, CandidateType, RecordIssuersType DEF ManagedSnapshot,
        ReplaceManagedSnapshot, RejectListing, RemovedIds, TypeOK, SlotAccounting,
        CallsInv, UnderWay, sessionVars, scopeVars, leaseVars, registryVars
<1>3. ASSUME NEW task \in Tasks, NEW t \in Tunnels, SnapshotVictims(task, t)
      PROVE  Base'
    <2>1. TypeOK' /\ SlotAccounting'
        BY <1>3 DEF SnapshotVictims, TypeOK, SlotAccounting, sessionVars, scopeVars,
            leaseVars, registryVars
    <2>2. CallsInv'
        BY <1>3 DEF SnapshotVictims, CallsInv, UnderWay, TypeOK, sessionVars
    <2> QED
        BY <2>1, <2>2
<1> QED
    BY <1>1, <1>2, <1>3 DEF ScopeTaskStep

(* What an unregister leaves alone, and what it may do to the session.     *)
LEMMA UnregisterFrame ==
    ASSUME Base, NEW by \in Callers, NEW s \in Sessions, Unregister(by, s)
    PROVE  /\ UNCHANGED <<scopeVars, captured, freeSlots, leaseVars, doomed>>
           /\ \/ UNCHANGED pc
              \/ pc[s] = "stopped" /\ pc' = [pc EXCEPT ![s] = "leaving"]
<1>1. DropEntry("self", s) => pc[s] = "stopped"
    BY DEF DropEntry, Base, CallsInv, UnderWay
<1> QED
    BY <1>1, CallerTypes DEF Unregister, FindNoList, LeaveList, DropList, DropEntry,
        MayUnregister, Return, Goto, sessionVars, purgeVars

LEMMA UnregisterType ==
    ASSUME Base, NEW by \in Callers, NEW s \in Sessions, Unregister(by, s)
    PROVE  TypeOK' /\ SlotAccounting'
<1> USE DEF Base
<1>1. pc' \in [Sessions -> Stages] /\ SlotAccounting'
    <2>1. CASE UNCHANGED pc
        BY <2>1, UnregisterFrame DEF TypeOK, SlotAccounting
    <2>2. CASE pc[s] = "stopped" /\ pc' = [pc EXCEPT ![s] = "leaving"]
        BY <2>2, UnregisterFrame, SlotKept DEF TypeOK
    <2> QED
        BY <2>1, <2>2, UnregisterFrame
<1>2. /\ lists' \subseteq Tunnels /\ listed' \subseteq Sessions
      /\ emptied' \subseteq Calls /\ unlisted' \subseteq Calls
    BY DEF Unregister, FindNoList, LeaveList, DropList, DropEntry, TypeOK, Calls
<1>3. /\ endpoints' \subseteq Replicas
      /\ identity' \in [Replicas -> Peers \cup {NoPeer}]
    BY DEF Unregister, FindNoList, LeaveList, DropList, DropEntry, RemovePeer,
        registryVars, TypeOK
<1>4. closing' \subseteq Sessions /\ victims' \in [Tasks -> SUBSET Sessions]
    BY DEF Unregister, FindNoList, LeaveList, DropList, DropEntry, Return, purgeVars, TypeOK
<1> QED
    BY <1>1, <1>2, <1>3, <1>4, UnregisterFrame DEF TypeOK, scopeVars, leaseVars

(* A call leaves the sections of unregister with what it was called for.   *)
LEMMA CallsUnregister ==
    ASSUME Base, NEW by \in Callers, NEW s \in Sessions, Unregister(by, s)
    PROVE  CallsInv'
<1> USE DEF Base
<1>1. CASE LeaveList(by, s)
    BY <1>1, CallerTypes DEF LeaveList, MayUnregister, CallsInv, UnderWay, sessionVars,
        purgeVars
<1>2. CASE DropList(by, s)
    BY <1>2 DEF DropList, CallsInv, UnderWay, sessionVars, purgeVars
<1>3. ASSUME <<by, s>> \notin UnderWay', UNCHANGED emptied, unlisted' \subseteq unlisted,
             Return(by, s)
      PROVE  CallsInv'
    <2>1. UnderWay' \subseteq UnderWay
        BY <1>3 DEF UnderWay
    <2>2. CASE by = "self" /\ Goto(s, "leaving") /\ UNCHANGED victims
        BY <1>3, <2>1, <2>2 DEF CallsInv, Goto, TypeOK
    <2>3. CASE by \in Tasks /\ victims' = [victims EXCEPT ![by] = @ \ {s}] /\ UNCHANGED pc
        BY <1>3, <2>1, <2>3 DEF CallsInv, TypeOK
    <2> QED
        BY <1>3, <2>2, <2>3 DEF Return, purgeVars, sessionVars
<1>4. CASE FindNoList(by, s)
    BY <1>3, <1>4 DEF FindNoList, MayUnregister, UnderWay
<1>5. CASE DropEntry(by, s)
    BY <1>3, <1>5 DEF DropEntry, CallsInv, UnderWay
<1> QED
    BY <1>1, <1>2, <1>4, <1>5 DEF Unregister

LEMMA BaseNext == Base /\ [Next]_vars => Base'
<1> SUFFICES ASSUME Base, [Next]_vars PROVE Base'
    OBVIOUS
<1>1. ASSUME NEW r \in Replicas, EvictIdle({r})
      PROVE  Base'
    BY <1>1 DEF EvictIdle, Base, TypeOK, SlotAccounting, CallsInv, UnderWay,
        sessionVars, scopeVars, leaseVars, purgeVars
<1>2. CASE UNCHANGED vars
    BY <1>2 DEF vars, Base, TypeOK, SlotAccounting, CallsInv, UnderWay, sessionVars,
        scopeVars, leaseVars, registryVars, purgeVars
<1>3. ASSUME NEW by \in Callers, NEW s \in Sessions, Unregister(by, s)
      PROVE  Base'
    BY <1>3, UnregisterType, CallsUnregister DEF Base
<1> QED
    BY <1>1, <1>2, <1>3, BaseSession, BaseScopeTask DEF Next

(* The Gateway's admission state is well typed in every reachable state,   *)
(* and its global attachment slots are never lost nor returned twice by    *)
(* any exit of run_client_session, whatever the limit and the interleaving.*)
THEOREM SlotsAccounted == Spec => [](TypeOK /\ SlotAccounting)
<1>1. Spec => []Base
    BY BaseInit, BaseNext, PTL DEF Spec
<1> QED
    BY <1>1, PTL DEF Base

-----------------------------------------------------------------------------
(* Scopes.  TrustedIssuer is not inductive: between the capture of a Scope *)
(* and the verification of the proof the Tunnel may be unserved, and then  *)
(* nothing in the partitions relates the captured issuer to the one that   *)
(* comes back.  seenIssuers does: it agrees with whatever a partition      *)
(* holds and with whatever a session captured.                             *)

Pinned ==
    \A t \in Tunnels :
        /\ Holds(staticScopes, t) => staticScopes[t] = seenIssuers[t]
        /\ Holds(managedScopes, t) => managedScopes[t] = seenIssuers[t]

CapturedPinned ==
    \A s \in Sessions :
        /\ captured[s] # NoIssuer => captured[s] = seenIssuers[Tunnel(s)]
        /\ pc[s] \in HoldsPermit \cup {"proved"} => captured[s] = Info[s].issuer

TrustInv == Base /\ SingleSource /\ Pinned /\ CapturedPinned

(* What an accepted listing does to the pinned issuers: none changes, and  *)
(* every Tunnel of the candidate is pinned to the candidate's issuer.      *)
LEMMA AcceptedPins ==
    ASSUME TypeOK, NEW candidate \in Partition,
           NoIssuerReplacement(candidate), RecordIssuers(candidate)
    PROVE  \A t \in Tunnels :
               /\ Holds(seenIssuers, t) => seenIssuers'[t] = seenIssuers[t]
               /\ Holds(candidate, t) => seenIssuers'[t] = candidate[t]
BY DEF TypeOK, Partition, NoIssuerReplacement, RecordIssuers, Holds

LEMMA TrustInit == Init => TrustInv
<1> SUFFICES ASSUME Init PROVE TrustInv
    OBVIOUS
<1> QED
    BY BaseInit DEF Init, ScopeInit, TrustInv, SingleSource, Pinned, CapturedPinned, Holds

(* Sessions do not touch the Scopes; they capture what is served. *)
LEMMA TrustSession ==
    ASSUME TrustInv, NEW s \in Sessions, SessionStep(s)
    PROVE  SingleSource' /\ Pinned' /\ CapturedPinned'
<1> USE DEF TrustInv, Base
<1>1. UNCHANGED scopeVars
    BY DEF SessionStep, AuthenticateCarrier, SendChallenge, RefuseChallenge,
        VerifyProof, RejectProof, AcquirePermit, RefusePermit, RecordIdentity,
        Register, StartRunning, RejectStale, Announce, PeerDisconnects,
        CarrierCloses, ScopeFence, StopRunning, ReleasePermit
<1>2. SingleSource' /\ Pinned'
    BY <1>1 DEF scopeVars, SingleSource, Pinned, Holds
<1>3. CASE SendChallenge(s)
    <2>1. ScopeOf(Tunnel(s)) = seenIssuers[Tunnel(s)]
        BY <1>3, InfoType DEF SendChallenge, Contains, ScopeOf, Pinned, Holds
    <2> QED
        BY <1>1, <1>2, <1>3, <2>1 DEF SendChallenge, Goto, CapturedPinned, TypeOK,
            scopeVars
<1>4. CASE VerifyProof(s)
    BY <1>1, <1>2, <1>4 DEF VerifyProof, Goto, CapturedPinned, TypeOK, scopeVars
<1>5. CASE AcquirePermit(s) \/ RecordIdentity(s) \/ Register(s) \/ StartRunning(s)
           \/ RejectStale(s) \/ Announce(s) \/ StopRunning(s)
    BY <1>1, <1>2, <1>5 DEF AcquirePermit, RecordIdentity, Register, StartRunning,
        RejectStale, Announce, StopRunning, Goto, CapturedPinned,
        TypeOK, scopeVars, sessionVars
<1>6. CASE AuthenticateCarrier(s) \/ RefuseChallenge(s) \/ RejectProof(s)
           \/ RefusePermit(s) \/ ReleasePermit(s)
    BY <1>1, <1>2, <1>6 DEF AuthenticateCarrier, RefuseChallenge, RejectProof,
        RefusePermit, ReleasePermit, Goto, CapturedPinned, TypeOK, scopeVars
<1> QED
    BY <1>3, <1>4, <1>5, <1>6 DEF SessionStep, PeerDisconnects, CarrierCloses, ScopeFence

(* An accepted listing replaces one partition, never into the other. *)
LEMMA TrustScopeTask ==
    ASSUME TrustInv, ScopeTaskStep
    PROVE  SingleSource' /\ Pinned' /\ CapturedPinned'
<1> USE DEF TrustInv, Base
<1>1. ASSUME NEW listing \in Listings, ReloadStatic(listing), UNCHANGED sessionVars
      PROVE  SingleSource' /\ Pinned' /\ CapturedPinned'
    <2> DEFINE c == Candidate(listing)
    <2>1. c \in Partition
        BY CandidateType
    <2>2. /\ NoSourceConflict(c, managedScopes) /\ NoIssuerReplacement(c)
          /\ staticScopes' = c /\ RecordIssuers(c) /\ managedScopes' = managedScopes
        BY <1>1 DEF ReloadStatic, Accepts
    <2> HIDE DEF c
    <2>3. \A t \in Tunnels :
              /\ Holds(seenIssuers, t) => seenIssuers'[t] = seenIssuers[t]
              /\ Holds(c, t) => seenIssuers'[t] = c[t]
        BY <2>1, <2>2, AcceptedPins
    <2>4. SingleSource' /\ Pinned'
        BY <2>1, <2>2, <2>3 DEF SingleSource, Pinned, NoSourceConflict, Holds
    <2>5. CapturedPinned'
        BY <1>1, <2>3, InfoType DEF CapturedPinned, sessionVars, Holds
    <2> QED
        BY <2>4, <2>5
<1>2. ASSUME NEW listing \in Listings, ReplaceManagedSnapshot(listing),
             UNCHANGED sessionVars
      PROVE  SingleSource' /\ Pinned' /\ CapturedPinned'
    <2> DEFINE c == Candidate(listing)
    <2>1. c \in Partition
        BY CandidateType
    <2>2. /\ NoSourceConflict(c, staticScopes) /\ NoIssuerReplacement(c)
          /\ managedScopes' = c /\ RecordIssuers(c) /\ staticScopes' = staticScopes
        BY <1>2 DEF ReplaceManagedSnapshot, Accepts
    <2> HIDE DEF c
    <2>3. \A t \in Tunnels :
              /\ Holds(seenIssuers, t) => seenIssuers'[t] = seenIssuers[t]
              /\ Holds(c, t) => seenIssuers'[t] = c[t]
        BY <2>1, <2>2, AcceptedPins
    <2>4. SingleSource' /\ Pinned'
        BY <2>1, <2>2, <2>3 DEF SingleSource, Pinned, NoSourceConflict, Holds
    <2>5. CapturedPinned'
        BY <1>2, <2>3, InfoType DEF CapturedPinned, sessionVars, Holds
    <2> QED
        BY <2>4, <2>5
<1>3. ASSUME UNCHANGED <<scopeVars, sessionVars>>
      PROVE  SingleSource' /\ Pinned' /\ CapturedPinned'
    BY <1>3 DEF scopeVars, sessionVars, SingleSource, Pinned, CapturedPinned, Holds
<1> QED
    BY <1>1, <1>2, <1>3 DEF ScopeTaskStep, StaticReload, ManagedSnapshot,
        RejectListing, SnapshotVictims

LEMMA TrustNext == TrustInv /\ [Next]_vars => TrustInv'
<1> SUFFICES ASSUME TrustInv, [Next]_vars PROVE TrustInv'
    OBVIOUS
<1>1. Base'
    BY BaseNext DEF TrustInv
<1>2. ASSUME UNCHANGED <<scopeVars, sessionVars>>
      PROVE  SingleSource' /\ Pinned' /\ CapturedPinned'
    BY <1>2 DEF scopeVars, sessionVars, SingleSource, Pinned, CapturedPinned, Holds,
        TrustInv
<1>3. ASSUME NEW r \in Replicas, EvictIdle({r})
      PROVE  UNCHANGED <<scopeVars, sessionVars>>
    BY <1>3 DEF EvictIdle
<1>4. ASSUME NEW by \in Callers, NEW s \in Sessions, Unregister(by, s)
      PROVE  SingleSource' /\ Pinned' /\ CapturedPinned'
    <2>1. UNCHANGED <<scopeVars, captured>>
        BY <1>4, UnregisterFrame DEF TrustInv
    <2>2. SingleSource' /\ Pinned'
        BY <2>1 DEF scopeVars, SingleSource, Pinned, Holds, TrustInv
    <2>3. \A u \in Sessions : pc'[u] \in HoldsPermit \cup {"proved"}
                               => pc[u] \in HoldsPermit \cup {"proved"}
        BY <1>4, UnregisterFrame DEF TrustInv, Base, TypeOK
    <2> QED
        BY <2>1, <2>2, <2>3 DEF scopeVars, CapturedPinned, TrustInv
<1>5. SingleSource' /\ Pinned' /\ CapturedPinned'
    BY <1>2, <1>3, <1>4, TrustSession, TrustScopeTask DEF Next, vars
<1> QED
    BY <1>1, <1>5 DEF TrustInv

(* The pinned issuer ties the captured Scope to the served one. *)
LEMMA TrustFollows == TrustInv => TrustedIssuer
<1> SUFFICES ASSUME TrustInv, NEW s \in Sessions,
                    pc[s] \in HoldsPermit \cup {"proved"}, Contains(Tunnel(s))
             PROVE  Info[s].issuer = ScopeOf(Tunnel(s))
    BY DEF TrustedIssuer
<1>1. captured[s] = Info[s].issuer /\ captured[s] # NoIssuer
    BY InfoType, NoIssuerAssumption DEF TrustInv, CapturedPinned
<1>2. captured[s] = seenIssuers[Tunnel(s)]
    BY <1>1 DEF TrustInv, CapturedPinned
<1>3. ScopeOf(Tunnel(s)) = seenIssuers[Tunnel(s)]
    BY InfoType DEF TrustInv, Contains, ScopeOf, Pinned, Holds
<1> QED
    BY <1>1, <1>2, <1>3

(* A membership verified against a Scope fetched before the await is never *)
(* honoured under another issuer, however often the Tunnel is removed and  *)
(* re-added meanwhile.                                                     *)
THEOREM IssuerTrusted == Spec => []TrustedIssuer
<1>1. Spec => []TrustInv
    BY TrustInit, TrustNext, PTL DEF Spec
<1> QED
    BY <1>1, TrustFollows, PTL

(* No Tunnel is ever served from both partitions at once. *)
THEOREM SourceUnique == Spec => []SingleSource
<1>1. Spec => []TrustInv
    BY TrustInit, TrustNext, PTL DEF Spec
<1> QED
    BY <1>1, PTL DEF TrustInv

-----------------------------------------------------------------------------
(* The race between registration and purge.  A session that passed its     *)
(* registration is in the list a purge will clone, or a purge is           *)
(* unregistering it and will close it, or has.                             *)

RaceInv == Base /\ RegistrationKept /\ RaceWindowClosed

LEMMA RaceInit == Init => RaceInv
BY BaseInit DEF Init, RaceInv, RegistrationKept, RaceWindowClosed

(* Sessions: the list shrinks only by the session that leaves, and a       *)
(* session starts to run only while its Tunnel is served.                  *)
LEMMA RaceSession ==
    ASSUME RaceInv, NEW s \in Sessions, SessionStep(s)
    PROVE  RegistrationKept' /\ RaceWindowClosed'
<1> USE DEF RaceInv, Base
<1>1. UNCHANGED <<scopeVars, purgeVars, emptied, unlisted>>
    BY DEF SessionStep, AuthenticateCarrier, SendChallenge, RefuseChallenge,
        VerifyProof, RejectProof, AcquirePermit, RefusePermit, RecordIdentity,
        Register, StartRunning, RejectStale, Announce, PeerDisconnects,
        CarrierCloses, ScopeFence, StopRunning, ReleasePermit
<1>2. \A t \in Tunnels : Contains(t)' = Contains(t)
    BY <1>1 DEF scopeVars, Contains, ScopeOf, Holds
<1>3. listed \subseteq listed' /\ \A u \in Sessions \ {s} : pc'[u] = pc[u]
    BY DEF SessionStep, AuthenticateCarrier, SendChallenge, RefuseChallenge,
        VerifyProof, RejectProof, AcquirePermit, RefusePermit, RecordIdentity,
        Register, StartRunning, RejectStale, Announce, PeerDisconnects,
        CarrierCloses, ScopeFence, StopRunning, ReleasePermit,
        Goto, sessionVars, TypeOK
<1>4. pc'[s] \in {"registered", "running"} =>
          s \in listed' \/ pc[s] \in {"registered", "running"}
    BY DEF SessionStep, AuthenticateCarrier, SendChallenge, RefuseChallenge,
        VerifyProof, RejectProof, AcquirePermit, RefusePermit, RecordIdentity,
        Register, StartRunning, RejectStale, Announce, PeerDisconnects,
        CarrierCloses, ScopeFence, StopRunning, ReleasePermit,
        Goto, sessionVars, TypeOK
<1>5. pc'[s] = "running" => pc[s] = "running" \/ Contains(Tunnel(s))
    BY DEF SessionStep, AuthenticateCarrier, SendChallenge, RefuseChallenge,
        VerifyProof, RejectProof, AcquirePermit, RefusePermit, RecordIdentity,
        Register, StartRunning, RejectStale, Announce, PeerDisconnects,
        CarrierCloses, ScopeFence, StopRunning, ReleasePermit,
        Goto, sessionVars, TypeOK
<1>6. RegistrationKept'
    BY <1>1, <1>3, <1>4 DEF RegistrationKept, UnderWay, purgeVars
<1>7. RaceWindowClosed'
    BY <1>1, <1>2, <1>3, <1>5, InfoType DEF RaceWindowClosed, purgeVars
<1> QED
    BY <1>6, <1>7

(* Scope tasks: what stops being served is doomed in the same step, and a  *)
(* doomed Tunnel's list is cloned as a whole.                              *)
LEMMA RaceScopeTask ==
    ASSUME RaceInv, ScopeTaskStep
    PROVE  RegistrationKept' /\ RaceWindowClosed'
<1> USE DEF RaceInv, Base
<1>1. ASSUME NEW listing \in Listings, StaticReload(listing)
      PROVE  RegistrationKept' /\ RaceWindowClosed'
    <2>1. RegistrationKept'
        BY <1>1 DEF StaticReload, RegistrationKept, UnderWay, sessionVars
    <2>2. CASE ReloadStatic(listing)
        <3>1. doomed' = [doomed EXCEPT !["static"] =
                            RemovedIds(staticScopes, Candidate(listing))]
            BY <1>1, <2>2 DEF StaticReload, RejectListing, ReloadStatic
        <3>2. \A t \in Tunnels : ~Contains(t)' =>
                  ~Contains(t) \/ t \in doomed'["static"]
            BY <1>1, <2>2, <3>1 DEF StaticReload, ReloadStatic, RemovedIds, Contains,
                ScopeOf, Holds, TypeOK
        <3>3. \A task \in Tasks :
                  doomed[task] \subseteq doomed'[task] /\ victims'[task] = victims[task]
            BY <1>1, <3>1 DEF StaticReload, Idle, TypeOK
        <3>4. "static" \in Tasks /\ UNCHANGED <<pc, closing>>
            BY <1>1 DEF StaticReload, sessionVars
        <3> QED
            BY <2>1, <3>2, <3>3, <3>4, InfoType DEF RaceWindowClosed
    <2>3. CASE RejectListing(listing, managedScopes)
        BY <1>1, <2>1, <2>3 DEF StaticReload, ReloadStatic, RejectListing, scopeVars,
            sessionVars, RaceWindowClosed, Contains, ScopeOf, Holds
    <2> QED
        BY <1>1, <2>2, <2>3 DEF StaticReload
<1>2. ASSUME NEW listing \in Listings, ManagedSnapshot(listing)
      PROVE  RegistrationKept' /\ RaceWindowClosed'
    <2>1. RegistrationKept'
        BY <1>2 DEF ManagedSnapshot, RegistrationKept, UnderWay, sessionVars
    <2>2. CASE ReplaceManagedSnapshot(listing)
        <3>1. doomed' = [doomed EXCEPT !["managed"] =
                            RemovedIds(managedScopes, Candidate(listing))]
            BY <1>2, <2>2 DEF ManagedSnapshot, RejectListing, ReplaceManagedSnapshot
        <3>2. \A t \in Tunnels : ~Contains(t)' =>
                  ~Contains(t) \/ t \in doomed'["managed"]
            BY <1>2, <2>2, <3>1 DEF ManagedSnapshot, ReplaceManagedSnapshot, RemovedIds,
                Contains, ScopeOf, Holds, TypeOK
        <3>3. \A task \in Tasks :
                  doomed[task] \subseteq doomed'[task] /\ victims'[task] = victims[task]
            BY <1>2, <3>1 DEF ManagedSnapshot, Idle, TypeOK
        <3>4. "managed" \in Tasks /\ UNCHANGED <<pc, closing>>
            BY <1>2 DEF ManagedSnapshot, sessionVars
        <3> QED
            BY <2>1, <3>2, <3>3, <3>4, InfoType DEF RaceWindowClosed
    <2>3. CASE RejectListing(listing, staticScopes)
        BY <1>2, <2>1, <2>3 DEF ManagedSnapshot, ReplaceManagedSnapshot, RejectListing,
            scopeVars, sessionVars, RaceWindowClosed, Contains, ScopeOf, Holds
    <2> QED
        BY <1>2, <2>2, <2>3 DEF ManagedSnapshot
<1>3. ASSUME NEW task \in Tasks, NEW t \in Tunnels, SnapshotVictims(task, t)
      PROVE  RegistrationKept' /\ RaceWindowClosed'
    <2>1. \A u \in Tunnels : Contains(u)' = Contains(u)
        BY <1>3 DEF SnapshotVictims, scopeVars, Contains, ScopeOf, Holds
    <2>2. RegistrationKept'
        BY <1>3 DEF SnapshotVictims, RegistrationKept, UnderWay, sessionVars
    <2>3. RaceWindowClosed'
        <3> SUFFICES ASSUME NEW s \in Sessions, pc[s] = "running", ~Contains(Tunnel(s)),
                            s \notin closing
                     PROVE  \E k \in Tasks : s \in victims'[k] \/ Tunnel(s) \in doomed'[k]
            BY <1>3, <2>1, InfoType DEF SnapshotVictims, RaceWindowClosed, sessionVars
        <3>1. PICK k \in Tasks : s \in victims[k] \/ Tunnel(s) \in doomed[k]
            BY DEF RaceWindowClosed
        <3>2. CASE k = task /\ Tunnel(s) = t
            <4>1. CASE s \in listed
                BY <1>3, <3>2, <4>1 DEF SnapshotVictims, TypeOK
            <4>2. CASE s \notin listed
                <5>1. PICK other \in Tasks : <<other, s>> \in UnderWay
                    BY <4>2 DEF RegistrationKept
                <5>2. s \in victims[other]
                    BY <5>1 DEF CallsInv
                <5> QED
                    BY <1>3, <5>2 DEF SnapshotVictims, TypeOK
            <4> QED
                BY <4>1, <4>2
        <3>3. CASE ~(k = task /\ Tunnel(s) = t)
            BY <1>3, <3>1, <3>3 DEF SnapshotVictims, TypeOK
        <3> QED
            BY <3>2, <3>3
    <2> QED
        BY <2>2, <2>3
<1> QED
    BY <1>1, <1>2, <1>3 DEF ScopeTaskStep

(* Unregisters: what leaves the list stopped before, or is a clone that    *)
(* the purge closes when the call returns.                                 *)
LEMMA RaceUnregister ==
    ASSUME RaceInv, NEW by \in Callers, NEW s \in Sessions, Unregister(by, s)
    PROVE  RegistrationKept' /\ RaceWindowClosed'
<1> USE DEF RaceInv, Base
<1>1. \A u \in Sessions : pc'[u] \in {"registered", "running"} => pc'[u] = pc[u]
    BY UnregisterFrame DEF TypeOK
<1>2. \A t \in Tunnels : Contains(t)' = Contains(t)
    BY UnregisterFrame DEF scopeVars, Contains, ScopeOf, Holds
<1>3. ASSUME NEW u \in Sessions, pc[u] \in {"registered", "running"}, u \notin listed'
      PROVE  u \in closing' \/ \E task \in Tasks : <<task, u>> \in UnderWay'
    <2>1. CASE LeaveList(by, s)
        <3>1. u \in listed => u = s /\ by \in Tasks
            BY <1>3, <2>1 DEF LeaveList, MayUnregister
        <3>2. <<by, s>> \in UnderWay' /\ UnderWay \subseteq UnderWay'
            BY <2>1 DEF LeaveList, UnderWay
        <3> QED
            BY <1>3, <2>1, <3>1, <3>2 DEF LeaveList, purgeVars, RegistrationKept
    <2>2. CASE DropList(by, s)
        <3>1. UnderWay' = UnderWay
            BY <2>2 DEF DropList, UnderWay
        <3> QED
            BY <1>3, <2>2, <3>1 DEF DropList, purgeVars, RegistrationKept
    <2>3. CASE FindNoList(by, s)
        BY <1>3, <2>3 DEF FindNoList, Return, purgeVars, RegistrationKept, UnderWay
    <2>4. CASE DropEntry(by, s)
        <3>1. \A task \in Tasks : <<task, u>> \in UnderWay =>
                  <<task, u>> \in UnderWay' \/ (u = s /\ by = task)
            BY <2>4 DEF DropEntry, UnderWay
        <3>2. closing \subseteq closing' /\ (by \in Tasks => s \in closing')
            BY <2>4, CallerTypes DEF DropEntry, Return, purgeVars
        <3> QED
            BY <1>3, <2>4, <3>1, <3>2 DEF DropEntry, RegistrationKept
    <2> QED
        BY <2>1, <2>2, <2>3, <2>4 DEF Unregister
<1>4. RegistrationKept'
    BY <1>1, <1>3 DEF RegistrationKept
<1>5. /\ closing \subseteq closing'
      /\ \A task \in Tasks, u \in Sessions :
             u \in victims[task] => u \in victims'[task] \/ u \in closing'
    BY DEF Unregister, FindNoList, LeaveList, DropList, DropEntry, Return, purgeVars, TypeOK
<1>6. RaceWindowClosed'
    BY <1>1, <1>2, <1>5, UnregisterFrame, InfoType DEF RaceWindowClosed
<1> QED
    BY <1>4, <1>6

LEMMA RaceNext == RaceInv /\ [Next]_vars => RaceInv'
<1> SUFFICES ASSUME RaceInv, [Next]_vars PROVE RaceInv'
    OBVIOUS
<1>1. Base'
    BY BaseNext DEF RaceInv
<1>2. ASSUME UNCHANGED <<scopeVars, sessionVars, clientVars, purgeVars>>
      PROVE  RegistrationKept' /\ RaceWindowClosed'
    BY <1>2 DEF RaceInv, RegistrationKept, RaceWindowClosed, scopeVars, sessionVars,
        purgeVars, UnderWay, Contains, ScopeOf, Holds
<1>3. ASSUME NEW r \in Replicas, EvictIdle({r})
      PROVE  UNCHANGED <<scopeVars, sessionVars, clientVars, purgeVars>>
    BY <1>3 DEF EvictIdle
<1>4. RegistrationKept' /\ RaceWindowClosed'
    BY <1>2, <1>3, RaceSession, RaceScopeTask, RaceUnregister DEF Next, vars
<1> QED
    BY <1>1, <1>4 DEF RaceInv

(* The synchronous check after registration suffices: with the fence left  *)
(* out of account, no session of a removed Tunnel runs on undiscovered.    *)
THEOREM RegistrationRaceClosed == Spec => []RaceWindowClosed
<1>1. Spec => []RaceInv
    BY RaceInit, RaceNext, PTL DEF Spec
<1> QED
    BY <1>1, PTL DEF RaceInv

(* No unregister of another session, of the same Tunnel or the same        *)
(* replica, by the session itself or by a purge with an old clone, takes a *)
(* registered session out of the list, although the three sections of      *)
(* unregister interleave with register.                                    *)
THEOREM RegistrationNotClobbered == Spec => []RegistrationKept
<1>1. Spec => []RaceInv
    BY RaceInit, RaceNext, PTL DEF Spec
<1> QED
    BY <1>1, PTL DEF RaceInv

-----------------------------------------------------------------------------
(* Leases.  The lease table is tied to the permits session by session; the *)
(* bound on the holders follows from the bound on the replica ids because  *)
(* no two holders share one.                                               *)

DistinctReplicas ==
    \A s1, s2 \in Sessions :
        /\ pc[s1] \in HoldsPermit /\ pc[s2] \in HoldsPermit
        /\ Replica(s1) = Replica(s2)
        => s1 = s2

FamilyLeased ==
    \A s \in Sessions : pc[s] \in HoldsPermit => leaseFamily[PeerKey(s)] = Family(s)

LeaseBounded ==
    \A k \in PeerKeys :
        /\ IsFiniteSet(leaseReplicas[k])
        /\ Cardinality(Holders(k)) <= Cardinality(leaseReplicas[k])
        /\ Cardinality(leaseReplicas[k]) <= MaxReplicasPerPeer

LeaseInv == Base /\ LeaseIntegrity /\ DistinctReplicas /\ FamilyLeased /\ LeaseBounded

LEMMA HoldersFinite ==
    ASSUME NEW k \in PeerKeys
    PROVE  IsFiniteSet(Holders(k)) /\ Cardinality(Holders(k)) \in Nat
<1>1. Holders(k) \subseteq Sessions
    BY DEF Holders
<1> QED
    BY <1>1, LimitsAssumption, FS_Subset, FS_CardinalityType

LEMMA LeaseInit == Init => LeaseInv
<1> SUFFICES ASSUME Init PROVE LeaseInv
    OBVIOUS
<1>1. \A k \in PeerKeys : Holders(k) = {}
    BY DEF Init, Holders
<1>2. LeaseIntegrity /\ DistinctReplicas /\ FamilyLeased
    BY <1>1 DEF Init, LeaseIntegrity, DistinctReplicas, FamilyLeased
<1>3. LeaseBounded
    BY <1>1, FS_EmptySet, LimitsAssumption DEF Init, LeaseBounded
<1> QED
    BY <1>2, <1>3, BaseInit DEF LeaseInv

(* A step that leaves the lease table and everybody's permit as they are. *)
LEMMA LeaseKept ==
    ASSUME LeaseInv, UNCHANGED leaseVars,
           \A s \in Sessions : pc'[s] \in HoldsPermit <=> pc[s] \in HoldsPermit
    PROVE  LeaseIntegrity' /\ DistinctReplicas' /\ FamilyLeased' /\ LeaseBounded'
<1>1. \A k \in PeerKeys : Holders(k)' = Holders(k)
    BY DEF Holders
<1> QED
    BY <1>1 DEF LeaseInv, leaseVars, LeaseIntegrity, DistinctReplicas, FamilyLeased,
        LeaseBounded

(* A new permit adds its session and its replica id, both new. *)
LEMMA LeaseAcquired ==
    ASSUME LeaseInv, NEW s \in Sessions, AcquirePermit(s)
    PROVE  LeaseIntegrity' /\ DistinctReplicas' /\ FamilyLeased' /\ LeaseBounded'
<1> DEFINE key == PeerKey(s)
<1> USE DEF LeaseInv, Base
<1>1. key \in PeerKeys /\ Family(s) \in Families
    BY InfoType
<1>2. /\ leaseReplicas' = [leaseReplicas EXCEPT ![key] = @ \cup {Replica(s)}]
      /\ leaseFamily' = [leaseFamily EXCEPT ![key] = Family(s)]
      /\ pc' = [pc EXCEPT ![s] = "permitted"] /\ pc[s] = "proved"
      /\ leaseFamily[key] \in {NoFamily, Family(s)}
      /\ Replica(s) \notin leaseReplicas[key]
      /\ Cardinality(leaseReplicas[key]) < MaxReplicasPerPeer
    BY DEF AcquirePermit, MayAttach, Goto
<1>3. Holders(key)' = Holders(key) \cup {s} /\ s \notin Holders(key)
    BY <1>2 DEF Holders, TypeOK
<1>4. \A k \in PeerKeys \ {key} : Holders(k)' = Holders(k)
    BY <1>2 DEF Holders, TypeOK
<1>5. LeaseIntegrity'
    <2>1. /\ leaseReplicas'[key] = {Replica(u) : u \in Holders(key)'}
          /\ leaseFamily'[key] # NoFamily /\ Holders(key)' # {}
        BY <1>1, <1>2, <1>3, MarkersAssumption DEF LeaseIntegrity, TypeOK
    <2>2. \A k \in PeerKeys \ {key} :
              leaseReplicas'[k] = leaseReplicas[k] /\ leaseFamily'[k] = leaseFamily[k]
        BY <1>2 DEF TypeOK
    <2> QED
        BY <1>4, <2>1, <2>2 DEF LeaseIntegrity
<1>6. \A u \in Sessions : pc[u] \in HoldsPermit => Replica(u) # Replica(s)
    <2> SUFFICES ASSUME NEW u \in Sessions, pc[u] \in HoldsPermit,
                        Replica(u) = Replica(s)
                 PROVE  FALSE
        OBVIOUS
    <2>1. PeerKey(u) = key
        BY ReplicaAssumption
    <2>2. u \in Holders(key)
        BY <2>1 DEF Holders
    <2>3. Replica(u) \in leaseReplicas[key]
        BY <1>1, <2>2 DEF LeaseIntegrity
    <2> QED
        BY <1>2, <2>3
<1>7. DistinctReplicas'
    BY <1>2, <1>6 DEF DistinctReplicas, TypeOK
<1>8. FamilyLeased'
    <2>1. \A u \in Sessions : pc[u] \in HoldsPermit /\ PeerKey(u) = key
              => Family(u) = Family(s)
        BY <1>1, <1>2, InfoType, MarkersAssumption DEF FamilyLeased
    <2> QED
        BY <1>1, <1>2, <2>1, InfoType DEF FamilyLeased, TypeOK
<1>9. LeaseBounded'
    <2>1. /\ IsFiniteSet(leaseReplicas'[key])
          /\ Cardinality(leaseReplicas'[key]) = Cardinality(leaseReplicas[key]) + 1
          /\ Cardinality(leaseReplicas[key]) \in Nat
        BY <1>1, <1>2, FS_AddElement, FS_CardinalityType DEF LeaseBounded, TypeOK
    <2>2. Cardinality(Holders(key)') = Cardinality(Holders(key)) + 1
        BY <1>1, <1>3, HoldersFinite, FS_AddElement
    <2>3. /\ Cardinality(Holders(key)') <= Cardinality(leaseReplicas'[key])
          /\ Cardinality(leaseReplicas'[key]) <= MaxReplicasPerPeer
        BY <1>1, <1>2, <2>1, <2>2, HoldersFinite, LimitsAssumption DEF LeaseBounded
    <2>4. \A k \in PeerKeys \ {key} : leaseReplicas'[k] = leaseReplicas[k]
        BY <1>2 DEF TypeOK
    <2> QED
        BY <1>4, <2>1, <2>3, <2>4 DEF LeaseBounded
<1> QED
    BY <1>5, <1>7, <1>8, <1>9

(* A released permit takes exactly its session and its replica id away. *)
LEMMA LeaseReleased ==
    ASSUME LeaseInv, NEW s \in Sessions, ReleasePermit(s)
    PROVE  LeaseIntegrity' /\ DistinctReplicas' /\ FamilyLeased' /\ LeaseBounded'
<1> DEFINE key == PeerKey(s)
           rest == leaseReplicas[key] \ {Replica(s)}
<1> USE DEF LeaseInv, Base
<1>1. key \in PeerKeys
    BY InfoType
<1>2. /\ leaseReplicas' = [leaseReplicas EXCEPT ![key] = rest]
      /\ leaseFamily' = [leaseFamily EXCEPT ![key] = IF rest = {} THEN NoFamily ELSE @]
      /\ pc' = [pc EXCEPT ![s] = "closed"] /\ pc[s] = "leaving"
    BY DEF ReleasePermit, Goto
<1>3. Holders(key)' = Holders(key) \ {s} /\ s \in Holders(key)
    BY <1>2 DEF Holders, TypeOK
<1>4. \A k \in PeerKeys \ {key} : Holders(k)' = Holders(k)
    BY <1>2 DEF Holders, TypeOK
<1>5. \A u \in Holders(key) \ {s} : Replica(u) # Replica(s)
    BY <1>3 DEF Holders, DistinctReplicas
<1>6. rest = {Replica(u) : u \in Holders(key)'}
    BY <1>1, <1>3, <1>5 DEF LeaseIntegrity
<1>7. LeaseIntegrity'
    <2>1. leaseReplicas'[key] = rest
        BY <1>1, <1>2 DEF TypeOK
    <2>2. leaseFamily'[key] = NoFamily <=> rest = {}
        BY <1>1, <1>2, <1>3 DEF LeaseIntegrity, TypeOK
    <2>3. rest = {} <=> Holders(key)' = {}
        BY <1>6
    <2>4. \A k \in PeerKeys \ {key} :
              leaseReplicas'[k] = leaseReplicas[k] /\ leaseFamily'[k] = leaseFamily[k]
        BY <1>2 DEF TypeOK
    <2> QED
        BY <1>4, <1>6, <2>1, <2>2, <2>3, <2>4 DEF LeaseIntegrity
<1>8. DistinctReplicas'
    BY <1>2 DEF DistinctReplicas, TypeOK
<1>9. FamilyLeased'
    <2> SUFFICES ASSUME NEW u \in Sessions, pc'[u] \in HoldsPermit
                 PROVE  leaseFamily'[PeerKey(u)] = Family(u)
        BY DEF FamilyLeased
    <2>1. u # s /\ pc[u] \in HoldsPermit
        BY <1>2 DEF TypeOK
    <2>2. leaseFamily[PeerKey(u)] = Family(u)
        BY <2>1 DEF FamilyLeased
    <2>3. CASE PeerKey(u) = key
        <3>1. u \in Holders(key)'
            BY <1>3, <2>1, <2>3 DEF Holders
        <3>2. rest # {}
            BY <1>6, <3>1
        <3> QED
            BY <1>1, <1>2, <2>2, <2>3, <3>2 DEF TypeOK
    <2>4. CASE PeerKey(u) # key
        BY <1>2, <2>2, <2>4, InfoType DEF TypeOK
    <2> QED
        BY <2>3, <2>4
<1>10. LeaseBounded'
    <2>1. Replica(s) \in leaseReplicas[key]
        BY <1>1, <1>3 DEF LeaseIntegrity
    <2>2. leaseReplicas'[key] = rest
        BY <1>1, <1>2 DEF TypeOK
    <2>3. /\ IsFiniteSet(rest) /\ Cardinality(rest) = Cardinality(leaseReplicas[key]) - 1
          /\ Cardinality(leaseReplicas[key]) \in Nat
        BY <1>1, <2>1, FS_RemoveElement, FS_CardinalityType DEF LeaseBounded
    <2>4. Cardinality(Holders(key)') = Cardinality(Holders(key)) - 1
        BY <1>1, <1>3, HoldersFinite, FS_RemoveElement
    <2>5. Cardinality(Holders(key)') <= Cardinality(rest)
          /\ Cardinality(rest) <= MaxReplicasPerPeer
        BY <1>1, <2>3, <2>4, HoldersFinite, LimitsAssumption DEF LeaseBounded
    <2>6. \A k \in PeerKeys \ {key} : leaseReplicas'[k] = leaseReplicas[k]
        BY <1>2 DEF TypeOK
    <2>7. /\ IsFiniteSet(leaseReplicas'[key])
          /\ Cardinality(Holders(key)') <= Cardinality(leaseReplicas'[key])
          /\ Cardinality(leaseReplicas'[key]) <= MaxReplicasPerPeer
        BY <2>2, <2>3, <2>5
    <2> HIDE DEF key, rest
    <2> QED
        BY <1>4, <2>6, <2>7 DEF LeaseBounded
<1> QED
    BY <1>7, <1>8, <1>9, <1>10

LEMMA LeaseNext == LeaseInv /\ [Next]_vars => LeaseInv'
<1> SUFFICES ASSUME LeaseInv, [Next]_vars PROVE LeaseInv'
    OBVIOUS
<1>1. Base'
    BY BaseNext DEF LeaseInv
<1>2. ASSUME NEW s \in Sessions, SessionStep(s), ~AcquirePermit(s), ~ReleasePermit(s)
      PROVE  /\ UNCHANGED leaseVars
             /\ \A u \in Sessions : pc'[u] \in HoldsPermit <=> pc[u] \in HoldsPermit
    BY <1>2 DEF SessionStep, AuthenticateCarrier, SendChallenge, RefuseChallenge,
        VerifyProof, RejectProof, RefusePermit, RecordIdentity, Register,
        StartRunning, RejectStale, Announce, PeerDisconnects, CarrierCloses,
        ScopeFence, StopRunning, Goto, sessionVars, LeaseInv, Base, TypeOK
<1>3. ASSUME ScopeTaskStep \/ (\E r \in Replicas : EvictIdle({r})) \/ UNCHANGED vars
      PROVE  UNCHANGED leaseVars /\ UNCHANGED pc
    BY <1>3 DEF ScopeTaskStep, StaticReload, ManagedSnapshot, SnapshotVictims,
        EvictIdle, vars, sessionVars
<1>4. ASSUME NEW by \in Callers, NEW s \in Sessions, Unregister(by, s)
      PROVE  /\ UNCHANGED leaseVars
             /\ \A u \in Sessions : pc'[u] \in HoldsPermit <=> pc[u] \in HoldsPermit
    BY <1>4, UnregisterFrame DEF LeaseInv, Base, TypeOK
<1>5. LeaseIntegrity' /\ DistinctReplicas' /\ FamilyLeased' /\ LeaseBounded'
    BY <1>2, <1>3, <1>4, LeaseKept, LeaseAcquired, LeaseReleased DEF Next
<1> QED
    BY <1>1, <1>5 DEF LeaseInv

LEMMA LeaseFollows == LeaseInv => OneFamilyPerPeer
<1> SUFFICES ASSUME LeaseInv, NEW k \in PeerKeys
             PROVE  /\ \A s1, s2 \in Holders(k) :
                          /\ Family(s1) = Family(s2)
                          /\ Replica(s1) = Replica(s2) => s1 = s2
                    /\ Cardinality(Holders(k)) <= MaxReplicasPerPeer
    BY DEF OneFamilyPerPeer
<1>1. \A s1, s2 \in Holders(k) : Family(s1) = Family(s2)
    BY DEF LeaseInv, FamilyLeased, Holders
<1>2. \A s1, s2 \in Holders(k) : Replica(s1) = Replica(s2) => s1 = s2
    BY DEF LeaseInv, DistinctReplicas, Holders
<1>3. Cardinality(Holders(k)) <= MaxReplicasPerPeer
    BY HoldersFinite, FS_CardinalityType, LimitsAssumption DEF LeaseInv, LeaseBounded
<1> QED
    BY <1>1, <1>2, <1>3

(* One runtime family per stable Peer, no replica twice, never more than   *)
(* the configured number, and a lease table that is exactly what the live  *)
(* permits add up to.                                                      *)
THEOREM FamilyExclusive == Spec => [](OneFamilyPerPeer /\ LeaseIntegrity)
<1>1. Spec => []LeaseInv
    BY LeaseInit, LeaseNext, PTL DEF Spec
<1>2. LeaseInv => OneFamilyPerPeer /\ LeaseIntegrity
    BY LeaseFollows DEF LeaseInv
<1> QED
    BY <1>1, <1>2, PTL

-----------------------------------------------------------------------------
(* Registry identities. *)

OrphanInv == Base /\ NoOrphanIdentity

\* What makes an attachment the owner of its replica's identity.
Owner(s) ==
    \/ pc[s] = "recorded" \/ s \in listed
    \/ \E by \in Callers : <<by, s>> \in UnderWay

(* An unregister takes the session out of the list and stays under way     *)
(* until it comes to the registry entry.                                   *)
LEMMA OrphanUnregister ==
    ASSUME OrphanInv, NEW by \in Callers, NEW s \in Sessions, Unregister(by, s)
    PROVE  NoOrphanIdentity'
<1> USE DEF OrphanInv, Base
<1>1. \A u \in Sessions : pc[u] = "recorded" => pc'[u] = "recorded"
    BY UnregisterFrame DEF TypeOK
<1>2. CASE FindNoList(by, s)
    BY <1>1, <1>2 DEF FindNoList, registryVars, NoOrphanIdentity, UnderWay
<1>3. CASE LeaveList(by, s)
    <2>1. UnderWay \subseteq UnderWay' /\ <<by, s>> \in UnderWay'
        BY <1>3 DEF LeaveList, UnderWay
    <2>2. \A u \in Sessions : Owner(u) => Owner(u)'
        BY <1>1, <1>3, <2>1 DEF LeaveList, Owner
    <2> QED
        BY <1>3, <2>2 DEF LeaveList, registryVars, NoOrphanIdentity, Owner
<1>4. CASE DropList(by, s)
    <2>1. UnderWay' = UnderWay
        BY <1>4 DEF DropList, UnderWay
    <2> QED
        BY <1>1, <1>4, <2>1 DEF DropList, registryVars, NoOrphanIdentity
<1>5. CASE DropEntry(by, s)
    <2>1. \A u \in Sessions \ {s} : Owner(u) => Owner(u)'
        BY <1>1, <1>5 DEF DropEntry, Owner, UnderWay
    <2>2. /\ identity'[Replica(s)] = NoPeer
          /\ \A r \in Replicas \ {Replica(s)} : identity'[r] = identity[r]
        BY <1>5, InfoType DEF DropEntry, RemovePeer, TypeOK
    <2> QED
        BY <2>1, <2>2 DEF NoOrphanIdentity, Owner
<1> QED
    BY <1>2, <1>3, <1>4, <1>5 DEF Unregister

LEMMA OrphanNext == OrphanInv /\ [Next]_vars => OrphanInv'
<1> SUFFICES ASSUME OrphanInv, [Next]_vars PROVE OrphanInv'
    OBVIOUS
<1> USE DEF OrphanInv, Base
<1>1. Base'
    BY BaseNext
<1>2. ASSUME NEW s \in Sessions, RecordIdentity(s)
      PROVE  NoOrphanIdentity'
    BY <1>2, InfoType DEF RecordIdentity, Goto, NoOrphanIdentity, UnderWay, TypeOK
<1>3. ASSUME NEW s \in Sessions, Register(s)
      PROVE  NoOrphanIdentity'
    BY <1>3 DEF Register, Goto, registryVars, NoOrphanIdentity, UnderWay, TypeOK
<1>4. ASSUME NEW s \in Sessions, SessionStep(s), ~RecordIdentity(s), ~Register(s)
      PROVE  NoOrphanIdentity'
    <2>1. /\ UNCHANGED <<listed, emptied, unlisted, identity>>
          /\ \A u \in Sessions : pc[u] = "recorded" => pc'[u] = "recorded"
        BY <1>4 DEF SessionStep, AuthenticateCarrier, SendChallenge, RefuseChallenge,
            VerifyProof, RejectProof, AcquirePermit, RefusePermit, StartRunning,
            RejectStale, Announce, PeerDisconnects, CarrierCloses, ScopeFence,
            StopRunning, ReleasePermit, Goto, sessionVars, registryVars, TypeOK
    <2> QED
        BY <2>1 DEF NoOrphanIdentity, UnderWay
<1>5. ASSUME NEW r \in Replicas, EvictIdle({r})
      PROVE  NoOrphanIdentity'
    BY <1>5 DEF EvictIdle, sessionVars, NoOrphanIdentity, UnderWay, TypeOK
<1>6. ASSUME UNCHANGED <<clientVars, identity, pc>>
      PROVE  NoOrphanIdentity'
    BY <1>6 DEF NoOrphanIdentity, UnderWay
<1>7. NoOrphanIdentity'
    BY <1>2, <1>3, <1>4, <1>5, <1>6, OrphanUnregister DEF Next, ScopeTaskStep,
        StaticReload, ManagedSnapshot, SnapshotVictims, registryVars, sessionVars, vars
<1> QED
    BY <1>1, <1>7

(* No stable identity outlives its attachment in the peer registry: while  *)
(* it is bound, its attachment is about to register, registered, or on its *)
(* way through unregister to the step that removes it.                     *)
THEOREM IdentityNotOrphaned == Spec => []NoOrphanIdentity
<1>1. Init => OrphanInv
    BY BaseInit DEF Init, OrphanInv, NoOrphanIdentity
<1>2. Spec => []OrphanInv
    BY <1>1, OrphanNext, PTL DEF Spec
<1> QED
    BY <1>2, PTL DEF OrphanInv

=============================================================================
