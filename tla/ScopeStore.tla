------------------------------ MODULE ScopeStore ------------------------------
(***************************************************************************)
(* The Gateway's admission table (crates/tp-gateway/src/scope.rs): which   *)
(* Tunnels this Gateway serves and which key issues their memberships.     *)
(* Two partitions feed one lookup: the static directory (scopes.d, re-read *)
(* on SIGHUP) and the Platform-managed snapshot (replaced by the control   *)
(* session).  seenIssuers pins, for the life of the process, the first     *)
(* issuer under which a Tunnel was admitted.                               *)
(*                                                                         *)
(* A Scope file is abstracted to its Tunnel, its issuer key and whether    *)
(* parsing and signature verification accept it.                           *)
(***************************************************************************)
EXTENDS Naturals, Sequences

CONSTANTS
    Tunnels,    \* Tunnel ids
    Issuers,    \* Tunnel signing public keys
    NoIssuer,   \* marks a Tunnel that a partition does not hold
    Listings    \* the complete Scope lists an operator or the Platform may present

VARIABLES
    staticScopes,   \* ScopePartitions.static_scopes
    managedScopes,  \* ScopePartitions.managed_scopes
    seenIssuers     \* ScopePartitions.seen_issuers

scopeVars == <<staticScopes, managedScopes, seenIssuers>>

ScopeFile == [tunnel : Tunnels, issuer : Issuers, valid : BOOLEAN]
Partition == [Tunnels -> Issuers \cup {NoIssuer}]

ASSUME NoIssuerAssumption == NoIssuer \notin Issuers
ASSUME ListingsAssumption == Listings \subseteq Seq(ScopeFile)

-----------------------------------------------------------------------------

Holds(partition, t) == partition[t] # NoIssuer

(* Mutant of ScopeOf: the lookup falls back to the pinned issuer. *)
ScopeOfPinned(t) == seenIssuers[t]

(* ScopeStore::get: the static entry, or else the managed one. *)
ScopeOf(t) ==
    IF Holds(staticScopes, t) THEN staticScopes[t] ELSE managedScopes[t]

Contains(t) == ScopeOf(t) # NoIssuer

(* A list is rejected as a whole when a file does not verify or when two   *)
(* files name the same Tunnel.                                             *)
WellFormed(listing) ==
    /\ \A i \in 1..Len(listing) : listing[i].valid
    /\ \A i, j \in 1..Len(listing) :
          listing[i].tunnel = listing[j].tunnel => i = j

(* The partition a well-formed list describes. *)
Candidate(listing) ==
    [t \in Tunnels |->
        IF \E i \in 1..Len(listing) : listing[i].tunnel = t
        THEN listing[CHOOSE i \in 1..Len(listing) : listing[i].tunnel = t].issuer
        ELSE NoIssuer]

(* Mutant of NoSourceConflict: the collision check is missing. *)
NoSourceConflictUnchecked(candidate, other) == TRUE

(* The other partition must not hold any Tunnel of the candidate. *)
NoSourceConflict(candidate, other) ==
    \A t \in Tunnels : Holds(candidate, t) => ~Holds(other, t)

(* Mutant of NoIssuerReplacement: only what is served now is compared. *)
NoIssuerReplacementNow(candidate) ==
    \A t \in Tunnels :
        Holds(candidate, t) => ScopeOf(t) \in {NoIssuer, candidate[t]}

(* A Tunnel seen before must come back under the same issuer. *)
NoIssuerReplacement(candidate) ==
    \A t \in Tunnels :
        Holds(candidate, t) => seenIssuers[t] \in {NoIssuer, candidate[t]}

Accepts(listing, other) ==
    /\ WellFormed(listing)
    /\ NoSourceConflict(Candidate(listing), other)
    /\ NoIssuerReplacement(Candidate(listing))

RecordIssuers(candidate) ==
    seenIssuers' = [t \in Tunnels |->
        IF Holds(candidate, t) /\ ~Holds(seenIssuers, t)
        THEN candidate[t] ELSE seenIssuers[t]]

(* removed_ids: held before, absent from the accepted candidate. *)
RemovedIds(current, candidate) ==
    {t \in Tunnels : Holds(current, t) /\ ~Holds(candidate, t)}

-----------------------------------------------------------------------------

ScopeInit ==
    /\ staticScopes = [t \in Tunnels |-> NoIssuer]
    /\ managedScopes = [t \in Tunnels |-> NoIssuer]
    /\ seenIssuers = [t \in Tunnels |-> NoIssuer]

(* reload_static on an acceptable directory. *)
ReloadStatic(listing) ==
    /\ Accepts(listing, managedScopes)
    /\ staticScopes' = Candidate(listing)
    /\ RecordIssuers(Candidate(listing))
    /\ UNCHANGED managedScopes

(* replace_managed_snapshot on an acceptable snapshot. *)
ReplaceManagedSnapshot(listing) ==
    /\ Accepts(listing, staticScopes)
    /\ managedScopes' = Candidate(listing)
    /\ RecordIssuers(Candidate(listing))
    /\ UNCHANGED staticScopes

(* Any error leaves both partitions and the pinned issuers as they were. *)
RejectListing(listing, other) ==
    /\ ~Accepts(listing, other)
    /\ UNCHANGED scopeVars

=============================================================================
