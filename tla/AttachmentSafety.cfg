SPECIFICATION FairSpec
CONSTANTS
    Tunnels = {"t"}
    Issuers = {"k1", "k2"}
    NoIssuer = "none"
    Listings <- MCListings
    Sessions = {"s1", "s2"}
    Peers = {"p"}
    Families = {"f1"}
    Replicas = {"f1-0"}
    Info <- MCReconnect
    MaxAttachments = 2
    MaxReplicasPerPeer = 2
    IdleEviction = TRUE
    Tasks = {"static", "managed"}
    NoPeer = "nopeer"
    NoFamily = "nofamily"
CHECK_DEADLOCK FALSE
INVARIANTS
    SingleSource
    TrustedIssuer
    RaceWindowClosed
    NoOrphanIdentity
PROPERTIES
    RemovedScopeDrains
    AdmissionDecides
