SPECIFICATION Spec
CONSTANTS
    Tunnels = {"t"}
    Issuers = {"k1", "k2"}
    NoIssuer = "none"
    Listings <- MCListings
    Sessions = {"s1", "s2", "s3", "s4"}
    Peers = {"p"}
    Families = {"f1", "f2"}
    Replicas = {"f1-0", "f1-1", "f1-2", "f2-0"}
    Info <- MCReplicas
    MaxAttachments = 3
    MaxReplicasPerPeer = 2
    IdleEviction = FALSE
    Tasks = {"static"}
    NoPeer = "nopeer"
    NoFamily = "nofamily"
CHECK_DEADLOCK FALSE
INVARIANTS
    SlotAccounting
    OneFamilyPerPeer
    RegistrationKept
