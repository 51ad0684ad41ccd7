SPECIFICATION Spec
CONSTANTS
    LanPrefixes = {"lan"}
    Peers <- Star
    Links <- StarLinks
    Publishable <- StarRecords
    Setups <- RouteSetups
INVARIANTS
    RoutesMirrorGossip
    OrderExact
    ReciprocalCloses
PROPERTIES
    FirstSeenOrder
CHECK_DEADLOCK FALSE
