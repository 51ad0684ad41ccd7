SPECIFICATION Spec
CONSTANTS
    Sessions = {"a", "b1", "b2"}
    Peers = {"A", "B"}
    PeerOf <- OneAndTwo
    ConnIds = {"c"}
    MaxRoutes = 2
    Loads <- AllLoads
INVARIANTS
    ExactRoute
    ExclusiveOpener
    OpenRouteEnds
PROPERTIES
    OpenRouteKept
    FreshBindSurvives
CHECK_DEADLOCK FALSE
