SPECIFICATION Spec
CONSTANTS
    Starters = {"t1", "t2"}
    Stoppers = {"p1", "p2"}
    Sessions = {"s1", "s2"}
    Ring = 1
    MaxRuns = 2
    MaxStops = 2
    Setups <- AllSetups
INVARIANTS
    EndedByStop
    NoAbort
    TimerServes
    NothingLeftOpen
PROPERTIES
    StopHeard
CHECK_DEADLOCK FALSE
