SPECIFICATION Spec
CONSTANTS
    Accounts = {1, 2}
    MaxItems = 1
    MaxRelayed <- MCMaxRelayed
    MaxInFlight = 1
    MaxFaults = 4
    Faults = {"stop", "kill", "append", "torn", "compact", "orphan", "link"}
INVARIANTS
    NeverOverbilled
CHECK_DEADLOCK FALSE
