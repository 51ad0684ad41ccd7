SPECIFICATION Spec
CONSTANTS
    Accounts = {1, 2}
    MaxItems = 1
    MaxRelayed <- MCMaxRelayed
    MaxInFlight = 1
    MaxFaults = 2
    Faults = {"torn", "kill"}
INVARIANTS
    RestartSucceeds
CHECK_DEADLOCK FALSE
