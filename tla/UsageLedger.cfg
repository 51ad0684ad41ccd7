SPECIFICATION FairSpec
CONSTANTS
    Accounts = {1, 2}
    MaxItems = 2
    MaxRelayed <- MCMaxRelayed
    MaxInFlight = 2
    MaxFaults = 3
    Faults = {"power", "append", "compact", "link"}
INVARIANTS
    ReportIdExact
    RestartSucceeds
PROPERTIES
    UsageIsLedger
    EverythingReported
CHECK_DEADLOCK FALSE
