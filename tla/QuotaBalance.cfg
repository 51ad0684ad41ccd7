SPECIFICATION Spec
CONSTANTS
    LastPeriod = 2
    Allowances = {0, 2, 3}
    MaxItems = 2
    MaxSpent = 4
    MaxInFlight = 2
    MaxChanges = 2
    Changes = {"grow", "unlimit", "month", "link", "ack", "restart"}
INVARIANTS
    Balanced
    OverrunBounded
CHECK_DEADLOCK FALSE
