CONSTANTS
    Email = {e1, e2}
    Username = {n1}
    Request = {r1, r2}
    Threshold = 2
    MaxFaults = 1
    None = None
    Budget = 1
    MaxCalls = 2
SPECIFICATION HttpSpec
CHECK_DEADLOCK FALSE
CONSTRAINT Apart
INVARIANTS AnsweredAsDocumented OwnBudget AccountsWhole GuessesBounded
PROPERTIES LockEnds
