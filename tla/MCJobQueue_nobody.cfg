CONSTANTS
    Verifications = {}
    Resets = {}
    Invites = {i1}
    Dummies = {}
    Strays = {}
    Handler = {h1, h2}
    MaxRetries = 0
    MaxFaults = 0
    NoJob = NoJob
SPECIFICATION Spec
INVARIANTS NobodyReceivedIt
CHECK_DEADLOCK FALSE
