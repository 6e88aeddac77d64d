CONSTANTS
    Zones <- AllZones
    Begin <- FromTheChange
    Requests <- WholeBuckets
    MaxBuckets = 400
    GuardBuckets = 5
    Ages <- AroundTheStart
    Steps = {1800}
    Limit = 129600
    NoLog = NoLog
SPECIFICATION Spec
CHECK_DEADLOCK FALSE
INVARIANTS CoversItsBuckets FallbackShowsItsLog
