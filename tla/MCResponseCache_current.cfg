CONSTANTS
    Reader = {r1}
    Writer = {w1, w2}
    Page = {"metric", "setting"}
    Op = {"createMetric", "updateMetric", "createLog", "updateSettings", "updateCategory"}
    NoEntry = NoEntry
SPECIFICATION FairSpec
INVARIANTS CurrentUnlessOverlapped
PROPERTIES CurrentAtLast
CHECK_DEADLOCK FALSE
