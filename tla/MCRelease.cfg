CONSTANTS
    MaxFaults = 1
    MaxProblems = 1
    Queue = {q1, q2}
    MaxWork = 1
    MaxLosses = 1
SPECIFICATION ReleaseSpec
CHECK_DEADLOCK FALSE
CONSTRAINT FewKeys FromFresh OneReason AtWork
INVARIANTS SchemaAsRecorded DuplicatesHaveAReason FailsForAReason
    ServesWhatFits ZeroMeansClean WaitsFit NothingCut
PROPERTIES StopEnds
