CONSTANTS
    Verifications = {}
    Resets = {}
    Invites = {i1}
    Dummies = {d1}
    Strays = {s1}
    Handler = {h1, h2}
    MaxRetries = 1
    MaxFaults = 1
    NoJob = NoJob
CONSTRAINT Apart FewLinks Asked
SPECIFICATION FairSpec
INVARIANTS TypeOK OneEffect NoJobLost LastLinkWorks StaleCachesHaveAnOwner
PROPERTIES SendsNothingOnceRecorded ImplementsDurableJobs EventuallyAnswered
CHECK_DEADLOCK FALSE
