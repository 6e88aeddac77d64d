----------------------------- MODULE MCRelease -----------------------------
EXTENDS Release

\* A foreign key more for each time the NOT NULL is set or lifted: three are enough.
FewKeys == <<"metrics", "fkey4">> \notin schema

\* A process reads nothing of how the schema came about: it is started on the one a new
\* database has.
FromFresh == kind # "none" => schema = Fresh(All) /\ invalid = {} /\ rows = {} /\ faults = 0
                                /\ refused = <<>> /\ gaps = {} /\ torn = "no"

\* Going up over a gap, a migration has its reason to fail already.
OneReason == gaps = {} \/ rows = {}

\* The queues of a worker drain side by side, each with its own timer: one that has a
\* message in work beside one that has none.
AtWork == Cardinality({q \in Queue : inFlight[q] > 0}) <= 1
=============================================================================
