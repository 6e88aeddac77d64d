------------------------------- MODULE Release -------------------------------
\* A release: CI migrates the database, and only where that succeeded asks for the deploy
\* (.github/workflows/backend-ci.yml), which starts a process of the new code. The
\* processes take no part in migrating; once one has started, the schema stays.
EXTENDS Migrations

CONSTANTS Queue, MaxWork, MaxLosses

VARIABLES kind, boot, code, first, todo, since, clock, exited, requests, tasks, loose,
          sub, stage, inFlight, open, losses, past

Process == INSTANCE Lifecycle
process == <<kind, boot, code, first, todo, since, clock, exited, requests, tasks, loose,
             sub, stage, inFlight, open, losses, past>>

ReleaseInit == Init /\ Process!Init

Migrate == kind = "none" /\ Next /\ UNCHANGED process

\* Mutant: deployed whatever the migrate step said.
MigratedOrNot == job = Idle

\* The migrate step has ended, and well: nothing is left to run. It compares no schema.
Migrated == job = Idle /\ recorded = All

Serve == (kind # "none" \/ Migrated) /\ Process!Next /\ UNCHANGED vars

ReleaseSpec ==
    /\ ReleaseInit
    /\ [][Migrate \/ Serve]_<<vars, process>>
    /\ WF_process(Process!Timers /\ UNCHANGED vars)

-----------------------------------------------------------------------------
\* The unique indexes built CONCURRENTLY, which a failed build leaves INVALID.
BuiltOnline == {UniqueName[p] : p \in {"dupCategory", "dupMetric", "dupSettings"}}

\* A process that runs finds every column and every working constraint its models name,
\* with two exceptions the deploy does not look for (backend-ci.yml runs db:migrate and
\* deploys where it succeeds): a unique index that a failed concurrent build left INVALID,
\* and what an undo took that was cut off before its record was removed.
ServesWhatFits ==
    kind # "none" =>
        \A o \in Models : \/ Works(o)
                          \/ o \in BuiltOnline \cap invalid
                          \/ \E k \in Doubtful : o \in TakenBy(k)

StopEnds == Process!StopEnds
ZeroMeansClean == Process!ZeroMeansClean
WaitsFit == Process!WaitsFit
NothingCut == Process!NothingCut
=============================================================================
