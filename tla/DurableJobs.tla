---------------------------- MODULE DurableJobs ----------------------------
(***************************************************************************)
(* What the queue promises to the code that publishes a job (ADR-0007,     *)
(* ADR-0064): the work of a job is done at most once, and a job the broker *)
(* took is done or parked in the end.  A job may be done without ever      *)
(* being taken, by the request that failed to publish it, and a late copy  *)
(* of a job may be parked after it was done.                               *)
(***************************************************************************)
EXTENDS Naturals

CONSTANT Job

VARIABLES
    taken,    \* jobs handed over to the queue
    effects,  \* effects[j]: how often the work of j was done
    dead      \* jobs parked for an operator

durable == <<taken, effects, dead>>

Init ==
    /\ taken = {}
    /\ effects = [j \in Job |-> 0]
    /\ dead = {}

Take(j) ==
    /\ taken' = taken \cup {j}
    /\ UNCHANGED <<effects, dead>>

Perform(j) ==
    /\ effects[j] = 0
    /\ effects' = [effects EXCEPT ![j] = 1]
    /\ UNCHANGED <<taken, dead>>

GiveUp(j) ==
    /\ j \in taken
    /\ dead' = dead \cup {j}
    /\ UNCHANGED <<taken, effects>>

Next == \E j \in Job : Take(j) \/ Perform(j) \/ GiveUp(j)

Safety == Init /\ [][Next]_durable

\* The queue owes an outcome to each job it took.
Outcome(j) == j \in taken /\ effects[j] = 0 /\ j \notin dead /\ (Perform(j) \/ GiveUp(j))

Spec == Safety /\ \A j \in Job : WF_durable(Outcome(j))
=============================================================================
