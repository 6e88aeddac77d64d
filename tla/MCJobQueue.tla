----------------------------- MODULE MCJobQueue -----------------------------
(* Model-checking instances of JobQueue. *)
EXTENDS JobQueue, TLC

\* Jobs of different ids share nothing but handlers and faults: one is under way.
Apart == Cardinality({j \in Published : req[j] # "new"} \cup (accepted \cap Strays)) <= 1

\* Enough for a link that comes after the one a later attempt committed.
FewLinks == \A j \in Email : minted[j] <= 2 /\ abandoned[j] \subseteq {1}

\* Whether the publisher is up is asked before a job is published, and not again.
Asked == publisherUp \/ wire \cup accepted = {}
=============================================================================
