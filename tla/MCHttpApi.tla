----------------------------- MODULE MCHttpApi ------------------------------
(* Model-checking instance of HttpApi. *)
EXTENDS HttpApi

Ahead(n) == {r \in Request : Len(req[r].ahead) > n}

Touched == {e \in Email : count[e] + guesses[e] > 0} \cup missed \cup outside
Taken == {e \in Email : rows[e] # {}}

\* The guards keep no state but the limiters' counters, each changed in one step: requests
\* of every kind are walked one at a time while the limiters count. Those that register
\* and log in overlap in their handlers, any number of them, with DISABLE_RATE_LIMITING;
\* two addresses take part until the first of them is tried or loses its membership.
Apart ==
    IF limiting
    THEN Cardinality(Ahead(0)) <= 1
    ELSE /\ ~production /\ Cardinality(Ahead(1)) <= 1
         /\ \A r \in Request : req[r].op \in {None, "login", "register"}
         /\ Touched # {} => Cardinality(Touched \cup Taken) = 1
                             /\ \A r \in Request : at[r].email \in Touched \cup {None}
=============================================================================
