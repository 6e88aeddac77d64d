------------------------------ MODULE Sessions ------------------------------
(***************************************************************************)
(* What refresh-token rotation promises about a session (ADR-0019): it     *)
(* opens once, at a login, a registration or an organization switch, and   *)
(* once it has no token left it never comes back.  Rotations are invisible *)
(* here.                                                                   *)
(***************************************************************************)
CONSTANT Session

VARIABLE state

Init == state = [s \in Session |-> "none"]

Open(s) ==
    /\ state[s] = "none"
    /\ state' = [state EXCEPT ![s] = "open"]

Close(s) ==
    /\ state[s] = "open"
    /\ state' = [state EXCEPT ![s] = "closed"]

Next == \E s \in Session : Open(s) \/ Close(s)

Spec == Init /\ [][Next]_state
=============================================================================
