------------------------- MODULE MCRefreshSessions -------------------------
(* Model-checking instances of RefreshSessions. *)
EXTENDS RefreshSessions, TLC

Symmetry == Permutations(Request)
=============================================================================
