------------------------------ MODULE MCMembers ------------------------------
(* Model-checking instances of Members. *)
EXTENDS Members, TLC

Symmetry == Permutations(Request) \cup Permutations(Invite)
=============================================================================
