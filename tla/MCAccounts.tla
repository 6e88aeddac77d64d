----------------------------- MODULE MCAccounts ------------------------------
(* Model-checking instances of Accounts. *)
EXTENDS Accounts, TLC

Symmetry == Permutations(Request) \cup Permutations(ResetLink)
                                  \cup Permutations(VerifyLink)
=============================================================================
