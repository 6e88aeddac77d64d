-------------------------- MODULE MCResponseCache --------------------------
(* Model-checking instances of ResponseCache. *)
EXTENDS ResponseCache
=============================================================================
