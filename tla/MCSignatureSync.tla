-------------------------- MODULE MCSignatureSync --------------------------
(* Instances of SignatureSync for TLC: tier 1 is free, 2 and 3 are paid. *)
EXTENDS SignatureSync
=============================================================================
