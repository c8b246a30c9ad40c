------------------------- MODULE MCHyperscanEngine -------------------------
(* Instances of HyperscanEngine for TLC. *)
EXTENDS HyperscanEngine
=============================================================================
