----------------------------- MODULE MCTlsProxy -----------------------------
(* Instances of TlsProxy for TLC. *)
EXTENDS TlsProxy

CONSTANTS api, API, chat, other
=============================================================================
