----------------------------- MODULE MCHandshake -----------------------------
(* TLC instances of Handshake. *)
EXTENDS Handshake
==============================================================================
