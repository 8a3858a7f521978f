---------------------------- MODULE MCH1Transaction ----------------------------
(* TLC instances of H1Transaction. *)
EXTENDS H1Transaction

AllEvents == Events
OnlyOk    == {"ok"}
EveryWay  == {"ok", "abort", "error", "timeout"}
==============================================================================
