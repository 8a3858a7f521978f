--------------------------- MODULE MCRequestTracking ---------------------------
(* TLC instances of RequestTracking. *)
EXTENDS RequestTracking

CONSTANTS c1, c2, t1, t2, t3

TwoConns == {c1, c2}
ThreeTxns == {t1, t2, t3}
EveryKind == AllKinds
==============================================================================
