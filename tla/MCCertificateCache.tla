-------------------------- MODULE MCCertificateCache --------------------------
(* TLC instances of CertificateCache. *)
EXTENDS CertificateCache

CONSTANTS p1, c1, c2, h1, h2, k1, k2

OneProc == {p1}
TwoCallers == {c1, c2}
BothAtHome == [c \in TwoCallers |-> p1]
OneHost == {h1}
TwoHosts == {h1, h2}
TwoKeyPairs == {k1, k2}
AnyFault == {"read", "worker", "mkdir", "save", "crash"}
==============================================================================
