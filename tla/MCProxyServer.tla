---------------------------- MODULE MCProxyServer ----------------------------
(* TLC instances of ProxyServer. *)
EXTENDS ProxyServer

CONSTANTS c1, c2, t1, t2, p1

TwoConns == {c1, c2}
TwoTxns == {t1, t2}
OnePlugin == {p1}
EveryKind == AllKinds
OnlyPlain == {"plain"}
==============================================================================
