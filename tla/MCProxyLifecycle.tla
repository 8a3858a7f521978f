--------------------------- MODULE MCProxyLifecycle ---------------------------
(* TLC instances of ProxyLifecycle, with the emissions of its clients' handlers. *)
EXTENDS PluginEmissions

CONSTANTS p1, p2, c1, r1, h1

TwoPlugins == {p1, p2}
OneConnection == {c1}
OneRequest == {r1}
OneHandler == {h1}
==============================================================================
