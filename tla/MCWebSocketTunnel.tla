--------------------------- MODULE MCWebSocketTunnel ---------------------------
(* TLC instances of WebSocketTunnel. *)
EXTENDS WebSocketTunnel

ClientListened == {"client"}
==============================================================================
