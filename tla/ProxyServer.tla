----------------------------- MODULE ProxyServer -----------------------------
(***************************************************************************)
(* The Proxy and the tracking of its requests together: ProxyLifecycle,    *)
(* with the sockets and active requests that RequestTracking keeps.        *)
(***************************************************************************)
EXTENDS RequestTracking

CONSTANT Plugins

VARIABLES
  activePlugins, observed, initialized, listen, todo, listenLoop, listening,
  handlers, stop, stopLoop, failures, stopReturned

proxyVars == <<activePlugins, observed, initialized, listen, todo, listenLoop,
               listening, handlers, stop, stopLoop, failures, stopReturned>>

OpenSockets == {c \in Conns : mode[c] \notin {"none", "closed"}}

Proxy == INSTANCE ProxyLifecycle WITH
  Connections <- Conns, Requests <- Txns, open <- OpenSockets, active <- activeRequests

ServerInit == Init /\ Proxy!Init

\* ContextManager.destroyActiveRequests, connectionManager.destroyAll and
\* closeAllConnections: the indexes are cleared, and the sockets are destroyed but
\* emit their "close" events later.
DestroyAll ==
  /\ activeRequests' = {}
  /\ lifecycles' = [t \in Txns |-> NoTxn]
  /\ index' = [c \in Conns |-> NoTxn]
  /\ activeSockets' = {}
  /\ mode' = [c \in Conns |-> IF c \in OpenSockets THEN "dead" ELSE mode[c]]
  /\ UNCHANGED txn

ForceClose == DestroyAll /\ Proxy!ForceClose

\* The steps of listen() and stop() that do not touch sockets or requests.
ProxySteps ==
  /\ UNCHANGED vars
  /\ \/ \E p \in Plugins : Proxy!Use(p) \/ Proxy!Unuse(p)
     \/ Proxy!Listen \/ Proxy!Stop \/ Proxy!Signal
     \/ Proxy!ListenSteps
     \/ Proxy!StopCleansUp
     \/ \E ok \in BOOLEAN : Proxy!StopCleanupReturns(ok)

\* Mutant of Opens: a closed server still accepts.
OpensAlways(c) == ConnectionOpens(c) /\ UNCHANGED proxyVars

\* Connections are accepted while the server listens.
Opens(c) == ConnectionOpens(c) /\ listening /\ UNCHANGED proxyVars

Closes(c) == SocketCloses(c) /\ UNCHANGED proxyVars

Transactions ==
  /\ \/ \E c \in Conns, t \in Txns :
          Request(c, t) \/ Connect(c, t) \/ DecryptedRequest(c, t) \/ Upgrade(c, t)
     \/ \E t \in Txns :
          TunnelOpens(t) \/ Finishes(t) \/ ResponseCloses(t) \/ TearsDown(t) \/ IsLeft(t)
            \/ Unwinds(t)
  /\ UNCHANGED proxyVars

ServerNext ==
  \/ ProxySteps
  \/ ForceClose
  \/ \E c \in Conns : Opens(c) \/ Closes(c)
  \/ Transactions

ServerSpec == ServerInit /\ [][ServerNext]_<<vars, proxyVars>>

-----------------------------------------------------------------------------
(* Properties *)

\* What ProxyLifecycle assumes of clients and requests is what RequestTracking does.
KeepsProxyLifecycle == Proxy!Spec

\* What a promise to wait for t means: stop() does not go on for lack of active
\* requests while t is in flight.
WaitedFor(t) ==
  stop # "awaitClose" /\ stop' = "awaitClose" /\ InFlight(t) => activeRequests # {}

\* stop() waits for the first request of a connection, and for the requests inside the
\* tunnel of a connection that began with its CONNECT, until shutdownTimeoutMs.
FirstRequestIsWaitedFor ==
  [][\A t \in Txns :
       \/ OnConn(txn[t].conn) = {t} /\ txn[t].kind = "plain"
       \/ /\ txn[t].kind = "decrypted" /\ mode[txn[t].conn] = "tls"
          /\ \A k \in OnConn(txn[t].conn) : txn[k].kind # "plain"
       => WaitedFor(t)]_<<vars, proxyVars>>

\* Once stop() has settled nothing is tracked, in flight or open, although the handler
\* of a CONNECT or of an upgrade may still have to find out.
StoppedIsIdle ==
  stop \in {"resolved", "rejected"} =>
    /\ activeRequests = {} /\ activeSockets = {}
    /\ \A t \in Txns : ~InFlight(t)
    /\ OpenSockets = {}

-----------------------------------------------------------------------------
(* Statements about the program that the code does not keep. *)

\* A comment and a test say that stop() lets the active requests drain until its
\* time-out.
ActiveRequestsDrain == [][\A t \in Txns : WaitedFor(t)]_<<vars, proxyVars>>
==============================================================================
