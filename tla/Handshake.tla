------------------------------ MODULE Handshake ------------------------------
(***************************************************************************)
(* A CONNECT from the middleware to the TLS tunnel: the six events on the  *)
(* way, the "200", the certificate, and the handshake with its time-out.   *)
(*                                                                         *)
(* A socket somebody destroys is "ending" until its "close" event.  A TLS  *)
(* socket closes with the socket that it wraps, unless that had closed     *)
(* before: Node then wraps a stream that says nothing any more.            *)
(***************************************************************************)
EXTENDS EventEmission

VARIABLES
  step,      \* what the handlers of the CONNECT await
  outcome,   \* how they ended
  hijacked,  \* lifecycle.isHijacked
  tracked,   \* the lifecycle is in ContextManager's indexes
  sock,      \* the client's socket
  tls,       \* the TLS socket
  wraps,     \* whether the socket was still there when the TLS socket was made
  sni        \* the certificate for the name in the ClientHello

scopeVars == <<hijacked, tracked>>
handlerVars == <<step, outcome>>
sockVars == <<sock, tls, wraps, sni>>
vars == <<emissionVars, handlerVars, scopeVars, sockVars>>

PluginEvents == {"proxy:client-connect", "proxy:client-before-handshake",
                 "proxy:client-after-handshake"}
BusEvents == {"connect:request", "connect:before", "connect:established"}
Events == PluginEvents \cup BusEvents

\* Who emits what the handlers await.
KindOf(s) ==
  IF s \in PluginEvents THEN "plugin" ELSE IF s \in BusEvents THEN "bus" ELSE "none"

TypeOK ==
  /\ EmissionTypeOK
  /\ step \in Events \cup {"write", "certificate", "tls", "done"}
  /\ (kind = "plugin") = (step \in PluginEvents)
  /\ (kind = "bus") = (step \in BusEvents)
  /\ outcome \in {"none", "returned", "aborted", "failed", "bridged"}
  /\ hijacked \in BOOLEAN /\ tracked \in BOOLEAN /\ wraps \in BOOLEAN
  /\ sock \in {"open", "ending", "closed"}
  /\ tls \in {"none", "open", "ending", "closed"}
  /\ sni \in {"none", "pending", "done"}
  /\ (outcome = "none") = (step # "done")

\* The scope is new, and applyConnectState has filled it.
Init ==
  /\ step = "proxy:client-connect" /\ kind = "plugin" /\ listener = Started("plugin")
  /\ outcome = "none" /\ hijacked = FALSE /\ tracked = TRUE
  /\ sock = "open" /\ tls = "none" /\ wraps = FALSE /\ sni = "none"

-----------------------------------------------------------------------------
(* The events *)

Destroyed(s) == IF s = "open" THEN "ending" ELSE s

GoTo(s) ==
  /\ step' = s /\ kind' = KindOf(s)
  /\ listener' = IF s \in Events THEN Started(KindOf(s)) ELSE listener
  /\ UNCHANGED outcome

Ends(o) == step' = "done" /\ kind' = "none" /\ outcome' = o /\ UNCHANGED listener

ListenerSettles(l, o) ==
  /\ Settles(l, o)
  /\ UNCHANGED <<handlerVars, scopeVars, sockVars>>

ListenerTimesOut(l) == TimesOut(l) /\ UNCHANGED <<handlerVars, scopeVars, sockVars>>
StragglerReturns(l) == LateReturns(l) /\ UNCHANGED <<handlerVars, scopeVars, sockVars>>

\* A listener takes the connection over while it runs.
Hijack ==
  /\ ~hijacked /\ \E l \in Listener : listener[l] = "running"
  /\ hijacked' = TRUE
  /\ UNCHANGED <<emissionVars, handlerVars, tracked, sockVars>>

\* The step after an event.  No "200" is written to a socket that has gone.
After(s) ==
  CASE s = "proxy:client-connect" -> "connect:request"
    [] s = "connect:request" -> "proxy:client-before-handshake"
    [] s = "proxy:client-before-handshake" -> "connect:before"
    [] s = "connect:before" -> IF sock = "open" THEN "write"
                               ELSE "proxy:client-after-handshake"
    [] s = "proxy:client-after-handshake" -> "connect:established"
    [] s = "connect:established" -> "certificate"

\* Mutant of EventIsOver: a hijack is not looked at after the last plugin event.
EventIsOverUnchecked ==
  /\ step \in Events /\ Over /\ Thrown = "ok"
  /\ IF hijacked /\ step # "connect:established" THEN Ends("returned") ELSE GoTo(After(step))
  /\ UNCHANGED <<scopeVars, sockVars>>

\* All listeners have returned.
EventIsOver ==
  /\ step \in Events /\ Over /\ Thrown = "ok"
  /\ IF hijacked THEN Ends("returned") ELSE GoTo(After(step))
  /\ UNCHANGED <<scopeVars, sockVars>>

\* The middleware's catch block, or handlePipelineAbort: nothing is closed, and the
\* client has no answer.
EventAborts ==
  /\ step \in Events /\ Over /\ Thrown = "abort"
  /\ Ends("aborted")
  /\ UNCHANGED <<scopeVars, sockVars>>

\* Mutant of EventFails: the hooks of the handshake do not close the socket.
EventFailsQuietly ==
  /\ step \in Events /\ Over /\ Thrown = "error"
  /\ Ends("failed")
  /\ tracked' = (tracked /\ step \notin {"proxy:client-connect", "connect:request"})
  /\ sock' = IF step \in {"proxy:client-connect", "connect:request"} THEN Destroyed(sock)
             ELSE sock
  /\ UNCHANGED <<hijacked, tls, wraps, sni>>

\* The socket is destroyed.  Only the middleware calls failPipeline.
EventFails ==
  /\ step \in Events /\ Over /\ Thrown = "error"
  /\ Ends("failed")
  /\ tracked' = (tracked /\ step \notin {"proxy:client-connect", "connect:request"})
  /\ sock' = Destroyed(sock)
  /\ UNCHANGED <<hijacked, tls, wraps, sni>>

\* The target of the CONNECT has no host: "400", and the handler returns.
HasNoHost ==
  /\ step = "connect:request" /\ Over /\ Thrown = "ok" /\ ~hijacked
  /\ Ends("returned")
  /\ sock' = Destroyed(sock)
  /\ UNCHANGED <<scopeVars, tls, wraps, sni>>

-----------------------------------------------------------------------------
(* The answer and the certificate *)

WriteReturns ==
  /\ step = "write"
  /\ GoTo("proxy:client-after-handshake")
  /\ UNCHANGED <<scopeVars, sockVars>>

\* handlePipelineFailure: the lifecycle stays where it is.
PipelineFails == Ends("failed") /\ sock' = Destroyed(sock)

WriteFails ==
  /\ step = "write" /\ sock # "open"
  /\ PipelineFails
  /\ UNCHANGED <<scopeVars, tls, wraps, sni>>

CertificateFails ==
  /\ step = "certificate"
  /\ PipelineFails
  /\ UNCHANGED <<scopeVars, tls, wraps, sni>>

\* The TLS socket is made, whatever has become of the socket.
CertificateComes ==
  /\ step = "certificate"
  /\ GoTo("tls")
  /\ tls' = "open" /\ wraps' = (sock # "closed")
  /\ UNCHANGED <<scopeVars, sock, sni>>

-----------------------------------------------------------------------------
(* The TLS handshake *)

\* SNICallback asks for the certificate of another name than the CONNECT's.
AsksForName ==
  /\ tls = "open" /\ sock = "open" /\ sni = "none" /\ step = "tls"
  /\ sni' = "pending"
  /\ UNCHANGED <<emissionVars, handlerVars, scopeVars, sock, tls, wraps>>

NameIsKnown ==
  /\ sni = "pending"
  /\ sni' = "done"
  /\ UNCHANGED <<emissionVars, handlerVars, scopeVars, sock, tls, wraps>>

\* A TLS socket that is destroyed destroys the socket it wraps.
DestroyBoth == tls' = Destroyed(tls) /\ sock' = Destroyed(sock)

\* Mutant of HandshakeTimesOut: only the client's socket is cleaned up.
TimesOutForSocket ==
  /\ step = "tls"
  /\ PipelineFails
  /\ UNCHANGED <<scopeVars, tls, wraps, sni>>

\* Mutant of HandshakeTimesOut: the time-out settles nothing.
TimesOutSilently ==
  /\ step = "tls"
  /\ DestroyBoth
  /\ UNCHANGED <<emissionVars, handlerVars, scopeVars, wraps, sni>>

\* handshakeTimeoutMs are over.
HandshakeTimesOut ==
  /\ step = "tls"
  /\ Ends("failed") /\ DestroyBoth
  /\ UNCHANGED <<scopeVars, wraps, sni>>

\* The "secure" event: the tunnel goes to the HTTP server of H1InboundBridge.
Secure ==
  /\ step = "tls" /\ tls = "open" /\ sock = "open" /\ sni # "pending"
  /\ Ends("bridged")
  /\ UNCHANGED <<scopeVars, sockVars>>

\* H1InboundBridge.execute throws.
BridgeThrows ==
  /\ step = "tls" /\ tls = "open" /\ sock = "open" /\ sni # "pending"
  /\ Ends("failed") /\ DestroyBoth
  /\ UNCHANGED <<scopeVars, wraps, sni>>

\* The "error" event of the TLS socket: a bad handshake, a certificate SNICallback could
\* not get, a connection reset; later the error has no one to tell.
TlsFails ==
  /\ tls = "open" /\ sock # "closed"
  /\ IF step = "tls" THEN Ends("failed") ELSE UNCHANGED <<emissionVars, handlerVars>>
  /\ sni' = IF sni = "pending" THEN "done" ELSE sni
  /\ DestroyBoth
  /\ UNCHANGED <<scopeVars, wraps>>

-----------------------------------------------------------------------------
(* The sockets *)

\* The client, or Proxy.stop(), ends the connection.
SocketEnds ==
  /\ sock = "open"
  /\ sock' = "ending"
  /\ UNCHANGED <<emissionVars, handlerVars, scopeVars, tls, wraps, sni>>

SocketCloses ==
  /\ sock = "ending"
  /\ sock' = "closed"
  /\ tls' = Destroyed(tls)
  /\ UNCHANGED <<emissionVars, handlerVars, scopeVars, wraps, sni>>

\* Mutant of TlsCloses: the lifecycle is not destroyed.
TlsClosesQuietly ==
  /\ tls = "ending" /\ sock = "closed"
  /\ tls' = "closed"
  /\ UNCHANGED <<emissionVars, handlerVars, scopeVars, sock, wraps, sni>>

\* The "close" event of the TLS socket.  It does not settle the handshake.
TlsCloses ==
  /\ tls = "ending" /\ sock = "closed"
  /\ tls' = "closed" /\ tracked' = FALSE
  /\ UNCHANGED <<emissionVars, handlerVars, hijacked, sock, wraps, sni>>

-----------------------------------------------------------------------------
HandlerSteps ==
  \/ EventIsOver \/ EventAborts \/ EventFails \/ HasNoHost
  \/ WriteReturns \/ WriteFails \/ CertificateFails \/ CertificateComes

TlsSteps ==
  \/ AsksForName \/ NameIsKnown \/ HandshakeTimesOut \/ Secure \/ BridgeThrows \/ TlsFails

Next ==
  \/ \E l \in Listener : \/ \E o \in Settlement : ListenerSettles(l, o)
                         \/ ListenerTimesOut(l) \/ StragglerReturns(l)
  \/ Hijack
  \/ HandlerSteps
  \/ TlsSteps
  \/ SocketEnds \/ SocketCloses \/ TlsCloses

\* Plugin listeners have a time limit; bus listeners have none and are assumed to
\* settle, as are writes and certificates.
Fairness ==
  /\ WF_vars(\E l \in Listener : ListenerTimesOut(l))
  /\ WF_vars(kind = "bus" /\ \E l \in Listener, o \in Settlement : ListenerSettles(l, o))
  /\ WF_vars(HandlerSteps)
  /\ WF_vars(HandshakeTimesOut)
  /\ WF_vars(SocketCloses) /\ WF_vars(TlsCloses)

Spec == Init /\ [][Next]_vars
FairSpec == Spec /\ Fairness

-----------------------------------------------------------------------------
(* Properties *)

\* After a listener has taken the connection over, before, between or after the "200",
\* no TLS socket is put on it.
HijackedGetsNoTls == tls # "none" => ~hijacked

\* The handlers go on, or end, only when no listener of the events before is running any
\* more, except one that has had its time.
ListenersAreWaitedFor == (\E l \in Listener : listener[l] = "running") => step \in Events

\* A CONNECT that fails, by a hook, a write, a certificate, the handshake or its
\* time-out, leaves neither socket open.
FailedIsClosed == outcome = "failed" => sock # "open" /\ tls # "open"

\* The time-out, "secure", "error" and the failures before them settle the CONNECT once:
\* a tunnel in use is not failed by a late time-out, a failed one is not bridged.
SettlesOnce == [][outcome # "none" => outcome' = outcome]_vars

\* Whatever the listeners, the client and the certificate do, the handlers of a CONNECT
\* end; a TLS socket that says nothing is given up.
HandshakeSettles == <>(outcome # "none")

\* A tunnel is forgotten after its socket closes, also if that was before TLS began.
ClosedTunnelForgotten == tls # "none" /\ sock = "closed" ~> ~tracked

\* A CONNECT never waits for nothing: an event has a listener that runs or is over, and
\* what else the handlers await comes or has a time-out; a tunnel whose socket has closed
\* has a TLS socket that closes too, or the handshake's time-out to see to it.
SomethingIsDue ==
  /\ step \in Events => Over \/ \E l \in Listener : listener[l] = "running"
  /\ tls # "none" /\ sock = "closed" =>
       ~tracked \/ tls = "ending" \/ (tls = "open" /\ step = "tls")

\* How far the handlers and a listener of theirs are.
StepRank(s) ==
  CASE s = "proxy:client-connect" -> 0 [] s = "connect:request" -> 1
    [] s = "proxy:client-before-handshake" -> 2 [] s = "connect:before" -> 3
    [] s = "write" -> 4 [] s = "proxy:client-after-handshake" -> 5
    [] s = "connect:established" -> 6 [] s = "certificate" -> 7
    [] s = "tls" -> 8 [] s = "done" -> 9
ListenerRank(l) ==
  CASE listener[l] = "waiting" -> 0 [] listener[l] = "running" -> 1
    [] listener[l] = "late" -> 2 [] OTHER -> 3

\* The handlers run an event once, and each of its listeners once: they never go back, and
\* while they stay at a step no listener does.
NeverBack ==
  [][\/ StepRank(step') > StepRank(step)
     \/ step' = step /\ \A l \in Listener : ListenerRank(l)' >= ListenerRank(l)]_vars

\* RequestTracking's view: one connection with one CONNECT.  A handler ends with its TLS
\* socket if it has made one, and notices a closed socket only through it.
Made == tls # "none"
Gone == IF wraps THEN tls = "closed" ELSE sock = "closed"
Unaware == ~wraps /\ sock = "closed" /\ (IF Made THEN tls # "closed" ELSE outcome = "none")

Tracking == INSTANCE RequestTracking WITH
  Conns <- {"client"}, Txns <- {"connect"}, Kinds <- {"connect"},
  mode <- [c \in {"client"} |-> IF Gone THEN "closed" ELSE IF Made THEN "tls"
                                ELSE IF outcome = "none" THEN "connecting" ELSE "dead"],
  index <- [c \in {"client"} |-> IF Gone THEN "none" ELSE "connect"],
  activeRequests <- IF tracked THEN {"connect"} ELSE {},
  lifecycles <- [t \in {"connect"} |-> IF tracked THEN "connect" ELSE "none"],
  activeSockets <- IF Gone THEN {} ELSE {"client"},
  txn <- [t \in {"connect"} |->
            [st |-> IF Unaware THEN "unwinding"
                    ELSE IF Gone \/ (outcome # "none" /\ ~Made) THEN "closed" ELSE "inflight",
             kind |-> "connect", conn |-> "client", id |-> "connect", life |-> "connect"]]

\* Every step of a CONNECT is one that RequestTracking allows, or none that it sees.
TracksTunnels == [][Tracking!Next]_(Tracking!vars)

==============================================================================
