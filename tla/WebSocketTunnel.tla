--------------------------- MODULE WebSocketTunnel ---------------------------
(***************************************************************************)
(* A WebSocket upgrade from WSOutboundBridge.execute to the end of its     *)
(* tunnel: the upstream request of WSUpstreamInitiator, the listener of    *)
(* its "upgrade" event, a promise chain for every message, and the         *)
(* listeners for the "close" and "error" events of both sides.             *)
(*                                                                         *)
(* A side's socket that is to close, whoever ends it, is "ending" and then *)
(* "closed", when its "close" event has been emitted.  The WebSocket on it *)
(* notices at that event at the latest.  The ws library is external: it is *)
(* modelled as the bridge uses it.                                         *)
(***************************************************************************)
EXTENDS Integers, Sequences, SequencesExt

CONSTANTS
  Listened,    \* the sides on whose messages plugins listen
  MaxMessages  \* bound on the messages of a tunnel

Side == {"client", "upstream"}
Peer(s) == IF s = "client" THEN "upstream" ELSE "client"
Message == 1..MaxMessages

ASSUME ListenedAssumption == Listened \subseteq Side
ASSUME MaxMessagesAssumption == MaxMessages \in Nat

VARIABLES
  hijacked,  \* lifecycle.isHijacked
  tracked,   \* the lifecycle is in ContextManager's indexes
  exec,      \* how far execute() is
  upReq,     \* the upstream request
  boot,      \* how far the listener of its "upgrade" event is
  torn,      \* isTornDown
  sock,      \* per side: its socket
  ws,        \* per side: readyState of its WebSocket
  code,      \* per side: the code it has closed with
  closing,   \* per side: how far the listener of its "close" event is
  failing,   \* per side: how far the listener of its "error" event is
  from,      \* per message received: the side it came from
  stage,     \* per message received: what its promise chain awaits
  sent       \* the messages written to a socket that was open, in that order

scopeVars == <<hijacked, tracked>>
bootVars == <<exec, upReq, boot>>
sockVars == <<torn, sock>>
wsVars == <<ws, code, closing, failing>>
msgVars == <<from, stage, sent>>
vars == <<scopeVars, bootVars, sockVars, wsVars, msgVars>>

TypeOK ==
  /\ hijacked \in BOOLEAN /\ tracked \in BOOLEAN /\ torn \in BOOLEAN
  /\ exec \in {"start", "dispatch", "done"}
  /\ upReq \in {"none", "idle", "sent", "upgraded", "ignored", "failed", "destroyed"}
  /\ boot \in {"none", "plugins", "stuck", "established", "done"}
  /\ sock \in [Side -> {"none", "open", "ending", "closed"}]
  /\ ws \in [Side -> {"none", "open", "closing", "closed"}]
  /\ code \in [Side -> {"none", "normal", "reserved"}]
  /\ closing \in [Side -> {"none", "listeners", "waiting", "done"}]
  /\ failing \in [Side -> {"none", "listeners", "done"}]
  /\ from \in Seq(Side) /\ Len(from) <= MaxMessages
  /\ stage \in Seq({"plugins", "events", "done"}) /\ Len(stage) = Len(from)
  /\ sent \in Seq(Message)

Init ==
  /\ hijacked = FALSE /\ tracked = TRUE /\ torn = FALSE
  /\ exec = "start" /\ upReq = "none" /\ boot = "none"
  /\ sock = [s \in Side |-> IF s = "client" THEN "open" ELSE "none"]
  /\ ws = [s \in Side |-> "none"]
  /\ code = [s \in Side |-> "none"]
  /\ closing = [s \in Side |-> "none"]
  /\ failing = [s \in Side |-> "none"]
  /\ from = <<>> /\ stage = <<>> /\ sent = <<>>

-----------------------------------------------------------------------------
(* Shared operations *)

\* ProxyUtils.cleanUp: the open ones of these sides are destroyed; sk is how they all are.
CleanUp(sk, sides) ==
  [s \in Side |-> IF s \in sides /\ sk[s] = "open" THEN "ending" ELSE sk[s]]

\* Mutant of TearDown: one of the two sockets is forgotten.
TearDownClientOnly(sk) ==
  /\ sock' = IF torn THEN sk ELSE CleanUp(sk, {"client"})
  /\ torn' = TRUE
  /\ tracked' = FALSE

\* Mutant of TearDown: a second call looks the context up again, and so creates it anew.
TearDownTwice(sk) ==
  /\ sock' = IF torn THEN sk ELSE CleanUp(sk, Side)
  /\ torn' = TRUE
  /\ tracked' = torn

\* isolateTunnelTearDown, when the sockets are in the states sk; once.
TearDown(sk) ==
  /\ sock' = IF torn THEN sk ELSE CleanUp(sk, Side)
  /\ torn' = TRUE
  /\ tracked' = FALSE

KeepTunnel == UNCHANGED <<tracked, torn, sock>>

-----------------------------------------------------------------------------
(* execute() and the upstream request *)

\* A plugin takes the connection over while one of its listeners runs.
ListenerRuns ==
  \/ exec = "dispatch" \/ boot \in {"plugins", "established"}
  \/ \E s \in Side : closing[s] = "listeners" \/ failing[s] = "listeners"
  \/ \E m \in 1..Len(stage) : stage[m] # "done"

Hijack ==
  /\ ~hijacked /\ ListenerRuns
  /\ hijacked' = TRUE
  /\ UNCHANGED <<tracked, bootVars, sockVars, wsVars, msgVars>>

\* The request is created, and the dispatch listeners start.
Execute ==
  /\ exec = "start"
  /\ exec' = "dispatch" /\ upReq' = "idle"
  /\ UNCHANGED <<boot, scopeVars, sockVars, wsVars, msgVars>>

\* Something that execute needs is missing, or the protocol is not supported:
\* handlePipelineFailure ends the socket with a 502.
ExecuteThrows ==
  /\ exec = "start"
  /\ exec' = "done"
  /\ sock' = CleanUp(sock, {"client"})
  /\ UNCHANGED <<upReq, boot, scopeVars, torn, wsVars, msgVars>>

Abandon == IF upReq \in {"idle", "sent"} THEN "destroyed" ELSE upReq

\* The listeners of "proxy:upstream-dispatch" return.  After an abort
\* handlePipelineAbort has nothing to close.
DispatchReturns(o) ==
  /\ exec = "dispatch"
  /\ exec' = "done"
  /\ CASE o = "ok" ->
            /\ upReq' = IF upReq = "idle" /\ ~hijacked THEN "sent" ELSE upReq
            /\ KeepTunnel
       [] o = "abort" -> KeepTunnel /\ UNCHANGED upReq
       [] o = "error" ->
            /\ upReq' = Abandon
            /\ sock' = CleanUp(sock, {"client"})
            /\ tracked' = FALSE
            /\ UNCHANGED torn
  /\ UNCHANGED <<hijacked, boot, wsVars, msgVars>>

\* The "error" event of the upstream request, which may still come after an answer that
\* is ignored: a 502, if it can be written, and the client's socket is destroyed.
UpstreamFails ==
  /\ upReq \in {"idle", "sent", "ignored"}
  /\ upReq' = "failed"
  /\ sock' = CleanUp(sock, {"client"})
  /\ UNCHANGED <<exec, boot, scopeVars, torn, wsVars, msgVars>>

\* Any other answer than 101 is discarded, for nobody listens for "response"; nobody
\* listens for "timeout" either, so no answer at all is no step.
UpstreamIsIgnored ==
  /\ upReq = "sent"
  /\ upReq' = "ignored"
  /\ UNCHANGED <<exec, boot, scopeVars, sockVars, wsVars, msgVars>>

\* The "upgrade" event: its listener starts with those of "proxy:client-upgrade".
UpstreamUpgrades ==
  /\ upReq = "sent"
  /\ upReq' = "upgraded" /\ boot' = "plugins"
  /\ sock' = [sock EXCEPT !["upstream"] = "open"]
  /\ UNCHANGED <<exec, scopeVars, torn, wsVars, msgVars>>

\* handleUpgrade calls back at once if the client's socket is open and its request is
\* a WebSocket's, and else never: the listener is stuck.
Bridge(accepted) ==
  IF accepted /\ sock["client"] = "open"
  THEN boot' = "established" /\ ws' = [s \in Side |-> "open"] /\ UNCHANGED sock
  ELSE boot' = "stuck" /\ sock' = CleanUp(sock, {"client"}) /\ UNCHANGED ws

UpgradePluginsReturn(o, accepted) ==
  /\ boot = "plugins"
  /\ IF o = "ok" /\ ~hijacked THEN Bridge(accepted) /\ UNCHANGED <<tracked, torn>>
     ELSE /\ boot' = "done"
          /\ IF o = "ok" THEN KeepTunnel ELSE TearDown(sock)
          /\ UNCHANGED ws
  /\ UNCHANGED <<hijacked, exec, upReq, code, closing, failing, msgVars>>

\* The listeners of "ws:established" return.  An abort is thrown on, as from the close
\* and error listeners below, into a promise that nobody holds.
EstablishedReturns(o) ==
  /\ boot = "established"
  /\ boot' = "done"
  /\ IF o = "error" THEN TearDown(sock) ELSE KeepTunnel
  /\ UNCHANGED <<hijacked, exec, upReq, wsVars, msgVars>>

-----------------------------------------------------------------------------
(* Messages *)

\* Mutant of Forward: a hijack during the listeners is not noticed.
ForwardHijacked(m, s) ==
  sent' = IF ws[Peer(s)] = "open" /\ sock[Peer(s)] = "open" THEN Append(sent, m) ELSE sent

\* Message m of side s is sent to the peer, unless the connection has been taken over
\* or the peer is not open.  What is written to a destroyed socket is lost.
Forward(m, s) ==
  sent' = IF ~hijacked /\ ws[Peer(s)] = "open" /\ sock[Peer(s)] = "open"
          THEN Append(sent, m) ELSE sent

\* Without plugin listeners the message is sent before anything else happens.
Receive(s) ==
  /\ ws[s] = "open" /\ sock[s] = "open" /\ Len(from) < MaxMessages
  /\ from' = Append(from, s)
  /\ IF s \in Listened
     THEN stage' = Append(stage, "plugins") /\ UNCHANGED sent
     ELSE Forward(Len(from) + 1, s) /\ stage' = Append(stage, "events")
  /\ UNCHANGED <<scopeVars, bootVars, sockVars, wsVars>>

\* The plugin listeners of message m return, each message's in its own time.  An abort
\* tears the tunnel down; an error is reported and drops the message.
MessagePluginsReturn(m, o) ==
  /\ stage[m] = "plugins"
  /\ IF o = "ok" /\ ~hijacked
     THEN Forward(m, from[m]) /\ stage' = [stage EXCEPT ![m] = "events"]
     ELSE UNCHANGED sent /\ stage' = [stage EXCEPT ![m] = "done"]
  /\ IF o = "abort" THEN TearDown(sock) ELSE KeepTunnel
  /\ UNCHANGED <<hijacked, bootVars, wsVars, from>>

\* They return, and one of them has set drop.
PluginsDrop(m) ==
  /\ stage[m] = "plugins"
  /\ stage' = [stage EXCEPT ![m] = "done"]
  /\ UNCHANGED <<scopeVars, bootVars, sockVars, wsVars, from, sent>>

\* The listeners of "ws:client-message" or "ws:upstream-message" return.
MessageEventsReturn(m, o) ==
  /\ stage[m] = "events"
  /\ stage' = [stage EXCEPT ![m] = "done"]
  /\ IF o = "abort" THEN TearDown(sock) ELSE KeepTunnel
  /\ UNCHANGED <<hijacked, bootVars, wsVars, from, sent>>

-----------------------------------------------------------------------------
(* Closing *)

\* A side closes, with a close frame that has a code, or without one.
SideCloses(s, c) ==
  /\ ws[s] = "open" /\ sock[s] = "open"
  /\ ws' = [ws EXCEPT ![s] = "closing"]
  /\ code' = [code EXCEPT ![s] = c]
  /\ sock' = [sock EXCEPT ![s] = "ending"]
  /\ UNCHANGED <<scopeVars, bootVars, torn, closing, failing, msgVars>>

\* A side breaks the protocol: its WebSocket emits "error", and closes.
SideFails(s) ==
  /\ ws[s] = "open" /\ sock[s] = "open"
  /\ ws' = [ws EXCEPT ![s] = "closing"]
  /\ code' = [code EXCEPT ![s] = "reserved"]
  /\ sock' = [sock EXCEPT ![s] = "ending"]
  /\ failing' = [failing EXCEPT ![s] = "listeners"]
  /\ UNCHANGED <<scopeVars, bootVars, torn, closing, msgVars>>

\* A side answers the bridge's close frame.
SideAnswersClose(s) ==
  /\ ws[s] = "closing" /\ sock[s] = "open"
  /\ sock' = [sock EXCEPT ![s] = "ending"]
  /\ UNCHANGED <<scopeVars, bootVars, torn, wsVars, msgVars>>

\* stop() or a plugin destroys the client's socket.
ClientDestroyed ==
  /\ sock["client"] = "open"
  /\ sock' = [sock EXCEPT !["client"] = "ending"]
  /\ UNCHANGED <<scopeVars, bootVars, torn, wsVars, msgVars>>

\* A socket's "close" event: its WebSocket, if it has one, emits "close" in turn, and a
\* close listener of the peer that waits for the socket tears the tunnel down.
SocketCloses(s) ==
  LET closed == [sock EXCEPT ![s] = "closed"]
  IN  /\ sock[s] = "ending"
      /\ ws' = [ws EXCEPT ![s] = IF @ = "none" THEN "none" ELSE "closed"]
      /\ code' = [code EXCEPT ![s] = IF @ = "none" THEN "reserved" ELSE @]
      /\ closing' = [closing EXCEPT ![s] = IF ws[s] = "none" THEN @ ELSE "listeners"]
      /\ IF closing[Peer(s)] = "waiting" THEN TearDown(closed)
         ELSE sock' = closed /\ UNCHANGED <<tracked, torn>>
      /\ UNCHANGED <<hijacked, bootVars, failing, msgVars>>

\* Mutant of GetSafeCloseCode: the code is passed on as it came.
SameCloseCode(c) == c

\* getSafeCloseCode: a reserved code is not sent over the wire.
GetSafeCloseCode(c) == IF c = "reserved" THEN "goingAway" ELSE c

\* WebSocket.close throws on a reserved code.
MayBeSent(c) == c # "reserved"

\* Mutant of CloseListenersReturn: the peer is not told.
CloseWithoutPeer(s) ==
  /\ closing[s] = "listeners"
  /\ closing' = [closing EXCEPT ![s] = "done"]
  /\ TearDown(sock)
  /\ UNCHANGED <<hijacked, bootVars, ws, code, failing, msgVars>>

\* The listeners of "ws:close" return, and whatever they did the finally block closes
\* the peer's WebSocket and waits for its socket, or tears the tunnel down.
CloseListenersReturn(s) ==
  /\ closing[s] = "listeners"
  /\ IF ws[Peer(s)] = "open"
     THEN /\ IF MayBeSent(GetSafeCloseCode(code[s]))
             THEN /\ ws' = [ws EXCEPT ![Peer(s)] = "closing"]
                  /\ closing' = [closing EXCEPT ![s] = "waiting"]
             ELSE UNCHANGED ws /\ closing' = [closing EXCEPT ![s] = "done"]
          /\ KeepTunnel
     ELSE /\ closing' = [closing EXCEPT ![s] = "done"]
          /\ TearDown(sock)
          /\ UNCHANGED ws
  /\ UNCHANGED <<hijacked, bootVars, code, failing, msgVars>>

\* The timer of one second.
CloseTimesOut(s) ==
  /\ closing[s] = "waiting"
  /\ closing' = [closing EXCEPT ![s] = "done"]
  /\ TearDown(sock)
  /\ UNCHANGED <<hijacked, bootVars, ws, code, failing, msgVars>>

\* The listeners of "ws:error" return.
ErrorListenersReturn(s) ==
  /\ failing[s] = "listeners"
  /\ failing' = [failing EXCEPT ![s] = "done"]
  /\ TearDown(sock)
  /\ UNCHANGED <<hijacked, bootVars, ws, code, closing, msgVars>>

-----------------------------------------------------------------------------
(* The specification *)

Outcome == {"ok", "abort", "error"}

Messages ==
  \/ \E s \in Side : Receive(s)
  \/ \E m \in 1..Len(stage), o \in Outcome :
       MessagePluginsReturn(m, o) \/ MessageEventsReturn(m, o)
  \/ \E m \in 1..Len(stage) : PluginsDrop(m)

SideSteps(s) ==
  \/ \E c \in {"normal", "reserved"} : SideCloses(s, c)
  \/ SideFails(s) \/ SideAnswersClose(s) \/ SocketCloses(s)
  \/ CloseListenersReturn(s) \/ CloseTimesOut(s) \/ ErrorListenersReturn(s)

Setup ==
  \/ Execute \/ ExecuteThrows
  \/ \E o \in Outcome : DispatchReturns(o) \/ EstablishedReturns(o)
  \/ \E o \in Outcome, accepted \in BOOLEAN : UpgradePluginsReturn(o, accepted)
  \/ UpstreamFails \/ UpstreamIsIgnored \/ UpstreamUpgrades

Next == Setup \/ Messages \/ (\E s \in Side : SideSteps(s)) \/ ClientDestroyed \/ Hijack

\* The listeners of "ws:close" and "ws:error" return, the timer fires, and a socket that
\* ends emits "close".  Neither side has to send anything, or to answer a close frame.
Fairness ==
  \A s \in Side : /\ WF_vars(SocketCloses(s)) /\ WF_vars(CloseListenersReturn(s))
                  /\ WF_vars(CloseTimesOut(s)) /\ WF_vars(ErrorListenersReturn(s))

Spec == Init /\ [][Next]_vars /\ Fairness

-----------------------------------------------------------------------------
(* Properties *)

\* A lifecycle is forgotten only when no socket of its tunnel is open any more, so the
\* drain of stop() never overlooks a live tunnel; and once torn down it is forgotten.
ForgottenIsClosed ==
  /\ ~tracked => \A s \in Side : sock[s] # "open"
  /\ torn => ~tracked

\* The end of one side does not cut off the other: a tunnel that ends because of a
\* "close" event, and not of an abort or an error, has told the peer before.
PeerIsTold ==
  [][torn' /\ ~torn /\ closing' # closing => \A s \in Side : ws'[s] # "open"]_vars

\* Once a side's WebSocket has closed, the whole tunnel comes down: both sockets are
\* closed, although the peer may never answer.
ClosedComesDown ==
  \A s \in Side : ws[s] = "closed" ~> torn /\ \A p \in Side : sock[p] = "closed"

\* A side that has closed is never left to itself: its close listener is at work or waits
\* with a timer, unless the tunnel is torn down; and then no socket is left that does not
\* end.
ClosedIsComingDown ==
  /\ \A s \in Side : ws[s] = "closed" =>
       sock[s] = "closed" /\ (torn \/ closing[s] \in {"listeners", "waiting"})
  /\ torn => \A s \in Side : sock[s] \in {"ending", "closed"}

\* How far a socket and a close listener are.
SockRank == [none |-> 0, open |-> 1, ending |-> 2, closed |-> 3]
ClosingRank == [none |-> 0, listeners |-> 1, waiting |-> 2, done |-> 3]

\* Nothing takes them back, nor a teardown: the listeners run once, and a socket that ends
\* does not come alive again.
NeverBack ==
  [][\A s \in Side : /\ SockRank[sock'[s]] >= SockRank[sock[s]]
                     /\ ClosingRank[closing'[s]] >= ClosingRank[closing[s]]
                     /\ torn => torn']_vars

\* What the tunnel does with messages is what MessageRelay promises: however long
\* listeners take, and whatever closes meanwhile, nothing is sent twice, out of order on
\* a side without plugin listeners, or after a hijack or a teardown.
Relay == INSTANCE MessageRelay WITH
  Sides <- Side, Ordered <- Side \ Listened,
  received <- from, delivered <- sent, over <- hijacked \/ torn
RelaysMessages == Relay!Spec

\* RequestTracking's view: one connection with one upgrade.  Its handlers are through
\* with it once they have forgotten it, or when none is left that could.
Gone == sock["client"] = "closed"
Left == exec = "done" /\ upReq # "sent" /\ boot \in {"none", "stuck", "done"} /\ ws["client"] = "none"
Through == ~tracked \/ Left

Tracking == INSTANCE RequestTracking WITH
  Conns <- {"client"}, Txns <- {"upgrade"}, Kinds <- {"upgrade"},
  mode <- [c \in {"client"} |-> IF Gone THEN "closed" ELSE IF Through THEN "dead" ELSE "ws"],
  index <- [c \in {"client"} |-> IF Gone THEN "none" ELSE "upgrade"],
  activeRequests <- IF tracked THEN {"upgrade"} ELSE {},
  lifecycles <- [t \in {"upgrade"} |-> IF tracked THEN "upgrade" ELSE "none"],
  activeSockets <- IF Gone THEN {} ELSE {"client"},
  txn <- [t \in {"upgrade"} |->
            [st |-> IF Through THEN "closed" ELSE IF Gone THEN "unwinding" ELSE "inflight",
             kind |-> "upgrade", conn |-> "client", id |-> "upgrade", life |-> "upgrade"]]

\* Every step of an upgrade is one that RequestTracking allows, or none that it sees: it
\* is forgotten once, only by a handler that ends it, and by none after its last one.
TracksUpgrades == [][Tracking!Next]_(Tracking!vars)

-----------------------------------------------------------------------------
(* Statements about the program that the code does not keep. *)

\* A comment says that who hijacks a request becomes responsible for its connection: the
\* proxy does not close it because its own upstream request fails.
HijackedIsLeftAlone ==
  [][hijacked /\ upReq' = "failed" /\ upReq # "failed" => UNCHANGED sock]_vars
==============================================================================
