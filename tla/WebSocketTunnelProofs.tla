------------------------ MODULE WebSocketTunnelProofs ------------------------
(***************************************************************************)
(* Proofs about WebSocketTunnel, for any number of messages and whichever  *)
(* sides plugins listen to.                                                *)
(***************************************************************************)
EXTENDS WebSocketTunnel, SequenceTheorems, TLAPS

-----------------------------------------------------------------------------
(* The inductive invariant *)

NoWebSocket == \A s \in Side : ws[s] = "none" /\ closing[s] = "none" /\ failing[s] = "none"

\* There is no tunnel before the upstream has upgraded, and until then the lifecycle is
\* only forgotten together with the request.
UpgradeOpensTunnel ==
  /\ exec = "start" => upReq = "none"
  /\ exec = "dispatch" => upReq \in {"idle", "failed"}
  /\ upReq \in {"none", "idle", "sent", "ignored"} => tracked
  /\ upReq # "upgraded" => /\ boot = "none" /\ NoWebSocket /\ Len(from) = 0 /\ ~torn
                           /\ sock["upstream"] = "none"
  /\ boot \in {"none", "plugins"} => NoWebSocket

\* A close listener runs when its WebSocket has closed; while it waits, the peer's is
\* about to.
CloseListenersAgree ==
  \A s \in Side : /\ closing[s] # "none" => ws[s] = "closed"
                  /\ closing[s] = "waiting" => ws[Peer(s)] \in {"closing", "closed"}

IInv == TypeOK /\ UpgradeOpensTunnel /\ ForgottenIsClosed /\ CloseListenersAgree

-----------------------------------------------------------------------------
(* Operators *)

SocketStates == {"none", "open", "ending", "closed"}

LEMMA Sides ==
  /\ "client" \in Side /\ "upstream" \in Side
  /\ \A s \in Side : /\ Peer(s) \in Side /\ Peer(s) # s /\ Peer(Peer(s)) = s
                     /\ \A p \in Side : p = s \/ p = Peer(s)
BY DEF Side, Peer

LEMMA CleanUpCloses ==
  ASSUME NEW sk \in [Side -> SocketStates], NEW sides
  PROVE  /\ CleanUp(sk, sides) \in [Side -> SocketStates]
         /\ \A s \in Side : /\ sk[s] # "open" => CleanUp(sk, sides)[s] = sk[s]
                            /\ s \in sides => CleanUp(sk, sides)[s] # "open"
                            /\ s \notin sides => CleanUp(sk, sides)[s] = sk[s]
BY DEF CleanUp, SocketStates

\* A teardown, the first or a later one, leaves no socket open.
LEMMA TearDownCloses ==
  ASSUME NEW sk \in [Side -> SocketStates], torn => \A s \in Side : sk[s] # "open",
         TearDown(sk)
  PROVE  /\ sock' \in [Side -> SocketStates] /\ torn' = TRUE /\ tracked' = FALSE
         /\ \A s \in Side : sock'[s] # "open"
BY CleanUpCloses DEF TearDown

\* Steps of the tunnel itself: they touch neither request nor hijack.
Tunnelled == upReq = "upgraded" /\ UNCHANGED <<exec, upReq>> /\ hijacked' \in BOOLEAN

\* What a step does with messages.
Relayed ==
  /\ from' \in Seq(Side) /\ Len(from') <= MaxMessages
  /\ stage' \in Seq({"plugins", "events", "done"}) /\ Len(stage') = Len(from')
  /\ sent' \in Seq(Message)

LEMMA RelayedIfUnchanged ==
  ASSUME TypeOK, UNCHANGED msgVars
  PROVE  Relayed
BY DEF TypeOK, msgVars, Relayed

LEMMA TornIsClosed ==
  ASSUME IInv
  PROVE  /\ sock \in [Side -> SocketStates]
         /\ torn => \A s \in Side : sock[s] # "open"
         /\ ~tracked => \A s \in Side : sock[s] # "open"
BY DEF IInv, TypeOK, ForgottenIsClosed, SocketStates

-----------------------------------------------------------------------------
(* Setting the tunnel up *)

LEMMA ExecuteKeeps ==
  ASSUME IInv, Execute \/ ExecuteThrows
  PROVE  IInv'
<1>1. /\ exec = "start" /\ upReq = "none" /\ exec' \in {"dispatch", "done"}
      /\ upReq' \in {"none", "idle"} /\ (exec' = "dispatch" => upReq' = "idle") 
      /\ UNCHANGED <<boot, hijacked, tracked, torn, ws, code, closing, failing, from, stage, sent>>
  BY DEF Execute, ExecuteThrows, IInv, UpgradeOpensTunnel, scopeVars, sockVars, wsVars, msgVars
<1>2. /\ sock' \in [Side -> SocketStates] /\ sock'["upstream"] = sock["upstream"]
      /\ \A s \in Side : sock[s] # "open" => sock'[s] # "open"
  BY TornIsClosed, CleanUpCloses, Sides DEF Execute, ExecuteThrows, sockVars
<1>3. TypeOK'
  BY <1>1, <1>2 DEF IInv, TypeOK, SocketStates
<1>4. UpgradeOpensTunnel'
  BY <1>1, <1>2 DEF IInv, UpgradeOpensTunnel, NoWebSocket
<1>5. ForgottenIsClosed'
  BY <1>1, <1>2 DEF IInv, ForgottenIsClosed
<1>6. CloseListenersAgree'
  BY <1>1 DEF IInv, CloseListenersAgree
<1> QED
  BY <1>3, <1>4, <1>5, <1>6 DEF IInv

LEMMA DispatchReturnsKeeps ==
  ASSUME IInv, NEW o \in {"ok", "abort", "error"}, DispatchReturns(o)
  PROVE  IInv'
<1>1. /\ exec = "dispatch" /\ upReq \in {"idle", "failed"} /\ exec' = "done"
      /\ UNCHANGED <<hijacked, boot, ws, code, closing, failing, from, stage, sent>>
  BY DEF DispatchReturns, IInv, UpgradeOpensTunnel, wsVars, msgVars
<1>2. CASE o # "error"
  <2>1. /\ upReq' \in {upReq, "sent"} /\ (upReq = "failed" => upReq' = "failed")
        /\ UNCHANGED <<tracked, torn, sock>>
    BY <1>1, <1>2 DEF DispatchReturns, KeepTunnel
  <2> QED
    BY <1>1, <2>1
    DEF IInv, TypeOK, UpgradeOpensTunnel, NoWebSocket, ForgottenIsClosed, CloseListenersAgree
<1>3. CASE o = "error"
  <2>1. /\ upReq' \in {"failed", "destroyed"} /\ sock' = CleanUp(sock, {"client"})
        /\ tracked' = FALSE /\ UNCHANGED torn
    BY <1>1, <1>3 DEF DispatchReturns, Abandon
  <2>2. /\ sock' \in [Side -> SocketStates] /\ sock'["upstream"] = "none"
        /\ sock'["client"] # "open"
    BY <1>1, <2>1, TornIsClosed, CleanUpCloses, Sides DEF IInv, UpgradeOpensTunnel
  <2>3. TypeOK'
    BY <1>1, <2>1, <2>2 DEF IInv, TypeOK, SocketStates
  <2>4. UpgradeOpensTunnel'
    BY <1>1, <2>1, <2>2 DEF IInv, UpgradeOpensTunnel, NoWebSocket
  <2>5. ForgottenIsClosed'
    BY <2>1, <2>2 DEF ForgottenIsClosed, Side
  <2>6. CloseListenersAgree'
    BY <1>1 DEF IInv, CloseListenersAgree
  <2> QED
    BY <2>3, <2>4, <2>5, <2>6 DEF IInv
<1> QED
  BY <1>2, <1>3

LEMMA UpstreamKeeps ==
  ASSUME IInv, UpstreamFails \/ UpstreamIsIgnored \/ UpstreamUpgrades
  PROVE  IInv'
<1>1. /\ upReq \in {"idle", "sent", "ignored"} /\ tracked /\ ~torn /\ exec # "start"
      /\ upReq' \in {"failed", "ignored", "upgraded"}
      /\ upReq' # "failed" => exec = "done"
      /\ upReq' # "upgraded" => boot' = boot /\ sock'["upstream"] = sock["upstream"]
      /\ boot' \in {boot, "plugins"}
      /\ UNCHANGED <<exec, hijacked, tracked, torn, ws, code, closing, failing, from, stage, sent>>
  BY CleanUpCloses, TornIsClosed, Sides
  DEF UpstreamFails, UpstreamIsIgnored, UpstreamUpgrades, IInv, TypeOK, UpgradeOpensTunnel,
      scopeVars, sockVars, wsVars, msgVars
<1>2. sock' \in [Side -> SocketStates]
  BY CleanUpCloses, TornIsClosed
  DEF UpstreamFails, UpstreamIsIgnored, UpstreamUpgrades, sockVars, SocketStates
<1>3. TypeOK'
  BY <1>1, <1>2 DEF IInv, TypeOK, SocketStates
<1>4. UpgradeOpensTunnel'
  BY <1>1 DEF IInv, UpgradeOpensTunnel, NoWebSocket
<1>5. ForgottenIsClosed'
  BY <1>1 DEF ForgottenIsClosed
<1>6. CloseListenersAgree'
  BY <1>1 DEF IInv, CloseListenersAgree
<1> QED
  BY <1>3, <1>4, <1>5, <1>6 DEF IInv

LEMMA UpgradePluginsReturnKeeps ==
  ASSUME IInv, NEW o \in {"ok", "abort", "error"}, NEW b \in BOOLEAN, UpgradePluginsReturn(o, b)
  PROVE  IInv'
<1>1. /\ boot = "plugins" /\ upReq = "upgraded" /\ NoWebSocket
      /\ boot' \in {"established", "stuck", "done"}
      /\ UNCHANGED <<hijacked, exec, upReq, code, closing, failing, from, stage, sent>>
  BY DEF UpgradePluginsReturn, Bridge, IInv, UpgradeOpensTunnel, msgVars
<1>2. ws' \in [Side -> {"none", "open", "closing", "closed"}]
  BY DEF UpgradePluginsReturn, Bridge, IInv, TypeOK
<1>3. /\ sock' \in [Side -> SocketStates] /\ tracked' \in BOOLEAN /\ torn' \in BOOLEAN
      /\ ForgottenIsClosed'
  <2>1. CASE o = "ok" /\ ~hijacked
    <3>1. /\ UNCHANGED <<tracked, torn>>
          /\ sock' \in {sock, CleanUp(sock, {"client"})}
      BY <2>1 DEF UpgradePluginsReturn, Bridge
    <3>2. /\ sock' \in [Side -> SocketStates]
          /\ \A s \in Side : sock[s] # "open" => sock'[s] # "open"
      BY <3>1, TornIsClosed, CleanUpCloses
    <3> QED
      BY <3>1, <3>2 DEF IInv, TypeOK, ForgottenIsClosed
  <2>2. CASE ~(o = "ok" /\ ~hijacked) /\ o = "ok"
    BY <2>2, TornIsClosed DEF UpgradePluginsReturn, KeepTunnel, IInv, TypeOK, ForgottenIsClosed
  <2>3. CASE o # "ok"
    BY <2>3, TornIsClosed, TearDownCloses DEF UpgradePluginsReturn, ForgottenIsClosed
  <2> QED
    BY <2>1, <2>2, <2>3
<1>4. TypeOK'
  BY <1>1, <1>2, <1>3 DEF IInv, TypeOK, SocketStates
<1>5. UpgradeOpensTunnel'
  BY <1>1 DEF IInv, UpgradeOpensTunnel
<1>6. CloseListenersAgree'
  BY <1>1 DEF NoWebSocket, CloseListenersAgree
<1> QED
  BY <1>3, <1>4, <1>5, <1>6 DEF IInv
-----------------------------------------------------------------------------
(* The tunnel *)

\* What tears the tunnel down, or leaves it as it is, keeps what is said of the sockets.
LEMMA TearDownOrKeep ==
  ASSUME IInv, TearDown(sock) \/ KeepTunnel
  PROVE  /\ sock' \in [Side -> SocketStates] /\ tracked' \in BOOLEAN /\ torn' \in BOOLEAN
         /\ ForgottenIsClosed'
<1>1. CASE TearDown(sock)
  BY <1>1, TornIsClosed, TearDownCloses DEF ForgottenIsClosed
<1>2. CASE KeepTunnel
  BY <1>2, TornIsClosed DEF KeepTunnel, IInv, TypeOK, ForgottenIsClosed
<1> QED
  BY <1>1, <1>2

\* The invariant, for a step of the tunnel that changes no WebSocket.
LEMMA TunnelStepKeeps ==
  ASSUME IInv, Tunnelled, Relayed,
         UNCHANGED <<ws, code, closing>>, failing' \in [Side -> {"none", "listeners", "done"}],
         boot' \in {boot, "done"},
         /\ sock' \in [Side -> SocketStates] /\ tracked' \in BOOLEAN /\ torn' \in BOOLEAN
         /\ ForgottenIsClosed',
         NoWebSocket => UNCHANGED failing
  PROVE  IInv'
<1>1. TypeOK'
  BY DEF IInv, TypeOK, Tunnelled, Relayed, SocketStates
<1>2. UpgradeOpensTunnel'
  BY DEF IInv, UpgradeOpensTunnel, NoWebSocket, Tunnelled
<1>3. CloseListenersAgree'
  BY DEF IInv, CloseListenersAgree
<1> QED
  BY <1>1, <1>2, <1>3 DEF IInv

LEMMA EstablishedReturnsKeeps ==
  ASSUME IInv, NEW o \in {"ok", "abort", "error"}, EstablishedReturns(o)
  PROVE  IInv'
<1>1. /\ Tunnelled /\ boot' = "done" /\ UNCHANGED <<ws, code, closing, failing>> /\ Relayed
      /\ TearDown(sock) \/ KeepTunnel
      /\ failing' \in [Side -> {"none", "listeners", "done"}]
  BY RelayedIfUnchanged
  DEF EstablishedReturns, Tunnelled, IInv, TypeOK, UpgradeOpensTunnel, wsVars
<1> QED
  BY <1>1, TearDownOrKeep, TunnelStepKeeps

LEMMA HijackKeeps ==
  ASSUME IInv, Hijack
  PROVE  IInv'
<1>1. /\ hijacked' = TRUE
      /\ UNCHANGED <<tracked, exec, upReq, boot, torn, sock, ws, code, closing, failing,
                     from, stage, sent>>
  BY DEF Hijack, bootVars, sockVars, wsVars, msgVars
<1> QED
  BY <1>1 DEF IInv, TypeOK, UpgradeOpensTunnel, NoWebSocket, ForgottenIsClosed,
              CloseListenersAgree

LEMMA ClientDestroyedKeeps ==
  ASSUME IInv, ClientDestroyed
  PROVE  IInv'
<1>1. /\ UNCHANGED <<hijacked, tracked, exec, upReq, boot, torn, ws, code, closing, failing,
                     from, stage, sent>>
      /\ sock' \in [Side -> SocketStates] /\ sock'["upstream"] = sock["upstream"]
      /\ \A s \in Side : sock[s] # "open" => sock'[s] # "open"
  BY Sides DEF ClientDestroyed, IInv, TypeOK, SocketStates, scopeVars, bootVars, wsVars, msgVars
<1> QED
  BY <1>1 DEF IInv, TypeOK, UpgradeOpensTunnel, NoWebSocket, ForgottenIsClosed,
              CloseListenersAgree, SocketStates

-----------------------------------------------------------------------------
(* Messages *)

LEMMA ForwardTypes ==
  ASSUME sent \in Seq(Message), NEW m \in Message, NEW s \in Side, Forward(m, s)
  PROVE  sent' \in Seq(Message)
BY AppendProperties DEF Forward

LEMMA MessagesKeep ==
  ASSUME IInv, Messages
  PROVE  IInv'
<1>1. ASSUME NEW s \in Side, Receive(s)
      PROVE  IInv'
  <2> DEFINE new == IF s \in Listened THEN "plugins" ELSE "events"
  <2>1. /\ ws[s] = "open" /\ from' = Append(from, s) /\ stage' = Append(stage, new)
        /\ Len(from) < MaxMessages
        /\ UNCHANGED <<hijacked, tracked, exec, upReq, boot, torn, sock, ws, code, closing,
                       failing>>
    BY <1>1 DEF Receive, scopeVars, bootVars, sockVars, wsVars
  <2>2. Tunnelled
    BY <2>1, <1>1 DEF IInv, TypeOK, UpgradeOpensTunnel, NoWebSocket, Tunnelled
  <2>3. from' \in Seq(Side) /\ Len(from') = Len(from) + 1 /\ Len(from) \in Nat
    BY <2>1, AppendProperties DEF IInv, TypeOK
  <2>4. /\ stage' \in Seq({"plugins", "events", "done"}) /\ Len(stage') = Len(stage) + 1
    BY <2>1, AppendProperties DEF IInv, TypeOK
  <2>5. Len(from) + 1 \in Message
    BY <2>1, <2>3, MaxMessagesAssumption DEF Message
  <2>6. sent' \in Seq(Message)
    BY <1>1, <2>5, ForwardTypes DEF Receive, IInv, TypeOK
  <2>7. Relayed
    BY <2>1, <2>3, <2>4, <2>6, MaxMessagesAssumption DEF Relayed, IInv, TypeOK
  <2>8. KeepTunnel /\ failing' \in [Side -> {"none", "listeners", "done"}]
    BY <2>1 DEF KeepTunnel, IInv, TypeOK
  <2> QED
    BY <2>1, <2>2, <2>7, <2>8, TearDownOrKeep, TunnelStepKeeps
<1>2. ASSUME NEW m \in 1..Len(stage), NEW o \in {"ok", "abort", "error"},
             \/ MessagePluginsReturn(m, o) \/ MessageEventsReturn(m, o) \/ PluginsDrop(m)
      PROVE  IInv'
  <2>1. /\ UNCHANGED <<hijacked, exec, upReq, boot, ws, code, closing, failing, from>>
        /\ TearDown(sock) \/ KeepTunnel
    BY <1>2 DEF MessagePluginsReturn, MessageEventsReturn, PluginsDrop, KeepTunnel,
                scopeVars, sockVars, bootVars, wsVars
  <2>2. Tunnelled /\ m \in 1..Len(from)
    BY <2>1 DEF IInv, TypeOK, UpgradeOpensTunnel, Tunnelled
  <2>3. PICK new \in {"plugins", "events", "done"} : stage' = [stage EXCEPT ![m] = new]
    BY <1>2 DEF MessagePluginsReturn, MessageEventsReturn, PluginsDrop
  <2>4. stage' \in Seq({"plugins", "events", "done"}) /\ Len(stage') = Len(stage)
    BY <2>3, ExceptSeq DEF IInv, TypeOK
  <2>5. m \in Message /\ from[m] \in Side
    BY <2>2, MaxMessagesAssumption DEF IInv, TypeOK, Message
  <2>6. sent' \in Seq(Message)
    BY <1>2, <2>5, ForwardTypes
    DEF MessagePluginsReturn, MessageEventsReturn, PluginsDrop, IInv, TypeOK
  <2>7. Relayed
    BY <2>1, <2>4, <2>6 DEF Relayed, IInv, TypeOK
  <2>8. failing' \in [Side -> {"none", "listeners", "done"}]
    BY <2>1 DEF IInv, TypeOK
  <2> QED
    BY <2>1, <2>2, <2>7, <2>8, TearDownOrKeep, TunnelStepKeeps
<1>3. "ok" \in {"ok", "abort", "error"}
  OBVIOUS
<1> QED
  BY <1>1, <1>2, <1>3 DEF Messages, Outcome
-----------------------------------------------------------------------------
(* Closing *)

WebSocketTypes ==
  /\ ws \in [Side -> {"none", "open", "closing", "closed"}]
  /\ code \in [Side -> {"none", "normal", "reserved"}]
  /\ closing \in [Side -> {"none", "listeners", "waiting", "done"}]
  /\ failing \in [Side -> {"none", "listeners", "done"}]

\* The invariant, for a step of the close and error listeners or of a socket.
LEMMA CloseStepKeeps ==
  ASSUME IInv, UNCHANGED <<hijacked, exec, upReq, boot, msgVars>>, WebSocketTypes',
         /\ sock' \in [Side -> SocketStates] /\ tracked' \in BOOLEAN /\ torn' \in BOOLEAN
         /\ ForgottenIsClosed',
         NoWebSocket => /\ NoWebSocket' /\ UNCHANGED <<tracked, torn>>
                        /\ sock["upstream"] = "none" => sock'["upstream"] = "none",
         CloseListenersAgree'
  PROVE  IInv'
<1>1. TypeOK'
  BY RelayedIfUnchanged DEF IInv, TypeOK, WebSocketTypes, SocketStates, Relayed
<1>2. UpgradeOpensTunnel'
  BY DEF IInv, UpgradeOpensTunnel, msgVars
<1> QED
  BY <1>1, <1>2 DEF IInv

\* A side ends its socket, with a close frame, a broken one, or the answer to one.
LEMMA SideEndsKeeps ==
  ASSUME IInv, NEW s \in Side,
         \/ \E c \in {"normal", "reserved"} : SideCloses(s, c)
         \/ SideFails(s) \/ SideAnswersClose(s)
  PROVE  IInv'
<1>1. /\ ws[s] \in {"open", "closing"} /\ sock' = [sock EXCEPT ![s] = "ending"]
      /\ ws' \in {ws, [ws EXCEPT ![s] = "closing"]}
      /\ UNCHANGED <<hijacked, tracked, exec, upReq, boot, torn, closing, msgVars>>
  BY DEF SideCloses, SideFails, SideAnswersClose, scopeVars, bootVars, wsVars
<1>2. WebSocketTypes'
  <2>1. WebSocketTypes
    BY DEF WebSocketTypes, IInv, TypeOK
  <2>2. ASSUME NEW c \in {"normal", "reserved"}, SideCloses(s, c)
        PROVE  WebSocketTypes'
    BY <2>1, <2>2 DEF SideCloses, WebSocketTypes
  <2>3. CASE SideFails(s)
    BY <2>1, <2>3 DEF SideFails, WebSocketTypes
  <2>4. CASE SideAnswersClose(s)
    BY <2>1, <2>4 DEF SideAnswersClose, wsVars, WebSocketTypes
  <2> QED
    BY <2>2, <2>3, <2>4
<1>3. sock' \in [Side -> SocketStates] /\ \A p \in Side : sock[p] # "open" => sock'[p] # "open"
  BY <1>1, TornIsClosed DEF SocketStates
<1>4. tracked' \in BOOLEAN /\ torn' \in BOOLEAN /\ ForgottenIsClosed'
  BY <1>1, <1>3 DEF IInv, TypeOK, ForgottenIsClosed
<1>5. ~NoWebSocket
  BY <1>1 DEF NoWebSocket
<1>6. CloseListenersAgree'
  <2>1. closing' = closing /\ closing[s] = "none" /\ ws \in [Side -> {"none", "open", "closing", "closed"}]
    BY <1>1 DEF IInv, TypeOK, CloseListenersAgree
  <2>2. \A p \in Side : p # s => ws'[p] = ws[p]
    BY <1>1, <2>1
  <2>3. ws'[s] \in {"open", "closing"} /\ (ws[s] = "closing" => ws'[s] = "closing")
    BY <1>1, <2>1
  <2>4. ASSUME NEW p \in Side
        PROVE  /\ closing[p] # "none" => ws'[p] = "closed"
               /\ closing[p] = "waiting" => ws'[Peer(p)] \in {"closing", "closed"}
    <3>1. /\ closing[p] # "none" => ws[p] = "closed"
          /\ closing[p] = "waiting" => ws[Peer(p)] \in {"closing", "closed"}
      BY DEF IInv, CloseListenersAgree
    <3>2. Peer(p) \in Side
      BY Sides
    <3> QED
      BY <2>1, <2>2, <2>3, <3>1, <3>2, <1>1
  <2> QED
    BY <2>1, <2>4 DEF CloseListenersAgree
<1> QED
  BY <1>1, <1>2, <1>3, <1>4, <1>5, <1>6, CloseStepKeeps

LEMMA SocketClosesKeeps ==
  ASSUME IInv, NEW s \in Side, SocketCloses(s)
  PROVE  IInv'
<1> DEFINE closed == [sock EXCEPT ![s] = "closed"]
<1>1. /\ sock[s] = "ending" /\ UNCHANGED <<hijacked, exec, upReq, boot, msgVars, failing>>
      /\ IF closing[Peer(s)] = "waiting" THEN TearDown(closed)
         ELSE sock' = closed /\ UNCHANGED <<tracked, torn>>
  BY DEF SocketCloses, bootVars
<1>2. /\ ws' = [ws EXCEPT ![s] = IF ws[s] = "none" THEN "none" ELSE "closed"]
      /\ code' = [code EXCEPT ![s] = IF code[s] = "none" THEN "reserved" ELSE code[s]]
      /\ closing' = [closing EXCEPT ![s] = IF ws[s] = "none" THEN closing[s] ELSE "listeners"]
  BY DEF SocketCloses
<1>3. WebSocketTypes'
  BY <1>1, <1>2 DEF WebSocketTypes, IInv, TypeOK
<1>4. /\ closed \in [Side -> SocketStates]
      /\ \A p \in Side : sock[p] # "open" => closed[p] # "open"
      /\ torn => \A p \in Side : closed[p] # "open"
  BY TornIsClosed DEF SocketStates
<1>5. /\ sock' \in [Side -> SocketStates] /\ tracked' \in BOOLEAN /\ torn' \in BOOLEAN
      /\ ForgottenIsClosed'
  <2>1. CASE closing[Peer(s)] = "waiting"
    BY <1>1, <1>4, <2>1, TearDownCloses DEF ForgottenIsClosed
  <2>2. CASE closing[Peer(s)] # "waiting"
    BY <1>1, <1>4, <2>2 DEF IInv, TypeOK, ForgottenIsClosed
  <2> QED
    BY <2>1, <2>2
<1>6. ASSUME NoWebSocket
      PROVE  /\ NoWebSocket' /\ UNCHANGED <<tracked, torn>>
             /\ sock["upstream"] = "none" => sock'["upstream"] = "none"
  BY <1>1, <1>2, <1>6, Sides, TornIsClosed DEF NoWebSocket, IInv, TypeOK
<1>7. CloseListenersAgree'
  BY <1>1, <1>2, Sides DEF IInv, TypeOK, CloseListenersAgree
<1> QED
  BY <1>1, <1>3, <1>5, <1>6, <1>7, CloseStepKeeps

LEMMA CloseListenersReturnKeeps ==
  ASSUME IInv, NEW s \in Side, CloseListenersReturn(s)
  PROVE  IInv'
<1>1. /\ closing[s] = "listeners" /\ UNCHANGED <<hijacked, exec, upReq, boot, code, failing, msgVars>>
      /\ \/ /\ ws[Peer(s)] = "open" /\ ws' = [ws EXCEPT ![Peer(s)] = "closing"]
            /\ closing' = [closing EXCEPT ![s] = "waiting"]
         \/ UNCHANGED ws /\ closing' = [closing EXCEPT ![s] = "done"]
      /\ TearDown(sock) \/ KeepTunnel
  BY DEF CloseListenersReturn, bootVars
<1>2. WebSocketTypes'
  <2>1. WebSocketTypes
    BY DEF WebSocketTypes, IInv, TypeOK
  <2>2. CASE /\ ws' = [ws EXCEPT ![Peer(s)] = "closing"]
             /\ closing' = [closing EXCEPT ![s] = "waiting"]
    BY <1>1, <2>1, <2>2 DEF WebSocketTypes
  <2>3. CASE UNCHANGED ws /\ closing' = [closing EXCEPT ![s] = "done"]
    BY <1>1, <2>1, <2>3 DEF WebSocketTypes
  <2> QED
    BY <1>1, <2>2, <2>3
<1>3. ~NoWebSocket
  BY <1>1 DEF NoWebSocket
<1>4. CloseListenersAgree'
  BY <1>1, Sides DEF IInv, TypeOK, CloseListenersAgree
<1> QED
  BY <1>1, <1>2, <1>3, <1>4, TearDownOrKeep, CloseStepKeeps

LEMMA CloseTimesOutKeeps ==
  ASSUME IInv, NEW s \in Side, CloseTimesOut(s) \/ ErrorListenersReturn(s)
  PROVE  IInv'
<1>1. /\ closing[s] = "waiting" \/ (failing[s] = "listeners" /\ closing' = closing)
      /\ closing' \in {closing, [closing EXCEPT ![s] = "done"]}
      /\ closing' # closing => closing[s] = "waiting"
      /\ UNCHANGED <<hijacked, exec, upReq, boot, ws, code, msgVars>> /\ TearDown(sock)
  BY DEF CloseTimesOut, ErrorListenersReturn, bootVars
<1>2. WebSocketTypes'
  BY <1>1 DEF CloseTimesOut, ErrorListenersReturn, WebSocketTypes, IInv, TypeOK
<1>3. ~NoWebSocket
  BY <1>1 DEF NoWebSocket
<1>4. CloseListenersAgree'
  BY <1>1, Sides DEF IInv, TypeOK, CloseListenersAgree
<1> QED
  BY <1>1, <1>2, <1>3, <1>4, TearDownOrKeep, CloseStepKeeps

-----------------------------------------------------------------------------
(* The theorems *)

LEMMA InitSound == Init => IInv
<1> SUFFICES ASSUME Init PROVE IInv
  OBVIOUS
<1>1. /\ from \in Seq(Side) /\ Len(from) = 0 /\ stage \in Seq({"plugins", "events", "done"})
      /\ Len(stage) = 0 /\ sent \in Seq(Message)
  BY DEF Init
<1>2. TypeOK
  <2>1. sock \in [Side -> {"none", "open", "ending", "closed"}]
    BY DEF Init
  <2>2. /\ ws \in [Side -> {"none", "open", "closing", "closed"}]
        /\ code \in [Side -> {"none", "normal", "reserved"}]
        /\ closing \in [Side -> {"none", "listeners", "waiting", "done"}]
        /\ failing \in [Side -> {"none", "listeners", "done"}]
    BY DEF Init
  <2>3. Len(from) <= MaxMessages
    BY <1>1, MaxMessagesAssumption
  <2> QED
    BY <1>1, <2>1, <2>2, <2>3 DEF Init, TypeOK
<1>3. UpgradeOpensTunnel
  BY <1>1, Sides DEF Init, UpgradeOpensTunnel, NoWebSocket
<1> QED
  BY <1>2, <1>3 DEF Init, IInv, ForgottenIsClosed, CloseListenersAgree

LEMMA StepKeeps == IInv /\ [Next]_vars => IInv'
<1> SUFFICES ASSUME IInv, [Next]_vars
             PROVE  IInv'
  OBVIOUS
<1>1. CASE Setup
  BY <1>1, ExecuteKeeps, DispatchReturnsKeeps, UpstreamKeeps, UpgradePluginsReturnKeeps,
     EstablishedReturnsKeeps DEF Setup, Outcome
<1>2. CASE Messages
  BY <1>2, MessagesKeep
<1>3. ASSUME NEW s \in Side, SideSteps(s)
      PROVE  IInv'
  BY <1>3, SideEndsKeeps, SocketClosesKeeps, CloseListenersReturnKeeps, CloseTimesOutKeeps
  DEF SideSteps
<1>4. CASE ClientDestroyed \/ Hijack
  BY <1>4, ClientDestroyedKeeps, HijackKeeps
<1>5. CASE UNCHANGED vars
  BY <1>5 DEF vars, scopeVars, bootVars, sockVars, wsVars, msgVars, IInv, TypeOK,
              UpgradeOpensTunnel, NoWebSocket, ForgottenIsClosed, CloseListenersAgree
<1> QED
  BY <1>1, <1>2, <1>3, <1>4, <1>5 DEF Next

\* The invariant holds in every behaviour of an upgrade and its tunnel.
THEOREM TunnelInductive == Spec => []IInv
<1> QED
  BY InitSound, StepKeeps, PTL DEF Spec

\* Every variable of the tunnel keeps its type.
THEOREM TunnelTypeCorrect == Spec => []TypeOK
<1>1. IInv => TypeOK
  BY DEF IInv
<1> QED
  BY <1>1, TunnelInductive, PTL

\* ContextManager forgets a tunnel only when both of its sockets are going or gone.
THEOREM ForgottenTunnelIsClosed == Spec => []ForgottenIsClosed
<1>1. IInv => ForgottenIsClosed
  BY DEF IInv
<1> QED
  BY <1>1, TunnelInductive, PTL

\* The close listeners tear the tunnel down only when the peer has been told.
THEOREM ClosingTellsPeer == Spec => PeerIsTold
<1>1. IInv /\ [Next]_vars =>
        [torn' /\ ~torn /\ closing' # closing => \A s \in Side : ws'[s] # "open"]_vars
  <2> SUFFICES ASSUME IInv, Next, torn', ~torn, closing' # closing
               PROVE  \A s \in Side : ws'[s] # "open"
    OBVIOUS
  <2>1. PICK s \in Side : SocketCloses(s) \/ CloseListenersReturn(s) \/ CloseTimesOut(s)
    BY DEF Next, Setup, Messages, SideSteps, Execute, ExecuteThrows, DispatchReturns,
           UpgradePluginsReturn, EstablishedReturns, UpstreamFails, UpstreamIsIgnored,
           UpstreamUpgrades, Receive, MessagePluginsReturn, MessageEventsReturn, PluginsDrop,
           SideCloses, SideFails, SideAnswersClose, ErrorListenersReturn, ClientDestroyed,
           Hijack, wsVars
  <2>2. CASE SocketCloses(s)
    <3>1. closing[Peer(s)] = "waiting"
      BY <2>2 DEF SocketCloses
    <3>2. ws[Peer(s)] = "closed" /\ ws[s] \in {"closing", "closed"}
      BY <3>1, Sides DEF IInv, CloseListenersAgree
    <3>3. ws' = [ws EXCEPT ![s] = IF ws[s] = "none" THEN "none" ELSE "closed"]
      BY <2>2 DEF SocketCloses
    <3> QED
      BY <3>2, <3>3, Sides DEF IInv, TypeOK
  <2>3. CASE CloseListenersReturn(s)
    <3>1. ws[Peer(s)] # "open" /\ ws' = ws /\ ws[s] = "closed"
      BY <2>3 DEF CloseListenersReturn, KeepTunnel, IInv, CloseListenersAgree
    <3> QED
      BY <3>1, Sides
  <2>4. CASE CloseTimesOut(s)
    <3>1. ws[Peer(s)] # "open" /\ ws' = ws /\ ws[s] = "closed"
      BY <2>4 DEF CloseTimesOut, IInv, CloseListenersAgree
    <3> QED
      BY <3>1, Sides
  <2> QED
    BY <2>1, <2>2, <2>3, <2>4
<1> QED
  BY <1>1, TunnelInductive, PTL DEF Spec, PeerIsTold
-----------------------------------------------------------------------------
(* The tunnel implements MessageRelay *)

\* What has been sent has passed its plugins, and only listened messages meet any.
SentIsHeard == \A i \in 1..Len(sent) : sent[i] \in 1..Len(from) /\ stage[sent[i]] # "plugins"
PluginsListen == \A m \in 1..Len(stage) : stage[m] = "plugins" => from[m] \in Listened
RInv == IInv /\ SentIsHeard /\ PluginsListen

RelayStep == [Relay!Next]_(Relay!relayVars)

\* A step that neither receives nor sends cuts the relay, or is none for it.
LEMMA SilentStep ==
  ASSUME IInv, IInv', UNCHANGED <<from, sent>>, hijacked => hijacked', torn => torn'
  PROVE  RelayStep
<1>1. hijacked \in BOOLEAN /\ torn \in BOOLEAN /\ hijacked' \in BOOLEAN /\ torn' \in BOOLEAN
  BY DEF IInv, TypeOK
<1>2. CASE ~(hijacked \/ torn) /\ (hijacked' \/ torn')
  <2>1. Relay!End
    BY <1>1, <1>2 DEF Relay!End
  <2> QED
    BY <2>1 DEF RelayStep, Relay!Next
<1>3. CASE (hijacked \/ torn) = (hijacked' \/ torn')
  BY <1>3 DEF RelayStep, Relay!relayVars
<1> QED
  BY <1>1, <1>2, <1>3

LEMMA SilentInvariant ==
  ASSUME RInv, IInv', UNCHANGED <<from, sent, stage>>
  PROVE  RInv'
BY DEF RInv, SentIsHeard, PluginsListen

LEMMA ReceiveRelays ==
  ASSUME RInv, IInv', NEW s \in Side, Receive(s)
  PROVE  SentIsHeard' /\ PluginsListen' /\ RelayStep
<1> DEFINE new == Len(from) + 1
           first == IF s \in Listened THEN "plugins" ELSE "events"
<1>1. /\ Len(from) < MaxMessages /\ from' = Append(from, s) /\ stage' = Append(stage, first)
      /\ UNCHANGED <<hijacked, torn>>
      /\ from \in Seq(Side) /\ stage \in Seq({"plugins", "events", "done"})
      /\ sent \in Seq(Message) /\ Len(stage) = Len(from) /\ Len(from) \in Nat
  BY DEF Receive, scopeVars, sockVars, RInv, IInv, TypeOK
<1>2. /\ sent' = sent \/ (s \notin Listened /\ ~hijacked /\ ~torn /\ sent' = Append(sent, new))
  BY TornIsClosed, Sides DEF Receive, Forward, RInv
<1>3. /\ Len(from') = new /\ from'[new] = s
      /\ \A m \in 1..Len(from) : from'[m] = from[m]
  BY <1>1, AppendProperties
<1>4. /\ Len(stage') = new /\ stage'[new] = first
      /\ \A m \in 1..Len(from) : stage'[m] = stage[m]
  BY <1>1, AppendProperties
<1>5. /\ new \in Message /\ new \in 1..new /\ new \notin 1..Len(from)
      /\ \A m \in 1..new : m \in 1..Len(from) \/ m = new
      /\ \A m \in 1..Len(from) : m \in 1..new /\ m < new
  BY <1>1, MaxMessagesAssumption DEF Message
<1>6. PluginsListen'
  BY <1>1, <1>3, <1>4, <1>5 DEF PluginsListen, RInv
<1>7. CASE sent' = sent
  <2>1. SentIsHeard'
    BY <1>1, <1>3, <1>4, <1>5, <1>7 DEF SentIsHeard, RInv
  <2>2. Relay!Receive(s)
    BY <1>1, <1>7 DEF Relay!Receive
  <2> QED
    BY <1>6, <2>1, <2>2 DEF RelayStep, Relay!Next
<1>8. CASE s \notin Listened /\ ~hijacked /\ ~torn /\ sent' = Append(sent, new)
  <2>1. /\ Len(sent') = Len(sent) + 1 /\ sent'[Len(sent) + 1] = new /\ Len(sent) \in Nat
        /\ \A i \in 1..Len(sent) : sent'[i] = sent[i]
    BY <1>1, <1>5, <1>8, AppendProperties
  <2>2. SentIsHeard'
    <3> SUFFICES ASSUME NEW i \in 1..Len(sent')
                 PROVE  sent'[i] \in 1..Len(from') /\ stage'[sent'[i]] # "plugins"
      BY DEF SentIsHeard
    <3>1. CASE i \in 1..Len(sent)
      BY <1>3, <1>4, <1>5, <2>1, <3>1 DEF SentIsHeard, RInv
    <3>2. CASE i = Len(sent) + 1
      BY <1>3, <1>4, <1>5, <1>8, <2>1, <3>2
    <3> QED
      BY <2>1, <3>1, <3>2
  <2>3. new \notin Relay!ToSet(sent) /\ \A k \in Relay!ToSet(sent) : k < new
    <3>1. \A k \in Relay!ToSet(sent) : k \in 1..Len(from)
      BY DEF Relay!ToSet, SentIsHeard, RInv
    <3> QED
      BY <1>5, <3>1
  <2>4. Relay!Deliver(new, Append(from, s))
    BY <1>1, <1>8, <2>3 DEF Relay!Deliver
  <2>5. Relay!ReceiveAndDeliver(s)
    BY <1>1, <2>4 DEF Relay!ReceiveAndDeliver
  <2> QED
    BY <1>6, <2>2, <2>5 DEF RelayStep, Relay!Next
<1> QED
  BY <1>2, <1>7, <1>8

LEMMA MessageStepRelays ==
  ASSUME RInv, IInv', NEW m \in 1..Len(stage), NEW o \in {"ok", "abort", "error"},
         MessagePluginsReturn(m, o) \/ MessageEventsReturn(m, o) \/ PluginsDrop(m)
  PROVE  SentIsHeard' /\ PluginsListen' /\ RelayStep
<1>1. PICK new \in {"events", "done"} : stage' = [stage EXCEPT ![m] = new]
  BY DEF MessagePluginsReturn, MessageEventsReturn, PluginsDrop
<1>2. /\ from' = from /\ hijacked' = hijacked /\ (torn => torn')
      /\ stage \in Seq({"plugins", "events", "done"}) /\ Len(stage) = Len(from)
      /\ sent \in Seq(Message) /\ from \in Seq(Side)
  BY DEF MessagePluginsReturn, MessageEventsReturn, PluginsDrop, KeepTunnel, TearDown,
         scopeVars, sockVars, RInv, IInv, TypeOK
<1>3. /\ Len(stage') = Len(stage) /\ stage'[m] = new
      /\ \A k \in 1..Len(stage) : k # m => stage'[k] = stage[k]
  <2>1. new \in {"plugins", "events", "done"}
    OBVIOUS
  <2> QED
    BY <1>1, <1>2, <2>1, ExceptSeq
<1>4. PluginsListen'
  BY <1>1, <1>2, <1>3 DEF PluginsListen, RInv
<1>5. CASE sent' = sent
  <2>1. SentIsHeard'
    BY <1>1, <1>2, <1>3, <1>5 DEF SentIsHeard, RInv
  <2> QED
    BY <1>2, <1>4, <1>5, <2>1, SilentStep DEF RInv
<1>6. CASE sent' # sent
  <2>1. /\ stage[m] = "plugins" /\ ~hijacked /\ ~torn /\ torn' = torn /\ sent' = Append(sent, m)
    BY <1>6, <1>2, TornIsClosed, Sides
    DEF MessagePluginsReturn, MessageEventsReturn, PluginsDrop, Forward, KeepTunnel, RInv
  <2>2. m \in Message
    BY <1>2, MaxMessagesAssumption DEF Message, RInv, IInv, TypeOK
  <2>3. /\ Len(sent') = Len(sent) + 1 /\ sent'[Len(sent) + 1] = m /\ Len(sent) \in Nat
        /\ \A i \in 1..Len(sent) : sent'[i] = sent[i]
    BY <1>2, <2>1, <2>2, AppendProperties
  <2>4. SentIsHeard'
    <3> SUFFICES ASSUME NEW i \in 1..Len(sent')
                 PROVE  sent'[i] \in 1..Len(from') /\ stage'[sent'[i]] # "plugins"
      BY DEF SentIsHeard
    <3>1. CASE i \in 1..Len(sent)
      BY <1>1, <1>2, <1>3, <2>3, <3>1 DEF SentIsHeard, RInv
    <3>2. CASE i = Len(sent) + 1
      BY <1>1, <1>2, <1>3, <2>3, <3>2
    <3> QED
      BY <2>3, <3>1, <3>2
  <2>5. m \notin Relay!ToSet(sent)
    BY <1>2, <2>1 DEF Relay!ToSet, SentIsHeard, RInv
  <2>6. from[m] \in Listened
    BY <2>1 DEF PluginsListen, RInv
  <2>7. Relay!Deliver(m, from)
    BY <1>2, <2>1, <2>5, <2>6 DEF Relay!Deliver
  <2>8. Relay!DeliverReceived
    BY <1>2, <2>7 DEF Relay!DeliverReceived
  <2> QED
    BY <1>4, <2>4, <2>8 DEF RelayStep, Relay!Next
<1> QED
  BY <1>5, <1>6

LEMMA StepRelays ==
  ASSUME RInv, [Next]_vars
  PROVE  RInv' /\ RelayStep
<1>1. IInv'
  BY StepKeeps DEF RInv
<1>2. CASE Messages
  <2>1. ASSUME NEW s \in Side, Receive(s)
        PROVE  RInv' /\ RelayStep
    BY <1>1, <2>1, ReceiveRelays DEF RInv
  <2>2. ASSUME NEW m \in 1..Len(stage), NEW o \in {"ok", "abort", "error"},
               MessagePluginsReturn(m, o) \/ MessageEventsReturn(m, o) \/ PluginsDrop(m)
        PROVE  RInv' /\ RelayStep
    BY <1>1, <2>2, MessageStepRelays DEF RInv
  <2>3. "ok" \in {"ok", "abort", "error"}
    OBVIOUS
  <2> QED
    BY <1>2, <2>1, <2>2, <2>3 DEF Messages, Outcome
<1>3. CASE ~Messages
  <2> DEFINE Silent == UNCHANGED msgVars /\ (hijacked => hijacked') /\ (torn => torn')
  <2>1. ASSUME Setup
        PROVE  Silent
    <3>1. ASSUME Execute \/ ExecuteThrows
          PROVE  Silent
      BY <3>1 DEF Execute, ExecuteThrows, scopeVars, sockVars
    <3>2. ASSUME NEW o \in Outcome, DispatchReturns(o) \/ EstablishedReturns(o)
          PROVE  Silent
      <4>1. CASE DispatchReturns(o)
        <5>1. UNCHANGED msgVars /\ hijacked' = hijacked
          BY <4>1 DEF DispatchReturns
        <5>2. torn' = torn
          BY <4>1 DEF DispatchReturns, KeepTunnel, Outcome
        <5> QED
          BY <5>1, <5>2
      <4>2. CASE EstablishedReturns(o)
        BY <4>2 DEF EstablishedReturns, TearDown, KeepTunnel
      <4> QED
        BY <3>2, <4>1, <4>2
    <3>3. ASSUME NEW o \in Outcome, NEW b \in BOOLEAN, UpgradePluginsReturn(o, b)
          PROVE  Silent
      BY <3>3 DEF UpgradePluginsReturn, TearDown, KeepTunnel
    <3>4. ASSUME UpstreamFails \/ UpstreamIsIgnored \/ UpstreamUpgrades
          PROVE  Silent
      BY <3>4 DEF UpstreamFails, UpstreamIsIgnored, UpstreamUpgrades, scopeVars, sockVars
    <3> QED
      BY <2>1, <3>1, <3>2, <3>3, <3>4 DEF Setup
  <2>2. ASSUME NEW s \in Side, SideSteps(s)
        PROVE  Silent
    BY <2>2 DEF SideSteps, SideCloses, SideFails, SideAnswersClose, SocketCloses,
                CloseListenersReturn, CloseTimesOut, ErrorListenersReturn, scopeVars,
                TearDown, KeepTunnel
  <2>3. ASSUME ClientDestroyed \/ Hijack
        PROVE  Silent
    BY <2>3 DEF ClientDestroyed, Hijack, scopeVars, sockVars
  <2>4. ASSUME UNCHANGED vars
        PROVE  Silent
    BY <2>4 DEF vars, scopeVars, sockVars
  <2>5. Silent
    BY <1>3, <2>1, <2>2, <2>3, <2>4 DEF Next
  <2> QED
    BY <1>1, <2>5, SilentStep, SilentInvariant DEF RInv, msgVars
<1> QED
  BY <1>2, <1>3

\* The tunnel delivers messages as MessageRelay allows, whatever listeners, closes and
\* teardowns do.
THEOREM TunnelRelays == Spec => RelaysMessages
<1>1. Init => RInv /\ Relay!Init
  BY InitSound DEF RInv, SentIsHeard, PluginsListen, Relay!Init, Init
<1>2. RInv /\ [Next]_vars => RInv' /\ [Relay!Next]_(Relay!relayVars)
  BY StepRelays DEF RelayStep
<1> QED
  BY <1>1, <1>2, PTL DEF Spec, RelaysMessages, Relay!Spec

-----------------------------------------------------------------------------
(* The upgrade implements RequestTracking *)

\* The two WebSockets are made together, and nothing of a tunnel is there before.
WebSocketsComeTogether ==
  /\ ws["client"] = "none" => NoWebSocket /\ Len(from) = 0
  /\ boot = "established" => ws["client"] # "none"

\* What a step does to what RequestTracking sees: nothing, or it ends the handlers, or
\* it closes the client's socket and may end them with that.
Unseen == (Gone' <=> Gone) /\ (Through' <=> Through) /\ UNCHANGED tracked
EndsHandlers == (Gone' <=> Gone) /\ ~Through /\ Through' /\ tracked' \in {tracked, FALSE}
ClosesClient ==
  /\ ~Gone /\ Gone'
  /\ \/ (Through' <=> Through) /\ UNCHANGED tracked
     \/ ~Through /\ ~tracked'
Seen == Unseen \/ EndsHandlers \/ ClosesClient

TrackedStep == [Tracking!Next]_(Tracking!vars)

LEMMA EndIsSeen ==
  ASSUME TypeOK, TypeOK', EndsHandlers
  PROVE  TrackedStep
<1> USE DEF EndsHandlers, Tracking!Ends, Tracking!At
<1>1. tracked /\ tracked' \in BOOLEAN
  BY DEF Through, TypeOK
<1>2. CASE Gone
  <2>1. Tracking!Unwinds("upgrade")
    BY <1>1, <1>2 DEF Tracking!Unwinds, Tracking!DestroyRequestLifecycle, Tracking!NoTxn
  <2> QED
    BY <2>1 DEF TrackedStep, Tracking!Next
<1>3. CASE ~Gone /\ tracked'
  <2>1. Tracking!IsLeft("upgrade")
    BY <1>1, <1>3 DEF Tracking!IsLeft, Tracking!InFlight, Tracking!Handling
  <2> QED
    BY <2>1 DEF TrackedStep, Tracking!Next
<1>4. CASE ~Gone /\ ~tracked'
  <2>1. Tracking!TearsDown("upgrade")
    BY <1>1, <1>4 DEF Tracking!TearsDown, Tracking!InFlight, Tracking!Handling,
      Tracking!DestroyRequestLifecycle, Tracking!NoTxn
  <2> QED
    BY <2>1 DEF TrackedStep, Tracking!Next
<1> QED
  BY <1>1, <1>2, <1>3, <1>4

LEMMA CloseIsSeen ==
  ASSUME TypeOK, TypeOK', ClosesClient
  PROVE  TrackedStep
<1> USE DEF ClosesClient, Tracking!Closing, Tracking!DestroyRequestLifecycle, Tracking!OnConn,
            Tracking!At, Tracking!Unaware, Tracking!InFlight, Tracking!Handling, Tracking!NoTxn
<1>1. Tracking!ClosingIds("client") = {}
  BY DEF Tracking!ClosingIds
<1>2. CASE (Through' <=> Through) /\ UNCHANGED tracked
  <2>1. Tracking!Closing("client", {})
    BY <1>1, <1>2
  <2> QED
    BY <2>1 DEF TrackedStep, Tracking!Next, Tracking!SocketCloses
<1>3. CASE ~Through /\ ~tracked'
  <2>1. tracked /\ Through'
    BY <1>3 DEF Through
  <2>2. Tracking!Closing("client", {"upgrade"})
    BY <1>1, <1>3, <2>1
  <2> QED
    BY <1>3, <2>2 DEF TrackedStep, Tracking!Next, Tracking!SocketCloses
<1> QED
  BY <1>2, <1>3

LEMMA SeenIsTracked ==
  ASSUME TypeOK, TypeOK', Seen
  PROVE  TrackedStep
<1>1. CASE Unseen
  BY <1>1 DEF Unseen, TrackedStep, Tracking!vars
<1> QED
  BY <1>1, EndIsSeen, CloseIsSeen DEF Seen

\* As long as a handler is left, it may go on, end, or tear the tunnel down.
LEMMA HandlerStepIsSeen ==
  ASSUME ~Left, Gone' <=> Gone, tracked \in BOOLEAN, tracked' \in {tracked, FALSE}
  PROVE  Seen
<1>1. CASE ~tracked
  BY <1>1 DEF Seen, Unseen, Through
<1>2. CASE tracked /\ Through'
  BY <1>2 DEF Seen, EndsHandlers, Through
<1>3. CASE tracked /\ ~Through'
  BY <1>3 DEF Seen, Unseen, Through
<1> QED
  BY <1>1, <1>2, <1>3

LEMMA SetupIsSeen ==
  ASSUME IInv, IInv', WebSocketsComeTogether, Setup
  PROVE  WebSocketsComeTogether' /\ Seen
<1> USE DEF WebSocketsComeTogether
<1>1. /\ sock \in [Side -> SocketStates] /\ "client" \in Side /\ "upstream" \in Side
      /\ tracked \in BOOLEAN /\ tracked' \in BOOLEAN
  BY TornIsClosed, Sides DEF IInv, TypeOK
<1>2. ASSUME NEW sides
      PROVE  CleanUp(sock, sides)["client"] = "closed" <=> sock["client"] = "closed"
  BY <1>1 DEF CleanUp
<1> DEFINE Cleans == sock' \in {sock, CleanUp(sock, {"client"}), CleanUp(sock, Side)}
<1>0. ASSUME Cleans PROVE Gone' <=> Gone
  <2>1. CleanUp(sock, {"client"})["client"] = "closed" <=> sock["client"] = "closed"
    BY <1>2
  <2>2. CleanUp(sock, Side)["client"] = "closed" <=> sock["client"] = "closed"
    BY <1>2
  <2> QED
    BY <1>0, <2>1, <2>2 DEF Gone
<1> HIDE DEF Cleans
<1>3. CASE Execute \/ ExecuteThrows
  <2>1. /\ exec = "start" /\ upReq = "none" /\ boot = "none" /\ NoWebSocket /\ tracked
        /\ UNCHANGED <<boot, tracked, ws, closing, failing, from>> /\ (Gone' <=> Gone)
        /\ exec' = "dispatch" \/ (exec' = "done" /\ upReq' = "none")
    BY <1>1, <1>2, <1>3
    DEF Execute, ExecuteThrows, IInv, UpgradeOpensTunnel, scopeVars, sockVars, wsVars, msgVars, Gone
  <2> QED
    BY <1>1, <2>1, HandlerStepIsSeen DEF Left, NoWebSocket
<1>4. ASSUME NEW o \in Outcome, DispatchReturns(o)
      PROVE  WebSocketsComeTogether' /\ Seen
  <2>1. /\ exec = "dispatch" /\ exec' = "done" /\ boot = "none" /\ NoWebSocket
        /\ UNCHANGED <<boot, ws, closing, failing, from>> /\ tracked' \in {tracked, FALSE}
    BY <1>1, <1>4 DEF DispatchReturns, KeepTunnel, Outcome, IInv, UpgradeOpensTunnel, wsVars, msgVars
  <2>2. Gone' <=> Gone
    BY <1>1, <1>2, <1>4 DEF DispatchReturns, KeepTunnel, Gone, Outcome
  <2> QED
    BY <1>1, <2>1, <2>2, HandlerStepIsSeen DEF Left, NoWebSocket
<1>5. CASE UpstreamFails \/ UpstreamIsIgnored \/ UpstreamUpgrades
  <2>1. /\ exec \in {"dispatch", "done"} /\ (upReq = "sent" => exec = "done") /\ boot = "none"
        /\ upReq \in {"idle", "sent", "ignored"} /\ NoWebSocket /\ tracked
        /\ UNCHANGED <<exec, tracked, ws, closing, failing, from>>
    BY <1>5 DEF UpstreamFails, UpstreamIsIgnored, UpstreamUpgrades, IInv, TypeOK,
                UpgradeOpensTunnel, scopeVars, wsVars, msgVars
  <2>2. Gone' <=> Gone
    BY <1>1, <1>2, <1>5 DEF UpstreamFails, UpstreamIsIgnored, UpstreamUpgrades, sockVars, Gone
  <2>3. \/ upReq' = "failed" /\ boot' = boot
        \/ upReq = "sent" /\ upReq' = "ignored" /\ boot' = boot
        \/ upReq = "sent" /\ boot' = "plugins"
    BY <1>5 DEF UpstreamFails, UpstreamIsIgnored, UpstreamUpgrades
  <2>4. CASE ~Left
    BY <1>1, <2>1, <2>2, <2>3, <2>4, HandlerStepIsSeen DEF NoWebSocket
  <2>5. CASE Left
    <3>1. Left' /\ Through /\ Through'
      BY <2>1, <2>3, <2>5 DEF Left, Through
    <3> QED
      BY <1>1, <2>1, <2>2, <2>3, <3>1 DEF Seen, Unseen, NoWebSocket
  <2> QED
    BY <2>4, <2>5
<1>6. ASSUME NEW o \in Outcome, NEW accepted \in BOOLEAN, UpgradePluginsReturn(o, accepted)
      PROVE  WebSocketsComeTogether' /\ Seen
  <2>1. /\ boot = "plugins" /\ exec = "done" /\ upReq = "upgraded" /\ NoWebSocket
        /\ UNCHANGED <<exec, upReq, closing, failing, from>>
    BY <1>6 DEF UpgradePluginsReturn, IInv, TypeOK, UpgradeOpensTunnel, msgVars
  <2>2. (Gone' <=> Gone) /\ tracked' \in {tracked, FALSE}
    <3>1. Cleans
      BY <1>6 DEF Cleans, UpgradePluginsReturn, Bridge, KeepTunnel, TearDown
    <3>2. tracked' \in {tracked, FALSE}
      BY <1>6 DEF UpgradePluginsReturn, KeepTunnel, TearDown
    <3> QED
      BY <1>0, <3>1, <3>2
  <2>3. \/ boot' \in {"done", "stuck"} /\ ws' = ws
        \/ boot' = "established" /\ ws' = [s \in Side |-> "open"] /\ UNCHANGED tracked
    BY <1>6 DEF UpgradePluginsReturn, Bridge
  <2>4. CASE boot' \in {"done", "stuck"} /\ ws' = ws
    BY <1>1, <2>1, <2>2, <2>4, HandlerStepIsSeen DEF Left, NoWebSocket
  <2>5. CASE boot' = "established" /\ ws' = [s \in Side |-> "open"] /\ UNCHANGED tracked
    <3>1. ws'["client"] = "open"
      BY <1>1, <2>5
    <3> QED
      BY <1>1, <2>1, <2>2, <2>5, <3>1, HandlerStepIsSeen DEF Left
  <2> QED
    BY <2>3, <2>4, <2>5
<1>7. ASSUME NEW o \in Outcome, EstablishedReturns(o)
      PROVE  WebSocketsComeTogether' /\ Seen
  <2>1. (Gone' <=> Gone) /\ tracked' \in {tracked, FALSE} /\ boot = "established" /\ boot' = "done"
    <3>1. Cleans /\ tracked' \in {tracked, FALSE}
      BY <1>7 DEF Cleans, EstablishedReturns, KeepTunnel, TearDown
    <3> QED
      BY <1>0, <1>7, <3>1 DEF EstablishedReturns
  <2>2. UNCHANGED <<ws, closing, failing, from>>
    BY <1>7 DEF EstablishedReturns, wsVars, msgVars
  <2> QED
    BY <1>1, <2>1, <2>2, HandlerStepIsSeen DEF Left
<1> QED
  BY <1>3, <1>4, <1>5, <1>6, <1>7 DEF Setup

LEMMA MessagesAreSeen ==
  ASSUME IInv, IInv', WebSocketsComeTogether, Messages
  PROVE  WebSocketsComeTogether' /\ Seen
<1>1. /\ sock \in [Side -> SocketStates] /\ tracked \in BOOLEAN /\ "client" \in Side
  BY TornIsClosed, Sides DEF IInv, TypeOK
<1>2. UNCHANGED <<exec, upReq, boot, ws, closing, failing>>
  BY DEF Messages, Receive, MessagePluginsReturn, MessageEventsReturn, PluginsDrop, bootVars, wsVars
<1>3. ws["client"] # "none"
  <2>1. CASE \E s \in Side : Receive(s)
    BY <2>1 DEF Receive, WebSocketsComeTogether, NoWebSocket
  <2>2. CASE 1..Len(stage) # {}
    <3>1. Len(stage) = Len(from)
      BY DEF IInv, TypeOK
    <3> QED
      BY <2>2, <3>1 DEF WebSocketsComeTogether
  <2> QED
    BY <2>1, <2>2 DEF Messages
<1>4. (Gone' <=> Gone) /\ tracked' \in {tracked, FALSE}
  BY <1>1 DEF Messages, Receive, MessagePluginsReturn, MessageEventsReturn, PluginsDrop,
    scopeVars, sockVars, KeepTunnel, TearDown, CleanUp, Gone
<1> QED
  BY <1>1, <1>2, <1>3, <1>4, HandlerStepIsSeen DEF WebSocketsComeTogether, Left

LEMMA SideStepIsSeen ==
  ASSUME IInv, IInv', WebSocketsComeTogether, NEW s \in Side, SideSteps(s)
  PROVE  WebSocketsComeTogether' /\ Seen
<1>1. /\ sock \in [Side -> SocketStates] /\ tracked \in BOOLEAN /\ "client" \in Side
      /\ ws \in [Side -> {"none", "open", "closing", "closed"}] /\ Peer(s) \in Side /\ Peer(s) # s
  BY TornIsClosed, Sides DEF IInv, TypeOK
<1>2. /\ UNCHANGED <<exec, upReq, boot, from>>
      /\ tracked' \in {tracked, FALSE}
  BY DEF SideSteps, SideCloses, SideFails, SideAnswersClose, SocketCloses, CloseListenersReturn,
         CloseTimesOut, ErrorListenersReturn, scopeVars, bootVars, msgVars, KeepTunnel, TearDown
<1>3. ASSUME NEW p \in Side
      PROVE  ws'[p] = "none" <=> ws[p] = "none"
  BY <1>1 DEF SideSteps, SideCloses, SideFails, SideAnswersClose, SocketCloses, CloseListenersReturn,
         CloseTimesOut, ErrorListenersReturn, wsVars
<1>4. CASE SocketCloses(s) /\ ws["client"] = "none"
  <2>1. NoWebSocket /\ UNCHANGED <<ws, tracked, closing, failing>>
        /\ sock' = [sock EXCEPT ![s] = "closed"] /\ sock[s] = "ending"
    BY <1>1, <1>4 DEF WebSocketsComeTogether, NoWebSocket, SocketCloses, IInv, TypeOK
  <2>2. WebSocketsComeTogether' /\ (Through' <=> Through)
    BY <1>2, <2>1 DEF WebSocketsComeTogether, NoWebSocket, Through, Left
  <2>3. IF s = "client" THEN ~Gone /\ Gone' ELSE (Gone' <=> Gone)
    BY <1>1, <2>1 DEF Gone
  <2> QED
    BY <2>1, <2>2, <2>3 DEF Seen, Unseen, ClosesClient
<1>5. CASE ws["client"] # "none"
  <2>1. ws'["client"] # "none" /\ WebSocketsComeTogether'
    BY <1>1, <1>2, <1>3, <1>5 DEF WebSocketsComeTogether
  <2>2. CASE SocketCloses(s) /\ s = "client"
    <3>1. sock["client"] = "ending" /\ sock'["client"] = "closed"
      BY <1>1, <2>2 DEF SocketCloses, TearDown, CleanUp
    <3> QED
      <4>1. ~Left /\ ~Left' /\ ~Gone /\ Gone'
        BY <1>5, <2>1, <3>1 DEF Left, Gone
      <4>2. ASSUME tracked' = tracked PROVE ClosesClient
        BY <4>1, <4>2 DEF ClosesClient, Through
      <4>3. ASSUME tracked, ~tracked' PROVE ClosesClient
        BY <4>1, <4>3 DEF ClosesClient, Through
      <4> QED
        BY <1>1, <1>2, <2>1, <4>2, <4>3 DEF Seen
  <2>3. CASE ~(SocketCloses(s) /\ s = "client")
    <3>1. Gone' <=> Gone
      BY <1>1, <2>3 DEF SideSteps, SideCloses, SideFails, SideAnswersClose, SocketCloses,
        CloseListenersReturn, CloseTimesOut, ErrorListenersReturn, KeepTunnel, TearDown, CleanUp, Gone
    <3> QED
      BY <1>1, <1>2, <1>5, <2>1, <3>1, HandlerStepIsSeen DEF Left
  <2> QED
    BY <2>1, <2>2, <2>3
<1>6. CASE ~SocketCloses(s)
  <2>1. ws["client"] # "none" \/ SideAnswersClose(s)
    BY <1>6 DEF SideSteps, SideCloses, SideFails, CloseListenersReturn, CloseTimesOut,
      ErrorListenersReturn, WebSocketsComeTogether, NoWebSocket
  <2>2. ws["client"] # "none"
    BY <2>1 DEF SideAnswersClose, WebSocketsComeTogether, NoWebSocket
  <2> QED
    BY <1>5, <2>2
<1> QED
  BY <1>4, <1>5, <1>6

LEMMA StepIsTracked ==
  ASSUME IInv, WebSocketsComeTogether, [Next]_vars
  PROVE  WebSocketsComeTogether' /\ TrackedStep
<1>1. IInv'
  BY StepKeeps
<1>2. CASE Setup
  BY <1>1, <1>2, SetupIsSeen, SeenIsTracked DEF IInv
<1>3. CASE Messages
  BY <1>1, <1>3, MessagesAreSeen, SeenIsTracked DEF IInv
<1>4. ASSUME NEW s \in Side, SideSteps(s)
      PROVE  WebSocketsComeTogether' /\ TrackedStep
  BY <1>1, <1>4, SideStepIsSeen, SeenIsTracked DEF IInv
<1>5. CASE ClientDestroyed \/ Hijack \/ UNCHANGED vars
  <2>1. UNCHANGED <<exec, upReq, boot, tracked, ws, closing, failing, from>>
    BY <1>5 DEF ClientDestroyed, Hijack, vars, scopeVars, bootVars, sockVars, wsVars, msgVars
  <2>2. Gone' <=> Gone
    BY <1>5 DEF ClientDestroyed, Hijack, vars, sockVars, Gone, IInv, TypeOK, Side
  <2>3. WebSocketsComeTogether' /\ Unseen
    BY <2>1, <2>2 DEF WebSocketsComeTogether, NoWebSocket, Unseen, Through, Left
  <2> QED
    BY <1>1, <2>3, SeenIsTracked DEF Seen, IInv
<1> QED
  BY <1>2, <1>3, <1>4, <1>5 DEF Next

\* The indexes keep an upgrade exactly as RequestTracking lets them: whichever handler,
\* listener or timer is the last, it is forgotten by a step that ends it, once, or it
\* stays.
THEOREM UpgradesAreTracked == Spec => TracksUpgrades
<1>1. Init => WebSocketsComeTogether
  BY DEF Init, WebSocketsComeTogether, NoWebSocket
<1>2. IInv /\ WebSocketsComeTogether /\ [Next]_vars =>
        WebSocketsComeTogether' /\ [Tracking!Next]_(Tracking!vars)
  BY StepIsTracked DEF TrackedStep
<1> QED
  BY <1>1, <1>2, TunnelInductive, PTL DEF Spec, TracksUpgrades

-----------------------------------------------------------------------------
(* A side that has closed is not left to itself *)

\* A socket goes on by one state or by none, and is there before anything else is.
SockMoves(s) ==
  \/ sock'[s] = sock[s]
  \/ sock[s] = "none" /\ sock'[s] = "open"
  \/ sock[s] = "open" /\ sock'[s] = "ending"
  \/ sock[s] = "ending" /\ sock'[s] = "closed"

SocketsExist == sock["client"] # "none" /\ (upReq = "upgraded" => sock["upstream"] # "none")

LEMMA CleanUpMoves ==
  ASSUME NEW sides, sock' = CleanUp(sock, sides), NEW s \in Side
  PROVE  SockMoves(s)
  BY DEF CleanUp, SockMoves

LEMMA TunnelMoves ==
  ASSUME IInv, TearDown(sock) \/ KeepTunnel, NEW s \in Side
  PROVE  SockMoves(s) /\ (torn => torn')
  BY CleanUpMoves DEF TearDown, KeepTunnel, SockMoves

\* Setting the tunnel up closes no WebSocket and starts no close listener.
LEMMA SetupMoves ==
  ASSUME IInv, Setup
  PROVE  /\ \A s \in Side : SockMoves(s) /\ (ws'[s] = ws[s] \/ (ws'[s] = "open" /\ ws[s] = "none"))
         /\ UNCHANGED closing /\ (torn => torn')
         /\ upReq' = "upgraded" => upReq = "upgraded" \/ sock'["upstream"] = "open"
<1> USE DEF wsVars, sockVars
<1>1. sock \in [Side -> SocketStates] /\ ws \in [Side -> {"none", "open", "closing", "closed"}]
  BY TornIsClosed DEF IInv, TypeOK
<1>3. ASSUME Execute \/ UpstreamIsIgnored
      PROVE  UNCHANGED <<sock, torn, ws, closing>> /\ upReq' # "upgraded"
  BY <1>3 DEF Execute, UpstreamIsIgnored
<1>4. ASSUME ExecuteThrows \/ UpstreamFails
      PROVE  /\ sock' = CleanUp(sock, {"client"}) /\ UNCHANGED <<torn, ws, closing>>
             /\ upReq' \in {upReq, "failed"}
  BY <1>4 DEF ExecuteThrows, UpstreamFails
<1>5. ASSUME NEW o \in Outcome, DispatchReturns(o)
      PROVE  /\ \A s \in Side : SockMoves(s)
             /\ UNCHANGED <<torn, ws, closing>>
             /\ upReq' = "upgraded" => upReq = "upgraded"
  BY <1>5, CleanUpMoves DEF DispatchReturns, Outcome, KeepTunnel, SockMoves, Abandon
<1>6. ASSUME UpstreamUpgrades
      PROVE  /\ \A s \in Side : SockMoves(s)
             /\ UNCHANGED <<torn, ws, closing>> /\ sock'["upstream"] = "open"
  <2>1. sock["upstream"] = "none"
    BY <1>6 DEF UpstreamUpgrades, IInv, UpgradeOpensTunnel
  <2>2. sock' = [sock EXCEPT !["upstream"] = "open"] /\ UNCHANGED <<torn, ws, closing>>
    BY <1>6 DEF UpstreamUpgrades
  <2> QED
    BY <1>1, <2>1, <2>2, Sides DEF SockMoves
<1>7. ASSUME NEW o \in Outcome, NEW accepted \in BOOLEAN, UpgradePluginsReturn(o, accepted)
      PROVE  /\ \A s \in Side : SockMoves(s) /\ (ws'[s] = ws[s] \/ (ws'[s] = "open" /\ ws[s] = "none"))
             /\ UNCHANGED <<closing, upReq>> /\ (torn => torn')
  <2>1. \A s \in Side : ws[s] = "none"
    BY <1>7 DEF UpgradePluginsReturn, IInv, UpgradeOpensTunnel, NoWebSocket
  <2>2. UNCHANGED <<closing, upReq>> /\ (torn => torn')
    BY <1>7, TunnelMoves, Sides DEF UpgradePluginsReturn
  <2>3. \A s \in Side : ws'[s] \in {ws[s], "open"}
    BY <1>7 DEF UpgradePluginsReturn, Bridge
  <2>4. \A s \in Side : SockMoves(s)
    BY <1>7, TunnelMoves, CleanUpMoves DEF UpgradePluginsReturn, Bridge, SockMoves
  <2> QED
    BY <2>1, <2>2, <2>3, <2>4
<1>8. ASSUME NEW o \in Outcome, EstablishedReturns(o)
      PROVE  /\ \A s \in Side : SockMoves(s)
             /\ UNCHANGED <<ws, closing, upReq>> /\ (torn => torn')
  BY <1>8, TunnelMoves, Sides DEF EstablishedReturns
<1>9. ASSUME Execute \/ UpstreamIsIgnored \/ ExecuteThrows \/ UpstreamFails
      PROVE  /\ \A s \in Side : SockMoves(s)
             /\ UNCHANGED <<torn, ws, closing>> /\ (upReq' = "upgraded" => upReq = "upgraded")
  BY <1>3, <1>4, <1>9, CleanUpMoves DEF SockMoves
<1> DEFINE Moves ==
      /\ \A s \in Side : SockMoves(s) /\ (ws'[s] = ws[s] \/ (ws'[s] = "open" /\ ws[s] = "none"))
      /\ UNCHANGED closing /\ (torn => torn')
      /\ upReq' = "upgraded" => upReq = "upgraded" \/ sock'["upstream"] = "open"
<1>10. Execute \/ UpstreamIsIgnored \/ ExecuteThrows \/ UpstreamFails => Moves
  BY <1>9
<1>11. \A o \in Outcome : DispatchReturns(o) => Moves
  BY <1>5
<1>12. \A o \in Outcome : EstablishedReturns(o) => Moves
  BY <1>8
<1>13. \A o \in Outcome, accepted \in BOOLEAN : UpgradePluginsReturn(o, accepted) => Moves
  BY <1>7
<1>14. UpstreamUpgrades => Moves
  BY <1>6
<1> HIDE DEF Moves
<1>15. Moves
  BY <1>10, <1>11, <1>12, <1>13, <1>14 DEF Setup
<1> QED
  BY <1>15 DEF Moves

LEMMA MessagesMove ==
  ASSUME IInv, Messages \/ Hijack
  PROVE  /\ \A s \in Side : SockMoves(s)
         /\ UNCHANGED <<ws, closing, upReq>> /\ (torn => torn')
<1> USE DEF wsVars, sockVars, bootVars
<1>1. CASE Hijack \/ \E s \in Side : Receive(s)
  BY <1>1 DEF Hijack, Receive, SockMoves
<1>2. CASE \E m \in 1..Len(stage) : PluginsDrop(m)
  BY <1>2 DEF PluginsDrop, SockMoves
<1>3. ASSUME NEW m, NEW o, MessagePluginsReturn(m, o) \/ MessageEventsReturn(m, o)
      PROVE  /\ \A s \in Side : SockMoves(s)
             /\ UNCHANGED <<ws, closing, upReq>> /\ (torn => torn')
  BY <1>3, TunnelMoves, Sides DEF MessagePluginsReturn, MessageEventsReturn
<1> QED
  BY <1>1, <1>2, <1>3 DEF Messages

\* What the steps of a side do to its WebSocket and its close listener.
SideMoves(s) ==
  \/ ws'[s] = ws[s] /\ closing'[s] = closing[s]
  \/ ws'[s] = "closing" /\ ws[s] # "closed" /\ closing'[s] = closing[s]
  \/ ws'[s] = "closed" /\ sock'[s] = "closed" /\ closing[s] = "none" /\ closing'[s] = "listeners"
  \/ ws'[s] = ws[s] /\ closing[s] = "listeners" /\ closing'[s] = "waiting"
  \/ ws'[s] = ws[s] /\ closing[s] \in {"listeners", "waiting"} /\ closing'[s] = "done" /\ torn'

\* A code that may not be sent is replaced by one that may, so close does not throw.
LEMMA SafeCodeMayBeSent ==
  ASSUME NEW c
  PROVE  MayBeSent(GetSafeCloseCode(c))
  BY DEF MayBeSent, GetSafeCloseCode

LEMMA SideStepMoves ==
  ASSUME IInv, ClosedIsComingDown, SideSteps("client") \/ SideSteps("upstream") \/ ClientDestroyed
  PROVE  /\ \A s \in Side : SockMoves(s) /\ SideMoves(s)
         /\ UNCHANGED upReq /\ (torn => torn')
<1> USE DEF wsVars, sockVars, bootVars
<1>1. /\ sock \in [Side -> SocketStates] /\ ws \in [Side -> {"none", "open", "closing", "closed"}]
      /\ closing \in [Side -> {"none", "listeners", "waiting", "done"}]
  BY TornIsClosed DEF IInv, TypeOK
<1>2. CASE ClientDestroyed
  BY <1>1, <1>2 DEF ClientDestroyed, SockMoves, SideMoves
<1>3. ASSUME NEW s \in Side, SideSteps(s)
      PROVE  /\ \A p \in Side : SockMoves(p) /\ SideMoves(p)
             /\ UNCHANGED upReq /\ (torn => torn')
  <2>1. Peer(s) \in Side /\ Peer(s) # s /\ \A p \in Side : p = s \/ p = Peer(s)
    BY Sides
  <2>2. CASE (\E c \in {"normal", "reserved"} : SideCloses(s, c)) \/ SideFails(s)
    <3>1. /\ sock[s] = "open" /\ sock' = [sock EXCEPT ![s] = "ending"]
          /\ ws[s] = "open" /\ ws' = [ws EXCEPT ![s] = "closing"]
          /\ UNCHANGED <<closing, torn, upReq>>
      BY <2>2 DEF SideCloses, SideFails
    <3> QED
      BY <1>1, <3>1 DEF SockMoves, SideMoves
  <2>3. CASE SideAnswersClose(s)
    BY <1>1, <2>3 DEF SideAnswersClose, SockMoves, SideMoves
  <2>4. CASE SocketCloses(s)
    <3>1. /\ sock[s] = "ending" /\ ws[s] # "closed" /\ closing[s] = "none"
          /\ UNCHANGED upReq
          /\ ws' = [ws EXCEPT ![s] = IF ws[s] = "none" THEN "none" ELSE "closed"]
          /\ closing' = [closing EXCEPT ![s] = IF ws[s] = "none" THEN closing[s] ELSE "listeners"]
      BY <2>4 DEF SocketCloses, ClosedIsComingDown, IInv, CloseListenersAgree
    <3>2. sock'[s] = "closed" /\ SockMoves(Peer(s)) /\ (torn => torn')
      BY <1>1, <2>1, <2>4 DEF SocketCloses, TearDown, CleanUp, SockMoves
    <3> QED
      BY <1>1, <2>1, <3>1, <3>2 DEF SockMoves, SideMoves
  <2>5. CASE CloseListenersReturn(s)
    <3>1. CASE ws[Peer(s)] = "open"
      <4>1. /\ ws' = [ws EXCEPT ![Peer(s)] = "closing"]
            /\ closing[s] = "listeners" /\ closing' = [closing EXCEPT ![s] = "waiting"]
            /\ UNCHANGED <<sock, torn, upReq>>
        BY <2>5, <3>1, SafeCodeMayBeSent DEF CloseListenersReturn, KeepTunnel
      <4> QED
        BY <1>1, <2>1, <3>1, <4>1 DEF SockMoves, SideMoves
    <3>2. CASE ws[Peer(s)] # "open"
      <4>1. /\ closing[s] = "listeners" /\ closing' = [closing EXCEPT ![s] = "done"]
            /\ TearDown(sock) /\ UNCHANGED <<ws, upReq>>
        BY <2>5, <3>2 DEF CloseListenersReturn
      <4>2. torn' /\ \A p \in Side : SockMoves(p)
        BY <4>1, TunnelMoves DEF TearDown
      <4> QED
        BY <1>1, <4>1, <4>2 DEF SideMoves
    <3> QED
      BY <3>1, <3>2
  <2>6. CASE CloseTimesOut(s)
    <3>1. /\ closing[s] = "waiting" /\ closing' = [closing EXCEPT ![s] = "done"]
          /\ TearDown(sock) /\ UNCHANGED <<ws, upReq>>
      BY <2>6 DEF CloseTimesOut
    <3>2. torn' /\ \A p \in Side : SockMoves(p)
      BY <3>1, TunnelMoves DEF TearDown
    <3> QED
      BY <1>1, <3>1, <3>2 DEF SideMoves
  <2>7. CASE ErrorListenersReturn(s)
    <3>1. TearDown(sock) /\ UNCHANGED <<ws, closing, upReq>>
      BY <2>7 DEF ErrorListenersReturn
    <3>2. torn' /\ \A p \in Side : SockMoves(p)
      BY <3>1, TunnelMoves DEF TearDown
    <3> QED
      BY <3>1, <3>2 DEF SideMoves
  <2> QED
    BY <1>3, <2>2, <2>3, <2>4, <2>5, <2>6, <2>7 DEF SideSteps
<1> QED
  BY <1>2, <1>3 DEF Side

LEMMA ComesDownStep ==
  ASSUME IInv, ClosedIsComingDown, SocketsExist, Next
  PROVE  /\ \A s \in Side : SockMoves(s) /\ (SideMoves(s) \/ (ws'[s] = "open" /\ UNCHANGED closing))
         /\ torn => torn'
         /\ SocketsExist'
<1>1. ASSUME Setup \/ Messages \/ Hijack
      PROVE  /\ \A s \in Side : SockMoves(s) /\ (SideMoves(s) \/ (ws'[s] = "open" /\ UNCHANGED closing))
             /\ torn => torn'
             /\ upReq' = "upgraded" => upReq = "upgraded" \/ sock'["upstream"] = "open"
  BY <1>1, SetupMoves, MessagesMove DEF SideMoves
<1>2. ASSUME SideSteps("client") \/ SideSteps("upstream") \/ ClientDestroyed
      PROVE  /\ \A s \in Side : SockMoves(s) /\ SideMoves(s)
             /\ torn => torn'
             /\ UNCHANGED upReq
  BY <1>2, SideStepMoves
<1>3. /\ \A s \in Side : SockMoves(s) /\ (SideMoves(s) \/ (ws'[s] = "open" /\ UNCHANGED closing))
      /\ torn => torn'
      /\ upReq' = "upgraded" => upReq = "upgraded" \/ sock'["upstream"] = "open"
  <2> DEFINE Moves ==
        /\ \A s \in Side : SockMoves(s) /\ (SideMoves(s) \/ (ws'[s] = "open" /\ UNCHANGED closing))
        /\ torn => torn'
        /\ upReq' = "upgraded" => upReq = "upgraded" \/ sock'["upstream"] = "open"
  <2>1. SideSteps("client") \/ SideSteps("upstream") \/ ClientDestroyed => Moves
    BY <1>2
  <2>2. Setup \/ Messages \/ Hijack => Moves
    BY <1>1
  <2> HIDE DEF Moves
  <2>3. Moves
    BY <2>1, <2>2 DEF Next, Side
  <2> QED
    BY <2>3 DEF Moves
<1>4. SocketsExist'
  BY <1>3, Sides DEF SocketsExist, SockMoves
<1> QED
  BY <1>3, <1>4

\* Once a side has closed there is always a step due that brings the tunnel down: its
\* close listeners return, their timer fires, or a socket that ends emits "close".
THEOREM ClosedIsBroughtDown == Spec => []ClosedIsComingDown /\ NeverBack
<1> DEFINE Inv == ClosedIsComingDown /\ SocketsExist
           Onward == \A s \in Side : /\ SockRank[sock'[s]] >= SockRank[sock[s]]
                                     /\ ClosingRank[closing'[s]] >= ClosingRank[closing[s]]
                                     /\ torn => torn'
<1>1. Init => Inv
  BY Sides DEF Init, ClosedIsComingDown, SocketsExist
<1>2. IInv /\ IInv' /\ Inv /\ [Next]_vars => Inv' /\ [Onward]_vars
  <2> SUFFICES ASSUME IInv, IInv', Inv, [Next]_vars PROVE Inv' /\ [Onward]_vars
    OBVIOUS
  <2>1. CASE UNCHANGED vars
    BY <2>1 DEF vars, scopeVars, bootVars, sockVars, wsVars, ClosedIsComingDown, SocketsExist
  <2>2. CASE Next
    <3>1. /\ \A s \in Side : SockMoves(s) /\ (SideMoves(s) \/ (ws'[s] = "open" /\ UNCHANGED closing))
          /\ torn => torn'
          /\ SocketsExist'
      BY <2>2, ComesDownStep
    <3>2. torn' => \A s \in Side : sock'[s] \in {"ending", "closed"}
      <4> SUFFICES ASSUME torn', NEW s \in Side PROVE sock'[s] \in {"ending", "closed"}
        OBVIOUS
      <4>1. upReq' = "upgraded" /\ sock'[s] # "open" /\ sock'[s] \in SocketStates
        BY DEF IInv, TypeOK, UpgradeOpensTunnel, ForgottenIsClosed, SocketStates
      <4> QED
        BY <3>1, <4>1 DEF SocketsExist, Side, SocketStates
    <3>3. ASSUME NEW s \in Side, ws'[s] = "closed"
          PROVE  sock'[s] = "closed" /\ (torn' \/ closing'[s] \in {"listeners", "waiting"})
      BY <3>1, <3>3 DEF SockMoves, SideMoves, ClosedIsComingDown
    <3>4. ASSUME NEW s \in Side
          PROVE  /\ SockRank[sock'[s]] >= SockRank[sock[s]]
                 /\ ClosingRank[closing'[s]] >= ClosingRank[closing[s]]
      <4>1. sock[s] \in SocketStates /\ closing[s] \in {"none", "listeners", "waiting", "done"}
        BY DEF IInv, TypeOK, SocketStates
      <4>2. SockRank[sock'[s]] >= SockRank[sock[s]]
        BY <3>1, <4>1 DEF SockMoves, SockRank, SocketStates
      <4>3. ClosingRank[closing'[s]] >= ClosingRank[closing[s]]
        BY <3>1, <4>1 DEF SideMoves, ClosingRank
      <4> QED
        BY <4>2, <4>3
    <3> QED
      BY <3>1, <3>2, <3>3, <3>4 DEF ClosedIsComingDown
  <2> QED
    BY <2>1, <2>2
<1> QED
  BY <1>1, <1>2, TunnelInductive, PTL DEF Spec, NeverBack
=============================================================================
