---------------------------- MODULE H1Transaction ----------------------------
(***************************************************************************)
(* One HTTP/1 request-response transaction of the proxy, from the server's *)
(* "request" event to the end of the client response.                      *)
(*                                                                         *)
(* Several asynchronous activities share the RequestScope of the           *)
(* transaction: the promise chain Middleware.onHttpPlain -> Pipeline.run   *)
(* -> RequestHandler -> ResponseHandler (run), the connect callback of the *)
(* upstream request (conn), the copy of the client body to the upstream    *)
(* (pipe), the callback of its "finish" event (fin), and the "response"    *)
(* and "error" listeners of H1OutboundBridge (resp, err).  Plugins,        *)
(* client and upstream are the environment.  A step is the code between    *)
(* two awaits; what Node does in one emit is one step.                     *)
(***************************************************************************)
EXTENDS Naturals

CONSTANTS
  Listening,  \* the plugin and proxy events some listener is registered for
  Outcomes,   \* how a listener may end: "ok", "abort", "error", "timeout"
  UseCache,   \* useResponseCache: a response may be in the cache
  MaxJumps    \* MAX_JUMPS of Pipeline.run

Events == {"proxy:client-http-request", "http:request",
           "proxy:upstream-dispatch", "proxy:upstream-connect",
           "proxy:upstream-request", "proxy:target-response",
           "proxy:target-error"}

ASSUME ListeningAssumption == Listening \subseteq Events
ASSUME OutcomesAssumption  == Outcomes \subseteq {"ok", "abort", "error", "timeout"}
ASSUME UseCacheAssumption  == UseCache \in BOOLEAN
ASSUME MaxJumpsAssumption  == MaxJumps \in Nat \ {0, 1}

VARIABLES
  life,      \* scope.lifecycle
  active,    \* the request is in ContextManager.activeRequests
  run,       \* what the promise chain of Middleware.onHttpPlain awaits
  jumps,     \* executionJumps of Pipeline.run
  client,    \* the client socket
  req,       \* the client's IncomingMessage
  res,       \* the client's ServerResponse
  init,      \* closure state of UpstreamInitiator.initH1UpstreamReq
  up,        \* the upstream ClientRequest
  upRes,     \* the upstream IncomingMessage
  pipe,      \* pipeline(clientReq, upstream)
  conn,      \* dispatchUpstreamConnect and its connectEventPromise
  fin,       \* the proxy:upstream-request event promise
  bridge,    \* the promise of H1OutboundBridge.execute
  resp,      \* the bridge's "response" listener
  err,       \* the bridge's "error" listener
  straggler  \* a listener that timed out is still running

vars == <<life, active, run, jumps, client, req, res, init, up, upRes, pipe,
          conn, fin, bridge, resp, err, straggler>>

Codes  == {"none", "400", "502", "504", "508", "upstream", "cache",
           "plugin"}
Errors == {"none", "reset", "timeout", "other"}

LifeType == [next: {"none", "request", "response"},
             abort: {"none", "request", "response"},
             failure: {"none", "request", "connection"},
             hijacked: BOOLEAN]
ResType  == [code: Codes, ended: BOOLEAN, destroyed: BOOLEAN, closed: BOOLEAN]
InitType == [watching: BOOLEAN, disconnected: BOOLEAN, failed: BOOLEAN,
             aborted: BOOLEAN]
UpType   == [st: {"none", "connecting", "open", "destroyed"}, err: BOOLEAN,
             timer: {"armed", "handled", "lost"}]
ErrType  == [st: {"idle", "plugins", "done"}, code: Errors]

TypeOK ==
  /\ life \in LifeType
  /\ active \in BOOLEAN
  /\ run \in {"plugins", "listeners", "dispatch", "bridge", "done"}
  /\ jumps \in Nat
  /\ client \in {"open", "closed"}
  /\ req \in {"flowing", "ended", "destroyed"}
  /\ res \in ResType
  /\ init \in InitType
  /\ up \in UpType
  /\ upRes \in {"none", "here", "broken", "done", "dumped"}
  /\ pipe \in {"none", "flowing", "flushing", "done", "failed"}
  /\ conn \in {"idle", "plugins", "resolved", "rejected"}
  /\ fin \in {"none", "plugins", "resolved", "aborted", "failed"}
  /\ bridge \in {"none", "open", "hit", "claimed", "resolved", "aborted", "failed"}
  /\ resp \in {"idle", "plugins", "waitReq", "streaming", "done"}
  /\ err \in ErrType
  /\ straggler \in BOOLEAN

\* The request event: the scope is created, applyHttpPlainState has set the
\* next phase and the first plugin event has been emitted.
Init ==
  /\ life = [next |-> "request", abort |-> "none", failure |-> "none",
             hijacked |-> FALSE]
  /\ active = TRUE
  /\ run = "plugins"
  /\ jumps = 0
  /\ client = "open"
  /\ req = "flowing"
  /\ res = [code |-> "none", ended |-> FALSE, destroyed |-> FALSE, closed |-> FALSE]
  /\ init = [watching |-> FALSE, disconnected |-> FALSE, failed |-> FALSE,
             aborted |-> FALSE]
  /\ up = [st |-> "none", err |-> FALSE, timer |-> "armed"]
  /\ upRes = "none"
  /\ pipe = "none"
  /\ conn = "idle"
  /\ fin = "none"
  /\ bridge = "none"
  /\ resp = "idle"
  /\ err = [st |-> "idle", code |-> "none"]
  /\ straggler = FALSE

-----------------------------------------------------------------------------
(* Operations of the shared objects. *)

\* Mutant of Answer: the headersSent guard is dropped.
UnguardedAnswer(r, code) == [r EXCEPT !.code = code, !.ended = TRUE]

\* The guarded answer every error path uses: only while no head is sent.  What
\* is written to a destroyed response is lost.
Answer(r, code) ==
  IF r.code = "none" /\ ~r.ended /\ ~r.destroyed
  THEN [r EXCEPT !.code = code, !.ended = TRUE] ELSE r

\* Mutant of DestroyRes: the response is left as it is.
KeepRes(r) == r

DestroyRes(r) == [r EXCEPT !.destroyed = TRUE]

\* Answer if nothing is sent yet, otherwise cut the response off.
AnswerOrDestroy(r, code) ==
  IF r.destroyed THEN r
  ELSE IF r.code = "none" /\ ~r.ended THEN Answer(r, code) ELSE DestroyRes(r)

Exchanged == upRes \in {"done", "dumped"} /\ pipe = "done"
UpLive == up.st \in {"connecting", "open"} /\ ~Exchanged

\* ClientRequest.destroy() without an error: Node emits ECONNRESET later, unless a
\* response has arrived.
DestroyUp(u) ==
  IF u.st \in {"connecting", "open"} /\ ~Exchanged
  THEN [u EXCEPT !.st = "destroyed",
                 !.err = upRes = "none"]
  ELSE u

CutUpRes == IF upRes = "here" THEN "broken" ELSE upRes

\* ScopeMutator.failPipeline and finishPipeline as far as the phases go;
\* both also remove the request from activeRequests.
NoPhase(l) == [l EXCEPT !.next = "none"]

\* Pipeline.handlePipelineFailure: its scope and what it does to the response.
FailureScope(r) == IF r.code # "none" THEN "connection" ELSE "request"
PipelineFailure(l, r) == [l EXCEPT !.failure = FailureScope(r), !.next = "none"]
FailedResponse(r) ==
  IF FailureScope(r) = "connection" THEN DestroyRes(r) ELSE Answer(r, "502")

\* Pipeline.handlePipelineAbort
PipelineAbort(l, phase) == [l EXCEPT !.abort = phase, !.next = "none"]

Terminal(l) == l.abort # "none" \/ l.failure # "none" \/ l.hijacked

\* Mutant of Stops: the while loop only looks at nextPhase.
StopsWithoutPhase(l) == l.next = "none"

\* When the while loop of Pipeline.run ends.
Stops(l) == l.next = "none" \/ Terminal(l)

-----------------------------------------------------------------------------
(* Plugins.  Listeners of one event run one after the other; the emitting
   code goes on when all have returned, one has thrown, or one has exceeded
   the plugin timeout, in which case it is still running.  The event bus of
   http:request has no timeout. *)

Pending(e) ==
  \/ e = "proxy:client-http-request" /\ run = "plugins"
  \/ e = "http:request"              /\ run = "listeners"
  \/ e = "proxy:upstream-dispatch"   /\ run = "dispatch"
  \/ e = "proxy:upstream-connect"    /\ conn = "plugins"
  \/ e = "proxy:upstream-request"    /\ fin = "plugins"
  \/ e = "proxy:target-response"     /\ resp = "plugins"
  \/ e = "proxy:target-error"        /\ err.st = "plugins"

Returns(e, o) ==
  /\ Pending(e)
  /\ o \in IF e \notin Listening THEN {"ok"}
           ELSE IF e = "http:request" THEN Outcomes \ {"timeout"} ELSE Outcomes
  /\ straggler' = (straggler \/ o = "timeout")

Throws(o) == o \in {"error", "timeout"}

PluginRuns == straggler \/ \E e \in Listening : Pending(e)

\* A listener takes the request over.
Hijack ==
  /\ PluginRuns /\ ~life.hijacked
  /\ life' = [life EXCEPT !.hijacked = TRUE]
  /\ UNCHANGED <<active, run, jumps, client, req, res, init, up, upRes, pipe,
                 conn, fin, bridge, resp, err, straggler>>

\* A listener, or the plugin that owns the request, answers it itself.
PluginAnswers ==
  /\ PluginRuns \/ life.hijacked
  /\ res.code = "none" /\ ~res.ended /\ ~res.destroyed
  /\ res' = Answer(res, "plugin")
  /\ UNCHANGED <<life, active, run, jumps, client, req, init, up, upRes, pipe,
                 conn, fin, bridge, resp, err, straggler>>

-----------------------------------------------------------------------------
(* The promise chain: Middleware.onHttpPlain and Pipeline.run. *)

\* onHttpPlain stops here: normally, on an abort, or on an error.
MiddlewareStops(o) ==
  /\ run' = "done"
  /\ \/ o = "ok" /\ UNCHANGED <<life, active, res>>
     \/ /\ o = "abort"
        /\ life' = [life EXCEPT !.abort = "request"]
        /\ UNCHANGED <<active, res>>
     \/ /\ Throws(o)
        /\ life' = NoPhase(life)
        /\ active' = FALSE
        /\ res' = DestroyRes(res)

\* The listeners of proxy:client-http-request have returned.
ClientRequestPluginsReturn(o) ==
  /\ Returns("proxy:client-http-request", o)
  /\ IF o = "ok" /\ ~life.hijacked
     THEN run' = "listeners" /\ UNCHANGED <<life, active, res>>
     ELSE MiddlewareStops(o)
  /\ UNCHANGED <<jumps, client, req, init, up, upRes, pipe, conn, fin, bridge,
                 resp, err>>

\* H1OutboundBridge.execute: a cached response is served without listening to
\* the upstream request; otherwise the bridge waits, unless connectEventPromise
\* has been rejected already.
OpenBridge ==
  \/ /\ UseCache /\ (res.ended \/ res.code = "none")
     /\ bridge' = "hit"
     /\ res' = Answer(res, "cache")
  \/ /\ bridge' = IF conn = "rejected" THEN "aborted" ELSE "open"
     /\ UNCHANGED res

\* What RequestHandler.handle makes of the target URL: it answers 400, http.request
\* throws, or the upstream request starts.  Without a listener for
\* proxy:upstream-dispatch the response phase is entered before anything else runs.
RejectUrl ==
  /\ run' = "done"
  /\ res' = Answer(res, "400")
  /\ life' = NoPhase(life)
  /\ UNCHANGED <<req, init, up, bridge>>

RequestThrows ==
  LET answered == Answer(res, "502")
  IN  /\ run' = "done"
      /\ req' = "destroyed"
      /\ res' = FailedResponse(answered)
      /\ life' = PipelineFailure(life, answered)
      /\ UNCHANGED <<init, up, bridge>>

StartUpstream ==
  /\ up' = [up EXCEPT !.st = "connecting"]
  /\ init' = [init EXCEPT !.watching = TRUE]
  /\ IF "proxy:upstream-dispatch" \in Listening
     THEN /\ run' = "dispatch"
          /\ life' = [life EXCEPT !.next = "response"]
          /\ UNCHANGED <<bridge, res>>
     ELSE /\ run' = "bridge"
          /\ life' = NoPhase(life)
          /\ OpenBridge
  /\ UNCHANGED req

\* The listeners of http:request have returned: Pipeline.run, request phase.
HttpRequestListenersReturn(o) ==
  /\ Returns("http:request", o)
  /\ IF o = "ok" /\ ~life.hijacked
     THEN /\ RejectUrl \/ RequestThrows \/ StartUpstream
          /\ jumps' = IF run' = "bridge" THEN 2 ELSE 1
          /\ UNCHANGED active
     ELSE /\ MiddlewareStops(o)
          /\ UNCHANGED <<jumps, req, init, up, bridge>>
  /\ UNCHANGED <<client, upRes, pipe, conn, fin, resp, err>>

\* A turn of the while loop of Pipeline.run once a step has returned.
EndOfPipeline ==
  /\ Stops(life)
  /\ run' = "done"
  /\ life' = NoPhase(life)
  /\ UNCHANGED <<jumps, bridge, res>>

EnterResponsePhase ==
  /\ ~Stops(life)
  /\ jumps' = jumps + 1
  /\ IF jumps' > MaxJumps
     THEN /\ run' = "done"
          /\ life' = [life EXCEPT !.failure = "connection", !.next = "none"]
          /\ res' = IF res.code = "none" THEN Answer(res, "508") ELSE DestroyRes(res)
          /\ UNCHANGED bridge
     ELSE /\ run' = "bridge"
          /\ life' = NoPhase(life)
          /\ OpenBridge

NextTurn == EndOfPipeline \/ EnterResponsePhase

StepAborts(phase) ==
  /\ run' = "done"
  /\ life' = PipelineAbort(life, phase)
  /\ UNCHANGED <<jumps, bridge, res>>

StepFails ==
  /\ run' = "done"
  /\ life' = PipelineFailure(life, res)
  /\ res' = FailedResponse(res)
  /\ UNCHANGED <<jumps, bridge>>

\* The listeners of proxy:upstream-dispatch have returned to RequestHandler.
DispatchPluginsReturn(o) ==
  /\ Returns("proxy:upstream-dispatch", o)
  /\ \/ o = "ok" /\ NextTurn
     \/ o = "abort" /\ StepAborts("request")
     \/ Throws(o) /\ StepFails
  /\ UNCHANGED <<active, client, req, init, up, upRes, pipe, conn, fin, resp, err>>

\* The promise of the bridge has settled: ResponseHandler returns or throws.
RunResumes ==
  /\ run = "bridge"
  /\ \/ bridge \in {"resolved", "hit"} /\ NextTurn
     \/ bridge = "aborted" /\ StepAborts("response")
     \/ bridge = "failed" /\ StepFails
  /\ UNCHANGED <<active, client, req, init, up, upRes, pipe, conn, fin, resp,
                 err, straggler>>

-----------------------------------------------------------------------------
(* The upstream request: UpstreamInitiator. *)

\* The upstream socket is connected: dispatchUpstreamConnect emits its event.
UpstreamConnects ==
  /\ up.st = "connecting" /\ conn = "idle"
  /\ up' = [up EXCEPT !.st = "open"]
  /\ conn' = "plugins"
  /\ UNCHANGED <<life, active, run, jumps, client, req, res, init, upRes, pipe,
                 fin, bridge, resp, err, straggler>>

\* Mutant of MayForward: only the hijack check is left.
MayForwardUnlessHijacked == ~life.hijacked

MayForward ==
  ~life.hijacked /\ ~init.failed /\ ~init.disconnected /\ up.st # "destroyed"

\* startRequestPipeline, or not.  A client request that was already destroyed
\* makes the copy fail at once and takes the upstream request with it.
StartRequestPipeline ==
  IF ~MayForward
  THEN UNCHANGED <<pipe, up, res>>
  ELSE IF req = "destroyed"
  THEN /\ pipe' = "failed"
       /\ up' = DestroyUp(up)
       /\ res' = Answer(res, "502")
  ELSE /\ pipe' = "flowing"
       /\ UNCHANGED <<up, res>>

\* The listeners of proxy:upstream-connect have returned.  The rejection
\* settles a bridge that waits on connectEventPromise.
ConnectPluginsReturn(o) ==
  /\ Returns("proxy:upstream-connect", o)
  /\ \/ /\ o = "ok"
        /\ conn' = "resolved"
        /\ StartRequestPipeline
        /\ UNCHANGED <<init, bridge>>
     \/ /\ o = "abort"
        /\ conn' = "rejected"
        /\ init' = [init EXCEPT !.aborted = TRUE]
        /\ up' = DestroyUp(up)
        /\ bridge' = IF bridge = "open" THEN "aborted" ELSE bridge
        /\ UNCHANGED <<pipe, res>>
     \/ /\ Throws(o)
        /\ conn' = "resolved"
        /\ up' = DestroyUp(up)
        /\ UNCHANGED <<init, bridge, pipe, res>>
  /\ UNCHANGED <<life, active, run, jumps, client, req, upRes, fin, resp, err>>

\* The client has sent the whole body; the upstream request still has to flush it.
UploadEnds ==
  /\ pipe = "flowing" /\ UpLive /\ client = "open"
  /\ pipe' = "flushing"
  /\ req' = "ended"
  /\ UNCHANGED <<life, active, run, jumps, client, res, init, up, upRes, conn,
                 fin, bridge, resp, err, straggler>>

\* The upstream request's "finish" event emits proxy:upstream-request.
UploadFinishes ==
  /\ pipe = "flushing" /\ UpLive
  /\ pipe' = "done"
  /\ fin' = "plugins"
  /\ UNCHANGED <<life, active, run, jumps, client, req, res, init, up, upRes,
                 conn, bridge, resp, err, straggler>>

RequestPluginsReturn(o) ==
  /\ Returns("proxy:upstream-request", o)
  /\ fin' = IF o = "ok" THEN "resolved" ELSE IF o = "abort" THEN "aborted" ELSE "failed"
  /\ UNCHANGED <<life, active, run, jumps, client, req, res, init, up, upRes,
                 pipe, conn, bridge, resp, err>>

-----------------------------------------------------------------------------
(* Errors and time-outs of the upstream request. *)

\* What the listeners of the upstream request's "error" event do, in the order
\* they were attached: onPrePipelineError, the body copy, the bridge.  A body
\* copy that fails destroys the client request, whose "aborted" event makes
\* onClientDisconnect believe that the client has gone.
LosesClient ==
  pipe = "flowing" /\ init.watching /\ ~init.disconnected /\ ~life.hijacked

EmitError(code) ==
  LET pre == pipe = "none" /\ ~init.disconnected /\ ~init.aborted
               /\ ~init.failed /\ ~life.hijacked
      copy == pipe \in {"flowing", "flushing"}
      copyAnswers == copy /\ code # "timeout" /\ ~init.disconnected /\ ~LosesClient
  IN  /\ init' = [init EXCEPT !.failed = @ \/ pre,
                              !.disconnected = @ \/ LosesClient,
                              !.watching = @ /\ ~LosesClient]
      /\ pipe' = IF copy THEN "failed" ELSE pipe
      /\ req' = IF pipe = "flowing" THEN "destroyed" ELSE req
      /\ res' = IF pre \/ copyAnswers THEN Answer(res, "502") ELSE res
      /\ IF bridge = "open"
         THEN /\ bridge' = "claimed"
              /\ err' = [st |-> "plugins", code |-> code]
         ELSE UNCHANGED <<bridge, err>>

\* The network breaks the upstream connection: a socket error, or an orderly
\* close ("fin"), which is an error only as long as no response has arrived.
UpstreamFails(kind) ==
  /\ UpLive
  /\ up' = [up EXCEPT !.st = "destroyed"]
  /\ upRes' = CutUpRes
  /\ IF kind = "fin" /\ upRes # "none"
     THEN UNCHANGED <<init, pipe, req, res, bridge, err>>
     ELSE EmitError(IF kind = "fin" THEN "reset" ELSE kind)
  /\ UNCHANGED <<life, active, run, jumps, client, conn, fin, resp, straggler>>

\* The "error" event that follows a destroy().
UpstreamErrorEvent ==
  /\ up.err
  /\ up' = [up EXCEPT !.err = FALSE]
  /\ EmitError("reset")
  /\ UNCHANGED <<life, active, run, jumps, client, upRes, conn, fin, resp, straggler>>

\* Mutant of UpstreamTimesOut: the bridge does not listen for the event.
TimeoutUnheard ==
  /\ UpLive /\ up.timer = "armed"
  /\ up' = [up EXCEPT !.timer = "lost"]
  /\ UNCHANGED <<life, active, run, jumps, client, req, res, init, upRes, pipe,
                 conn, fin, bridge, resp, err, straggler>>

\* Node's "timeout" event, emitted once.  Only the bridge listens for it: it
\* destroys the upstream request, whose "error" event Node emits before any other
\* activity runs.
UpstreamTimesOut ==
  /\ UpLive /\ up.timer = "armed"
  /\ IF bridge \in {"none", "hit"}
     THEN /\ up' = [up EXCEPT !.timer = "lost"]
          /\ UNCHANGED <<upRes, init, pipe, req, res, bridge, err>>
     ELSE /\ up' = [up EXCEPT !.st = "destroyed", !.timer = "handled"]
          /\ upRes' = CutUpRes
          /\ EmitError("timeout")
  /\ UNCHANGED <<life, active, run, jumps, client, conn, fin, resp, straggler>>

\* The upstream request was destroyed without an error event during the copy.
CopyBreaks ==
  /\ pipe \in {"flowing", "flushing"}
  /\ up.st = "destroyed" /\ ~up.err
  /\ pipe' = "failed"
  /\ req' = IF pipe = "flowing" THEN "destroyed" ELSE req
  /\ init' = [init EXCEPT !.disconnected = @ \/ LosesClient,
                          !.watching = @ /\ ~LosesClient]
  /\ UNCHANGED <<life, active, run, jumps, client, res, up, upRes, conn, fin,
                 bridge, resp, err, straggler>>

\* Mutant of ErrorAnswer: a time-out is not told from other errors.
AlwaysBadGateway(code) == "502"

ErrorAnswer(code) == IF code = "timeout" THEN "504" ELSE "502"

\* The bridge's "error" listener, after proxy:target-error.
TargetErrorPluginsReturn(o) ==
  /\ Returns("proxy:target-error", o)
  /\ err' = [err EXCEPT !.st = "done"]
  /\ IF o = "abort"
     THEN /\ life' = [life EXCEPT !.abort = "request"]
          /\ bridge' = "aborted"
          /\ UNCHANGED <<active, res>>
     ELSE IF life.hijacked
     THEN /\ bridge' = "resolved"
          /\ UNCHANGED <<life, active, res>>
     ELSE /\ life' = [life EXCEPT !.next = "none",
                                  !.failure = IF err.code = "reset" THEN @ ELSE "request"]
          /\ active' = FALSE
          /\ res' = AnswerOrDestroy(res, ErrorAnswer(err.code))
          /\ bridge' = "failed"
  /\ UNCHANGED <<run, jumps, client, req, init, up, upRes, pipe, conn, fin, resp>>

-----------------------------------------------------------------------------
(* The upstream response: the bridge's "response" listener, Middleware's
   onUpstreamResponse, ResponseDispatcher and StreamingResponseHandler. *)

Settles(outcome) == bridge' = IF bridge = "open" THEN outcome ELSE bridge

\* The response arrives.  Without a listener Node discards it.
UpstreamResponds ==
  /\ up.st = "open" /\ upRes = "none" /\ pipe \in {"flowing", "flushing", "done"}
  /\ \/ bridge \in {"none", "hit"} /\ upRes' = "dumped" /\ UNCHANGED <<life, resp>>
     \/ /\ bridge = "open"
        /\ upRes' = "here"
        /\ resp' = "plugins"
        /\ life' = [life EXCEPT !.next = "response"]
     \/ bridge \notin {"none", "hit", "open"} /\ upRes' = "here" /\ UNCHANGED <<life, resp>>
  /\ UNCHANGED <<active, run, jumps, client, req, res, init, up, pipe, conn, fin,
                 bridge, err, straggler>>

\* A response without a body is answered at once.
DispatchNoContent(l, r) ==
  /\ res' = Answer(r, "upstream")
  /\ upRes' = IF upRes = "here" THEN "done" ELSE upRes
  /\ life' = NoPhase(l)
  /\ active' = FALSE
  /\ bridge' = "resolved"
  /\ resp' = "done"
  /\ UNCHANGED up

\* A response with a body is streamed, unless nobody can receive it any more.
DispatchStream(l, a, r) ==
  IF r.destroyed \/ r.ended
  THEN /\ res' = r
       /\ up' = DestroyUp(up)
       /\ upRes' = CutUpRes
       /\ life' = NoPhase(l)
       /\ active' = FALSE
       /\ bridge' = "resolved"
       /\ resp' = "done"
  ELSE /\ res' = IF r.code = "none" THEN [r EXCEPT !.code = "upstream"] ELSE r
       /\ life' = l
       /\ active' = a
       /\ resp' = "streaming"
       /\ UNCHANGED <<up, upRes, bridge>>

\* The listener goes on after an await with scope.lifecycle l, membership a of
\* activeRequests and client response r.
ProceedWithResponse(l, a, r) ==
  \/ /\ bridge # "open" \/ fin = "plugins"
     /\ resp' = IF bridge = "open" THEN "waitReq" ELSE "done"
     /\ life' = l /\ active' = a /\ res' = r
     /\ UNCHANGED <<up, upRes, bridge>>
  \/ /\ bridge = "open" /\ fin = "aborted"
     /\ resp' = "done"
     /\ bridge' = "aborted"
     /\ life' = l /\ active' = a /\ res' = r
     /\ UNCHANGED <<up, upRes>>
  \/ /\ bridge = "open" /\ fin = "failed"
     /\ resp' = "done"
     /\ bridge' = "failed"
     /\ up' = DestroyUp(up)
     /\ upRes' = CutUpRes
     /\ res' = IF r.ended THEN r ELSE AnswerOrDestroy(r, "502")
     /\ life' = l /\ active' = a
  \/ /\ bridge = "open" /\ fin \in {"none", "resolved"} /\ l.hijacked
     /\ resp' = "done"
     /\ bridge' = "resolved"
     /\ life' = l /\ active' = a /\ res' = r
     /\ UNCHANGED <<up, upRes>>
  \/ /\ bridge = "open" /\ fin \in {"none", "resolved"} /\ ~l.hijacked
     /\ DispatchNoContent(l, r) \/ DispatchStream(l, a, r)

\* onUpstreamResponse records an abort and swallows it; on an error it gives the
\* response up.  Either way the bridge's listener goes on.
ResponsePluginsReturn(o) ==
  /\ Returns("proxy:target-response", o)
  /\ \/ o = "ok" /\ ProceedWithResponse(life, active, res)
     \/ o = "abort" /\ ProceedWithResponse([life EXCEPT !.abort = "response"], active, res)
     \/ Throws(o) /\ ProceedWithResponse(NoPhase(life), FALSE, DestroyRes(res))
  /\ UNCHANGED <<run, jumps, client, req, init, pipe, conn, fin, err>>

\* waitForUpstreamRequestEvent has settled.
RequestEventSettles ==
  /\ resp = "waitReq" /\ fin # "plugins"
  /\ ProceedWithResponse(life, active, res)
  /\ UNCHANGED <<run, jumps, client, req, init, pipe, conn, fin, err, straggler>>

StreamCompletes ==
  /\ resp = "streaming" /\ upRes = "here" /\ ~res.destroyed
  /\ res' = [res EXCEPT !.ended = TRUE]
  /\ upRes' = "done"
  /\ life' = NoPhase(life)
  /\ active' = FALSE
  /\ resp' = "done"
  /\ Settles("resolved")
  /\ UNCHANGED <<run, jumps, client, req, init, up, pipe, conn, fin, err, straggler>>

\* The stream breaks because the upstream or the client has gone.  An expected
\* termination returns normally and leaves the next phase as it is.
StreamBreaks(expected) ==
  /\ resp = "streaming" /\ (upRes = "broken" \/ res.destroyed)
  /\ res' = IF res.ended THEN res ELSE DestroyRes(res)
  /\ up' = DestroyUp(up)
  /\ upRes' = CutUpRes
  /\ resp' = "done"
  /\ IF expected
     THEN Settles("resolved") /\ UNCHANGED <<life, active>>
     ELSE /\ Settles("failed")
          /\ life' = NoPhase(life)
          /\ active' = FALSE
  /\ UNCHANGED <<run, jumps, client, req, init, pipe, conn, fin, err, straggler>>

-----------------------------------------------------------------------------
(* The client. *)

\* Mutant of ResponseFlushed: nobody listens for "close".
ResponseFlushedUnheard ==
  /\ res.ended /\ ~res.destroyed /\ ~res.closed
  /\ res' = [res EXCEPT !.destroyed = TRUE, !.closed = TRUE]
  /\ init' = [init EXCEPT !.watching = FALSE]
  /\ UNCHANGED <<life, active, run, jumps, client, req, up, upRes, pipe, conn, fin,
                 bridge, resp, err, straggler>>

\* The response has been flushed: its "finish" and "close" events.
ResponseFlushed ==
  /\ res.ended /\ ~res.destroyed /\ ~res.closed
  /\ res' = [res EXCEPT !.destroyed = TRUE, !.closed = TRUE]
  /\ active' = FALSE
  /\ init' = [init EXCEPT !.watching = FALSE]
  /\ UNCHANGED <<life, run, jumps, client, req, up, upRes, pipe, conn, fin,
                 bridge, resp, err, straggler>>

\* The client socket closes, because the client left or the proxy destroyed the
\* response: the request is aborted, the response closes, onClientDisconnect runs.
ClientCloses ==
  LET leaves == init.watching /\ ~init.disconnected /\ ~life.hijacked
      cut == leaves \/ pipe = "flowing"
  IN  /\ client = "open"
      /\ client' = "closed"
      /\ res' = [res EXCEPT !.destroyed = TRUE, !.closed = TRUE]
      /\ active' = FALSE
      /\ req' = IF req = "flowing" THEN "destroyed" ELSE req
      /\ init' = [init EXCEPT !.disconnected = @ \/ leaves, !.watching = FALSE]
      /\ pipe' = IF pipe = "flowing" THEN "failed" ELSE pipe
      /\ up' = IF cut THEN DestroyUp(up) ELSE up
      /\ upRes' = IF cut THEN CutUpRes ELSE upRes
      /\ UNCHANGED <<life, run, jumps, conn, fin, bridge, resp, err, straggler>>

-----------------------------------------------------------------------------
(* The specification. *)

AllOutcomes == {"ok"} \cup Outcomes

PluginReturns ==
  \E o \in AllOutcomes :
    \/ ClientRequestPluginsReturn(o)
    \/ HttpRequestListenersReturn(o)
    \/ DispatchPluginsReturn(o)
    \/ ConnectPluginsReturn(o)
    \/ RequestPluginsReturn(o)
    \/ ResponsePluginsReturn(o)
    \/ TargetErrorPluginsReturn(o)

Upstream ==
  \/ UpstreamConnects
  \/ UpstreamResponds
  \/ \E kind \in {"reset", "other", "fin"} : UpstreamFails(kind)
  \/ UpstreamErrorEvent
  \/ UpstreamTimesOut

Streams ==
  \/ UploadEnds
  \/ UploadFinishes
  \/ CopyBreaks
  \/ RequestEventSettles
  \/ StreamCompletes
  \/ \E expected \in BOOLEAN : StreamBreaks(expected)
  \/ ResponseFlushed

Next ==
  \/ PluginReturns
  \/ Hijack
  \/ PluginAnswers
  \/ RunResumes
  \/ Upstream
  \/ Streams
  \/ ClientCloses

Spec == Init /\ [][Next]_vars

(***************************************************************************)
(* Fairness.  pluginTimeoutMs bounds every plugin event; an http:request   *)
(* listener is assumed to return.  Promise continuations and emitted       *)
(* events run.  The operating system ends a connection attempt one way or  *)
(* the other, and upstreamTimeoutMs fires on an idle upstream socket.      *)
(* Nothing makes the upstream answer or the client send its body.          *)
(***************************************************************************)
Fairness ==
  /\ WF_vars(\E o \in AllOutcomes : ClientRequestPluginsReturn(o))
  /\ WF_vars(\E o \in AllOutcomes : HttpRequestListenersReturn(o))
  /\ WF_vars(\E o \in AllOutcomes : DispatchPluginsReturn(o))
  /\ WF_vars(\E o \in AllOutcomes : ConnectPluginsReturn(o))
  /\ WF_vars(\E o \in AllOutcomes : RequestPluginsReturn(o))
  /\ WF_vars(\E o \in AllOutcomes : ResponsePluginsReturn(o))
  /\ WF_vars(\E o \in AllOutcomes : TargetErrorPluginsReturn(o))
  /\ WF_vars(RunResumes)
  /\ WF_vars(UpstreamConnects \/ \E kind \in {"reset", "other", "fin"} :
                                    up.st = "connecting" /\ UpstreamFails(kind))
  /\ WF_vars(UpstreamErrorEvent)
  /\ WF_vars(UpstreamTimesOut)
  /\ WF_vars(CopyBreaks)
  /\ WF_vars(RequestEventSettles)
  /\ WF_vars(\E expected \in BOOLEAN : StreamBreaks(expected))
  /\ WF_vars(ResponseFlushed)
  /\ WF_vars(res.destroyed /\ ClientCloses)

FairSpec == Spec /\ Fairness

-----------------------------------------------------------------------------
(* Properties. *)

\* The head of the client response is written once: the error paths of the
\* initiator, the body copy, the bridge and the pipeline, the streamed response
\* and a plugin's own answer never overwrite one another.
OneAnswer == [][res.code # "none" => res'.code = res.code]_vars

\* A request leaves activeRequests, and so the set that Proxy.stop() drains,
\* only when its response has been ended or destroyed.
ActiveUntilAnswered == ~active => res.ended \/ res.destroyed

\* Once the lifecycle records an abort, a failure or a hijack, Pipeline.run
\* enters no further phase, whatever the callbacks leave in nextPhase.
TerminalEndsPhases == [][Terminal(life) => jumps' = jumps]_vars

\* The body copy to the upstream does not start any more once the initiator has
\* answered 502, has seen the client go, or a plugin of proxy:upstream-connect has
\* aborted the request, however late the connect event's listeners return.
NoLateForward ==
  [][(init.failed \/ init.disconnected \/ init.aborted) /\ pipe = "none"
       => pipe' = "none"]_vars

\* A time-out that strikes after the body copy has started is answered 504.
StartedTimeoutIs504 ==
  up.timer = "handled" /\ pipe # "none" => res.code # "502"

\* While a listener of proxy:upstream-dispatch kept the bridge from listening, the
\* response came, the time-out struck, or the upstream broke and nobody else answered.
MissedUpstream ==
  /\ run = "dispatch"
  /\ \/ upRes = "dumped" \/ up.timer = "lost"
     \/ up.st = "destroyed" /\ res.code = "none"

\* Every request ends for its client unless a plugin aborted or hijacked it, or a slow
\* listener of proxy:upstream-dispatch has made the bridge miss what it waits for.
EventuallyAnswered ==
  <>(res.closed \/ life.abort # "none" \/ life.hijacked \/ MissedUpstream)

\* Once the client has gone the upstream request does not stay open, unless a
\* plugin has taken it over, or a cache hit or a listener of proxy:upstream-dispatch
\* has kept the bridge from listening to it.
UpstreamReleased ==
  \/ <>[](client = "closed" => ~UpLive \/ life.hijacked \/ bridge \in {"none", "hit"})
  \/ <>MissedUpstream

\* Nobody has anything left to do for the client: the response is over, a plugin has
\* aborted the request, or a plugin has taken it over.
Settled == res.ended \/ res.destroyed \/ life.abort # "none" \/ life.hijacked

\* The next thing that has to happen for the client: a listener, a promise or an event
\* that is due, or the time-out of an upstream request that the bridge listens to.
SomethingIsDue ==
  \/ \E e \in Events : Pending(e)
  \/ run = "bridge" /\ bridge \in {"resolved", "hit", "aborted", "failed"}
  \/ resp = "waitReq"
  \/ resp = "streaming" /\ upRes = "broken"
  \/ up.err
  \/ UpLive /\ up.timer = "armed" /\ bridge = "open"
  \/ res.ended /\ ~res.destroyed /\ ~res.closed
  \/ res.destroyed /\ client = "open"

\* The bridge waits for what has already passed: the only time-out of the upstream
\* request, its response, or its error.
WaitsInVain ==
  /\ bridge = "open" /\ ~Settled
  /\ \/ up.timer = "lost"
     \/ resp = "idle" /\ (upRes = "dumped" \/ (up.st = "destroyed" /\ ~up.err))

\* At every moment a request is over for its client, aborted or hijacked, or something
\* is due that takes it further, unless the bridge waits in vain.
AnswerGoesOn ==
  res.closed \/ life.abort # "none" \/ life.hijacked \/ SomethingIsDue \/ WaitsInVain

\* The bridge comes to wait in vain only by opening after a slow listener of
\* proxy:upstream-dispatch has made it miss the time-out, the response or the error.
VainIsMissed == [][WaitsInVain' => WaitsInVain \/ MissedUpstream]_vars

\* A response whose head is out is over, or the bridge streams it.
AnsweredIsOver ==
  res.code # "none" => res.ended \/ res.destroyed \/ resp = "streaming"

\* The bridge works on a response only once there is one.
ResponseComesFirst == upRes = "none" => resp = "idle"

\* Before the request phase is over nothing has been set up for the upstream and
\* nothing is settled.
RequestPhaseComesFirst ==
  run \in {"plugins", "listeners"} =>
    /\ up.st = "none" /\ ~up.err
    /\ bridge = "none" /\ resp = "idle" /\ conn = "idle"
    /\ fin = "none" /\ err.st = "idle" /\ pipe = "none"
    /\ life.abort = "none" /\ life.failure = "none"

\* The initiator's aborted flag and the rejected connectEventPromise go together.
AbortRejects == init.aborted => conn = "rejected"

\* What the progress of run, conn, resp and up says about one another and about the
\* response: the inductive invariant of the transaction.
IInv ==
  /\ TypeOK
  /\ ActiveUntilAnswered
  /\ AnsweredIsOver
  /\ ResponseComesFirst
  /\ RequestPhaseComesFirst
  /\ AbortRejects

\* RequestTracking's view: one connection with one plain request.
Tracking == INSTANCE RequestTracking WITH
  Conns <- {"client"}, Txns <- {"request"}, Kinds <- {"plain"},
  mode <- [c \in {"client"} |-> IF client = "closed" THEN "closed" ELSE "http"],
  index <- [c \in {"client"} |-> IF client = "closed" THEN "none" ELSE "request"],
  activeRequests <- IF active THEN {"request"} ELSE {},
  lifecycles <- [t \in {"request"} |-> IF active THEN "request" ELSE "none"],
  activeSockets <- IF client = "closed" THEN {} ELSE {"client"},
  txn <- [t \in {"request"} |->
            [st |-> IF res.closed THEN "closed" ELSE IF active THEN "inflight" ELSE "finished",
             kind |-> "plain", conn |-> "client", id |-> "request", life |-> "request"]]

\* Every step of a transaction is one that RequestTracking allows, or none that it sees:
\* whoever ends it forgets it, it is never tracked again, and nothing of it is tracked
\* once its response or its socket has closed.
TracksRequest == [][Tracking!Next]_(Tracking!vars)

-----------------------------------------------------------------------------
(* Statements about the program that the code does not keep; each is checked
   in a run of its own that finds the disagreement. *)

\* The documentation says that a time-out of the upstream request is answered
\* 504 if the response can still be written.
TimeoutIs504 == up.timer = "handled" => res.code # "502"

\* A type comment says that no normal execution resumes after an abort; so the
\* upstream response must not be sent to the client.
AbortStopsResponse ==
  [][life'.abort # "none" /\ res.code = "none" => res'.code # "upstream"]_vars

\* The documentation says that a slow listener delays the request; so an upstream
\* response that arrives is not lost.
DelayedNotLost ==
  upRes # "none" ~> (res.closed \/ life.abort # "none" \/ life.hijacked)
==============================================================================
