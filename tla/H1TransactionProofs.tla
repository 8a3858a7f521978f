------------------------- MODULE H1TransactionProofs -------------------------
(***************************************************************************)
(* Proofs about H1Transaction, for every set of observed events, every set *)
(* of outcomes, with and without the cache, and for every MAX_JUMPS.       *)
(***************************************************************************)
EXTENDS H1Transaction, TLAPS

-----------------------------------------------------------------------------
(* What the operations on the shared records return. *)

LEMMA LifeEdits ==
  ASSUME NEW l \in LifeType
  PROVE  /\ NoPhase(l) \in LifeType
         /\ PipelineAbort(l, "request") \in LifeType
         /\ PipelineAbort(l, "response") \in LifeType
         /\ [l EXCEPT !.hijacked = TRUE] \in LifeType
         /\ [l EXCEPT !.abort = "request"] \in LifeType
         /\ [l EXCEPT !.abort = "response"] \in LifeType
         /\ [l EXCEPT !.next = "response"] \in LifeType
         /\ [l EXCEPT !.failure = "connection", !.next = "none"] \in LifeType
  BY DEF LifeType, NoPhase, PipelineAbort

LEMMA PipelineFailureType ==
  ASSUME NEW l \in LifeType, NEW r
  PROVE  PipelineFailure(l, r) \in LifeType
  BY DEF LifeType, PipelineFailure, FailureScope

LEMMA AnswerCodes ==
  /\ "400" \in Codes /\ "502" \in Codes /\ "504" \in Codes /\ "508" \in Codes
  /\ "upstream" \in Codes /\ "cache" \in Codes /\ "plugin" \in Codes
  BY DEF Codes

LEMMA AnswerType ==
  ASSUME NEW r \in ResType, NEW code \in Codes
  PROVE  Answer(r, code) \in ResType
  BY DEF ResType, Answer

LEMMA DestroyResType ==
  ASSUME NEW r \in ResType
  PROVE  DestroyRes(r) \in ResType
  BY DEF ResType, DestroyRes

LEMMA FailedResponseType ==
  ASSUME NEW r \in ResType
  PROVE  FailedResponse(r) \in ResType
  BY AnswerType, DestroyResType, AnswerCodes DEF FailedResponse

LEMMA AnswerOrDestroyType ==
  ASSUME NEW r \in ResType, NEW code
  PROVE  /\ AnswerOrDestroy(r, "502") \in ResType
         /\ AnswerOrDestroy(r, ErrorAnswer(code)) \in ResType
  BY AnswerType, DestroyResType, AnswerCodes DEF AnswerOrDestroy, ErrorAnswer

LEMMA ResEdits ==
  ASSUME NEW r \in ResType
  PROVE  /\ [r EXCEPT !.code = "upstream"] \in ResType
         /\ [r EXCEPT !.ended = TRUE] \in ResType
         /\ [r EXCEPT !.destroyed = TRUE, !.closed = TRUE] \in ResType
  BY DEF ResType, Codes

LEMMA DestroyUpType ==
  ASSUME NEW u \in UpType
  PROVE  DestroyUp(u) \in UpType
  BY DEF DestroyUp, UpType

LEMMA UpEdits ==
  ASSUME NEW u \in UpType
  PROVE  /\ [u EXCEPT !.st = "connecting"] \in UpType
         /\ [u EXCEPT !.st = "open"] \in UpType
         /\ [u EXCEPT !.st = "destroyed"] \in UpType
         /\ [u EXCEPT !.err = FALSE] \in UpType
         /\ [u EXCEPT !.timer = "lost"] \in UpType
         /\ [u EXCEPT !.st = "destroyed", !.timer = "handled"] \in UpType
  BY DEF UpType

LEMMA InitEdits ==
  ASSUME NEW i \in InitType, NEW b \in BOOLEAN, NEW c \in BOOLEAN, NEW d \in BOOLEAN
  PROVE  /\ [i EXCEPT !.watching = b] \in InitType
         /\ [i EXCEPT !.aborted = b] \in InitType
         /\ [i EXCEPT !.disconnected = b, !.watching = c] \in InitType
         /\ [i EXCEPT !.failed = b, !.disconnected = c, !.watching = d] \in InitType
  BY DEF InitType

LEMMA InitFields ==
  ASSUME NEW i \in InitType
  PROVE  i.failed \in BOOLEAN /\ i.disconnected \in BOOLEAN /\ i.watching \in BOOLEAN
  BY DEF InitType

\* The listeners of the upstream request's error event keep the types.
LEMMA EmitErrorType ==
  ASSUME TypeOK, NEW code \in Errors, EmitError(code)
  PROVE  /\ init' \in InitType
         /\ pipe' \in {pipe, "failed"}
         /\ req' \in {req, "destroyed"}
         /\ res' \in ResType
         /\ bridge' \in {bridge, "claimed"}
         /\ err' \in ErrType
<1>1. [st |-> "plugins", code |-> code] \in ErrType
  BY DEF ErrType
<1>2. init' \in InitType
  BY InitFields, InitEdits DEF TypeOK, EmitError, LosesClient
<1>3. /\ pipe' \in {pipe, "failed"} /\ req' \in {req, "destroyed"}
      /\ bridge' \in {bridge, "claimed"}
      /\ res' \in {res, Answer(res, "502")}
      /\ err' \in {err, [st |-> "plugins", code |-> code]}
  BY DEF EmitError
<1> QED
  BY <1>1, <1>2, <1>3, AnswerType, AnswerCodes DEF TypeOK

\* The bridge's "response" listener keeps them, whatever it goes on with.
LEMMA ProceedType ==
  ASSUME TypeOK, NEW l \in LifeType, NEW a \in BOOLEAN, NEW r \in ResType,
         ProceedWithResponse(l, a, r)
  PROVE  /\ life' \in LifeType /\ active' \in BOOLEAN /\ res' \in ResType
         /\ up' \in UpType
         /\ upRes' \in {upRes, "broken", "done"}
         /\ bridge' \in {bridge, "aborted", "failed", "resolved"}
         /\ resp' \in {"waitReq", "streaming", "done"}
  BY LifeEdits, AnswerType, AnswerCodes, AnswerOrDestroyType, ResEdits, DestroyUpType
     DEF TypeOK, ProceedWithResponse, DispatchNoContent, DispatchStream, CutUpRes

-----------------------------------------------------------------------------
(* Type correctness, one lemma per group of actions. *)

LEMMA ClientRequestPluginsType ==
  ASSUME TypeOK, NEW o, ClientRequestPluginsReturn(o)
  PROVE  TypeOK'
<1>1. /\ life' \in LifeType /\ active' \in BOOLEAN /\ res' \in ResType
      /\ run' \in {"listeners", "done"}
  BY LifeEdits, DestroyResType
     DEF TypeOK, ClientRequestPluginsReturn, MiddlewareStops, Throws
<1> QED
  BY <1>1 DEF TypeOK, ClientRequestPluginsReturn, Returns

LEMMA HttpRequestListenersType ==
  ASSUME TypeOK, NEW o, HttpRequestListenersReturn(o)
  PROVE  TypeOK'
<1>1. [up EXCEPT !.st = "connecting"] \in UpType /\ [init EXCEPT !.watching = TRUE] \in InitType
  BY UpEdits, InitEdits DEF TypeOK
<1> DEFINE Typed ==
             /\ life' \in LifeType /\ active' \in BOOLEAN /\ res' \in ResType
             /\ run' \in {"done", "dispatch", "bridge"}
             /\ req' \in {req, "destroyed"}
             /\ init' \in InitType /\ up' \in UpType
             /\ bridge' \in {bridge, "hit", "aborted", "open"}
<1>2. Typed
  <2>1. CASE RejectUrl /\ UNCHANGED active
    BY <2>1, LifeEdits, AnswerType, AnswerCodes DEF TypeOK, RejectUrl
  <2>2. CASE RequestThrows /\ UNCHANGED active
    BY <2>2, PipelineFailureType, AnswerType, AnswerCodes, FailedResponseType
       DEF TypeOK, RequestThrows
  <2>3. CASE StartUpstream /\ UNCHANGED active
    BY <1>1, <2>3, LifeEdits, AnswerType, AnswerCodes DEF TypeOK, StartUpstream, OpenBridge
  <2>4. CASE MiddlewareStops(o) /\ UNCHANGED <<req, init, up, bridge>>
    BY <2>4, LifeEdits, DestroyResType DEF TypeOK, MiddlewareStops, Throws
  <2> QED
    BY <2>1, <2>2, <2>3, <2>4 DEF HttpRequestListenersReturn
<1>3. jumps' \in {jumps, 1, 2}
  BY DEF HttpRequestListenersReturn
<1> QED
  BY <1>2, <1>3 DEF TypeOK, HttpRequestListenersReturn, Returns

\* What a turn of Pipeline.run leaves behind.
LEMMA TurnType ==
  ASSUME TypeOK,
         NextTurn \/ StepAborts("request") \/ StepAborts("response") \/ StepFails
  PROVE  /\ run' \in {"bridge", "done"}
         /\ jumps' \in {jumps, jumps + 1}
         /\ life' \in LifeType /\ res' \in ResType
         /\ bridge' \in {bridge, "hit", "aborted", "open"}
  BY LifeEdits, PipelineFailureType, AnswerType, AnswerCodes, FailedResponseType,
     DestroyResType
     DEF TypeOK, NextTurn, EndOfPipeline, EnterResponsePhase, StepAborts, StepFails,
         OpenBridge

LEMMA DispatchPluginsType ==
  ASSUME TypeOK, NEW o, DispatchPluginsReturn(o)
  PROVE  TypeOK'
  BY TurnType DEF TypeOK, DispatchPluginsReturn, Returns

LEMMA RunResumesType ==
  ASSUME TypeOK, RunResumes
  PROVE  TypeOK'
  BY TurnType DEF TypeOK, RunResumes

LEMMA ConnectPluginsType ==
  ASSUME TypeOK, NEW o, ConnectPluginsReturn(o)
  PROVE  TypeOK'
<1>1. [init EXCEPT !.aborted = TRUE] \in InitType
  BY InitEdits DEF TypeOK
<1>2. /\ conn' \in {"resolved", "rejected"}
      /\ init' \in InitType /\ up' \in UpType /\ res' \in ResType
      /\ pipe' \in {pipe, "failed", "flowing"}
      /\ bridge' \in {bridge, "aborted"}
  BY <1>1, DestroyUpType, AnswerType, AnswerCodes
     DEF TypeOK, ConnectPluginsReturn, StartRequestPipeline
<1> QED
  BY <1>2 DEF TypeOK, ConnectPluginsReturn, Returns

LEMMA RequestPluginsType ==
  ASSUME TypeOK, NEW o, RequestPluginsReturn(o)
  PROVE  TypeOK'
<1>1. fin' \in {"resolved", "aborted", "failed"} /\ straggler' \in BOOLEAN
  BY DEF TypeOK, RequestPluginsReturn, Returns
<1> QED
  BY <1>1 DEF TypeOK, RequestPluginsReturn

LEMMA ResponsePluginsType ==
  ASSUME TypeOK, NEW o, ResponsePluginsReturn(o)
  PROVE  TypeOK'
<1>1. /\ [life EXCEPT !.abort = "response"] \in LifeType
      /\ NoPhase(life) \in LifeType /\ DestroyRes(res) \in ResType
  BY LifeEdits, DestroyResType DEF TypeOK
<1>2. /\ life' \in LifeType /\ active' \in BOOLEAN /\ res' \in ResType
      /\ up' \in UpType
      /\ upRes' \in {upRes, "broken", "done"}
      /\ bridge' \in {bridge, "aborted", "failed", "resolved"}
      /\ resp' \in {"waitReq", "streaming", "done"}
  BY <1>1, ProceedType DEF TypeOK, ResponsePluginsReturn
<1> QED
  BY <1>2 DEF TypeOK, ResponsePluginsReturn, Returns

LEMMA RequestEventType ==
  ASSUME TypeOK, RequestEventSettles
  PROVE  TypeOK'
<1>1. /\ life' \in LifeType /\ active' \in BOOLEAN /\ res' \in ResType
      /\ up' \in UpType
      /\ upRes' \in {upRes, "broken", "done"}
      /\ bridge' \in {bridge, "aborted", "failed", "resolved"}
      /\ resp' \in {"waitReq", "streaming", "done"}
  BY ProceedType DEF TypeOK, RequestEventSettles
<1> QED
  BY <1>1 DEF TypeOK, RequestEventSettles

LEMMA TargetErrorPluginsType ==
  ASSUME TypeOK, NEW o, TargetErrorPluginsReturn(o)
  PROVE  TypeOK'
<1>1. [err EXCEPT !.st = "done"] \in ErrType
  BY DEF TypeOK, ErrType
<1>2. [life EXCEPT !.next = "none", !.failure = IF err.code = "reset" THEN @ ELSE "request"]
        \in LifeType
  BY DEF TypeOK, LifeType
<1>3. life' \in LifeType
  BY <1>2, LifeEdits DEF TypeOK, TargetErrorPluginsReturn
<1>4. res' \in ResType /\ bridge' \in {"aborted", "resolved", "failed"}
  BY AnswerOrDestroyType DEF TypeOK, TargetErrorPluginsReturn
<1>5. active' \in BOOLEAN
  BY Zenon DEF TypeOK, TargetErrorPluginsReturn
<1> QED
  BY <1>1, <1>3, <1>4, <1>5 DEF TypeOK, TargetErrorPluginsReturn, Returns

LEMMA UpstreamType ==
  ASSUME TypeOK, Upstream
  PROVE  TypeOK'
<1>1. CASE UpstreamConnects
  <2>1. up' \in UpType
    BY <1>1, UpEdits DEF TypeOK, UpstreamConnects
  <2> QED
    BY <1>1, <2>1 DEF TypeOK, UpstreamConnects
<1>2. CASE UpstreamResponds
  <2>1. life' \in LifeType /\ resp' \in {resp, "plugins"} /\ upRes' \in {"here", "dumped"}
    BY <1>2, LifeEdits DEF TypeOK, UpstreamResponds
  <2> QED
    BY <1>2, <2>1 DEF TypeOK, UpstreamResponds
<1>3. ASSUME NEW kind \in {"reset", "other", "fin"}, UpstreamFails(kind) PROVE TypeOK'
  <2>1. up' \in UpType /\ upRes' \in {upRes, "broken"}
    BY <1>3, UpEdits DEF TypeOK, UpstreamFails, CutUpRes
  <2>2. CASE EmitError(IF kind = "fin" THEN "reset" ELSE kind)
    BY <1>3, <2>1, <2>2, EmitErrorType DEF TypeOK, UpstreamFails, Errors
  <2>3. CASE UNCHANGED <<init, pipe, req, res, bridge, err>>
    BY <1>3, <2>1, <2>3 DEF TypeOK, UpstreamFails
  <2> QED
    BY <1>3, <2>2, <2>3 DEF UpstreamFails
<1>4. CASE UpstreamErrorEvent
  <2>1. up' \in UpType
    BY <1>4, UpEdits DEF TypeOK, UpstreamErrorEvent
  <2> QED
    BY <1>4, <2>1, EmitErrorType DEF TypeOK, UpstreamErrorEvent, Errors
<1>5. CASE UpstreamTimesOut
  <2>1. up' \in UpType /\ upRes' \in {upRes, "broken"}
    BY <1>5, UpEdits DEF TypeOK, UpstreamTimesOut, CutUpRes
  <2>2. CASE EmitError("timeout")
    BY <1>5, <2>1, <2>2, EmitErrorType DEF TypeOK, UpstreamTimesOut, Errors
  <2>3. CASE UNCHANGED <<init, pipe, req, res, bridge, err>>
    BY <1>5, <2>1, <2>3 DEF TypeOK, UpstreamTimesOut
  <2> QED
    BY <1>5, <2>2, <2>3 DEF UpstreamTimesOut
<1> QED
  BY <1>1, <1>2, <1>3, <1>4, <1>5 DEF Upstream

LEMMA StreamsType ==
  ASSUME TypeOK, Streams
  PROVE  TypeOK'
<1>1. CASE UploadEnds
  BY <1>1 DEF TypeOK, UploadEnds
<1>2. CASE UploadFinishes
  BY <1>2 DEF TypeOK, UploadFinishes
<1>3. CASE CopyBreaks
  <2>1. init' \in InitType
    BY <1>3, InitFields, InitEdits DEF TypeOK, CopyBreaks, LosesClient
  <2> QED
    BY <1>3, <2>1 DEF TypeOK, CopyBreaks
<1>4. CASE RequestEventSettles
  BY <1>4, RequestEventType
<1>5. CASE StreamCompletes
  <2>1. life' \in LifeType /\ res' \in ResType
    BY <1>5, LifeEdits, ResEdits DEF TypeOK, StreamCompletes
  <2>2. active' \in BOOLEAN
    BY <1>5, Zenon DEF StreamCompletes
  <2>3. /\ upRes' = "done" /\ resp' = "done"
        /\ bridge' \in {bridge, "resolved"}
        /\ UNCHANGED <<run, jumps, client, req, init, up, pipe, conn, fin, err, straggler>>
    BY <1>5 DEF StreamCompletes, Settles
  <2> QED
    BY <2>1, <2>2, <2>3 DEF TypeOK
<1>6. ASSUME NEW expected \in BOOLEAN, StreamBreaks(expected) PROVE TypeOK'
  <2>1. /\ life' \in LifeType /\ active' \in BOOLEAN /\ res' \in ResType
        /\ up' \in UpType /\ upRes' \in {upRes, "broken"}
        /\ bridge' \in {bridge, "resolved", "failed"}
    BY <1>6, LifeEdits, DestroyResType, DestroyUpType
       DEF TypeOK, StreamBreaks, Settles, CutUpRes
  <2> QED
    BY <1>6, <2>1 DEF TypeOK, StreamBreaks
<1>7. CASE ResponseFlushed
  <2>1. res' \in ResType /\ init' \in InitType
    BY <1>7, ResEdits, InitEdits DEF TypeOK, ResponseFlushed
  <2>2. active' \in BOOLEAN
    BY <1>7, Zenon DEF ResponseFlushed
  <2>3. UNCHANGED <<life, run, jumps, client, req, up, upRes, pipe, conn, fin, bridge,
                    resp, err, straggler>>
    BY <1>7 DEF ResponseFlushed
  <2> QED
    BY <2>1, <2>2, <2>3 DEF TypeOK
<1> QED
  BY <1>1, <1>2, <1>3, <1>4, <1>5, <1>6, <1>7 DEF Streams

LEMMA ClientClosesType ==
  ASSUME TypeOK, ClientCloses
  PROVE  TypeOK'
<1>1. res' \in ResType /\ up' \in UpType /\ upRes' \in {upRes, "broken"}
  BY ResEdits, DestroyUpType DEF TypeOK, ClientCloses, CutUpRes
<1>2. init' \in InitType
  BY InitFields, InitEdits DEF TypeOK, ClientCloses
<1>3. active' \in BOOLEAN
  BY Zenon DEF ClientCloses
<1>4. /\ client' = "closed"
      /\ req' \in {req, "destroyed"} /\ pipe' \in {pipe, "failed"}
      /\ UNCHANGED <<life, run, jumps, conn, fin, bridge, resp, err, straggler>>
  BY DEF ClientCloses
<1> QED
  BY <1>1, <1>2, <1>3, <1>4 DEF TypeOK

LEMMA TypeStep == TypeOK /\ [Next]_vars => TypeOK'
<1> SUFFICES ASSUME TypeOK, [Next]_vars PROVE TypeOK'
  OBVIOUS
<1>1. CASE PluginReturns
  BY <1>1, ClientRequestPluginsType, HttpRequestListenersType, DispatchPluginsType,
     ConnectPluginsType, RequestPluginsType, ResponsePluginsType, TargetErrorPluginsType
     DEF PluginReturns
<1>2. CASE Hijack
  <2>1. life' \in LifeType
    BY <1>2, LifeEdits DEF TypeOK, Hijack
  <2> QED
    BY <1>2, <2>1 DEF TypeOK, Hijack
<1>3. CASE PluginAnswers
  BY <1>3, AnswerType, AnswerCodes DEF TypeOK, PluginAnswers
<1>4. CASE UNCHANGED vars
  BY <1>4 DEF TypeOK, vars
<1> QED
  BY <1>1, <1>2, <1>3, <1>4, RunResumesType, UpstreamType, StreamsType, ClientClosesType
     DEF Next

LEMMA InitTypeOK == Init => TypeOK
<1> SUFFICES ASSUME Init PROVE TypeOK
  OBVIOUS
<1>1. life \in LifeType /\ res \in ResType
  BY DEF Init, LifeType, ResType, Codes
<1>2. init \in InitType
  BY DEF Init, InitType
<1>3. up \in UpType /\ err \in ErrType
  BY DEF Init, UpType, ErrType, Errors
<1> QED
  BY <1>1, <1>2, <1>3 DEF Init, TypeOK

\* Every variable keeps its type.
THEOREM TypeCorrect == Spec => []TypeOK
  BY InitTypeOK, TypeStep, PTL DEF Spec

-----------------------------------------------------------------------------
(* The inductive invariant.  A response is over when it has ended or is
   destroyed; every operation on a response keeps it over, and every answer to
   a response without a head makes it so. *)

Over(r) == r.ended \/ r.destroyed

LEMMA AnswerOver ==
  ASSUME NEW r \in ResType, NEW code
  PROVE  /\ r.code = "none" => Over(Answer(r, code))
         /\ Over(r) => Answer(r, code) = r
         /\ r.code # "none" => Answer(r, code) = r
  BY DEF ResType, Answer, Over

LEMMA DestroyResOver ==
  ASSUME NEW r \in ResType
  PROVE  Over(DestroyRes(r))
  BY DEF ResType, DestroyRes, Over

LEMMA FailedResponseOver ==
  ASSUME NEW r \in ResType
  PROVE  Over(FailedResponse(r))
  BY AnswerOver, DestroyResOver DEF FailedResponse, FailureScope

LEMMA AnswerOrDestroyOver ==
  ASSUME NEW r \in ResType, NEW code
  PROVE  Over(AnswerOrDestroy(r, code))
  BY AnswerOver, DestroyResOver DEF AnswerOrDestroy, Over

LEMMA ResEditsOver ==
  ASSUME NEW r \in ResType
  PROVE  /\ Over([r EXCEPT !.ended = TRUE])
         /\ Over([r EXCEPT !.destroyed = TRUE, !.closed = TRUE])
  BY DEF ResType, Over

\* What an action must keep of the two parts about the response.
OverKept ==
  /\ ~active' => Over(res')
  /\ res'.code # "none" => Over(res') \/ resp' = "streaming"

LEMMA RunOver ==
  ASSUME IInv,
         NextTurn \/ StepAborts("request") \/ StepAborts("response") \/ StepFails,
         UNCHANGED <<active, resp>>
  PROVE  OverKept
<1> res \in ResType
  BY DEF IInv, TypeOK
<1>1. (res' = res) \/ Over(res')
  BY AnswerOver, DestroyResOver, FailedResponseOver
     DEF NextTurn, EndOfPipeline, EnterResponsePhase, StepAborts, StepFails, OpenBridge
<1> QED
  BY <1>1 DEF OverKept, IInv, ActiveUntilAnswered, AnsweredIsOver, Over

LEMMA EmitErrorOver ==
  ASSUME IInv, NEW code, EmitError(code), UNCHANGED <<active, resp>>
  PROVE  OverKept
<1> res \in ResType
  BY DEF IInv, TypeOK
<1>1. (res' = res) \/ Over(res')
  BY AnswerOver DEF EmitError
<1> QED
  BY <1>1 DEF OverKept, IInv, ActiveUntilAnswered, AnsweredIsOver, Over

\* The bridge's "response" listener goes on with a response r that is over if it has
\* a head; it gives up its membership of activeRequests only when r is over.
LEMMA ProceedOver ==
  ASSUME NEW l, NEW a \in BOOLEAN, NEW r \in ResType,
         ~a => Over(r), r.code # "none" => Over(r),
         ProceedWithResponse(l, a, r)
  PROVE  OverKept
<1>1. CASE active' = a /\ res' = r
  BY <1>1 DEF OverKept
<1>2. CASE DispatchNoContent(l, r)
  <2>1. Over(res')
    BY <1>2, AnswerOver DEF DispatchNoContent
  <2> QED
    BY <2>1 DEF OverKept
<1>3. CASE DispatchStream(l, a, r)
  <2>1. CASE Over(r)
    BY <1>3, <2>1 DEF DispatchStream, OverKept, Over
  <2>2. CASE ~Over(r)
    <3>1. active' = a /\ resp' = "streaming" /\ a
      BY <1>3, <2>2 DEF DispatchStream, Over
    <3> QED
      BY <3>1 DEF OverKept
  <2> QED
    BY <2>1, <2>2
<1>4. CASE active' = a /\ res' = (IF r.ended THEN r ELSE AnswerOrDestroy(r, "502"))
  <2>1. Over(res')
    BY <1>4, AnswerOrDestroyOver DEF Over
  <2> QED
    BY <2>1 DEF OverKept
<1> QED
  BY <1>1, <1>2, <1>3, <1>4 DEF ProceedWithResponse

LEMMA OverStep ==
  ASSUME IInv, Next
  PROVE  OverKept
<1> res \in ResType /\ active \in BOOLEAN /\ life \in LifeType
  BY DEF IInv, TypeOK
<1>1. CASE UNCHANGED <<active, res, resp>>
  BY <1>1 DEF OverKept, IInv, ActiveUntilAnswered, AnsweredIsOver, Over
<1>2. CASE Over(res')
  BY <1>2 DEF OverKept
<1>3. ASSUME NEW o, ClientRequestPluginsReturn(o) PROVE OverKept
  BY <1>1, <1>2, <1>3, DestroyResOver
     DEF ClientRequestPluginsReturn, MiddlewareStops
<1>4. ASSUME NEW o, HttpRequestListenersReturn(o) PROVE OverKept
  <2>1. CASE MiddlewareStops(o)
    BY <1>1, <1>2, <1>4, <2>1, DestroyResOver DEF HttpRequestListenersReturn, MiddlewareStops
  <2>2. CASE (RejectUrl \/ RequestThrows \/ StartUpstream) /\ UNCHANGED active
    <3>1. (res' = res) \/ (res' \in ResType /\ Over(res')) \/ res' = Answer(res, "400")
      BY <2>2, AnswerOver, FailedResponseOver, AnswerType, AnswerCodes, FailedResponseType
         DEF RejectUrl, RequestThrows, StartUpstream, OpenBridge
    <3>2. UNCHANGED resp
      BY <1>4 DEF HttpRequestListenersReturn
    <3> QED
      BY <1>1, <1>2, <2>2, <3>1, <3>2, AnswerOver
  <2> QED
    BY <1>4, <2>1, <2>2 DEF HttpRequestListenersReturn
<1>5. ASSUME NEW o, DispatchPluginsReturn(o) PROVE OverKept
  BY <1>5, RunOver DEF DispatchPluginsReturn
<1>6. CASE RunResumes
  BY <1>6, RunOver DEF RunResumes
<1>7. ASSUME NEW o, ConnectPluginsReturn(o) PROVE OverKept
  <2>1. res' \in {res, Answer(res, "502")} /\ UNCHANGED <<active, resp>>
    BY <1>7 DEF ConnectPluginsReturn, StartRequestPipeline
  <2> QED
    BY <1>1, <1>2, <2>1, AnswerOver
<1>8. ASSUME NEW o, RequestPluginsReturn(o) PROVE OverKept
  BY <1>1, <1>8 DEF RequestPluginsReturn
<1>9. resp \in {"plugins", "waitReq"} =>
        (res.code # "none" => Over(res)) /\ (~active => Over(res))
  BY DEF IInv, ActiveUntilAnswered, AnsweredIsOver, Over
<1>10. ASSUME NEW o, ResponsePluginsReturn(o) PROVE OverKept
  <2>1. resp = "plugins"
    BY <1>10 DEF ResponsePluginsReturn, Returns, Pending
  <2>2. DestroyRes(res) \in ResType /\ Over(DestroyRes(res))
    BY DestroyResType, DestroyResOver
  <2> QED
    BY <1>9, <1>10, <2>1, <2>2, ProceedOver DEF ResponsePluginsReturn
<1>11. CASE RequestEventSettles
  BY <1>9, <1>11, ProceedOver DEF RequestEventSettles
<1>12. ASSUME NEW o, TargetErrorPluginsReturn(o) PROVE OverKept
  BY <1>1, <1>2, <1>12, AnswerOrDestroyOver DEF TargetErrorPluginsReturn
<1>13. CASE Upstream
  <2>1. CASE UpstreamConnects
    BY <1>1, <2>1 DEF UpstreamConnects
  <2>2. CASE UpstreamResponds
    <3>1. resp # "streaming" /\ UNCHANGED <<active, res>>
      BY <2>2 DEF UpstreamResponds, IInv, ResponseComesFirst
    <3> QED
      BY <3>1 DEF OverKept, IInv, ActiveUntilAnswered, AnsweredIsOver, Over
  <2>3. ASSUME NEW kind, UpstreamFails(kind) PROVE OverKept
    BY <1>1, <2>3, EmitErrorOver DEF UpstreamFails
  <2>4. CASE UpstreamErrorEvent
    BY <2>4, EmitErrorOver DEF UpstreamErrorEvent
  <2>5. CASE UpstreamTimesOut
    BY <1>1, <2>5, EmitErrorOver DEF UpstreamTimesOut
  <2> QED
    BY <1>13, <2>1, <2>2, <2>3, <2>4, <2>5 DEF Upstream
<1>14. CASE Streams
  <2>1. CASE UploadEnds \/ UploadFinishes \/ CopyBreaks
    BY <1>1, <2>1 DEF UploadEnds, UploadFinishes, CopyBreaks
  <2>2. CASE StreamCompletes
    BY <1>2, <2>2, ResEditsOver DEF StreamCompletes
  <2>3. ASSUME NEW expected, StreamBreaks(expected) PROVE OverKept
    <3>1. Over(res')
      BY <2>3, DestroyResOver DEF StreamBreaks, Over
    <3> QED
      BY <1>2, <3>1
  <2>4. CASE ResponseFlushed
    BY <1>2, <2>4, ResEditsOver DEF ResponseFlushed
  <2> QED
    BY <1>11, <1>14, <2>1, <2>2, <2>3, <2>4 DEF Streams
<1>15. CASE ClientCloses
  BY <1>2, <1>15, ResEditsOver DEF ClientCloses
<1>16. CASE Hijack
  BY <1>1, <1>16 DEF Hijack
<1>17. CASE PluginAnswers
  BY <1>2, <1>17, AnswerOver DEF PluginAnswers
<1> QED
  BY <1>3, <1>4, <1>5, <1>6, <1>7, <1>8, <1>10, <1>12, <1>13, <1>14, <1>15, <1>16, <1>17
     DEF Next, PluginReturns

\* The upstream response never goes away, and the bridge starts on it when it comes.
LEMMA ResponseComesFirstStep ==
  ASSUME IInv, Next
  PROVE  ResponseComesFirst'
<1>1. CASE UNCHANGED <<upRes, resp>>
  BY <1>1 DEF IInv, ResponseComesFirst
<1>2. CASE upRes' # "none"
  BY <1>2 DEF ResponseComesFirst
<1>3. ASSUME resp # "idle" PROVE upRes # "none"
  BY <1>3 DEF IInv, ResponseComesFirst
<1>4. ASSUME NEW l, NEW a, NEW r, ProceedWithResponse(l, a, r), resp # "idle"
      PROVE  upRes' # "none"
  BY <1>3, <1>4 DEF ProceedWithResponse, DispatchNoContent, DispatchStream, CutUpRes
<1>5. CASE PluginReturns
  BY <1>1, <1>2, <1>4, <1>5
     DEF PluginReturns, ClientRequestPluginsReturn, HttpRequestListenersReturn,
         DispatchPluginsReturn, ConnectPluginsReturn, RequestPluginsReturn,
         ResponsePluginsReturn, TargetErrorPluginsReturn, Returns, Pending
<1>6. CASE Upstream
  BY <1>1, <1>2, <1>6 DEF Upstream, UpstreamConnects, UpstreamResponds, UpstreamFails,
     UpstreamErrorEvent, UpstreamTimesOut, CutUpRes, IInv, ResponseComesFirst
<1>7. CASE Streams
  BY <1>1, <1>2, <1>3, <1>4, <1>7
     DEF Streams, UploadEnds, UploadFinishes, CopyBreaks, RequestEventSettles,
         StreamCompletes, StreamBreaks, ResponseFlushed, CutUpRes
<1>8. CASE ClientCloses
  BY <1>1, <1>2, <1>8 DEF ClientCloses, CutUpRes, IInv, ResponseComesFirst
<1> QED
  BY <1>1, <1>5, <1>6, <1>7, <1>8 DEF Next, Hijack, PluginAnswers, RunResumes

\* While the request phase lasts, only the promise chain, the plugins and the client
\* can take a step.
LEMMA RequestPhaseComesFirstStep ==
  ASSUME IInv, Next
  PROVE  RequestPhaseComesFirst'
<1> DEFINE Early == {"plugins", "listeners"}
<1>1. CASE run' \notin Early
  BY <1>1 DEF RequestPhaseComesFirst
<1>2. CASE run \in Early
  <2>1. /\ up.st = "none" /\ ~up.err
        /\ bridge = "none" /\ resp = "idle" /\ conn = "idle"
        /\ fin = "none" /\ err.st = "idle" /\ pipe = "none"
        /\ life.abort = "none" /\ life.failure = "none"
    BY <1>2 DEF IInv, RequestPhaseComesFirst
  <2>2. life \in LifeType
    BY DEF IInv, TypeOK
  <2>3. CASE Hijack
    <3>1. life'.abort = life.abort /\ life'.failure = life.failure
      BY <2>2, <2>3 DEF Hijack, LifeType
    <3> QED
      BY <2>1, <2>3, <3>1 DEF Hijack, RequestPhaseComesFirst
  <2>4. ASSUME NEW o, ClientRequestPluginsReturn(o), run' \in Early
        PROVE  RequestPhaseComesFirst'
    BY <2>1, <2>4 DEF ClientRequestPluginsReturn, MiddlewareStops, RequestPhaseComesFirst
  <2>5. ASSUME NEW o, HttpRequestListenersReturn(o) PROVE run' \notin Early
    BY <2>5 DEF HttpRequestListenersReturn, MiddlewareStops, RejectUrl, RequestThrows,
       StartUpstream
  <2>6. CASE ClientCloses
    <3>1. DestroyUp(up) = up
      BY <2>1 DEF DestroyUp
    <3> QED
      BY <2>1, <2>6, <3>1 DEF ClientCloses, RequestPhaseComesFirst
  <2>7. CASE PluginAnswers \/ ResponseFlushed
    BY <2>1, <2>7 DEF PluginAnswers, ResponseFlushed, RequestPhaseComesFirst
  <2>8. ~RunResumes /\ ~Upstream
    BY <1>2, <2>1 DEF RunResumes, Upstream, UpstreamConnects, UpstreamResponds,
       UpstreamFails, UpstreamErrorEvent, UpstreamTimesOut, UpLive
  <2>9. Streams => ResponseFlushed
    BY <2>1 DEF Streams, UploadEnds, UploadFinishes, CopyBreaks, RequestEventSettles,
       StreamCompletes, StreamBreaks
  <2>10. ASSUME NEW o
         PROVE  /\ ~DispatchPluginsReturn(o) /\ ~ConnectPluginsReturn(o)
                /\ ~RequestPluginsReturn(o) /\ ~ResponsePluginsReturn(o)
                /\ ~TargetErrorPluginsReturn(o)
    BY <1>2, <2>1 DEF DispatchPluginsReturn, ConnectPluginsReturn, RequestPluginsReturn,
       ResponsePluginsReturn, TargetErrorPluginsReturn, Returns, Pending
  <2> QED
    BY <1>1, <2>3, <2>4, <2>5, <2>6, <2>7, <2>8, <2>9, <2>10 DEF Next, PluginReturns
<1>3. CASE run \notin Early /\ run' \in Early
  BY <1>3 DEF Next, PluginReturns, Hijack, PluginAnswers, RunResumes, Upstream, Streams,
     ClientCloses, ClientRequestPluginsReturn, HttpRequestListenersReturn,
     DispatchPluginsReturn, ConnectPluginsReturn, RequestPluginsReturn,
     ResponsePluginsReturn, TargetErrorPluginsReturn, Returns, Pending,
     NextTurn, EndOfPipeline, EnterResponsePhase, StepAborts, StepFails,
     UpstreamConnects, UpstreamResponds, UpstreamFails, UpstreamErrorEvent,
     UpstreamTimesOut, UploadEnds, UploadFinishes, CopyBreaks, RequestEventSettles,
     StreamCompletes, StreamBreaks, ResponseFlushed
<1> QED
  BY <1>1, <1>2, <1>3

\* Only the abort branch of dispatchUpstreamConnect sets the flag, and it rejects.
LEMMA AbortRejectsStep ==
  ASSUME IInv, Next
  PROVE  AbortRejects'
<1> init \in InitType
  BY DEF IInv, TypeOK
<1>1. ASSUME init'.aborted => init.aborted, UNCHANGED conn PROVE AbortRejects'
  BY <1>1 DEF IInv, AbortRejects
<1>2. ASSUME NEW code, EmitError(code) PROVE init'.aborted = init.aborted
  BY <1>2 DEF EmitError, InitType
<1>3. ASSUME NEW o, ConnectPluginsReturn(o) PROVE AbortRejects'
  <2>1. conn = "plugins" /\ ~init.aborted
    BY <1>3 DEF ConnectPluginsReturn, Returns, Pending, IInv, AbortRejects
  <2> QED
    BY <1>3, <2>1 DEF ConnectPluginsReturn, AbortRejects
<1>4. CASE PluginReturns
  <2>1. ASSUME NEW o, HttpRequestListenersReturn(o)
        PROVE  init'.aborted = init.aborted /\ UNCHANGED conn
    BY <2>1 DEF HttpRequestListenersReturn, MiddlewareStops, RejectUrl, RequestThrows,
       StartUpstream, InitType
  <2> QED
    BY <1>1, <1>3, <1>4, <2>1
       DEF PluginReturns, ClientRequestPluginsReturn, DispatchPluginsReturn,
           RequestPluginsReturn, ResponsePluginsReturn, TargetErrorPluginsReturn
<1>5. CASE Upstream
  <2>1. CASE UpstreamConnects
    BY <2>1 DEF UpstreamConnects, IInv, AbortRejects
  <2> QED
    BY <1>1, <1>2, <1>5, <2>1
       DEF Upstream, UpstreamResponds, UpstreamFails, UpstreamErrorEvent, UpstreamTimesOut
<1>6. CASE Streams
  <2>1. init'.aborted = init.aborted /\ UNCHANGED conn
    BY <1>6 DEF Streams, UploadEnds, UploadFinishes, CopyBreaks, RequestEventSettles,
       StreamCompletes, StreamBreaks, ResponseFlushed, InitType
  <2> QED
    BY <1>1, <2>1
<1>7. CASE ClientCloses
  BY <1>1, <1>7 DEF ClientCloses, InitType
<1> QED
  BY <1>1, <1>4, <1>5, <1>6, <1>7 DEF Next, Hijack, PluginAnswers, RunResumes

\* IInv is inductive: it holds initially and every step keeps it.
THEOREM Inductive == Spec => []IInv
<1>1. Init => IInv
  BY InitTypeOK DEF Init, IInv, ActiveUntilAnswered, AnsweredIsOver, ResponseComesFirst,
     RequestPhaseComesFirst, AbortRejects
<1>2. IInv /\ [Next]_vars => IInv'
  <2> SUFFICES ASSUME IInv, [Next]_vars PROVE IInv'
    OBVIOUS
  <2>1. TypeOK'
    BY TypeStep DEF IInv
  <2>2. CASE Next
    <3>1. ActiveUntilAnswered' /\ AnsweredIsOver'
      BY <2>2, OverStep DEF OverKept, ActiveUntilAnswered, AnsweredIsOver, Over
    <3> QED
      BY <2>1, <2>2, <3>1, ResponseComesFirstStep, RequestPhaseComesFirstStep,
         AbortRejectsStep DEF IInv
  <2>3. CASE UNCHANGED vars
    BY <2>1, <2>3 DEF vars, IInv, ActiveUntilAnswered, AnsweredIsOver,
       ResponseComesFirst, RequestPhaseComesFirst, AbortRejects
  <2> QED
    BY <2>2, <2>3
<1> QED
  BY <1>1, <1>2, PTL DEF Spec

\* A request leaves activeRequests only when its response has ended or is destroyed.
THEOREM DrainedIsAnswered == Spec => []ActiveUntilAnswered
<1>1. IInv => ActiveUntilAnswered
  BY DEF IInv
<1> QED
  BY <1>1, Inductive, PTL

-----------------------------------------------------------------------------
(* Action properties. *)

\* Operations on a response keep a head that is out.
LEMMA HeadKept ==
  ASSUME NEW r \in ResType, NEW c, r.code # "none"
  PROVE  /\ Answer(r, c) = r
         /\ DestroyRes(r).code = r.code
         /\ AnswerOrDestroy(r, c).code = r.code
         /\ FailedResponse(r).code = r.code
         /\ [r EXCEPT !.ended = TRUE].code = r.code
         /\ [r EXCEPT !.destroyed = TRUE, !.closed = TRUE].code = r.code
  BY DEF ResType, Answer, DestroyRes, AnswerOrDestroy, FailedResponse, FailureScope

LEMMA ProceedKeepsHead ==
  ASSUME NEW l, NEW a, NEW r \in ResType, r.code # "none", ProceedWithResponse(l, a, r)
  PROVE  res'.code = r.code
  BY HeadKept DEF ProceedWithResponse, DispatchNoContent, DispatchStream

\* The head of the client response is written once.
THEOREM HeadWrittenOnce == Spec => OneAnswer
<1>1. ASSUME IInv, [Next]_vars, res.code # "none" PROVE res'.code = res.code
  <2> res \in ResType
    BY <1>1 DEF IInv, TypeOK
  <2>1. CASE res' = res
    BY <2>1
  <2>2. ASSUME NextTurn \/ StepAborts("request") \/ StepAborts("response") \/ StepFails
        PROVE  res'.code = res.code
    BY <1>1, <2>2, HeadKept
       DEF NextTurn, EndOfPipeline, EnterResponsePhase, StepAborts, StepFails, OpenBridge
  <2>3. ASSUME NEW code, EmitError(code) PROVE res'.code = res.code
    BY <1>1, <2>3, HeadKept DEF EmitError
  <2>4. DestroyRes(res) \in ResType /\ DestroyRes(res).code = res.code
    BY <1>1, HeadKept, DestroyResType
  <2>5. CASE PluginReturns
    <3>1. ASSUME NEW o, ResponsePluginsReturn(o) PROVE res'.code = res.code
      BY <1>1, <2>4, <3>1, ProceedKeepsHead DEF ResponsePluginsReturn
    <3>2. ASSUME NEW o, ClientRequestPluginsReturn(o) PROVE res'.code = res.code
      BY <2>4, <3>2 DEF ClientRequestPluginsReturn, MiddlewareStops
    <3>3. ASSUME NEW o, HttpRequestListenersReturn(o) PROVE res'.code = res.code
      <4>1. CASE MiddlewareStops(o)
        BY <2>4, <4>1 DEF MiddlewareStops
      <4>2. CASE RejectUrl \/ RequestThrows \/ StartUpstream
        BY <1>1, <4>2, HeadKept DEF RejectUrl, RequestThrows, StartUpstream, OpenBridge
      <4> QED
        BY <3>3, <4>1, <4>2 DEF HttpRequestListenersReturn
    <3>4. ASSUME NEW o, ConnectPluginsReturn(o) PROVE res'.code = res.code
      BY <1>1, <3>4, HeadKept DEF ConnectPluginsReturn, StartRequestPipeline
    <3>5. ASSUME NEW o, TargetErrorPluginsReturn(o) PROVE res'.code = res.code
      BY <1>1, <3>5, HeadKept DEF TargetErrorPluginsReturn
    <3> QED
      BY <2>1, <2>2, <2>5, <3>1, <3>2, <3>3, <3>4, <3>5
         DEF PluginReturns, DispatchPluginsReturn, RequestPluginsReturn
  <2>6. CASE Upstream
    BY <2>1, <2>3, <2>6 DEF Upstream, UpstreamConnects, UpstreamResponds,
       UpstreamFails, UpstreamErrorEvent, UpstreamTimesOut
  <2>7. CASE Streams
    <3>1. CASE RequestEventSettles
      BY <1>1, <3>1, ProceedKeepsHead DEF RequestEventSettles
    <3>2. CASE StreamCompletes \/ ResponseFlushed
      BY <1>1, <3>2, HeadKept DEF StreamCompletes, ResponseFlushed
    <3>3. ASSUME NEW expected, StreamBreaks(expected) PROVE res'.code = res.code
      BY <2>4, <3>3 DEF StreamBreaks
    <3> QED
      BY <2>1, <2>7, <3>1, <3>2, <3>3 DEF Streams, UploadEnds, UploadFinishes, CopyBreaks
  <2>8. CASE ClientCloses
    BY <1>1, <2>8, HeadKept DEF ClientCloses
  <2>9. CASE PluginAnswers
    BY <1>1, <2>9 DEF PluginAnswers
  <2> QED
    BY <1>1, <2>1, <2>2, <2>5, <2>6, <2>7, <2>8, <2>9 DEF Next, Hijack, RunResumes, vars
<1> QED
  BY <1>1, Inductive, PTL DEF Spec, OneAnswer

\* Once the lifecycle is terminal Pipeline.run enters no phase.
THEOREM TerminalIsFinal == Spec => TerminalEndsPhases
<1>1. ASSUME IInv, [Next]_vars, Terminal(life) PROVE jumps' = jumps
  <2>1. ~EnterResponsePhase
    BY <1>1 DEF EnterResponsePhase, Stops
  <2>2. ASSUME NextTurn \/ StepAborts("request") \/ StepAborts("response") \/ StepFails
        PROVE  jumps' = jumps
    BY <2>1, <2>2 DEF NextTurn, EndOfPipeline, StepAborts, StepFails
  <2>3. ASSUME NEW o, HttpRequestListenersReturn(o) PROVE jumps' = jumps
    <3>1. life.abort = "none" /\ life.failure = "none"
      BY <1>1, <2>3 DEF HttpRequestListenersReturn, Returns, Pending, IInv,
         RequestPhaseComesFirst
    <3>2. life.hijacked
      BY <1>1, <3>1 DEF Terminal
    <3> QED
      BY <2>3, <3>2 DEF HttpRequestListenersReturn
  <2>4. CASE PluginReturns
    BY <2>2, <2>3, <2>4
       DEF PluginReturns, ClientRequestPluginsReturn, DispatchPluginsReturn,
           ConnectPluginsReturn, RequestPluginsReturn, ResponsePluginsReturn,
           TargetErrorPluginsReturn
  <2>5. CASE Upstream \/ Streams \/ ClientCloses \/ Hijack \/ PluginAnswers
    BY <2>5 DEF Upstream, UpstreamConnects, UpstreamResponds, UpstreamFails,
       UpstreamErrorEvent, UpstreamTimesOut, Streams, UploadEnds, UploadFinishes,
       CopyBreaks, RequestEventSettles, StreamCompletes, StreamBreaks, ResponseFlushed,
       ClientCloses, Hijack, PluginAnswers
  <2>6. CASE RunResumes
    BY <2>2, <2>6 DEF RunResumes
  <2> QED
    BY <1>1, <2>4, <2>5, <2>6 DEF Next, vars
<1> QED
  BY <1>1, Inductive, PTL DEF Spec, TerminalEndsPhases

\* The body copy starts neither after a 502 of the initiator, nor after the client has
\* gone, nor after an abort of proxy:upstream-connect.
THEOREM ForwardNotLate == Spec => NoLateForward
<1>1. ASSUME IInv, [Next]_vars, init.failed \/ init.disconnected \/ init.aborted,
             pipe = "none"
      PROVE  pipe' = "none"
  <2>1. ASSUME NEW o, ConnectPluginsReturn(o) PROVE pipe' = "none"
    <3>1. ~init.aborted
      BY <2>1, <1>1 DEF ConnectPluginsReturn, Returns, Pending, IInv, AbortRejects
    <3>2. ~MayForward
      BY <1>1, <3>1 DEF MayForward
    <3> QED
      BY <1>1, <2>1, <3>2 DEF ConnectPluginsReturn, StartRequestPipeline
  <2>2. CASE PluginReturns
    BY <1>1, <2>1, <2>2
       DEF PluginReturns, ClientRequestPluginsReturn, HttpRequestListenersReturn,
           DispatchPluginsReturn, RequestPluginsReturn, ResponsePluginsReturn,
           TargetErrorPluginsReturn
  <2>3. ASSUME NEW code, EmitError(code) PROVE pipe' = "none"
    BY <1>1, <2>3 DEF EmitError
  <2>4. CASE Upstream
    BY <1>1, <2>3, <2>4 DEF Upstream, UpstreamConnects, UpstreamResponds, UpstreamFails,
       UpstreamErrorEvent, UpstreamTimesOut
  <2>5. CASE Streams
    BY <1>1, <2>5 DEF Streams, UploadEnds, UploadFinishes, CopyBreaks,
       RequestEventSettles, StreamCompletes, StreamBreaks, ResponseFlushed
  <2> QED
    BY <1>1, <2>2, <2>4, <2>5 DEF Next, Hijack, PluginAnswers, RunResumes, ClientCloses, vars
<1> QED
  BY <1>1, Inductive, PTL DEF Spec, NoLateForward

-----------------------------------------------------------------------------
(* Time-outs.  The invariant that keeps a 502 away from a time-out that strikes during
   or after the body copy says what has gone before, and who has given up. *)

Waits == resp \in {"plugins", "waitReq"}

\* The upstream request comes before what is done with it.
UpstreamComesFirst ==
  /\ up.st = "none" => conn = "idle" /\ resp = "idle" /\ bridge = "none"
  /\ run \in {"dispatch", "bridge"} => up.st # "none"
  /\ run = "dispatch" => bridge = "none"
  /\ pipe # "none" => conn \notin {"idle", "plugins"}
  /\ bridge \in {"none", "hit"} => ~Waits
  /\ bridge = "none" => err.st = "idle"

\* The bridge enters no phase again while its "response" listener waits.
ResolvedStops == bridge = "resolved" /\ Waits => life.hijacked

\* Errors and time-outs are of upstream requests that are destroyed, and nothing else
\* happens to one that has timed out.
ErrorsDestroy ==
  /\ up.err \/ err.st # "idle" \/ up.timer = "handled" => up.st = "destroyed"
  /\ up.timer = "handled" =>
       /\ ~up.err /\ run \in {"bridge", "done"}
       /\ err.st = "plugins" => err.code = "timeout"
       /\ bridge = "open" => ~Waits

\* Who makes the bridge fail has answered or destroyed the response.
FailedIsOver == bridge = "failed" => Over(res)

\* Who answers 502 leaves no upstream request that could time out for the bridge.
BadGatewayIsLate ==
  res.code = "502" => up.st = "destroyed" \/ Exchanged \/ (bridge = "none" /\ run = "done")

TimeoutInv ==
  /\ IInv
  /\ UpstreamComesFirst /\ ResolvedStops /\ ErrorsDestroy /\ FailedIsOver
  /\ BadGatewayIsLate /\ StartedTimeoutIs504

LEMMA DestroyUpMoves ==
  ASSUME NEW u \in UpType
  PROVE  /\ DestroyUp(u).timer = u.timer
         /\ u.st \in {"none", "destroyed"} => DestroyUp(u) = u
         /\ u.st # "none" => DestroyUp(u).st # "none"
         /\ u.st # "none" /\ ~Exchanged => DestroyUp(u).st = "destroyed"
         /\ (u.err => u.st = "destroyed") => (DestroyUp(u).err => DestroyUp(u).st = "destroyed")
  BY DEF DestroyUp, UpType

\* The ways of the upstream request.
UpMoves ==
  \/ up' \in {up, DestroyUp(up)}
  \/ run = "listeners" /\ up' = [up EXCEPT !.st = "connecting"]
  \/ up.st = "connecting" /\ up' = [up EXCEPT !.st = "open"]
  \/ UpLive /\ up' = [up EXCEPT !.st = "destroyed"]
  \/ up.err /\ up' = [up EXCEPT !.err = FALSE]
  \/ UpLive /\ up' = [up EXCEPT !.timer = "lost"]
  \/ UpstreamTimesOut /\ bridge \notin {"none", "hit"}

LEMMA NextMovesUp == Next => UpMoves
<1>1. ASSUME NEW l, NEW a, NEW r, ProceedWithResponse(l, a, r)
      PROVE  up' \in {up, DestroyUp(up)}
  BY <1>1 DEF ProceedWithResponse, DispatchNoContent, DispatchStream
<1>2. ASSUME NEW o, HttpRequestListenersReturn(o)
      PROVE  UpMoves
  <2>1. run = "listeners"
    BY <1>2 DEF HttpRequestListenersReturn, Returns, Pending
  <2>2. up' = up \/ up' = [up EXCEPT !.st = "connecting"]
    BY <1>2 DEF HttpRequestListenersReturn, MiddlewareStops, RejectUrl, RequestThrows,
       StartUpstream
  <2> QED
    BY <2>1, <2>2 DEF UpMoves
<1>3. ASSUME NEW o, ConnectPluginsReturn(o)
      PROVE  up' \in {up, DestroyUp(up)}
  BY <1>3 DEF ConnectPluginsReturn, StartRequestPipeline
<1>4. CASE PluginReturns
  BY <1>1, <1>2, <1>3, <1>4
     DEF PluginReturns, ClientRequestPluginsReturn, DispatchPluginsReturn,
         RequestPluginsReturn, ResponsePluginsReturn, TargetErrorPluginsReturn, UpMoves
<1>5. CASE Upstream
  <2>1. CASE UpstreamTimesOut
    BY <2>1 DEF UpstreamTimesOut, UpMoves
  <2> QED
    BY <1>5, <2>1 DEF Upstream, UpstreamConnects, UpstreamResponds, UpstreamFails,
       UpstreamErrorEvent, UpMoves
<1>6. CASE Streams
  BY <1>1, <1>6
     DEF Streams, UploadEnds, UploadFinishes, CopyBreaks, RequestEventSettles,
         StreamCompletes, StreamBreaks, ResponseFlushed, UpMoves
<1>7. CASE Hijack \/ PluginAnswers \/ RunResumes \/ ClientCloses
  BY <1>7 DEF Hijack, PluginAnswers, RunResumes, ClientCloses, UpMoves
<1> QED
  BY <1>4, <1>5, <1>6, <1>7 DEF Next

LEMMA UpMovesOn ==
  ASSUME TimeoutInv, UpMoves
  PROVE  /\ up.st # "none" => up'.st # "none"
         /\ up.st = "destroyed" =>
              up'.st = "destroyed" /\ up'.timer = up.timer /\ (~up.err => ~up'.err)
         /\ up'.err \/ up'.timer = "handled" => up'.st = "destroyed"
         /\ up'.timer = "handled" /\ up.timer # "handled" =>
              UpstreamTimesOut /\ UpLive /\ bridge \notin {"none", "hit"} /\ ~up'.err
<1>1. up \in UpType /\ (up.err \/ up.timer = "handled" => up.st = "destroyed")
  BY DEF TimeoutInv, IInv, TypeOK, ErrorsDestroy
<1>2. run = "listeners" => up.st = "none"
  BY DEF TimeoutInv, IInv, RequestPhaseComesFirst
<1>3. UpLive => up.st \in {"connecting", "open"}
  BY DEF UpLive
<1>4. UpstreamTimesOut /\ bridge \notin {"none", "hit"} =>
        UpLive /\ up' = [up EXCEPT !.st = "destroyed", !.timer = "handled"]
  BY DEF UpstreamTimesOut
<1>5. CASE up' \in {up, DestroyUp(up)}
  <2>1. ~(UpstreamTimesOut /\ bridge \notin {"none", "hit"}) \/ up'.timer = up.timer
    BY <1>1, <1>5, DestroyUpMoves
  <2>2. UpstreamTimesOut /\ bridge \notin {"none", "hit"} => up'.timer = "handled" /\ up.timer = "armed"
    BY <1>1, <1>4 DEF UpstreamTimesOut, UpType
  <2> QED
    BY <1>1, <1>5, <2>1, <2>2, DestroyUpMoves
<1>6. CASE ~(up' \in {up, DestroyUp(up)})
  BY <1>1, <1>2, <1>3, <1>4, <1>6 DEF UpMoves, UpType
<1> QED
  BY <1>5, <1>6

\* What has been exchanged stays so.
LEMMA ExchangedStays == TimeoutInv /\ Next /\ Exchanged => Exchanged'
<1> SUFFICES ASSUME TimeoutInv, Next, Exchanged
             PROVE  upRes' = upRes /\ pipe' = pipe
  BY DEF Exchanged
<1>1. upRes \in {"done", "dumped"} /\ pipe = "done" /\ CutUpRes = upRes
  BY DEF Exchanged, CutUpRes
<1>2. ASSUME NEW l, NEW a, NEW r, ProceedWithResponse(l, a, r)
      PROVE  upRes' = upRes
  BY <1>1, <1>2 DEF ProceedWithResponse, DispatchNoContent, DispatchStream
<1>3. CASE PluginReturns
  <2>1. ASSUME NEW o PROVE ~ConnectPluginsReturn(o)
    BY <1>1 DEF ConnectPluginsReturn, Returns, Pending, TimeoutInv, UpstreamComesFirst
  <2> QED
    BY <1>2, <1>3, <2>1
       DEF PluginReturns, ClientRequestPluginsReturn, HttpRequestListenersReturn,
           DispatchPluginsReturn, RequestPluginsReturn, ResponsePluginsReturn,
           TargetErrorPluginsReturn
<1>4. CASE Upstream
  BY <1>1, <1>4 DEF Upstream, UpstreamConnects, UpstreamResponds, UpstreamFails,
     UpstreamErrorEvent, UpstreamTimesOut, EmitError
<1>5. CASE Streams
  BY <1>1, <1>2, <1>5 DEF Streams, UploadEnds, UploadFinishes, CopyBreaks,
     RequestEventSettles, StreamCompletes, StreamBreaks, ResponseFlushed
<1>6. CASE Hijack \/ PluginAnswers \/ RunResumes \/ ClientCloses
  BY <1>1, <1>6 DEF Hijack, PluginAnswers, RunResumes, ClientCloses
<1> QED
  BY <1>3, <1>4, <1>5, <1>6 DEF Next

LEMMA HijackStays == IInv /\ Next /\ life.hijacked => life'.hijacked
<1> SUFFICES ASSUME IInv, Next, life.hijacked
             PROVE  life'.hijacked
  OBVIOUS
<1> life \in LifeType
  BY DEF IInv, TypeOK
<1>1. ASSUME NEW l \in LifeType, l.hijacked
      PROVE  /\ NoPhase(l).hijacked
             /\ \A phase : PipelineAbort(l, phase).hijacked
             /\ \A r : PipelineFailure(l, r).hijacked
             /\ \A a \in {"request", "response"} : [l EXCEPT !.abort = a].hijacked
             /\ [l EXCEPT !.next = "response"].hijacked
  BY <1>1 DEF NoPhase, PipelineAbort, PipelineFailure, LifeType
<1>2. ASSUME NEW l \in LifeType, NEW a, NEW r, l.hijacked, ProceedWithResponse(l, a, r)
      PROVE  life'.hijacked
  BY <1>1, <1>2 DEF ProceedWithResponse, DispatchNoContent, DispatchStream
<1>3. ASSUME NextTurn \/ StepAborts("request") \/ StepAborts("response") \/ StepFails
      PROVE  life'.hijacked
  BY <1>1, <1>3 DEF NextTurn, EndOfPipeline, EnterResponsePhase, Stops, Terminal, StepAborts,
     StepFails
<1>4. CASE PluginReturns
  <2>1. ASSUME NEW o, MiddlewareStops(o) PROVE life'.hijacked
    BY <1>1, <2>1 DEF MiddlewareStops
  <2>2. ASSUME NEW o, ResponsePluginsReturn(o) PROVE life'.hijacked
    <3>1. [life EXCEPT !.abort = "response"] \in LifeType /\ NoPhase(life) \in LifeType
      BY LifeEdits
    <3> QED
      BY <1>1, <1>2, <2>2, <3>1 DEF ResponsePluginsReturn
  <2>3. ASSUME NEW o, TargetErrorPluginsReturn(o) PROVE life'.hijacked
    BY <1>1, <2>3 DEF TargetErrorPluginsReturn
  <2> QED
    BY <1>3, <1>4, <2>1, <2>2, <2>3
       DEF PluginReturns, ClientRequestPluginsReturn, HttpRequestListenersReturn,
           DispatchPluginsReturn, ConnectPluginsReturn, RequestPluginsReturn
<1>5. CASE Upstream
  BY <1>1, <1>5 DEF Upstream, UpstreamConnects, UpstreamResponds, UpstreamFails,
     UpstreamErrorEvent, UpstreamTimesOut
<1>6. CASE Streams
  BY <1>1, <1>2, <1>6 DEF Streams, UploadEnds, UploadFinishes, CopyBreaks,
     RequestEventSettles, StreamCompletes, StreamBreaks, ResponseFlushed
<1>7. CASE Hijack \/ PluginAnswers \/ RunResumes \/ ClientCloses
  BY <1>3, <1>7 DEF Hijack, PluginAnswers, RunResumes, ClientCloses
<1> QED
  BY <1>4, <1>5, <1>6, <1>7 DEF Next

\* The ways of the promise chain and of the connect event.
RunMoves ==
  \/ run' = run
  \/ run' = "done"
  \/ run = "plugins" /\ run' = "listeners"
  \/ run = "listeners" /\ run' \in {"dispatch", "bridge"} /\ up'.st = "connecting"
  \/ run = "dispatch" /\ run' = "bridge"

LEMMA NextMovesRun == IInv /\ Next => RunMoves
<1> SUFFICES ASSUME IInv, Next
             PROVE  RunMoves
  OBVIOUS
<1>1. CASE run' \in {run, "done"}
  BY <1>1 DEF RunMoves
<1>2. ASSUME NEW o, HttpRequestListenersReturn(o)
      PROVE  RunMoves
  <2>1. run = "listeners" /\ up \in UpType
    BY <1>2 DEF HttpRequestListenersReturn, Returns, Pending, IInv, TypeOK
  <2>2. StartUpstream => run' \in {"dispatch", "bridge"} /\ up'.st = "connecting"
    BY <2>1 DEF StartUpstream, UpType
  <2> QED
    BY <1>1, <1>2, <2>1, <2>2 DEF HttpRequestListenersReturn, MiddlewareStops, RejectUrl,
       RequestThrows, RunMoves
<1>3. CASE PluginReturns \/ RunResumes
  BY <1>1, <1>2, <1>3
     DEF PluginReturns, ClientRequestPluginsReturn, DispatchPluginsReturn,
         ConnectPluginsReturn, RequestPluginsReturn, ResponsePluginsReturn,
         TargetErrorPluginsReturn, RunResumes, Returns, Pending, MiddlewareStops, NextTurn,
         EndOfPipeline, EnterResponsePhase, StepAborts, StepFails, RunMoves
<1>4. CASE Upstream \/ Streams \/ ClientCloses \/ Hijack \/ PluginAnswers
  BY <1>1, <1>4 DEF Upstream, UpstreamConnects, UpstreamResponds, UpstreamFails,
     UpstreamErrorEvent, UpstreamTimesOut, Streams, UploadEnds, UploadFinishes, CopyBreaks,
     RequestEventSettles, StreamCompletes, StreamBreaks, ResponseFlushed, ClientCloses,
     Hijack, PluginAnswers
<1> QED
  BY <1>3, <1>4 DEF Next

ConnMoves ==
  \/ UNCHANGED conn /\ (pipe' # "none" => pipe # "none")
  \/ conn = "idle" /\ up.st = "connecting" /\ UNCHANGED pipe
  \/ /\ conn = "plugins" /\ conn' \in {"resolved", "rejected"}
     /\ pipe' # "none" => pipe # "none" \/ up.st # "destroyed"

LEMMA NextMovesConn == Next => ConnMoves
<1>1. CASE PluginReturns
  BY <1>1
     DEF PluginReturns, ClientRequestPluginsReturn, HttpRequestListenersReturn,
         DispatchPluginsReturn, ConnectPluginsReturn, RequestPluginsReturn,
         ResponsePluginsReturn, TargetErrorPluginsReturn, Returns, Pending,
         StartRequestPipeline, MayForward, ConnMoves
<1>2. CASE Upstream
  BY <1>2 DEF Upstream, UpstreamConnects, UpstreamResponds, UpstreamFails,
     UpstreamErrorEvent, UpstreamTimesOut, EmitError, ConnMoves
<1>3. CASE Streams
  BY <1>3 DEF Streams, UploadEnds, UploadFinishes, CopyBreaks, RequestEventSettles,
     StreamCompletes, StreamBreaks, ResponseFlushed, ConnMoves
<1>4. CASE Hijack \/ PluginAnswers \/ RunResumes \/ ClientCloses
  BY <1>4 DEF Hijack, PluginAnswers, RunResumes, ClientCloses, ConnMoves
<1> QED
  BY <1>1, <1>2, <1>3, <1>4 DEF Next

\* The ways of the bridge, of its listeners, and of the response.
RespMoves ==
  \/ resp' = resp
  \/ bridge = "open" /\ up.st = "open" /\ resp' = "plugins"
  \/ Waits /\ (resp' = "waitReq" => bridge = "open")
  \/ resp = "streaming" /\ resp' = "done"

LEMMA NextMovesResp == Next => RespMoves
<1>1. ASSUME NEW l, NEW a, NEW r, ProceedWithResponse(l, a, r)
      PROVE  resp' = "waitReq" => bridge = "open"
  BY <1>1 DEF ProceedWithResponse, DispatchNoContent, DispatchStream
<1>2. CASE PluginReturns
  BY <1>1, <1>2
     DEF PluginReturns, ClientRequestPluginsReturn, HttpRequestListenersReturn,
         DispatchPluginsReturn, ConnectPluginsReturn, RequestPluginsReturn,
         ResponsePluginsReturn, TargetErrorPluginsReturn, Returns, Pending, RespMoves, Waits
<1>3. CASE Upstream
  BY <1>3 DEF Upstream, UpstreamConnects, UpstreamResponds, UpstreamFails,
     UpstreamErrorEvent, UpstreamTimesOut, RespMoves
<1>4. CASE Streams
  BY <1>1, <1>4 DEF Streams, UploadEnds, UploadFinishes, CopyBreaks, RequestEventSettles,
     StreamCompletes, StreamBreaks, ResponseFlushed, RespMoves, Waits
<1>5. CASE Hijack \/ PluginAnswers \/ RunResumes \/ ClientCloses
  BY <1>5 DEF Hijack, PluginAnswers, RunResumes, ClientCloses, RespMoves
<1> QED
  BY <1>2, <1>3, <1>4, <1>5 DEF Next

ErrMoves ==
  \/ err' = err
  \/ /\ bridge = "open" /\ (UpLive \/ up.err) /\ err'.st = "plugins"
     /\ UpstreamTimesOut => err'.code = "timeout"
  \/ err.st = "plugins" /\ err'.st = "done"

LEMMA NextMovesErr == IInv /\ Next => ErrMoves
<1> SUFFICES ASSUME IInv, Next
             PROVE  ErrMoves
  OBVIOUS
<1> err \in ErrType
  BY DEF IInv, TypeOK
<1>1. CASE PluginReturns
  BY <1>1
     DEF PluginReturns, ClientRequestPluginsReturn, HttpRequestListenersReturn,
         DispatchPluginsReturn, ConnectPluginsReturn, RequestPluginsReturn,
         ResponsePluginsReturn, TargetErrorPluginsReturn, Returns, Pending, ErrMoves, ErrType
<1>2. CASE Upstream
  <2>1. CASE UpstreamConnects \/ UpstreamResponds
    BY <2>1 DEF UpstreamConnects, UpstreamResponds, ErrMoves
  <2>2. CASE UpstreamTimesOut
    BY <2>2 DEF UpstreamTimesOut, EmitError, ErrMoves
  <2>3. CASE UpstreamErrorEvent /\ ~UpstreamTimesOut
    BY <2>3 DEF UpstreamErrorEvent, EmitError, ErrMoves
  <2>4. CASE (\E kind \in {"reset", "other", "fin"} : UpstreamFails(kind)) /\ ~UpstreamTimesOut
    BY <2>4 DEF UpstreamFails, EmitError, ErrMoves
  <2> QED
    BY <1>2, <2>1, <2>2, <2>3, <2>4 DEF Upstream
<1>3. CASE Streams
  BY <1>3 DEF Streams, UploadEnds, UploadFinishes, CopyBreaks, RequestEventSettles,
     StreamCompletes, StreamBreaks, ResponseFlushed, ErrMoves
<1>4. CASE Hijack \/ PluginAnswers \/ RunResumes \/ ClientCloses
  BY <1>4 DEF Hijack, PluginAnswers, RunResumes, ClientCloses, ErrMoves
<1> QED
  BY <1>1, <1>2, <1>3, <1>4 DEF Next

BridgeMoves ==
  \/ bridge' = bridge
  \/ bridge = "open" /\ bridge' \in {"claimed", "aborted"}
  \/ /\ err.st = "plugins" /\ bridge' \in {"aborted", "resolved", "failed"}
     /\ bridge' = "resolved" => life.hijacked
     /\ bridge' = "failed" => Over(res')
  \/ /\ bridge = "open" /\ bridge' \in {"aborted", "resolved", "failed"} /\ resp' = "done"
     /\ bridge' = "failed" => Over(res')
  \/ /\ bridge' \in {"hit", "open", "aborted"} /\ UNCHANGED resp
     /\ run \in {"listeners", "dispatch", "bridge"} /\ run' = "bridge"
     /\ run = "bridge" => bridge \in {"resolved", "hit"} /\ ~life.hijacked

LEMMA NextMovesBridge == IInv /\ Next => BridgeMoves
<1> SUFFICES ASSUME IInv, Next
             PROVE  BridgeMoves
  OBVIOUS
<1> res \in ResType
  BY DEF IInv, TypeOK
<1>1. ASSUME NEW l, NEW a, NEW r \in ResType, ProceedWithResponse(l, a, r)
      PROVE  BridgeMoves
  <2>1. CASE bridge' = bridge
    BY <2>1 DEF BridgeMoves
  <2>2. CASE bridge' # bridge
    <3>1. bridge = "open" /\ bridge' \in {"aborted", "resolved", "failed"} /\ resp' = "done"
      BY <1>1, <2>2 DEF ProceedWithResponse, DispatchNoContent, DispatchStream
    <3>2. bridge' = "failed" => res' = IF r.ended THEN r ELSE AnswerOrDestroy(r, "502")
      BY <1>1, <2>2 DEF ProceedWithResponse, DispatchNoContent, DispatchStream
    <3>3. bridge' = "failed" => Over(res')
      BY <3>2, AnswerOrDestroyOver DEF Over
    <3> QED
      BY <3>1, <3>3 DEF BridgeMoves
  <2> QED
    BY <2>1, <2>2
<1>2. ASSUME NEW o, HttpRequestListenersReturn(o)
      PROVE  BridgeMoves
  <2>1. run = "listeners" /\ UNCHANGED resp
    BY <1>2 DEF HttpRequestListenersReturn, Returns, Pending
  <2>2. bridge' = bridge \/ (bridge' \in {"hit", "open", "aborted"} /\ run' = "bridge")
    BY <1>2 DEF HttpRequestListenersReturn, MiddlewareStops, RejectUrl, RequestThrows,
       StartUpstream, OpenBridge
  <2> QED
    BY <2>1, <2>2 DEF BridgeMoves
<1>3. ASSUME NextTurn, run \in {"dispatch", "bridge"}, UNCHANGED resp,
             run = "bridge" => bridge \in {"resolved", "hit"}
      PROVE  BridgeMoves
  <2>1. CASE bridge' = bridge
    BY <2>1 DEF BridgeMoves
  <2>2. CASE bridge' # bridge
    <3>1. ~life.hijacked /\ run' = "bridge" /\ bridge' \in {"hit", "open", "aborted"}
      BY <1>3, <2>2 DEF NextTurn, EndOfPipeline, EnterResponsePhase, Stops, Terminal, OpenBridge
    <3> QED
      BY <1>3, <3>1 DEF BridgeMoves
  <2> QED
    BY <2>1, <2>2
<1>4. ASSUME NEW o, TargetErrorPluginsReturn(o)
      PROVE  BridgeMoves
  <2>1. err.st = "plugins" /\ bridge' \in {"aborted", "resolved", "failed"}
        /\ (bridge' = "resolved" => life.hijacked)
        /\ (bridge' = "failed" => res' = AnswerOrDestroy(res, ErrorAnswer(err.code)))
    BY <1>4 DEF TargetErrorPluginsReturn, Returns, Pending
  <2> QED
    BY <2>1, AnswerOrDestroyOver DEF BridgeMoves
<1>5. CASE PluginReturns
  <2>1. ASSUME NEW o, ResponsePluginsReturn(o) PROVE BridgeMoves
    BY <1>1, <2>1, DestroyResType DEF ResponsePluginsReturn
  <2>2. ASSUME NEW o, DispatchPluginsReturn(o) PROVE BridgeMoves
    <3>1. run = "dispatch" /\ UNCHANGED resp
      BY <2>2 DEF DispatchPluginsReturn, Returns, Pending
    <3>2. CASE UNCHANGED bridge
      BY <3>2 DEF BridgeMoves
    <3> QED
      BY <1>3, <2>2, <3>1, <3>2 DEF DispatchPluginsReturn, StepAborts, StepFails
  <2>3. ASSUME NEW o, ConnectPluginsReturn(o) PROVE BridgeMoves
    BY <2>3 DEF ConnectPluginsReturn, BridgeMoves
  <2> QED
    BY <1>2, <1>4, <1>5, <2>1, <2>2, <2>3
       DEF PluginReturns, ClientRequestPluginsReturn, RequestPluginsReturn, BridgeMoves
<1>6. CASE Upstream
  BY <1>6 DEF Upstream, UpstreamConnects, UpstreamResponds, UpstreamFails,
     UpstreamErrorEvent, UpstreamTimesOut, EmitError, BridgeMoves
<1>7. CASE Streams
  <2>1. ASSUME NEW expected, StreamBreaks(expected) PROVE BridgeMoves
    <3>1. Over(res')
      BY <2>1, DestroyResOver DEF StreamBreaks, Over
    <3> QED
      BY <2>1, <3>1 DEF StreamBreaks, Settles, BridgeMoves
  <2>2. CASE StreamCompletes
    BY <2>2 DEF StreamCompletes, Settles, BridgeMoves
  <2> QED
    BY <1>1, <1>7, <2>1, <2>2 DEF Streams, UploadEnds, UploadFinishes, CopyBreaks,
       RequestEventSettles, ResponseFlushed, BridgeMoves
<1>8. CASE RunResumes
  <2>1. CASE UNCHANGED bridge
    BY <2>1 DEF BridgeMoves
  <2> QED
    BY <1>3, <1>8, <2>1 DEF RunResumes, StepAborts, StepFails
<1>9. CASE Hijack \/ PluginAnswers \/ ClientCloses
  BY <1>9 DEF Hijack, PluginAnswers, ClientCloses, BridgeMoves
<1> QED
  BY <1>5, <1>6, <1>7, <1>8, <1>9 DEF Next

LEMMA OverStays == IInv /\ Next /\ Over(res) => Over(res')
<1> SUFFICES ASSUME IInv, Next, Over(res)
             PROVE  Over(res')
  OBVIOUS
<1> res \in ResType
  BY DEF IInv, TypeOK
<1>1. ASSUME NEW r \in ResType, Over(r)
      PROVE  /\ \A c : Answer(r, c) = r
             /\ Over(DestroyRes(r)) /\ Over(FailedResponse(r))
             /\ \A c : Over(AnswerOrDestroy(r, c))
  BY <1>1, AnswerOver, DestroyResOver, FailedResponseOver, AnswerOrDestroyOver
<1>2. ASSUME NEW l, NEW a, NEW r \in ResType, Over(r), ProceedWithResponse(l, a, r)
      PROVE  Over(res')
  BY <1>1, <1>2 DEF ProceedWithResponse, DispatchNoContent, DispatchStream, Over
<1>3. ASSUME NextTurn \/ StepAborts("request") \/ StepAborts("response") \/ StepFails
      PROVE  Over(res')
  BY <1>1, <1>3
     DEF NextTurn, EndOfPipeline, EnterResponsePhase, StepAborts, StepFails, OpenBridge
<1>4. CASE PluginReturns
  <2>1. ASSUME NEW o, MiddlewareStops(o) PROVE Over(res')
    BY <1>1, <2>1 DEF MiddlewareStops
  <2>2. ASSUME NEW o, ResponsePluginsReturn(o) PROVE Over(res')
    BY <1>1, <1>2, <2>2, DestroyResType DEF ResponsePluginsReturn
  <2>3. CASE RejectUrl \/ RequestThrows \/ StartUpstream
    BY <1>1, <2>3 DEF RejectUrl, RequestThrows, StartUpstream, OpenBridge
  <2>4. ASSUME NEW o, ConnectPluginsReturn(o) PROVE Over(res')
    BY <1>1, <2>4 DEF ConnectPluginsReturn, StartRequestPipeline
  <2>5. ASSUME NEW o, TargetErrorPluginsReturn(o) PROVE Over(res')
    BY <1>1, <2>5 DEF TargetErrorPluginsReturn
  <2> QED
    BY <1>3, <1>4, <2>1, <2>2, <2>3, <2>4, <2>5
       DEF PluginReturns, ClientRequestPluginsReturn, HttpRequestListenersReturn,
           DispatchPluginsReturn, RequestPluginsReturn
<1>5. CASE Upstream
  BY <1>1, <1>5 DEF Upstream, UpstreamConnects, UpstreamResponds, UpstreamFails,
     UpstreamErrorEvent, UpstreamTimesOut, EmitError
<1>6. CASE Streams
  BY <1>1, <1>2, <1>6, ResEditsOver DEF Streams, UploadEnds, UploadFinishes, CopyBreaks,
     RequestEventSettles, StreamCompletes, StreamBreaks, ResponseFlushed
<1>7. CASE Hijack \/ PluginAnswers \/ RunResumes \/ ClientCloses
  BY <1>1, <1>3, <1>7, ResEditsOver DEF Hijack, PluginAnswers, RunResumes, ClientCloses
<1> QED
  BY <1>4, <1>5, <1>6, <1>7 DEF Next

\* Who answers 502.
BadGateways ==
  \/ res.code = "502"
  \/ run \in {"listeners", "dispatch"} /\ run' = "done" /\ UNCHANGED bridge
  \/ run = "bridge" /\ bridge = "failed" /\ res' = FailedResponse(res)
  \/ conn = "plugins" /\ up.st # "destroyed" /\ up' = DestroyUp(up)
  \/ (UpLive \/ up.err) /\ up'.st = "destroyed" /\ (UpstreamTimesOut => pipe = "none")
  \/ err.st = "plugins" /\ err.code # "timeout"
  \/ Waits /\ bridge = "open" /\ up' = DestroyUp(up)

LEMMA OtherCodes ==
  ASSUME NEW r \in ResType
  PROVE  /\ \A c : c # "502" /\ Answer(r, c).code = "502" => r.code = "502"
         /\ \A c : c # "502" /\ AnswerOrDestroy(r, c).code = "502" => r.code = "502"
         /\ DestroyRes(r).code = r.code
         /\ Over(r) => FailedResponse(r).code = r.code
         /\ [r EXCEPT !.code = "upstream"].code # "502"
         /\ [r EXCEPT !.ended = TRUE].code = r.code
         /\ [r EXCEPT !.destroyed = TRUE, !.closed = TRUE].code = r.code
  BY DEF ResType, Answer, DestroyRes, AnswerOrDestroy, FailedResponse, FailureScope, Over

LEMMA WhoAnswersBadGateway == TimeoutInv /\ Next /\ res'.code = "502" => BadGateways
<1> SUFFICES ASSUME TimeoutInv, Next, res'.code = "502", res.code # "502"
             PROVE  BadGateways
  BY DEF BadGateways
<1> res \in ResType /\ up \in UpType /\ err \in ErrType
  BY DEF TimeoutInv, IInv, TypeOK
<1>1. ASSUME NEW l, NEW a, NEW r \in ResType, r.code # "502", ProceedWithResponse(l, a, r)
      PROVE  bridge = "open" /\ up' = DestroyUp(up)
  <2>1. res' # r
    BY <1>1
  <2>2. ~DispatchNoContent(l, r)
    BY <1>1, OtherCodes DEF DispatchNoContent
  <2>3. DispatchStream(l, a, r) => up' = DestroyUp(up)
    BY <1>1, <2>1, OtherCodes DEF DispatchStream
  <2> QED
    BY <1>1, <2>1, <2>2, <2>3 DEF ProceedWithResponse
<1>2. ASSUME NextTurn \/ StepAborts("request") \/ StepAborts("response") \/ StepFails
      PROVE  res' = FailedResponse(res) /\ run' = "done" /\ UNCHANGED bridge /\ StepFails
  BY <1>2, OtherCodes
     DEF NextTurn, EndOfPipeline, EnterResponsePhase, StepAborts, StepFails, OpenBridge
<1>3. CASE PluginReturns
  <2>1. ASSUME NEW o, MiddlewareStops(o) PROVE FALSE
    BY <2>1, OtherCodes DEF MiddlewareStops
  <2>2. ASSUME NEW o, HttpRequestListenersReturn(o) PROVE BadGateways
    <3>1. run = "listeners"
      BY <2>2 DEF HttpRequestListenersReturn, Returns, Pending
    <3>2. ~RejectUrl /\ ~StartUpstream
      BY OtherCodes DEF RejectUrl, StartUpstream, OpenBridge
    <3> QED
      BY <2>1, <2>2, <3>1, <3>2 DEF HttpRequestListenersReturn, RequestThrows, BadGateways
  <2>3. ASSUME NEW o, DispatchPluginsReturn(o) PROVE BadGateways
    BY <1>2, <2>3 DEF DispatchPluginsReturn, Returns, Pending, BadGateways
  <2>4. ASSUME NEW o, ConnectPluginsReturn(o) PROVE BadGateways
    BY <2>4 DEF ConnectPluginsReturn, Returns, Pending, StartRequestPipeline, MayForward,
       BadGateways
  <2>5. ASSUME NEW o, ResponsePluginsReturn(o) PROVE BadGateways
    <3>1. DestroyRes(res) \in ResType /\ DestroyRes(res).code # "502"
      BY OtherCodes, DestroyResType
    <3>2. bridge = "open" /\ up' = DestroyUp(up)
      BY <1>1, <2>5, <3>1 DEF ResponsePluginsReturn
    <3> QED
      BY <2>5, <3>2 DEF ResponsePluginsReturn, Returns, Pending, Waits, BadGateways
  <2>6. ASSUME NEW o, TargetErrorPluginsReturn(o) PROVE BadGateways
    <3>1. err.st = "plugins"
      BY <2>6 DEF TargetErrorPluginsReturn, Returns, Pending
    <3>2. res' = AnswerOrDestroy(res, ErrorAnswer(err.code))
      BY <2>6 DEF TargetErrorPluginsReturn
    <3>3. err.code # "timeout"
      BY <3>2, OtherCodes DEF ErrorAnswer
    <3> QED
      BY <3>1, <3>3 DEF BadGateways
  <2> QED
    BY <1>3, <2>1, <2>2, <2>3, <2>4, <2>5, <2>6
       DEF PluginReturns, ClientRequestPluginsReturn, RequestPluginsReturn
<1>4. CASE Upstream
  <2>1. CASE UpstreamTimesOut
    BY <2>1 DEF UpstreamTimesOut, EmitError, UpType, BadGateways
  <2>2. CASE UpstreamErrorEvent /\ ~UpstreamTimesOut
    <3>1. up.err /\ up'.st = "destroyed"
      BY <2>2 DEF UpstreamErrorEvent, TimeoutInv, ErrorsDestroy, UpType
    <3> QED
      BY <2>2, <3>1 DEF BadGateways
  <2>3. CASE (\E kind \in {"reset", "other", "fin"} : UpstreamFails(kind)) /\ ~UpstreamTimesOut
    <3>1. UpLive /\ up'.st = "destroyed"
      BY <2>3 DEF UpstreamFails, UpType
    <3> QED
      BY <2>3, <3>1 DEF BadGateways
  <2> QED
    BY <1>4, <2>1, <2>2, <2>3 DEF Upstream, UpstreamConnects, UpstreamResponds
<1>5. CASE Streams
  <2>1. CASE RequestEventSettles
    BY <1>1, <2>1 DEF RequestEventSettles, Waits, BadGateways
  <2> QED
    BY <1>5, <2>1, OtherCodes DEF Streams, UploadEnds, UploadFinishes, CopyBreaks,
       StreamCompletes, StreamBreaks, ResponseFlushed
<1>6. CASE RunResumes
  <2>1. StepFails /\ res' = FailedResponse(res)
    BY <1>2, <1>6 DEF RunResumes
  <2>2. run = "bridge" /\ (bridge = "failed" \/ NextTurn \/ StepAborts("response"))
    BY <1>6 DEF RunResumes
  <2>3. ~NextTurn /\ ~StepAborts("response")
    BY OtherCodes DEF NextTurn, EndOfPipeline, EnterResponsePhase, StepAborts, OpenBridge
  <2> QED
    BY <2>1, <2>2, <2>3 DEF BadGateways
<1>7. CASE Hijack \/ PluginAnswers \/ ClientCloses
  <2>1. ~Hijack
    BY DEF Hijack
  <2>2. CASE PluginAnswers
    BY <2>2, OtherCodes DEF PluginAnswers
  <2>3. CASE ClientCloses
    <3>1. res' = [res EXCEPT !.destroyed = TRUE, !.closed = TRUE]
      BY <2>3 DEF ClientCloses
    <3>2. res'.code = res.code
      BY <3>1, OtherCodes
    <3> QED
      BY <3>2
  <2> QED
    BY <1>7, <2>1, <2>2, <2>3
<1> QED
  BY <1>3, <1>4, <1>5, <1>6, <1>7 DEF Next

LEMMA EarlyIsEmpty ==
  ASSUME TimeoutInv, run \in {"plugins", "listeners"}
  PROVE  /\ up.st = "none" /\ bridge = "none" /\ ~Waits /\ conn = "idle"
         /\ err.st = "idle" /\ pipe = "none"
  BY DEF TimeoutInv, IInv, RequestPhaseComesFirst, Waits

LEMMA UpstreamComesFirstStep == TimeoutInv /\ Next => UpstreamComesFirst'
<1> SUFFICES ASSUME TimeoutInv, Next
             PROVE  UpstreamComesFirst'
  OBVIOUS
<1>1. UpstreamComesFirst /\ ResolvedStops
  BY DEF TimeoutInv
<1>2. /\ RunMoves /\ ConnMoves /\ RespMoves /\ ErrMoves /\ BridgeMoves
      /\ up.st # "none" => up'.st # "none"
      /\ err.st # "idle" => up.st = "destroyed"
  BY NextMovesRun, NextMovesConn, NextMovesResp, NextMovesErr, NextMovesBridge, NextMovesUp,
     UpMovesOn DEF TimeoutInv, ErrorsDestroy
<1>3. run = "listeners" /\ run' = "bridge" => up'.st # "none"
  BY <1>2 DEF RunMoves
<1>4. up'.st = "none" => conn' = "idle" /\ resp' = "idle" /\ bridge' = "none"
  <2> SUFFICES ASSUME up'.st = "none"
               PROVE  conn' = "idle" /\ resp' = "idle" /\ bridge' = "none"
    OBVIOUS
  <2>1. up.st = "none" /\ conn = "idle" /\ resp = "idle" /\ bridge = "none" /\ err.st = "idle"
    BY <1>1, <1>2 DEF UpstreamComesFirst
  <2>2. run \notin {"dispatch", "bridge"}
    BY <1>1, <2>1 DEF UpstreamComesFirst
  <2> QED
    BY <1>2, <1>3, <2>1, <2>2 DEF ConnMoves, RespMoves, BridgeMoves, Waits
<1>5. run' \in {"dispatch", "bridge"} => up'.st # "none"
  BY <1>1, <1>2 DEF RunMoves, UpstreamComesFirst
<1>6. run' = "dispatch" => bridge' = "none"
  <2> SUFFICES ASSUME run' = "dispatch"
               PROVE  bridge' = "none"
    OBVIOUS
  <2>1. run \in {"listeners", "dispatch"} /\ bridge = "none"
    BY <1>1, <1>2, EarlyIsEmpty DEF RunMoves, UpstreamComesFirst
  <2>2. bridge' = bridge \/ err.st = "plugins"
    BY <1>2, <2>1 DEF BridgeMoves
  <2>3. err.st = "idle"
    BY <1>1, <2>1 DEF UpstreamComesFirst
  <2> QED
    BY <2>1, <2>2, <2>3
<1>7. pipe' # "none" => conn' \notin {"idle", "plugins"}
  BY <1>1, <1>2 DEF ConnMoves, UpstreamComesFirst
<1>8. bridge' \in {"none", "hit"} => ~Waits'
  <2> SUFFICES ASSUME bridge' \in {"none", "hit"}
               PROVE  ~Waits'
    OBVIOUS
  <2>1. CASE bridge' = bridge
    BY <1>1, <1>2, <2>1 DEF RespMoves, UpstreamComesFirst, Waits
  <2>2. CASE bridge' # bridge
    <3>1. UNCHANGED resp /\ run \in {"listeners", "dispatch", "bridge"}
          /\ (run = "bridge" => bridge \in {"resolved", "hit"} /\ ~life.hijacked)
      BY <1>2, <2>2 DEF BridgeMoves
    <3>2. ~Waits
      BY <1>1, <3>1, EarlyIsEmpty DEF UpstreamComesFirst, ResolvedStops
    <3> QED
      BY <3>1, <3>2 DEF Waits
  <2> QED
    BY <2>1, <2>2
<1>9. bridge' = "none" => err'.st = "idle"
  BY <1>1, <1>2 DEF BridgeMoves, ErrMoves, UpstreamComesFirst
<1> QED
  BY <1>4, <1>5, <1>6, <1>7, <1>8, <1>9 DEF UpstreamComesFirst

LEMMA ResolvedStopsStep == TimeoutInv /\ Next => ResolvedStops'
<1> SUFFICES ASSUME TimeoutInv, Next, bridge' = "resolved", Waits'
             PROVE  life'.hijacked
  BY DEF ResolvedStops
<1>1. RespMoves /\ BridgeMoves /\ (life.hijacked => life'.hijacked)
  BY NextMovesResp, NextMovesBridge, HijackStays DEF TimeoutInv
<1>2. CASE bridge' = bridge
  <2>1. Waits
    BY <1>1, <1>2 DEF RespMoves, Waits
  <2> QED
    BY <1>1, <1>2, <2>1 DEF TimeoutInv, ResolvedStops
<1>3. CASE bridge' # bridge
  BY <1>1, <1>3 DEF BridgeMoves, Waits
<1> QED
  BY <1>2, <1>3

LEMMA FailedIsOverStep == TimeoutInv /\ Next => FailedIsOver'
<1> SUFFICES ASSUME TimeoutInv, Next, bridge' = "failed"
             PROVE  Over(res')
  BY DEF FailedIsOver, Over
<1>1. BridgeMoves /\ (Over(res) => Over(res'))
  BY NextMovesBridge, OverStays DEF TimeoutInv
<1> QED
  BY <1>1 DEF BridgeMoves, TimeoutInv, FailedIsOver

\* What a time-out that the bridge has heard is and leaves behind.
LEMMA TimeoutHeard ==
  ASSUME TimeoutInv, Next, up'.timer = "handled", up.timer # "handled"
  PROVE  /\ UpstreamTimesOut /\ UpLive /\ bridge \notin {"none", "hit"}
         /\ up'.st = "destroyed" /\ ~up'.err
         /\ run' = run /\ run \in {"bridge", "done"}
         /\ err'.st = "plugins" => err'.code = "timeout"
         /\ bridge' # "open"
<1>1. /\ UpstreamTimesOut /\ UpLive /\ bridge \notin {"none", "hit"}
      /\ up'.st = "destroyed" /\ ~up'.err
  BY NextMovesUp, UpMovesOn
<1>2. UNCHANGED run /\ bridge' # "open"
  BY <1>1 DEF UpstreamTimesOut, EmitError
<1>3. run \in {"bridge", "done"}
  BY <1>1, EarlyIsEmpty DEF TimeoutInv, IInv, TypeOK, UpstreamComesFirst
<1>4. err.st # "plugins"
  BY <1>1 DEF TimeoutInv, ErrorsDestroy, UpLive
<1>5. err'.st = "plugins" => err'.code = "timeout"
  BY <1>1, <1>4, NextMovesErr DEF TimeoutInv, ErrMoves
<1> QED
  BY <1>1, <1>2, <1>3, <1>5

LEMMA EmittedErrorDestroys ==
  ASSUME TimeoutInv, Next, err.st = "idle", err' # err
  PROVE  up'.st = "destroyed"
<1>1. up \in UpType /\ (up.err => up.st = "destroyed")
  BY DEF TimeoutInv, IInv, TypeOK, ErrorsDestroy
<1>2. CASE PluginReturns
  BY <1>2 DEF PluginReturns, ClientRequestPluginsReturn, HttpRequestListenersReturn,
     DispatchPluginsReturn, ConnectPluginsReturn, RequestPluginsReturn,
     ResponsePluginsReturn, TargetErrorPluginsReturn, Returns, Pending
<1>3. CASE Upstream
  <2>1. CASE UpstreamTimesOut
    BY <1>1, <2>1 DEF UpstreamTimesOut, UpType
  <2>2. CASE UpstreamErrorEvent
    BY <1>1, <2>2 DEF UpstreamErrorEvent, UpType
  <2>3. CASE \E kind \in {"reset", "other", "fin"} : UpstreamFails(kind)
    BY <1>1, <2>3 DEF UpstreamFails, UpType
  <2> QED
    BY <1>3, <2>1, <2>2, <2>3 DEF Upstream, UpstreamConnects, UpstreamResponds
<1>4. CASE Streams
  BY <1>4 DEF Streams, UploadEnds, UploadFinishes, CopyBreaks, RequestEventSettles,
     StreamCompletes, StreamBreaks, ResponseFlushed
<1>5. CASE Hijack \/ PluginAnswers \/ RunResumes \/ ClientCloses
  BY <1>5 DEF Hijack, PluginAnswers, RunResumes, ClientCloses
<1> QED
  BY <1>2, <1>3, <1>4, <1>5 DEF Next

LEMMA ErrorsDestroyStep == TimeoutInv /\ Next => ErrorsDestroy'
<1> SUFFICES ASSUME TimeoutInv, Next
             PROVE  ErrorsDestroy'
  OBVIOUS
<1>1. ErrorsDestroy /\ UpstreamComesFirst /\ ResolvedStops
  BY DEF TimeoutInv
<1>2. /\ up.st = "destroyed" =>
           up'.st = "destroyed" /\ up'.timer = up.timer /\ (~up.err => ~up'.err)
      /\ up'.err \/ up'.timer = "handled" => up'.st = "destroyed"
  BY NextMovesUp, UpMovesOn
<1>3. ErrMoves /\ RunMoves /\ RespMoves /\ BridgeMoves
  BY NextMovesErr, NextMovesRun, NextMovesResp, NextMovesBridge DEF TimeoutInv
<1>4. err'.st # "idle" => up'.st = "destroyed"
  <2>1. CASE err.st # "idle"
    BY <1>1, <1>2, <2>1 DEF ErrorsDestroy
  <2>2. CASE err.st = "idle" /\ err' # err
    BY <2>2, EmittedErrorDestroys DEF TimeoutInv
  <2> QED
    BY <2>1, <2>2
<1>5. ASSUME up'.timer = "handled"
      PROVE  /\ ~up'.err /\ run' \in {"bridge", "done"}
             /\ err'.st = "plugins" => err'.code = "timeout"
             /\ bridge' = "open" => ~Waits'
  <2>1. CASE up.timer # "handled"
    BY <1>5, <2>1, TimeoutHeard
  <2>2. CASE up.timer = "handled"
    <3>1. /\ up.st = "destroyed" /\ ~up.err /\ run \in {"bridge", "done"} /\ ~UpLive
          /\ err.st = "plugins" => err.code = "timeout"
          /\ bridge = "open" => ~Waits
      BY <1>1, <2>2 DEF ErrorsDestroy, UpLive
    <3>2. ~up'.err /\ run' \in {"bridge", "done"}
      BY <1>2, <1>3, <3>1 DEF RunMoves
    <3>3. err'.st = "plugins" => err'.code = "timeout"
      BY <1>3, <3>1 DEF ErrMoves
    <3>4. ASSUME bridge' = "open" PROVE ~Waits'
      <4>1. CASE bridge = "open"
        BY <1>3, <3>1, <4>1 DEF RespMoves, Waits
      <4>2. CASE bridge # "open"
        <5>1. UNCHANGED resp /\ bridge \in {"resolved", "hit"} /\ ~life.hijacked
          BY <1>3, <3>1, <3>4, <4>2 DEF BridgeMoves
        <5>2. ~Waits
          BY <1>1, <5>1 DEF UpstreamComesFirst, ResolvedStops
        <5> QED
          BY <5>1, <5>2 DEF Waits
      <4> QED
        BY <4>1, <4>2
    <3> QED
      BY <3>2, <3>3, <3>4
  <2> QED
    BY <2>1, <2>2
<1> QED
  BY <1>2, <1>4, <1>5 DEF ErrorsDestroy

LEMMA BadGatewayIsLateStep == TimeoutInv /\ Next => BadGatewayIsLate'
<1> SUFFICES ASSUME TimeoutInv, Next, res'.code = "502"
             PROVE  up'.st = "destroyed" \/ Exchanged' \/ (bridge' = "none" /\ run' = "done")
  BY DEF BadGatewayIsLate
<1>1. /\ up.st = "destroyed" => up'.st = "destroyed"
      /\ Exchanged => Exchanged'
  BY NextMovesUp, UpMovesOn, ExchangedStays
<1>2. UpstreamComesFirst /\ ErrorsDestroy /\ FailedIsOver /\ BadGatewayIsLate /\ up \in UpType
      /\ res \in ResType
  BY DEF TimeoutInv, IInv, TypeOK
<1>3. RunMoves /\ BridgeMoves
  BY NextMovesRun, NextMovesBridge DEF TimeoutInv
<1>4. CASE res.code = "502"
  <2>1. CASE bridge = "none" /\ run = "done"
    BY <1>2, <1>3, <2>1 DEF RunMoves, BridgeMoves, UpstreamComesFirst
  <2> QED
    BY <1>1, <1>2, <1>4, <2>1 DEF BadGatewayIsLate
<1>5. CASE res.code # "502"
  <2>1. BadGateways
    BY WhoAnswersBadGateway
  <2>2. CASE run \in {"listeners", "dispatch"} /\ run' = "done" /\ UNCHANGED bridge
    BY <1>2, <2>2, EarlyIsEmpty DEF UpstreamComesFirst
  <2>3. CASE run = "bridge" /\ bridge = "failed" /\ res' = FailedResponse(res)
    BY <1>2, <1>5, <2>3, OtherCodes DEF FailedIsOver
  <2>4. CASE conn = "plugins" /\ up.st # "destroyed" /\ up' = DestroyUp(up)
    <3>1. pipe = "none" /\ up.st # "none"
      BY <1>2, <2>4 DEF UpstreamComesFirst
    <3> QED
      BY <1>2, <2>4, <3>1, DestroyUpMoves DEF Exchanged
  <2>5. CASE up'.st = "destroyed"
    BY <2>5
  <2>6. CASE err.st = "plugins"
    BY <1>1, <1>2, <2>6 DEF ErrorsDestroy
  <2>7. CASE Waits /\ bridge = "open" /\ up' = DestroyUp(up)
    <3>1. up.st # "none"
      BY <1>2, <2>7 DEF UpstreamComesFirst
    <3> QED
      BY <1>1, <1>2, <2>7, <3>1, DestroyUpMoves
  <2> QED
    BY <1>5, <2>1, <2>2, <2>3, <2>4, <2>5, <2>6, <2>7 DEF BadGateways
<1> QED
  BY <1>4, <1>5

LEMMA StartedTimeoutStep == TimeoutInv /\ Next => StartedTimeoutIs504'
<1> SUFFICES ASSUME TimeoutInv, Next, up'.timer = "handled", pipe' # "none", res'.code = "502"
             PROVE  FALSE
  BY DEF StartedTimeoutIs504
<1>1. UpstreamComesFirst /\ ErrorsDestroy /\ FailedIsOver /\ BadGatewayIsLate /\ res \in ResType
  BY DEF TimeoutInv, IInv, TypeOK
<1>2. BadGateways /\ ConnMoves
  BY WhoAnswersBadGateway, NextMovesConn
<1>3. CASE up.timer # "handled"
  <2>1. UpstreamTimesOut /\ UpLive /\ bridge \notin {"none", "hit"} /\ run \in {"bridge", "done"}
    BY <1>3, TimeoutHeard
  <2>2. pipe # "none" /\ res' = res
    BY <2>1 DEF UpstreamTimesOut, EmitError
  <2> QED
    BY <1>1, <2>1, <2>2 DEF BadGatewayIsLate, UpLive
<1>4. CASE up.timer = "handled"
  <2>1. /\ up.st = "destroyed" /\ ~up.err /\ run \in {"bridge", "done"} /\ ~UpLive
        /\ err.st = "plugins" => err.code = "timeout"
        /\ bridge = "open" => ~Waits
    BY <1>1, <1>4 DEF ErrorsDestroy, UpLive
  <2>2. pipe # "none"
    BY <1>1, <1>2, <2>1 DEF ConnMoves, UpstreamComesFirst
  <2>3. res.code # "502"
    BY <1>4, <2>2 DEF TimeoutInv, StartedTimeoutIs504
  <2>4. ~(bridge = "failed" /\ res' = FailedResponse(res))
    BY <1>1, <2>3, OtherCodes DEF FailedIsOver
  <2> QED
    BY <1>2, <2>1, <2>3, <2>4 DEF BadGateways
<1> QED
  BY <1>3, <1>4

LEMMA TimeoutInductive == Spec => []TimeoutInv
<1>1. Init => TimeoutInv
  <2> SUFFICES ASSUME Init
               PROVE  TimeoutInv
    OBVIOUS
  <2>1. IInv
    BY InitTypeOK DEF Init, IInv, ActiveUntilAnswered, AnsweredIsOver, ResponseComesFirst,
       RequestPhaseComesFirst, AbortRejects
  <2> QED
    BY <2>1 DEF Init, TimeoutInv, UpstreamComesFirst, ResolvedStops, ErrorsDestroy,
       FailedIsOver, BadGatewayIsLate, StartedTimeoutIs504, Waits
<1>2. TimeoutInv /\ IInv' /\ [Next]_vars => TimeoutInv'
  <2> SUFFICES ASSUME TimeoutInv, IInv', [Next]_vars
               PROVE  TimeoutInv'
    OBVIOUS
  <2>1. CASE Next
    BY <2>1, UpstreamComesFirstStep, ResolvedStopsStep, ErrorsDestroyStep, FailedIsOverStep,
       BadGatewayIsLateStep, StartedTimeoutStep DEF TimeoutInv
  <2>2. CASE UNCHANGED vars
    BY <2>2 DEF vars, TimeoutInv, UpstreamComesFirst, ResolvedStops, ErrorsDestroy,
       FailedIsOver, BadGatewayIsLate, StartedTimeoutIs504, Waits, Over, Exchanged
  <2> QED
    BY <2>1, <2>2
<1> QED
  BY <1>1, <1>2, Inductive, PTL DEF Spec

\* A time-out that strikes after the body copy has started is answered 504, if at all:
\* none of those who answer 502 comes before it or after it.
THEOREM StartedTimeoutAnswers504 == Spec => []StartedTimeoutIs504
<1>1. TimeoutInv => StartedTimeoutIs504
  BY DEF TimeoutInv
<1> QED
  BY <1>1, TimeoutInductive, PTL

-----------------------------------------------------------------------------
(* The transaction implements RequestTracking. *)

\* Operations on a response keep what is known of its "close" event.
LEMMA ClosedKept ==
  ASSUME NEW r \in ResType, NEW c
  PROVE  /\ Answer(r, c).closed = r.closed
         /\ DestroyRes(r).closed = r.closed
         /\ AnswerOrDestroy(r, c).closed = r.closed
         /\ FailedResponse(r).closed = r.closed
         /\ [r EXCEPT !.ended = TRUE].closed = r.closed
         /\ [r EXCEPT !.code = "upstream"].closed = r.closed
         /\ [r EXCEPT !.destroyed = TRUE, !.closed = TRUE].closed
  BY DEF ResType, Answer, DestroyRes, AnswerOrDestroy, FailedResponse, FailureScope

\* Neither the response nor the socket closes, and nothing is tracked anew.
StaysOpen == client' = client /\ (res'.closed = res.closed) /\ (active' => active)

LEMMA ProceedStaysOpen ==
  ASSUME NEW l, NEW a \in BOOLEAN, NEW r \in ResType, ProceedWithResponse(l, a, r)
  PROVE  (res'.closed = r.closed) /\ (active' => a)
<1>1. active' = a \/ ~active'
  BY DEF ProceedWithResponse, DispatchNoContent, DispatchStream
<1>2. \/ res' = r \/ res' = Answer(r, "upstream") \/ res' = AnswerOrDestroy(r, "502")
      \/ res' = [r EXCEPT !.code = "upstream"]
  BY DEF ProceedWithResponse, DispatchNoContent, DispatchStream
<1>3. /\ Answer(r, "upstream").closed = r.closed
      /\ AnswerOrDestroy(r, "502").closed = r.closed
      /\ [r EXCEPT !.code = "upstream"].closed = r.closed
  BY ClosedKept
<1>4. res'.closed = r.closed
  BY <1>2, <1>3
<1> QED
  BY <1>1, <1>4

\* Every step but two leaves the response and the socket open, or as closed as they are.
LEMMA NextStaysOpen == IInv /\ Next => StaysOpen \/ ResponseFlushed \/ ClientCloses
<1> SUFFICES ASSUME IInv, Next, ~ResponseFlushed, ~ClientCloses
             PROVE  StaysOpen
  OBVIOUS
<1> res \in ResType /\ active \in BOOLEAN
  BY DEF IInv, TypeOK
<1>1. DestroyRes(res) \in ResType /\ Answer(res, "502") \in ResType
  BY DestroyResType, AnswerType, AnswerCodes
<1>2. ASSUME NextTurn \/ StepAborts("request") \/ StepAborts("response") \/ StepFails
      PROVE  res'.closed = res.closed
  BY <1>2, ClosedKept
     DEF NextTurn, EndOfPipeline, EnterResponsePhase, StepAborts, StepFails, OpenBridge
<1>3. CASE PluginReturns
  <2>1. ASSUME NEW o, MiddlewareStops(o)
        PROVE  (res'.closed = res.closed) /\ (active' => active)
    BY <2>1, ClosedKept DEF MiddlewareStops
  <2>2. ASSUME NEW o, ResponsePluginsReturn(o) PROVE StaysOpen
    <3>1. \E l, r : /\ r \in {res, DestroyRes(res)}
                   /\ \E a \in {active, FALSE} : ProceedWithResponse(l, a, r)
      BY <2>2 DEF ResponsePluginsReturn
    <3>2. PICK l, r : /\ r \in {res, DestroyRes(res)}
                     /\ \E a \in {active, FALSE} : ProceedWithResponse(l, a, r)
      BY <3>1
    <3>3. PICK a \in {active, FALSE} : ProceedWithResponse(l, a, r)
      BY <3>2
    <3>4. r \in ResType /\ r.closed = res.closed
      BY <1>1, <3>2, ClosedKept
    <3>5. a \in BOOLEAN /\ (a => active)
      <4>1. CASE a = active
        BY <4>1
      <4>2. CASE a = FALSE
        BY <4>2
      <4> QED
        BY <4>1, <4>2
    <3>6. res'.closed = r.closed /\ (active' => a)
      BY <3>3, <3>4, <3>5, ProceedStaysOpen
    <3>7. client' = client
      BY <2>2 DEF ResponsePluginsReturn
    <3> QED
      BY <3>4, <3>5, <3>6, <3>7 DEF StaysOpen
  <2>3. ASSUME RejectUrl \/ RequestThrows \/ StartUpstream PROVE res'.closed = res.closed
    BY <1>1, <2>3, ClosedKept DEF RejectUrl, RequestThrows, StartUpstream, OpenBridge
  <2>4. ASSUME NEW o, HttpRequestListenersReturn(o) PROVE StaysOpen
    BY <2>1, <2>3, <2>4 DEF HttpRequestListenersReturn, StaysOpen
  <2>5. ASSUME NEW o, ConnectPluginsReturn(o) PROVE StaysOpen
    BY <2>5, ClosedKept DEF ConnectPluginsReturn, StartRequestPipeline, StaysOpen
  <2>6. ASSUME NEW o, TargetErrorPluginsReturn(o) PROVE StaysOpen
    BY <2>6, ClosedKept DEF TargetErrorPluginsReturn, StaysOpen
  <2>7. ASSUME NEW o, ClientRequestPluginsReturn(o) PROVE StaysOpen
    BY <2>1, <2>7 DEF ClientRequestPluginsReturn, StaysOpen
  <2>8. ASSUME NEW o, DispatchPluginsReturn(o) PROVE StaysOpen
    BY <1>2, <2>8 DEF DispatchPluginsReturn, StaysOpen
  <2>9. ASSUME NEW o, RequestPluginsReturn(o) PROVE StaysOpen
    BY <2>9 DEF RequestPluginsReturn, StaysOpen
  <2> QED
    BY <1>3, <2>2, <2>4, <2>5, <2>6, <2>7, <2>8, <2>9 DEF PluginReturns
<1>4. CASE Upstream
  BY <1>4, ClosedKept DEF Upstream, UpstreamConnects, UpstreamResponds, UpstreamFails,
     UpstreamErrorEvent, UpstreamTimesOut, EmitError, StaysOpen
<1>5. CASE Streams
  <2>1. CASE RequestEventSettles
    BY <2>1, ProceedStaysOpen DEF RequestEventSettles, StaysOpen
  <2>2. CASE StreamCompletes
    BY <2>2, ClosedKept DEF StreamCompletes, StaysOpen
  <2>4. ASSUME NEW expected, StreamBreaks(expected) PROVE StaysOpen
    BY <2>4, ClosedKept DEF StreamBreaks, StaysOpen
  <2>3. CASE UploadEnds \/ UploadFinishes \/ CopyBreaks
    BY <2>3 DEF UploadEnds, UploadFinishes, CopyBreaks, StaysOpen
  <2> QED
    BY <1>5, <2>1, <2>2, <2>3, <2>4 DEF Streams
<1>6. CASE Hijack \/ PluginAnswers \/ RunResumes
  BY <1>2, <1>6, ClosedKept DEF Hijack, PluginAnswers, RunResumes, StaysOpen
<1> QED
  BY <1>3, <1>4, <1>5, <1>6 DEF Next

\* The "close" listeners forget a request: one whose response has closed is not tracked,
\* and no response outlives its socket.
ClosedIsUntracked == (res.closed => ~active) /\ (client = "closed" => res.closed)

LEMMA ClosedIsUntrackedStep == IInv /\ ClosedIsUntracked /\ Next => ClosedIsUntracked'
<1> SUFFICES ASSUME IInv, ClosedIsUntracked, Next PROVE ClosedIsUntracked'
  OBVIOUS
<1> res \in ResType
  BY DEF IInv, TypeOK
<1>1. ASSUME StaysOpen PROVE ClosedIsUntracked'
  BY <1>1 DEF StaysOpen, ClosedIsUntracked
<1>2. ASSUME ResponseFlushed \/ ClientCloses PROVE ClosedIsUntracked'
  <2>1. res'.closed /\ ~active'
    BY <1>2, ClosedKept DEF ResponseFlushed, ClientCloses
  <2> QED
    BY <2>1 DEF ClosedIsUntracked
<1> QED
  BY <1>1, <1>2, NextStaysOpen

LEMMA ClosedUntrackedInductive == Spec => []ClosedIsUntracked
<1>1. Init => ClosedIsUntracked
  BY DEF Init, ClosedIsUntracked
<1>2. IInv /\ ClosedIsUntracked /\ [Next]_vars => ClosedIsUntracked'
  BY ClosedIsUntrackedStep DEF vars, ClosedIsUntracked
<1> QED
  BY <1>1, <1>2, Inductive, PTL DEF Spec

TrackedStep == [Tracking!Next]_(Tracking!vars)

\* finishPipeline or failPipeline.
LEMMA FinishIsTracked ==
  ASSUME ClosedIsUntracked, StaysOpen, active, ~active'
  PROVE  TrackedStep
<1>1. ~res.closed /\ ~res'.closed /\ client # "closed" /\ client' = client
  BY DEF ClosedIsUntracked, StaysOpen
<1>2. Tracking!Finishes("request")
  BY <1>1 DEF Tracking!Finishes, Tracking!InFlight, Tracking!Ends, Tracking!At,
     Tracking!DestroyRequestLifecycle, Tracking!NoTxn
<1> QED
  BY <1>2 DEF TrackedStep, Tracking!Next

\* The "close" event of the response on an open socket.
LEMMA FlushIsTracked ==
  ASSUME IInv, ClosedIsUntracked, ResponseFlushed
  PROVE  TrackedStep
<1> res \in ResType
  BY DEF IInv, TypeOK
<1>1. ~res.closed /\ res'.closed /\ ~active' /\ client # "closed" /\ client' = client
  BY ClosedKept DEF ResponseFlushed, ClosedIsUntracked
<1>2. Tracking!ResponseCloses("request")
  BY <1>1 DEF Tracking!ResponseCloses, Tracking!Ends, Tracking!At,
     Tracking!DestroyRequestLifecycle, Tracking!NoTxn
<1> QED
  BY <1>2 DEF TrackedStep, Tracking!Next

\* The "close" event of the socket, and with it of the response.
LEMMA CloseIsTracked ==
  ASSUME IInv, ClosedIsUntracked, ClientCloses
  PROVE  TrackedStep
<1> res \in ResType
  BY DEF IInv, TypeOK
<1>1. client = "open" /\ client' = "closed" /\ res'.closed /\ ~active'
  BY ClosedKept DEF ClientCloses
<1>2. Tracking!OnConn("client") = {"request"}
  BY DEF Tracking!OnConn
<1>3. ~Tracking!Unaware("request")
  BY DEF Tracking!Unaware, Tracking!Handling
<1>4. \/ ~res.closed /\ Tracking!ClosingIds("client") = {"request"}
      \/ ~active /\ Tracking!ClosingIds("client") = {}
  BY <1>2 DEF Tracking!ClosingIds, ClosedIsUntracked
<1>5. Tracking!DestroyRequestLifecycle(Tracking!ClosingIds("client") \cup {})
  BY <1>1, <1>4 DEF Tracking!DestroyRequestLifecycle, Tracking!NoTxn
<1>6. Tracking!Closing("client", {})
  BY <1>1, <1>2, <1>3, <1>5 DEF Tracking!Closing, Tracking!At, Tracking!NoTxn
<1> QED
  BY <1>6 DEF TrackedStep, Tracking!Next, Tracking!SocketCloses

LEMMA StepIsTracked == IInv /\ ClosedIsUntracked /\ [Next]_vars => TrackedStep
<1> SUFFICES ASSUME IInv, ClosedIsUntracked, [Next]_vars PROVE TrackedStep
  OBVIOUS
<1>1. ASSUME StaysOpen, active' <=> active PROVE TrackedStep
  BY <1>1 DEF StaysOpen, TrackedStep, Tracking!vars
<1>2. ASSUME StaysOpen, ~(active' <=> active) PROVE TrackedStep
  BY <1>2, FinishIsTracked DEF StaysOpen
<1>3. CASE UNCHANGED vars
  BY <1>1, <1>3 DEF vars, StaysOpen
<1> QED
  BY <1>1, <1>2, <1>3, NextStaysOpen, FlushIsTracked, CloseIsTracked

\* Every step of a request is one that RequestTracking allows: whoever ends it forgets it,
\* it is tracked no more once its response has closed, and never tracked again.
THEOREM RequestsAreTracked == Spec => TracksRequest
  BY StepIsTracked, ClosedUntrackedInductive, Inductive, PTL
     DEF Spec, TracksRequest, TrackedStep

-----------------------------------------------------------------------------
(* A request goes on.  What settles a request settles it for good; until then
   every wait of the promise chain, of the bridge and of its listeners is for
   something that is due. *)

LEMMA AbortStays == IInv /\ Next /\ life.abort # "none" => life'.abort # "none"
<1> SUFFICES ASSUME IInv, Next, life.abort # "none"
             PROVE  life'.abort # "none"
  OBVIOUS
<1> life \in LifeType
  BY DEF IInv, TypeOK
<1>1. ASSUME NEW l \in LifeType, l.abort # "none"
      PROVE  /\ NoPhase(l).abort # "none"
             /\ \A phase \in {"request", "response"} : PipelineAbort(l, phase).abort # "none"
             /\ \A r : PipelineFailure(l, r).abort # "none"
             /\ \A a \in {"request", "response"} : [l EXCEPT !.abort = a].abort # "none"
             /\ [l EXCEPT !.next = "response"].abort # "none"
             /\ [l EXCEPT !.hijacked = TRUE].abort # "none"
  BY <1>1 DEF NoPhase, PipelineAbort, PipelineFailure, LifeType
<1>2. ASSUME NEW l \in LifeType, NEW a, NEW r, l.abort # "none", ProceedWithResponse(l, a, r)
      PROVE  life'.abort # "none"
  BY <1>1, <1>2 DEF ProceedWithResponse, DispatchNoContent, DispatchStream
<1>3. ASSUME NextTurn \/ StepAborts("request") \/ StepAborts("response") \/ StepFails
      PROVE  life'.abort # "none"
  BY <1>1, <1>3 DEF NextTurn, EndOfPipeline, EnterResponsePhase, Stops, Terminal, StepAborts,
     StepFails
<1>4. CASE PluginReturns
  <2>1. ASSUME NEW o, MiddlewareStops(o) PROVE life'.abort # "none"
    BY <1>1, <2>1 DEF MiddlewareStops
  <2>2. ASSUME NEW o, ResponsePluginsReturn(o) PROVE life'.abort # "none"
    <3>1. [life EXCEPT !.abort = "response"] \in LifeType /\ NoPhase(life) \in LifeType
      BY LifeEdits
    <3> QED
      BY <1>1, <1>2, <2>2, <3>1 DEF ResponsePluginsReturn
  <2>3. ASSUME NEW o, TargetErrorPluginsReturn(o) PROVE life'.abort # "none"
    BY <1>1, <2>3 DEF TargetErrorPluginsReturn, LifeType
  <2>4. CASE RejectUrl \/ RequestThrows \/ StartUpstream
    BY <1>1, <2>4 DEF RejectUrl, RequestThrows, StartUpstream
  <2> QED
    BY <1>3, <1>4, <2>1, <2>2, <2>3, <2>4
       DEF PluginReturns, ClientRequestPluginsReturn, HttpRequestListenersReturn,
           DispatchPluginsReturn, ConnectPluginsReturn, RequestPluginsReturn
<1>5. CASE Upstream
  BY <1>1, <1>5 DEF Upstream, UpstreamConnects, UpstreamResponds, UpstreamFails,
     UpstreamErrorEvent, UpstreamTimesOut
<1>6. CASE Streams
  BY <1>1, <1>2, <1>6 DEF Streams, UploadEnds, UploadFinishes, CopyBreaks,
     RequestEventSettles, StreamCompletes, StreamBreaks, ResponseFlushed
<1>7. CASE Hijack \/ PluginAnswers \/ RunResumes \/ ClientCloses
  BY <1>1, <1>3, <1>7 DEF Hijack, PluginAnswers, RunResumes, ClientCloses
<1> QED
  BY <1>4, <1>5, <1>6, <1>7 DEF Next

LEMMA SettledStays == IInv /\ Next /\ Settled => Settled'
  BY OverStays, HijackStays, AbortStays DEF Settled, Over

\* Until a request is settled: the promise chain has not come to its end; the bridge is
\* opened once, by a chain that has a response phase to enter, and waits for listeners that
\* are at work or for a response that its listener has not seen; and what the upstream
\* request has received it has been asked for, and breaks with it.
Unsettled ==
  /\ run # "done"
  /\ run = "dispatch" => life.next = "response" /\ life.failure = "none"
  /\ run = "bridge" => bridge \in {"open", "claimed", "aborted"}
  /\ bridge = "claimed" => err.st = "plugins"
  /\ bridge = "none" => resp = "idle" /\ upRes \in {"none", "dumped"}
  /\ bridge = "open" =>
       /\ run = "bridge" /\ resp # "done"
       /\ resp = "idle" => upRes \in {"none", "dumped"}
  /\ Waits \/ resp = "streaming" => upRes \in {"here", "broken"}
  /\ upRes = "here" => up.st # "destroyed"
  /\ upRes # "none" => pipe # "none"
  /\ up.st = "none" => up.timer = "armed"

\* An unsettled response has no head but the one the bridge streams.
LEMMA UnsettledHead ==
  ASSUME IInv, ~Settled
  PROVE  /\ ~res.ended /\ ~res.destroyed /\ ~life.hijacked /\ life.abort = "none"
         /\ resp # "streaming" => res.code = "none"
  BY DEF IInv, AnsweredIsOver, Settled

\* The steps of the promise chain.
LEMMA ClientRequestUnsettled ==
  ASSUME TimeoutInv, Unsettled, ~Settled, ~Settled', NEW o, ClientRequestPluginsReturn(o)
  PROVE  Unsettled'
<1> res \in ResType /\ life \in LifeType
  BY DEF TimeoutInv, IInv, TypeOK
<1>1. run = "plugins" /\ UNCHANGED resp
  BY DEF ClientRequestPluginsReturn, Returns, Pending
<1>2. ~MiddlewareStops(o)
  <2> SUFFICES ASSUME MiddlewareStops(o) PROVE FALSE
    OBVIOUS
  <2>1. o \in {"abort", "error", "timeout"}
    BY UnsettledHead DEF ClientRequestPluginsReturn, Returns, MiddlewareStops, Throws, TimeoutInv
  <2> QED
    BY <2>1 DEF MiddlewareStops, Throws, DestroyRes, ResType, LifeType, Settled
<1> QED
  BY <1>1, <1>2, EarlyIsEmpty DEF ClientRequestPluginsReturn, Unsettled, Waits

LEMMA OpenBridgeOpens ==
  ASSUME IInv, ~Settled, resp = "idle", OpenBridge, ~res'.ended
  PROVE  bridge' \in {"open", "aborted"} /\ UNCHANGED res
<1> res \in ResType
  BY DEF IInv, TypeOK
<1> QED
  BY UnsettledHead DEF OpenBridge, Answer, ResType

LEMMA HttpRequestUnsettled ==
  ASSUME TimeoutInv, Unsettled, ~Settled, ~Settled', NEW o, HttpRequestListenersReturn(o)
  PROVE  Unsettled'
<1> res \in ResType /\ life \in LifeType /\ up \in UpType
  BY DEF TimeoutInv, IInv, TypeOK
<1>1. run = "listeners" /\ UNCHANGED <<resp, err, upRes, pipe>>
  BY DEF HttpRequestListenersReturn, Returns, Pending
<1>2. /\ up.st = "none" /\ bridge = "none" /\ resp = "idle" /\ upRes = "none"
      /\ pipe = "none" /\ up.timer = "armed" /\ res.code = "none"
      /\ life.failure = "none" /\ up.st = "none"
  BY <1>1, EarlyIsEmpty, UnsettledHead DEF TimeoutInv, IInv, RequestPhaseComesFirst, Unsettled
<1>3. ~MiddlewareStops(o) \/ o = "ok"
  BY DEF MiddlewareStops, Throws, DestroyRes, ResType, LifeType, Settled
<1>4. ~life.hijacked /\ ~res.ended /\ ~res.destroyed
  BY UnsettledHead DEF TimeoutInv
<1>5. StartUpstream
  <2>1. ~RejectUrl
    BY <1>2, <1>4 DEF RejectUrl, Answer, ResType, Settled
  <2>2. ~RequestThrows
    <3>1. RequestThrows => Over(res')
      BY AnswerType, AnswerCodes, FailedResponseOver DEF RequestThrows
    <3> QED
      BY <3>1 DEF Over, Settled
  <2> QED
    BY <1>3, <1>4, <2>1, <2>2 DEF HttpRequestListenersReturn
<1>6. up' = [up EXCEPT !.st = "connecting"]
  BY <1>5 DEF StartUpstream
<1>7. CASE "proxy:upstream-dispatch" \in Listening
  BY <1>1, <1>2, <1>5, <1>6, <1>7 DEF StartUpstream, Unsettled, Waits, LifeType, UpType
<1>8. CASE "proxy:upstream-dispatch" \notin Listening
  <2>1. run' = "bridge" /\ OpenBridge
    BY <1>5, <1>8 DEF StartUpstream
  <2>2. bridge' \in {"open", "aborted"}
    BY <1>2, <2>1, OpenBridgeOpens DEF TimeoutInv, Settled
  <2> QED
    BY <1>1, <1>2, <1>6, <2>1, <2>2 DEF Unsettled, Waits, UpType
<1> QED
  BY <1>7, <1>8

LEMMA DispatchUnsettled ==
  ASSUME TimeoutInv, Unsettled, ~Settled, ~Settled', NEW o, DispatchPluginsReturn(o)
  PROVE  Unsettled'
<1> res \in ResType /\ life \in LifeType
  BY DEF TimeoutInv, IInv, TypeOK
<1>1. /\ run = "dispatch" /\ UNCHANGED <<up, upRes, pipe, resp, err>>
      /\ bridge = "none" /\ resp = "idle"
  BY DEF DispatchPluginsReturn, Returns, Pending, TimeoutInv, UpstreamComesFirst, Unsettled
<1>2. /\ life.next = "response" /\ life.failure = "none" /\ life.abort = "none"
      /\ ~life.hijacked /\ res.code = "none" /\ ~res.ended /\ ~res.destroyed
  BY <1>1, UnsettledHead DEF Unsettled, TimeoutInv
<1>3. ~StepFails
  BY FailedResponseOver DEF StepFails, Settled, Over
<1>4. ~StepAborts("request")
  BY DEF StepAborts, PipelineAbort, LifeType, Settled
<1>5. EnterResponsePhase
  BY <1>2, <1>3, <1>4
     DEF DispatchPluginsReturn, NextTurn, EndOfPipeline, Stops, Terminal, Throws
<1>6. run' = "bridge" /\ OpenBridge
  BY <1>2, <1>5 DEF EnterResponsePhase, Answer, ResType, Settled
<1>7. bridge' \in {"open", "aborted"}
  BY <1>1, <1>6, OpenBridgeOpens DEF TimeoutInv, Settled
<1> QED
  BY <1>1, <1>6, <1>7 DEF Unsettled, Waits

\* The promise of an unsettled bridge is rejected by an abort, or not settled.
LEMMA RunResumesSettles ==
  ASSUME TimeoutInv, Unsettled, ~Settled, RunResumes
  PROVE  Settled'
<1> life \in LifeType
  BY DEF TimeoutInv, IInv, TypeOK
<1>1. StepAborts("response")
  BY DEF RunResumes, Unsettled
<1> QED
  BY <1>1 DEF StepAborts, PipelineAbort, LifeType, Settled

\* The steps of the upstream request.
LEMMA ConnectUnsettled ==
  ASSUME TimeoutInv, Unsettled, ~Settled, NEW o, ConnectPluginsReturn(o)
  PROVE  Unsettled'
<1>1. /\ conn = "plugins" /\ pipe = "none" /\ upRes = "none"
      /\ UNCHANGED <<run, life, upRes, resp, err>>
  BY DEF ConnectPluginsReturn, Returns, Pending, TimeoutInv, UpstreamComesFirst, Unsettled
<1>2. up.st # "none" /\ up \in UpType
  BY <1>1 DEF TimeoutInv, UpstreamComesFirst, IInv, TypeOK
<1>3. up' \in {up, DestroyUp(up)}
  BY DEF ConnectPluginsReturn, StartRequestPipeline
<1>4. up'.st # "none"
  BY <1>2, <1>3, DestroyUpMoves
<1>5. bridge' \in {bridge, "aborted"}
  BY DEF ConnectPluginsReturn
<1> QED
  BY <1>1, <1>4, <1>5 DEF Unsettled, Waits

LEMMA RequestPluginsUnsettled ==
  ASSUME Unsettled, NEW o, RequestPluginsReturn(o)
  PROVE  Unsettled'
  BY DEF RequestPluginsReturn, Returns, Unsettled, Waits

LEMMA ErrorUnsettled ==
  ASSUME TimeoutInv, Unsettled, NEW code, EmitError(code), up'.st = "destroyed",
         upRes' \in {CutUpRes, upRes}, upRes' # "here", UNCHANGED <<run, life, resp>>
  PROVE  Unsettled'
<1>1. \/ bridge = "open" /\ bridge' = "claimed" /\ err'.st = "plugins"
      \/ bridge # "open" /\ UNCHANGED <<bridge, err>>
  BY DEF EmitError
<1>2. pipe # "none" => pipe' # "none"
  BY DEF EmitError
<1>3. upRes' = upRes \/ (upRes = "here" /\ upRes' = "broken")
  BY DEF CutUpRes
<1> QED
  BY <1>1, <1>2, <1>3 DEF Unsettled, Waits

LEMMA UpstreamUnsettled ==
  ASSUME TimeoutInv, Unsettled, ~Settled, Upstream
  PROVE  Unsettled'
<1>1. up \in UpType /\ UNCHANGED <<run, jumps>>
  BY DEF TimeoutInv, IInv, TypeOK, Upstream, UpstreamConnects, UpstreamResponds,
     UpstreamFails, UpstreamErrorEvent, UpstreamTimesOut
<1>2. CutUpRes # "here"
  BY DEF CutUpRes
<1>3. CASE UpstreamConnects
  BY <1>1, <1>3 DEF UpstreamConnects, Unsettled, Waits, UpType
<1>4. CASE UpstreamResponds
  <2>1. /\ up.st = "open" /\ upRes = "none" /\ pipe # "none" /\ resp = "idle"
        /\ UNCHANGED <<up, pipe, bridge, err>>
    BY <1>4 DEF UpstreamResponds, TimeoutInv, IInv, ResponseComesFirst
  <2>2. run' = "dispatch" => bridge = "none"
    BY <1>1 DEF TimeoutInv, UpstreamComesFirst
  <2> QED
    BY <1>1, <1>4, <2>1, <2>2 DEF UpstreamResponds, Unsettled, Waits
<1>5. ASSUME NEW kind, UpstreamFails(kind) PROVE Unsettled'
  <2>1. up'.st = "destroyed" /\ upRes' = CutUpRes /\ UNCHANGED <<run, life, resp>>
    BY <1>1, <1>5 DEF UpstreamFails, UpType
  <2>2. CASE kind = "fin" /\ upRes # "none"
    BY <1>2, <1>5, <2>1, <2>2 DEF UpstreamFails, Unsettled, Waits, CutUpRes
  <2>3. CASE ~(kind = "fin" /\ upRes # "none")
    BY <1>2, <1>5, <2>1, <2>3, ErrorUnsettled DEF UpstreamFails
  <2> QED
    BY <2>2, <2>3
<1>6. CASE UpstreamErrorEvent
  <2>1. up.st = "destroyed" /\ up'.st = "destroyed" /\ upRes # "here"
    BY <1>1, <1>6 DEF UpstreamErrorEvent, TimeoutInv, ErrorsDestroy, UpType, Unsettled
  <2> QED
    BY <1>6, <2>1, ErrorUnsettled DEF UpstreamErrorEvent
<1>7. CASE UpstreamTimesOut
  <2>1. CASE bridge \in {"none", "hit"}
    BY <1>1, <1>7, <2>1 DEF UpstreamTimesOut, UpLive, UpType, Unsettled, Waits
  <2>2. CASE bridge \notin {"none", "hit"}
    BY <1>1, <1>2, <1>7, <2>2, ErrorUnsettled DEF UpstreamTimesOut, UpType
  <2> QED
    BY <2>1, <2>2
<1> QED
  BY <1>3, <1>4, <1>5, <1>6, <1>7 DEF Upstream

\* The steps of the bridge's listeners.
LEMMA TargetErrorSettles ==
  ASSUME TimeoutInv, NEW o, TargetErrorPluginsReturn(o)
  PROVE  Settled'
<1> life \in LifeType
  BY DEF TimeoutInv, IInv, TypeOK
<1>1. CASE res' = AnswerOrDestroy(res, ErrorAnswer(err.code))
  BY <1>1, AnswerOrDestroyOver DEF TimeoutInv, IInv, TypeOK, Over, Settled
<1>2. CASE life.hijacked /\ UNCHANGED life
  BY <1>2 DEF Settled
<1>3. CASE life' = [life EXCEPT !.abort = "request"]
  BY <1>3 DEF LifeType, Settled
<1> QED
  BY <1>1, <1>2, <1>3 DEF TargetErrorPluginsReturn

LEMMA ProceedUnsettled ==
  ASSUME TimeoutInv, Unsettled, ~Settled, ~Settled', Waits, NEW a,
         ProceedWithResponse(life, a, res), UNCHANGED <<run, pipe, err>>
  PROVE  Unsettled'
<1> res \in ResType
  BY DEF TimeoutInv, IInv, TypeOK
<1>1. resp # "streaming" /\ res.code = "none" /\ ~res.ended /\ ~res.destroyed /\ ~life.hijacked
  BY UnsettledHead DEF TimeoutInv, Waits
<1>2. upRes \in {"here", "broken"} /\ run # "done"
  BY DEF Unsettled
<1>3. bridge # "none"
  BY DEF TimeoutInv, UpstreamComesFirst
<1>4. ~DispatchNoContent(life, res)
  BY <1>1 DEF DispatchNoContent, Answer, ResType, Settled
<1>5. ASSUME bridge = "open", UNCHANGED <<up, upRes, bridge, life>>,
             resp' \in {"waitReq", "streaming"}
      PROVE  Unsettled'
  BY <1>2, <1>5 DEF Unsettled, Waits
<1>6. ASSUME bridge # "open", UNCHANGED <<up, upRes, bridge, life>>, resp' = "done"
      PROVE  Unsettled'
  BY <1>2, <1>3, <1>6 DEF Unsettled, Waits
<1>7. ASSUME bridge' = "aborted", UNCHANGED <<up, upRes, life>>, resp' = "done",
             bridge = "open"
      PROVE  Unsettled'
  BY <1>2, <1>7 DEF Unsettled, Waits
<1>8. ~(res' = AnswerOrDestroy(res, "502"))
  BY AnswerOrDestroyOver DEF Over, Settled
<1>9. CASE DispatchStream(life, a, res)
  BY <1>1, <1>5, <1>9 DEF DispatchStream, ProceedWithResponse
<1> QED
  BY <1>1, <1>4, <1>5, <1>6, <1>7, <1>8, <1>9 DEF ProceedWithResponse

LEMMA ResponsePluginsUnsettled ==
  ASSUME TimeoutInv, Unsettled, ~Settled, ~Settled', NEW o, ResponsePluginsReturn(o)
  PROVE  Unsettled'
<1> res \in ResType /\ life \in LifeType
  BY DEF TimeoutInv, IInv, TypeOK
<1>1. Waits /\ UNCHANGED <<run, pipe, err>>
  BY DEF ResponsePluginsReturn, Returns, Pending, Waits
<1>2. ~ProceedWithResponse([life EXCEPT !.abort = "response"], active, res)
  <2> SUFFICES ASSUME ProceedWithResponse([life EXCEPT !.abort = "response"], active, res)
               PROVE  life'.abort # "none"
    BY DEF Settled
  <2> QED
    BY DEF ProceedWithResponse, DispatchNoContent, DispatchStream, NoPhase, LifeType
<1>3. ~ProceedWithResponse(NoPhase(life), FALSE, DestroyRes(res))
  <2> SUFFICES ASSUME ProceedWithResponse(NoPhase(life), FALSE, DestroyRes(res))
               PROVE  Over(res')
    BY DEF Settled, Over
  <2>1. DestroyRes(res) \in ResType /\ Over(DestroyRes(res))
    BY DestroyResType, DestroyResOver
  <2> QED
    BY <2>1, AnswerOver, AnswerOrDestroyOver
       DEF ProceedWithResponse, DispatchNoContent, DispatchStream, Over
<1>4. ProceedWithResponse(life, active, res)
  BY <1>2, <1>3 DEF ResponsePluginsReturn
<1> QED
  BY <1>1, <1>4, ProceedUnsettled

LEMMA StreamsUnsettled ==
  ASSUME TimeoutInv, Unsettled, ~Settled, ~Settled', Streams
  PROVE  Unsettled'
<1> res \in ResType
  BY DEF TimeoutInv, IInv, TypeOK
<1>1. CASE UploadEnds \/ UploadFinishes \/ CopyBreaks
  BY <1>1 DEF UploadEnds, UploadFinishes, CopyBreaks, Unsettled, Waits
<1>2. CASE RequestEventSettles
  BY <1>2, ProceedUnsettled DEF RequestEventSettles, Waits
<1>3. ~StreamCompletes /\ ~ResponseFlushed
  BY ResEditsOver DEF StreamCompletes, ResponseFlushed, Over, Settled
<1>4. ASSUME NEW expected PROVE ~StreamBreaks(expected)
  BY DestroyResOver DEF StreamBreaks, Over, Settled
<1> QED
  BY <1>1, <1>2, <1>3, <1>4 DEF Streams

LEMMA ClientSettles ==
  ASSUME TimeoutInv, Hijack \/ PluginAnswers \/ ClientCloses
  PROVE  Settled'
<1> res \in ResType /\ life \in LifeType
  BY DEF TimeoutInv, IInv, TypeOK
<1>1. CASE Hijack
  BY <1>1 DEF Hijack, LifeType, Settled
<1>2. CASE PluginAnswers
  BY <1>2, AnswerOver DEF PluginAnswers, Over, Settled
<1>3. CASE ClientCloses
  BY <1>3, ResEditsOver DEF ClientCloses, Over, Settled
<1> QED
  BY <1>1, <1>2, <1>3

LEMMA UnsettledStep ==
  TimeoutInv /\ (Settled \/ Unsettled) /\ [Next]_vars => Settled' \/ Unsettled'
<1> SUFFICES ASSUME TimeoutInv, Settled \/ Unsettled, [Next]_vars, ~Settled'
             PROVE  Unsettled'
  OBVIOUS
<1>1. CASE UNCHANGED vars
  BY <1>1 DEF vars, Settled, Unsettled, Waits
<1>2. CASE Next
  <2>1. ~Settled /\ Unsettled
    BY <1>2, SettledStays DEF TimeoutInv
  <2>2. CASE PluginReturns
    BY <2>1, <2>2, ClientRequestUnsettled, HttpRequestUnsettled, DispatchUnsettled,
       ConnectUnsettled, RequestPluginsUnsettled, ResponsePluginsUnsettled, TargetErrorSettles
       DEF PluginReturns
  <2> QED
    BY <1>2, <2>1, <2>2, RunResumesSettles, UpstreamUnsettled, StreamsUnsettled, ClientSettles
       DEF Next
<1> QED
  BY <1>1, <1>2

LEMMA UnsettledInductive == Spec => [](Settled \/ Unsettled)
<1>1. Init => Settled \/ Unsettled
  BY DEF Init, Settled, Unsettled, Waits
<1> QED
  BY <1>1, UnsettledStep, TimeoutInductive, PTL DEF Spec


\* The response of a settled request is on its way out, if no plugin has the request.
LEMMA SettledGoesOn ==
  ASSUME TypeOK, ClosedIsUntracked, Settled
  PROVE  AnswerGoesOn
<1> SUFFICES ASSUME ~res.closed, life.abort = "none", ~life.hijacked
             PROVE  SomethingIsDue
  BY DEF AnswerGoesOn
<1>1. client = "open"
  BY DEF TypeOK, ClosedIsUntracked
<1> QED
  BY <1>1 DEF Settled, SomethingIsDue

\* An unsettled request waits for a listener, or for an upstream request that answers,
\* breaks or times out.
LEMMA UnsettledGoesOn ==
  ASSUME TimeoutInv, Unsettled, ~Settled
  PROVE  AnswerGoesOn
<1> SUFFICES ASSUME ~SomethingIsDue
             PROVE  WaitsInVain
  BY DEF AnswerGoesOn
<1> up \in UpType
  BY DEF TimeoutInv, IInv, TypeOK
<1>1. \A e \in Events : ~Pending(e)
  BY DEF SomethingIsDue
<1>2. /\ run \notin {"plugins", "listeners", "dispatch"}
      /\ err.st # "plugins" /\ resp # "plugins"
  BY <1>1 DEF Events, Pending
<1>3. run = "bridge" /\ bridge = "open"
  BY <1>2 DEF Unsettled, TimeoutInv, IInv, TypeOK, SomethingIsDue
<1>4. resp \in {"idle", "streaming"} /\ ~up.err
  BY <1>2, <1>3 DEF Unsettled, TimeoutInv, IInv, TypeOK, SomethingIsDue
<1>5. ~UpLive \/ up.timer # "armed"
  BY <1>3 DEF SomethingIsDue
<1>6. CASE up.timer = "lost"
  BY <1>3, <1>6 DEF WaitsInVain
<1>7. CASE up.timer # "lost"
  <2>1. up.timer = "handled" => up.st = "destroyed"
    BY DEF TimeoutInv, ErrorsDestroy
  <2>2. up.st \in {"connecting", "open"} => Exchanged
    BY <1>5, <1>7, <2>1 DEF UpLive, UpType
  <2>3. up.st # "none"
    BY <1>3 DEF TimeoutInv, UpstreamComesFirst
  <2>4. up.st = "destroyed" \/ upRes \in {"done", "dumped"}
    BY <2>2, <2>3 DEF Exchanged, UpType
  <2>5. resp # "streaming"
    BY <2>4 DEF Unsettled, SomethingIsDue
  <2>6. resp = "idle" /\ (upRes = "dumped" \/ up.st = "destroyed")
    BY <1>3, <1>4, <2>4, <2>5 DEF Unsettled
  <2> QED
    BY <1>3, <1>4, <2>6 DEF WaitsInVain
<1> QED
  BY <1>6, <1>7

\* A request is never left to itself: it is over for its client, aborted or hijacked, or
\* something is due that takes it further, unless the bridge waits in vain.
THEOREM RequestsGoOn == Spec => []AnswerGoesOn
<1>1. TimeoutInv /\ ClosedIsUntracked /\ (Settled \/ Unsettled) => AnswerGoesOn
  BY SettledGoesOn, UnsettledGoesOn DEF TimeoutInv, IInv
<1> QED
  BY <1>1, TimeoutInductive, ClosedUntrackedInductive, UnsettledInductive, PTL

\* While the bridge is open and does not wait in vain, no step makes it.
LEMMA OpenStaysUseful ==
  ASSUME TimeoutInv, Unsettled, ~Settled, ~Settled', Next, bridge = "open", ~WaitsInVain
  PROVE  ~WaitsInVain'
<1> SUFFICES ASSUME bridge' = "open"
             PROVE  /\ up'.timer # "lost"
                    /\ resp' = "idle" => upRes' # "dumped" /\ (up'.st = "destroyed" => up'.err)
  BY DEF WaitsInVain
<1> up \in UpType
  BY DEF TimeoutInv, IInv, TypeOK
<1>1. /\ up.timer # "lost"
      /\ resp = "idle" => upRes = "none" /\ (up.st = "destroyed" => up.err)
  BY DEF WaitsInVain, Unsettled
<1>2. ~UpstreamTimesOut /\ ~UpstreamErrorEvent
  BY DEF UpstreamTimesOut, UpstreamErrorEvent, EmitError
<1>3. CASE PluginReturns
  <2>1. UNCHANGED upRes \/ resp' # "idle"
    BY <1>3 DEF PluginReturns, ClientRequestPluginsReturn, HttpRequestListenersReturn,
       DispatchPluginsReturn, ConnectPluginsReturn, RequestPluginsReturn,
       ResponsePluginsReturn, TargetErrorPluginsReturn, Returns, Pending, ProceedWithResponse,
       DispatchNoContent, DispatchStream
  <2>2. up' \in {up, DestroyUp(up)}
    <3>1. ~HttpRequestListenersReturn("ok") /\ \A o : ~HttpRequestListenersReturn(o)
      BY EarlyIsEmpty DEF HttpRequestListenersReturn, Returns, Pending
    <3> QED
      BY <1>3, <3>1 DEF PluginReturns, ClientRequestPluginsReturn, DispatchPluginsReturn,
         ConnectPluginsReturn, StartRequestPipeline, RequestPluginsReturn,
         ResponsePluginsReturn, TargetErrorPluginsReturn, ProceedWithResponse,
         DispatchNoContent, DispatchStream
  <2>3. resp' = "idle" => resp = "idle"
    BY <1>3, NextMovesResp DEF RespMoves, Waits, PluginReturns, ClientRequestPluginsReturn,
       HttpRequestListenersReturn, DispatchPluginsReturn, ConnectPluginsReturn,
       RequestPluginsReturn, ResponsePluginsReturn, TargetErrorPluginsReturn, Returns, Pending,
       ProceedWithResponse, DispatchNoContent, DispatchStream
  <2>4. up'.timer # "lost"
    BY <1>1, <2>2, DestroyUpMoves
  <2>5. resp = "idle" /\ up'.st = "destroyed" => up'.err
    BY <1>1, <2>2 DEF DestroyUp, UpType
  <2> QED
    BY <1>1, <2>1, <2>3, <2>4, <2>5
<1>4. CASE Upstream
  <2>1. CASE UpstreamConnects
    BY <1>1, <2>1 DEF UpstreamConnects, UpType
  <2>2. CASE UpstreamResponds
    BY <1>1, <2>2 DEF UpstreamResponds
  <2>3. ASSUME NEW kind, UpstreamFails(kind) PROVE kind = "fin" /\ upRes # "none"
    BY <2>3 DEF UpstreamFails, EmitError
  <2>4. ASSUME NEW kind, UpstreamFails(kind)
        PROVE  up'.timer # "lost" /\ resp' # "idle"
    BY <1>1, <2>3, <2>4 DEF UpstreamFails, UpType
  <2> QED
    BY <1>2, <1>4, <2>1, <2>2, <2>4 DEF Upstream
<1>5. CASE Streams
  <2>1. CASE UploadEnds \/ UploadFinishes \/ CopyBreaks \/ ResponseFlushed
    BY <1>1, <2>1 DEF UploadEnds, UploadFinishes, CopyBreaks, ResponseFlushed
  <2>2. ~StreamCompletes /\ \A expected : ~StreamBreaks(expected)
    BY DEF StreamCompletes, StreamBreaks, Settles
  <2>3. CASE RequestEventSettles
    <3>1. resp' # "idle" /\ up' \in {up, DestroyUp(up)}
      BY <2>3 DEF RequestEventSettles, ProceedWithResponse, DispatchNoContent, DispatchStream
    <3> QED
      BY <1>1, <3>1, DestroyUpMoves
  <2> QED
    BY <1>5, <2>1, <2>2, <2>3 DEF Streams
<1>6. ~(Hijack \/ PluginAnswers \/ ClientCloses \/ RunResumes)
  BY ClientSettles, RunResumesSettles
<1> QED
  BY <1>3, <1>4, <1>5, <1>6 DEF Next

\* A bridge that opens listens to a new upstream request, or to one that a slow listener of
\* proxy:upstream-dispatch has kept waiting.
LEMMA OpensUseful ==
  ASSUME TimeoutInv, Unsettled, ~Settled, ~Settled', Next, bridge # "open", WaitsInVain'
  PROVE  MissedUpstream
<1> up \in UpType
  BY DEF TimeoutInv, IInv, TypeOK
<1>1. bridge' = "open"
  BY DEF WaitsInVain
<1>2. /\ UNCHANGED resp
      /\ run \in {"listeners", "dispatch", "bridge"} /\ run' = "bridge"
      /\ run = "bridge" => bridge \in {"resolved", "hit"}
  BY <1>1, NextMovesBridge DEF BridgeMoves, TimeoutInv
<1>3. run # "bridge"
  BY <1>2 DEF Unsettled
<1>4. CASE run = "listeners"
  <2>1. \E o : HttpRequestListenersReturn(o)
    BY <1>2, <1>4 DEF Next, PluginReturns, Hijack, PluginAnswers, RunResumes, Upstream,
       Streams, ClientCloses, UpstreamConnects, UpstreamResponds, UpstreamFails,
       UpstreamErrorEvent, UpstreamTimesOut, UploadEnds, UploadFinishes, CopyBreaks,
       RequestEventSettles, StreamCompletes, StreamBreaks, ResponseFlushed,
       ClientRequestPluginsReturn, DispatchPluginsReturn, ConnectPluginsReturn,
       RequestPluginsReturn, ResponsePluginsReturn, TargetErrorPluginsReturn, Returns, Pending
  <2>2. /\ up.st = "none" /\ upRes = "none" /\ up.timer = "armed"
    BY <1>4, EarlyIsEmpty DEF Unsettled
  <2>3. UNCHANGED upRes /\ up' \in {up, [up EXCEPT !.st = "connecting"]}
    BY <2>1 DEF HttpRequestListenersReturn, MiddlewareStops, RejectUrl, RequestThrows,
       StartUpstream
  <2> QED
    BY <2>2, <2>3 DEF WaitsInVain, UpType
<1>5. CASE run = "dispatch"
  <2>1. \E o : DispatchPluginsReturn(o)
    BY <1>2, <1>5 DEF Next, PluginReturns, Hijack, PluginAnswers, RunResumes, Upstream,
       Streams, ClientCloses, UpstreamConnects, UpstreamResponds, UpstreamFails,
       UpstreamErrorEvent, UpstreamTimesOut, UploadEnds, UploadFinishes, CopyBreaks,
       RequestEventSettles, StreamCompletes, StreamBreaks, ResponseFlushed,
       ClientRequestPluginsReturn, HttpRequestListenersReturn, ConnectPluginsReturn,
       RequestPluginsReturn, ResponsePluginsReturn, TargetErrorPluginsReturn, Returns, Pending
  <2>2. UNCHANGED <<up, upRes>>
    BY <2>1 DEF DispatchPluginsReturn
  <2>3. res.code = "none"
    BY <1>5, UnsettledHead DEF TimeoutInv, UpstreamComesFirst, Unsettled
  <2> QED
    BY <1>5, <2>2, <2>3 DEF WaitsInVain, MissedUpstream
<1> QED
  BY <1>2, <1>3, <1>4, <1>5

LEMMA VainStep ==
  TimeoutInv /\ (Settled \/ Unsettled) /\ [Next]_vars
    => (WaitsInVain' => WaitsInVain \/ MissedUpstream)
<1> SUFFICES ASSUME TimeoutInv, Settled \/ Unsettled, [Next]_vars, WaitsInVain'
             PROVE  WaitsInVain \/ MissedUpstream
  OBVIOUS
<1>1. CASE UNCHANGED vars
  BY <1>1 DEF vars, WaitsInVain, Settled
<1>2. CASE Next
  <2>1. ~Settled'
    BY DEF WaitsInVain
  <2>2. ~Settled /\ Unsettled
    BY <1>2, <2>1, SettledStays DEF TimeoutInv
  <2> QED
    BY <1>2, <2>1, <2>2, OpenStaysUseful, OpensUseful
<1> QED
  BY <1>1, <1>2

\* The bridge waits in vain only after a listener of proxy:upstream-dispatch has kept it
\* from hearing the time-out, the response or the error of the upstream request.
THEOREM OnlyDispatchMisses == Spec => VainIsMissed
  BY VainStep, TimeoutInductive, UnsettledInductive, PTL DEF Spec, VainIsMissed

\* Only a listener of proxy:upstream-dispatch keeps the promise chain from the bridge.
OnlyListenersDelay ==
  run = "dispatch" \/ WaitsInVain => "proxy:upstream-dispatch" \in Listening

LEMMA DelayStep ==
  TimeoutInv /\ (Settled \/ Unsettled) /\ OnlyListenersDelay /\ [Next]_vars
    => OnlyListenersDelay'
<1> SUFFICES ASSUME TimeoutInv, Settled \/ Unsettled, OnlyListenersDelay, [Next]_vars,
                    run' = "dispatch" \/ WaitsInVain'
             PROVE  "proxy:upstream-dispatch" \in Listening
  BY DEF OnlyListenersDelay
<1>1. CASE WaitsInVain'
  BY <1>1, VainStep DEF OnlyListenersDelay, MissedUpstream
<1>2. CASE run = "dispatch"
  BY <1>2 DEF OnlyListenersDelay
<1>3. CASE run' = "dispatch" /\ run # "dispatch"
  <2>1. run = "listeners" /\ Next
    BY <1>3, NextMovesRun DEF RunMoves, vars, TimeoutInv
  <2> QED
    BY <1>3, <2>1 DEF Next, PluginReturns, Hijack, PluginAnswers, RunResumes, Upstream,
       Streams, ClientCloses, UpstreamConnects, UpstreamResponds, UpstreamFails,
       UpstreamErrorEvent, UpstreamTimesOut, UploadEnds, UploadFinishes, CopyBreaks,
       RequestEventSettles, StreamCompletes, StreamBreaks, ResponseFlushed,
       ClientRequestPluginsReturn, DispatchPluginsReturn, ConnectPluginsReturn,
       RequestPluginsReturn, ResponsePluginsReturn, TargetErrorPluginsReturn, Returns,
       Pending, HttpRequestListenersReturn, MiddlewareStops, RejectUrl, RequestThrows,
       StartUpstream
<1> QED
  BY <1>1, <1>2, <1>3

\* Where nobody listens for proxy:upstream-dispatch the bridge never waits in vain: every
\* request is over for its client, aborted or hijacked, or something is due.
THEOREM OnlyDispatchDelays ==
  Spec => [](WaitsInVain => "proxy:upstream-dispatch" \in Listening)
<1>1. Init => OnlyListenersDelay
  BY DEF Init, OnlyListenersDelay, WaitsInVain
<1>2. OnlyListenersDelay => (WaitsInVain => "proxy:upstream-dispatch" \in Listening)
  BY DEF OnlyListenersDelay
<1> QED
  BY <1>1, <1>2, DelayStep, TimeoutInductive, UnsettledInductive, PTL DEF Spec
==============================================================================
