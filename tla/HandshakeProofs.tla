--------------------------- MODULE HandshakeProofs ---------------------------
(***************************************************************************)
(* Proofs about Handshake, for any number of listeners.                    *)
(***************************************************************************)
EXTENDS Handshake, TLAPS

-----------------------------------------------------------------------------
(* The inductive invariant *)

\* A plugin's listeners run one after the other.
OneAfterAnother ==
  kind = "plugin" =>
    \A l, k \in Listener : listener[l] = "running" =>
      (k < l => listener[k] = "ok") /\ (l < k => listener[k] = "waiting")

\* Before the TLS socket there is none; after a hijack there will be none.
TlsComesLast == tls # "none" => step \in {"tls", "done"}
HijackEnds == hijacked => tls = "none" /\ step \in Events \cup {"done"}

IInv ==
  /\ TypeOK /\ OneAfterAnother /\ ListenersAreWaitedFor
  /\ TlsComesLast /\ HijackEnds /\ FailedIsClosed

-----------------------------------------------------------------------------
(* Emissions *)

LEMMA StartedTypes ==
  ASSUME NEW k
  PROVE  /\ Started(k) \in [Listener -> Settlement \cup {"waiting", "running", "late"}]
         /\ k = "plugin" =>
              \A l, j \in Listener : Started(k)[l] = "running" =>
                (j < l => Started(k)[j] = "ok") /\ (l < j => Started(k)[j] = "waiting")
BY DEF Started, Listener

\* Once an emission is over no listener runs that is waited for.
LEMMA OverMeansNobodyRuns ==
  ASSUME TypeOK, OneAfterAnother, Over
  PROVE  \A l \in Listener : listener[l] # "running"
<1>1. CASE kind = "plugin" /\ Failures # {}
  <2>1. PICK k \in Listener : listener[k] \in {"abort", "error", "late"}
    BY <1>1 DEF Failures
  <2> QED
    BY <1>1, <2>1 DEF OneAfterAnother, Listener
<1>2. CASE ~(kind = "plugin" /\ Failures # {})
  BY <1>2 DEF Over, Settlement
<1> QED
  BY <1>1, <1>2

\* What the handlers do when an emission is over keeps the emission's part.
LEMMA GoToKeeps ==
  ASSUME TypeOK, OneAfterAnother, NEW s \in Events \cup {"write", "certificate", "tls"},
         GoTo(s), outcome = "none", \A l \in Listener : listener[l] # "running"
  PROVE  /\ step' = s /\ outcome' = "none" /\ EmissionTypeOK' /\ OneAfterAnother'
         /\ ListenersAreWaitedFor'
         /\ (kind' = "plugin") = (s \in PluginEvents) /\ (kind' = "bus") = (s \in BusEvents)
<1> USE DEF Events, PluginEvents, BusEvents
<1>1. step' = s /\ kind' = KindOf(s) /\ outcome' = "none"
  BY DEF GoTo
<1>2. (kind' = "plugin") = (s \in PluginEvents) /\ (kind' = "bus") = (s \in BusEvents)
  BY <1>1 DEF KindOf
<1>3. CASE s \in Events
  <2>1. listener' = Started(KindOf(s))
    BY <1>3 DEF GoTo
  <2>2. EmissionTypeOK'
    BY <1>1, <2>1, StartedTypes DEF EmissionTypeOK, KindOf
  <2>3. OneAfterAnother'
    BY <1>1, <2>1, StartedTypes DEF OneAfterAnother
  <2>4. ListenersAreWaitedFor'
    BY <1>1, <1>3 DEF ListenersAreWaitedFor
  <2> QED
    BY <1>1, <1>2, <2>2, <2>3, <2>4
<1>4. CASE s \notin Events
  <2>1. listener' = listener
    BY <1>4 DEF GoTo
  <2> QED
    BY <1>1, <1>2, <1>4, <2>1
    DEF KindOf, TypeOK, EmissionTypeOK, OneAfterAnother, ListenersAreWaitedFor
<1> QED
  BY <1>3, <1>4

LEMMA EndsKeeps ==
  ASSUME TypeOK, OneAfterAnother, NEW o \in {"returned", "aborted", "failed", "bridged"},
         Ends(o), \A l \in Listener : listener[l] # "running"
  PROVE  /\ step' = "done" /\ outcome' = o /\ EmissionTypeOK' /\ OneAfterAnother'
         /\ ListenersAreWaitedFor' /\ kind' = "none"
BY DEF Ends, TypeOK, EmissionTypeOK, OneAfterAnother, ListenersAreWaitedFor

LEMMA ListenerKeeps ==
  ASSUME IInv, NEW l \in Listener,
         \/ \E o \in Settlement : ListenerSettles(l, o)
         \/ ListenerTimesOut(l) \/ StragglerReturns(l)
  PROVE  IInv'
<1>1. UNCHANGED <<kind, step, outcome, hijacked, tracked, sock, tls, wraps, sni>>
  BY DEF ListenerSettles, ListenerTimesOut, StragglerReturns, Settles, TimesOut, LateReturns,
         handlerVars, scopeVars, sockVars
<1>2. EmissionTypeOK' /\ OneAfterAnother'
  <2>1. ASSUME NEW o \in Settlement, ListenerSettles(l, o)
        PROVE  EmissionTypeOK' /\ OneAfterAnother'
    <3>1. EmissionTypeOK'
      BY <2>1, <1>1 DEF ListenerSettles, Settles, IInv, TypeOK, EmissionTypeOK
    <3>2. OneAfterAnother'
      BY <2>1, <1>1 DEF ListenerSettles, Settles, IInv, TypeOK, EmissionTypeOK, OneAfterAnother,
                        Settlement, Listener
    <3> QED
      BY <3>1, <3>2
  <2>2. ASSUME ListenerTimesOut(l) \/ StragglerReturns(l)
        PROVE  EmissionTypeOK' /\ OneAfterAnother'
    <3>1. EmissionTypeOK'
      BY <2>2, <1>1 DEF ListenerTimesOut, StragglerReturns, TimesOut, LateReturns, IInv, TypeOK,
                        EmissionTypeOK, Settlement
    <3>2. /\ listener[l] \in {"running", "late"} /\ listener'[l] \in {"late", "error"}
          /\ \A k \in Listener : k # l => listener'[k] = listener[k]
      BY <2>2 DEF ListenerTimesOut, StragglerReturns, TimesOut, LateReturns, IInv, TypeOK,
                  EmissionTypeOK
    <3>3. \A j \in Listener : j \in Nat
      BY DEF Listener
    <3>4. OneAfterAnother'
      BY <3>2, <3>3, <1>1 DEF IInv, OneAfterAnother
    <3> QED
      BY <3>1, <3>4
  <2> QED
    BY <2>1, <2>2
<1>3. ListenersAreWaitedFor'
  <2>1. CASE \E k \in Listener : listener[k] = "running"
    BY <1>1, <2>1 DEF IInv, ListenersAreWaitedFor
  <2>2. CASE StragglerReturns(l)
    BY <1>1, <2>2 DEF StragglerReturns, LateReturns, IInv, TypeOK, EmissionTypeOK,
                      ListenersAreWaitedFor
  <2> QED
    BY <2>1, <2>2 DEF ListenerSettles, ListenerTimesOut, Settles, TimesOut
<1> QED
  BY <1>1, <1>2, <1>3 DEF IInv, TypeOK, TlsComesLast, HijackEnds, FailedIsClosed

-----------------------------------------------------------------------------
(* The handlers *)

LEMMA AfterIsAStep ==
  ASSUME NEW s \in Events
  PROVE  After(s) \in Events \cup {"write", "certificate"}
BY DEF After, Events, PluginEvents, BusEvents

LEMMA EventStepKeeps ==
  ASSUME IInv, EventIsOver \/ EventAborts \/ EventFails \/ HasNoHost
  PROVE  IInv'
<1> USE DEF Events, PluginEvents, BusEvents
<1>1. /\ TypeOK /\ OneAfterAnother /\ step \in Events /\ outcome = "none" /\ tls = "none"
      /\ \A l \in Listener : listener[l] # "running"
  BY OverMeansNobodyRuns
  DEF EventIsOver, EventAborts, EventFails, HasNoHost, IInv, TypeOK, TlsComesLast
<1>2. /\ UNCHANGED <<hijacked, tls, wraps, sni>> /\ tracked' \in BOOLEAN
      /\ sock' \in {sock, Destroyed(sock)}
      /\ outcome' = "failed" => sock' = Destroyed(sock)
  BY <1>1 DEF EventIsOver, EventAborts, EventFails, HasNoHost, scopeVars, sockVars, TypeOK,
              Ends, GoTo
<1>3. CASE ~hijacked /\ GoTo(After(step))
  <2>1. After(step) \in Events \cup {"write", "certificate", "tls"}
    BY <1>1, AfterIsAStep
  <2>2. /\ step' = After(step) /\ outcome' = "none" /\ EmissionTypeOK' /\ OneAfterAnother'
        /\ ListenersAreWaitedFor'
        /\ (kind' = "plugin") = (After(step) \in PluginEvents)
        /\ (kind' = "bus") = (After(step) \in BusEvents)
    BY <1>1, <1>3, <2>1, GoToKeeps
  <2>3. TypeOK'
    BY <1>1, <1>2, <2>1, <2>2 DEF TypeOK, Destroyed
  <2> QED
    BY <1>1, <1>2, <1>3, <2>2, <2>3 DEF IInv, TlsComesLast, HijackEnds, FailedIsClosed
<1>4. CASE \E o \in {"returned", "aborted", "failed"} : Ends(o)
  <2>1. PICK o \in {"returned", "aborted", "failed"} : Ends(o)
    BY <1>4
  <2>2. /\ step' = "done" /\ outcome' = o /\ EmissionTypeOK' /\ OneAfterAnother'
        /\ ListenersAreWaitedFor' /\ kind' = "none"
    BY <1>1, <2>1, EndsKeeps
  <2>3. TypeOK'
    BY <1>1, <1>2, <2>1, <2>2 DEF TypeOK, Destroyed
  <2>4. sock' # "open" \/ outcome' # "failed"
    BY <1>2, <2>2 DEF Destroyed
  <2> QED
    BY <1>1, <1>2, <2>2, <2>3, <2>4 DEF IInv, TlsComesLast, HijackEnds, FailedIsClosed
<1> QED
  BY <1>3, <1>4 DEF EventIsOver, EventAborts, EventFails, HasNoHost

LEMMA AnswerKeeps ==
  ASSUME IInv, WriteReturns \/ WriteFails \/ CertificateFails \/ CertificateComes
  PROVE  IInv'
<1> USE DEF Events, PluginEvents, BusEvents
<1>1. /\ TypeOK /\ OneAfterAnother /\ step \in {"write", "certificate"} /\ outcome = "none"
      /\ ~hijacked /\ tls = "none" /\ UNCHANGED <<hijacked, tracked, sni>>
      /\ \A l \in Listener : listener[l] # "running"
  BY DEF WriteReturns, WriteFails, CertificateFails, CertificateComes, IInv, TypeOK,
         TlsComesLast, HijackEnds, ListenersAreWaitedFor, scopeVars, sockVars
<1>2. CASE WriteReturns
  <2>1. GoTo("proxy:client-after-handshake") /\ UNCHANGED <<sock, tls, wraps>>
    BY <1>2 DEF WriteReturns, sockVars
  <2>2. /\ step' = "proxy:client-after-handshake" /\ outcome' = "none" /\ EmissionTypeOK'
        /\ OneAfterAnother' /\ ListenersAreWaitedFor' /\ kind' = "plugin"
    BY <1>1, <2>1, GoToKeeps
  <2>3. TypeOK'
    BY <1>1, <2>1, <2>2 DEF TypeOK
  <2> QED
    BY <1>1, <2>1, <2>2, <2>3 DEF IInv, TlsComesLast, HijackEnds, FailedIsClosed
<1>3. CASE CertificateComes
  <2>1. GoTo("tls") /\ tls' = "open" /\ wraps' \in BOOLEAN /\ sock' = sock
    BY <1>3 DEF CertificateComes
  <2>2. /\ step' = "tls" /\ outcome' = "none" /\ EmissionTypeOK'
        /\ OneAfterAnother' /\ ListenersAreWaitedFor' /\ kind' \notin {"plugin", "bus"}
    BY <1>1, <2>1, GoToKeeps
  <2>3. TypeOK'
    BY <1>1, <2>1, <2>2 DEF TypeOK
  <2> QED
    BY <1>1, <2>1, <2>2, <2>3 DEF IInv, TlsComesLast, HijackEnds, FailedIsClosed
<1>4. CASE WriteFails \/ CertificateFails
  <2>1. Ends("failed") /\ sock' = Destroyed(sock) /\ UNCHANGED <<tls, wraps>>
    BY <1>4 DEF WriteFails, CertificateFails, PipelineFails
  <2>2. /\ step' = "done" /\ outcome' = "failed" /\ EmissionTypeOK' /\ OneAfterAnother'
        /\ ListenersAreWaitedFor' /\ kind' = "none"
    BY <1>1, <2>1, EndsKeeps
  <2>3. TypeOK'
    BY <1>1, <2>1, <2>2 DEF TypeOK, Destroyed
  <2> QED
    BY <1>1, <2>1, <2>2, <2>3 DEF IInv, TlsComesLast, HijackEnds, FailedIsClosed, Destroyed
<1> QED
  BY <1>2, <1>3, <1>4

-----------------------------------------------------------------------------
(* TLS and the sockets *)

LEMMA TlsEndKeeps ==
  ASSUME IInv, HandshakeTimesOut \/ Secure \/ BridgeThrows \/ (TlsFails /\ step = "tls")
  PROVE  IInv'
<1> USE DEF Events, PluginEvents, BusEvents
<1>1. /\ TypeOK /\ OneAfterAnother /\ step = "tls" /\ outcome = "none"
      /\ ~hijacked /\ UNCHANGED <<hijacked, tracked, wraps>>
      /\ \A l \in Listener : listener[l] # "running"
      /\ sni' \in {"none", "pending", "done"}
  BY DEF HandshakeTimesOut, Secure, BridgeThrows, TlsFails, IInv, TypeOK, HijackEnds,
         ListenersAreWaitedFor, scopeVars, sockVars
<1>2. PICK o \in {"failed", "bridged"} :
        /\ Ends(o)
        /\ \/ o = "failed" /\ DestroyBoth
           \/ o = "bridged" /\ UNCHANGED <<sock, tls>>
  BY <1>1 DEF HandshakeTimesOut, Secure, BridgeThrows, TlsFails, sockVars
<1>3. /\ step' = "done" /\ outcome' = o /\ EmissionTypeOK' /\ OneAfterAnother'
      /\ ListenersAreWaitedFor' /\ kind' = "none"
  BY <1>1, <1>2, EndsKeeps
<1>4. TypeOK'
  BY <1>1, <1>2, <1>3 DEF TypeOK, DestroyBoth, Destroyed
<1> QED
  BY <1>1, <1>2, <1>3, <1>4
  DEF IInv, TlsComesLast, HijackEnds, FailedIsClosed, DestroyBoth, Destroyed

LEMMA SocketStepKeeps ==
  ASSUME IInv,
         \/ AsksForName \/ NameIsKnown \/ (TlsFails /\ step # "tls")
         \/ SocketEnds \/ SocketCloses \/ TlsCloses
  PROVE  IInv'
<1>1. /\ UNCHANGED <<kind, listener, step, outcome, hijacked, wraps>>
      /\ tracked' \in BOOLEAN /\ sni' \in {"none", "pending", "done"}
      /\ sock' \in {"open", "ending", "closed"} /\ (sock # "open" => sock' # "open")
      /\ tls' \in {"none", "open", "ending", "closed"} /\ (tls # "open" => tls' # "open")
      /\ (tls = "none") = (tls' = "none")
  BY DEF AsksForName, NameIsKnown, TlsFails, SocketEnds, SocketCloses, TlsCloses, IInv, TypeOK,
         emissionVars, handlerVars, scopeVars, DestroyBoth, Destroyed
<1> QED
  BY <1>1 DEF IInv, TypeOK, EmissionTypeOK, OneAfterAnother, ListenersAreWaitedFor, TlsComesLast,
              HijackEnds, FailedIsClosed

LEMMA HijackKeeps ==
  ASSUME IInv, Hijack
  PROVE  IInv'
<1>1. /\ step \in Events /\ tls = "none" /\ hijacked' = TRUE
      /\ UNCHANGED <<kind, listener, step, outcome, tracked, sock, tls, wraps, sni>>
  BY DEF Hijack, IInv, ListenersAreWaitedFor, TlsComesLast, Events, PluginEvents, BusEvents,
         emissionVars, handlerVars, sockVars
<1> QED
  BY <1>1 DEF IInv, TypeOK, EmissionTypeOK, OneAfterAnother, ListenersAreWaitedFor, TlsComesLast,
              HijackEnds, FailedIsClosed

-----------------------------------------------------------------------------
(* The theorems *)

LEMMA InitSound == Init => IInv
<1> SUFFICES ASSUME Init PROVE IInv
  OBVIOUS
<1>1. EmissionTypeOK /\ OneAfterAnother
  BY StartedTypes DEF Init, EmissionTypeOK, OneAfterAnother
<1>2. step = "proxy:client-connect" /\ kind = "plugin" /\ outcome = "none"
  BY DEF Init
<1>3. (kind = "plugin") = (step \in PluginEvents) /\ (kind = "bus") = (step \in BusEvents)
  BY <1>2 DEF PluginEvents, BusEvents
<1>4. step \in Events
  BY <1>2 DEF Events, PluginEvents
<1>5. TypeOK
  BY <1>1, <1>2, <1>3, <1>4 DEF Init, TypeOK
<1> QED
  BY <1>1, <1>4, <1>5
  DEF Init, IInv, ListenersAreWaitedFor, TlsComesLast, HijackEnds, FailedIsClosed

LEMMA StepKeeps == IInv /\ [Next]_vars => IInv'
<1> SUFFICES ASSUME IInv, [Next]_vars
             PROVE  IInv'
  OBVIOUS
<1>1. CASE UNCHANGED vars
  BY <1>1 DEF vars, emissionVars, handlerVars, scopeVars, sockVars, IInv, TypeOK,
              EmissionTypeOK, OneAfterAnother, ListenersAreWaitedFor, TlsComesLast, HijackEnds,
              FailedIsClosed
<1>2. CASE HandlerSteps
  BY <1>2, EventStepKeeps, AnswerKeeps DEF HandlerSteps
<1>3. CASE TlsSteps
  BY <1>3, TlsEndKeeps, SocketStepKeeps DEF TlsSteps
<1>4. CASE Next /\ ~HandlerSteps /\ ~TlsSteps
  BY <1>4, ListenerKeeps, HijackKeeps, SocketStepKeeps DEF Next
<1> QED
  BY <1>1, <1>2, <1>3, <1>4

\* The invariant holds in every behaviour of a CONNECT.
THEOREM HandshakeInductive == Spec => []IInv
<1> QED
  BY InitSound, StepKeeps, PTL DEF Spec

\* Every variable of a CONNECT keeps its type, and what it awaits says who emits.
THEOREM HandshakeTypeCorrect == Spec => []TypeOK
<1>1. IInv => TypeOK
  BY DEF IInv
<1> QED
  BY <1>1, HandshakeInductive, PTL

\* Whenever a listener hijacks, the handlers stop before they make a TLS socket.
THEOREM HijackedIsLeftPlain == Spec => []HijackedGetsNoTls
<1>1. IInv => HijackedGetsNoTls
  BY DEF IInv, HijackEnds, HijackedGetsNoTls
<1> QED
  BY <1>1, HandshakeInductive, PTL

\* Neither emission lets the handlers go on while a listener runs that has time left.
THEOREM HandlersWait == Spec => []ListenersAreWaitedFor
<1>1. IInv => ListenersAreWaitedFor
  BY DEF IInv
<1> QED
  BY <1>1, HandshakeInductive, PTL

\* A CONNECT that fails leaves neither of its sockets open.
THEOREM FailuresClose == Spec => []FailedIsClosed
<1>1. IInv => FailedIsClosed
  BY DEF IInv
<1> QED
  BY <1>1, HandshakeInductive, PTL

\* A CONNECT has one outcome, whatever comes after it.
THEOREM OutcomeIsFinal == Spec => SettlesOnce
<1>1. IInv /\ [Next]_vars => [outcome # "none" => outcome' = outcome]_vars
  <2> SUFFICES ASSUME IInv, Next, outcome # "none"
               PROVE  outcome' = outcome
    OBVIOUS
  <2>1. step = "done"
    BY DEF IInv, TypeOK
  <2>2. ~HandlerSteps
    BY <2>1 DEF HandlerSteps, EventIsOver, EventAborts, EventFails, HasNoHost, WriteReturns,
                WriteFails, CertificateFails, CertificateComes, Events, PluginEvents, BusEvents
  <2>3. CASE TlsSteps
    BY <2>1, <2>3 DEF TlsSteps, AsksForName, NameIsKnown, HandshakeTimesOut, Secure,
                      BridgeThrows, TlsFails, handlerVars
  <2>4. CASE ~TlsSteps
    BY <2>2, <2>4 DEF Next, ListenerSettles, ListenerTimesOut, StragglerReturns, Hijack,
                      SocketEnds, SocketCloses, TlsCloses, handlerVars
  <2> QED
    BY <2>3, <2>4
<1> QED
  BY <1>1, HandshakeInductive, PTL DEF Spec, SettlesOnce

-----------------------------------------------------------------------------
(* A CONNECT implements RequestTracking. *)

\* A TLS socket that wraps nothing was made after the socket had closed.  The time-out
\* runs only once there is one.
WrapsInv ==
  /\ tls = "none" => ~wraps
  /\ tls # "none" /\ ~wraps => sock = "closed"
  /\ step = "tls" => tls # "none"

\* What RequestTracking sees of the socket and of the CONNECT.
ModeSeen == IF Gone THEN "closed" ELSE IF Made THEN "tls"
            ELSE IF outcome = "none" THEN "connecting" ELSE "dead"
StSeen == IF Unaware THEN "unwinding"
          ELSE IF Gone \/ (outcome # "none" /\ ~Made) THEN "closed" ELSE "inflight"

Tracks == WrapsInv' /\ [Tracking!Next]_(Tracking!vars)

LEMMA NothingSeen ==
  ASSUME WrapsInv', ModeSeen' = ModeSeen, StSeen' = StSeen, Gone' <=> Gone, UNCHANGED tracked
  PROVE  Tracks
  BY DEF Tracking!vars, ModeSeen, StSeen, Tracks

\* The handlers end before there is a TLS socket.
LEMMA EndIsSeen ==
  ASSUME WrapsInv, outcome = "none", outcome' # "none", step' = "done", tls = "none", UNCHANGED <<tls, wraps>>,
         sock' = "closed" <=> sock = "closed", tracked \in BOOLEAN, tracked' \in {tracked, FALSE}
  PROVE  Tracks
<1> USE DEF Made, Gone, Unaware, WrapsInv, Tracks
<1>1. ~wraps /\ ~wraps' /\ tls' = "none"
  OBVIOUS
<1>2. CASE sock = "closed"
  <2> USE DEF Tracking!Unwinds, Tracking!Ends, Tracking!At
  <2>1. CASE UNCHANGED tracked
    <3>1. Tracking!Unwinds("connect")
      BY <1>1, <1>2, <2>1
    <3> QED
      BY <1>1, <3>1 DEF Tracking!Next
  <2>2. CASE ~tracked'
    <3>1. Tracking!Unwinds("connect")
      BY <1>1, <1>2, <2>2 DEF Tracking!DestroyRequestLifecycle, Tracking!NoTxn
    <3> QED
      BY <1>1, <3>1 DEF Tracking!Next
  <2> QED
    BY <2>1, <2>2
<1>3. CASE sock # "closed"
  <2>1. CASE UNCHANGED tracked
    <3>1. Tracking!IsLeft("connect")
      BY <1>1, <1>3, <2>1 DEF Tracking!IsLeft, Tracking!Ends, Tracking!At, Tracking!InFlight,
        Tracking!Handling
    <3> QED
      BY <1>1, <3>1 DEF Tracking!Next
  <2>2. CASE ~tracked'
    <3>1. Tracking!TearsDown("connect")
      BY <1>1, <1>3, <2>2 DEF Tracking!TearsDown, Tracking!Ends, Tracking!At,
        Tracking!InFlight, Tracking!Handling, Tracking!DestroyRequestLifecycle, Tracking!NoTxn
    <3> QED
      BY <1>1, <3>1 DEF Tracking!Next
  <2> QED
    BY <2>1, <2>2
<1> QED
  BY <1>2, <1>3

LEMMA HandlerStepIsSeen ==
  ASSUME IInv, WrapsInv, HandlerSteps
  PROVE  Tracks
<1> USE DEF IInv, TypeOK, TlsComesLast, Events, PluginEvents, BusEvents, scopeVars, sockVars
<1>1. step # "done" /\ outcome = "none" /\ tls = "none" /\ ~wraps
  BY DEF HandlerSteps, EventIsOver, EventAborts, EventFails, HasNoHost, WriteReturns,
    WriteFails, CertificateFails, CertificateComes, WrapsInv
<1>2. CASE EventAborts \/ EventFails \/ HasNoHost \/ WriteFails \/ CertificateFails
  <2>1. /\ outcome' # "none" /\ step' = "done" /\ UNCHANGED <<tls, wraps>> /\ tracked' \in {tracked, FALSE}
        /\ sock' = "closed" <=> sock = "closed"
    BY <1>2 DEF EventAborts, EventFails, HasNoHost, WriteFails, CertificateFails,
      PipelineFails, Ends, Destroyed
  <2> QED
    BY <1>1, <2>1, EndIsSeen
<1>3. CASE EventIsOver /\ hijacked
  <2>1. outcome' # "none" /\ step' = "done" /\ UNCHANGED <<tls, wraps, sock, tracked>>
    BY <1>3 DEF EventIsOver, Ends
  <2> QED
    BY <1>1, <2>1, EndIsSeen
<1>4. CASE WriteReturns \/ (EventIsOver /\ ~hijacked)
  <2>1. step' # "tls" /\ UNCHANGED <<outcome, tls, wraps, sock, tracked>>
    BY <1>4 DEF EventIsOver, WriteReturns, GoTo, After
  <2> QED
    BY <2>1, NothingSeen DEF WrapsInv, ModeSeen, StSeen, Gone, Made, Unaware
<1>5. CASE CertificateComes
  <2>1. UNCHANGED <<outcome, sock, tracked>> /\ tls' = "open" /\ wraps' = (sock # "closed")
    BY <1>5 DEF CertificateComes, GoTo
  <2>2. CASE sock = "closed"
    BY <1>1, <2>1, <2>2, NothingSeen DEF WrapsInv, ModeSeen, StSeen, Gone, Made, Unaware
  <2>3. CASE sock # "closed"
    <3>1. Tracking!TunnelOpens("connect")
      BY <1>1, <2>1, <2>3 DEF Tracking!TunnelOpens, Tracking!InFlight, Gone, Made, Unaware
    <3> QED
      BY <2>1, <2>3, <3>1 DEF Tracking!Next, Tracks, WrapsInv
  <2> QED
    BY <2>2, <2>3
<1> QED
  BY <1>2, <1>3, <1>4, <1>5 DEF HandlerSteps

LEMMA TlsStepIsSeen ==
  ASSUME IInv, WrapsInv, TlsSteps
  PROVE  Tracks
<1> USE DEF TlsSteps, AsksForName, NameIsKnown, HandshakeTimesOut, Secure, BridgeThrows, TlsFails
<1>1. CASE NameIsKnown
  BY <1>1, NothingSeen DEF handlerVars, scopeVars, WrapsInv, ModeSeen, StSeen, Gone, Made, Unaware
<1>2. CASE ~NameIsKnown
  <2>1. tls # "none"
    BY <1>2 DEF WrapsInv
  <2>2. /\ UNCHANGED <<wraps, tracked>>
        /\ \/ UNCHANGED <<sock, tls>>
           \/ DestroyBoth
    BY <1>2 DEF scopeVars, sockVars
  <2> QED
    BY <2>1, <2>2, NothingSeen
    DEF DestroyBoth, Destroyed, WrapsInv, ModeSeen, StSeen, Gone, Made, Unaware
<1> QED
  BY <1>1, <1>2

LEMMA SocketStepIsSeen ==
  ASSUME IInv, WrapsInv, SocketEnds \/ SocketCloses \/ TlsCloses
  PROVE  Tracks
<1> USE DEF Made, Gone, Unaware, WrapsInv
<1>1. CASE SocketEnds
  BY <1>1, NothingSeen DEF SocketEnds, scopeVars, handlerVars, ModeSeen, StSeen
<1>2. CASE SocketCloses /\ wraps
  BY <1>2, NothingSeen DEF SocketCloses, Destroyed, scopeVars, handlerVars, ModeSeen, StSeen
<1>3. CASE SocketCloses /\ ~wraps
  <2>1. /\ tls = "none" /\ tls' = "none" /\ sock = "ending" /\ sock' = "closed"
        /\ UNCHANGED <<step, wraps, outcome, tracked>>
    BY <1>3 DEF SocketCloses, Destroyed, scopeVars, handlerVars
  <2>2. Tracking!ClosingIds("client") = {}
    BY <1>3, <2>1 DEF Tracking!ClosingIds, Tracking!OnConn
  <2>3. Tracking!Closing("client", {})
    BY <1>3, <2>1, <2>2 DEF Tracking!Closing, Tracking!DestroyRequestLifecycle,
      Tracking!OnConn, Tracking!At, Tracking!Unaware, Tracking!InFlight, Tracking!Handling,
      Tracking!NoTxn
  <2> QED
    BY <2>1, <2>3 DEF Tracking!SocketCloses, Tracking!Next, Tracks
<1>4. CASE TlsCloses
  <2>1. /\ tls = "ending" /\ tls' = "closed" /\ sock = "closed" /\ ~tracked'
        /\ UNCHANGED <<step, wraps, outcome, sock>>
    BY <1>4 DEF TlsCloses, handlerVars
  <2>2. CASE wraps
    <3>1. Tracking!ClosingIds("client") = {"connect"}
      BY <2>1, <2>2 DEF Tracking!ClosingIds, Tracking!OnConn
    <3>2. Tracking!Closing("client", {})
      BY <2>1, <2>2, <3>1 DEF Tracking!Closing, Tracking!DestroyRequestLifecycle,
        Tracking!OnConn, Tracking!At, Tracking!Unaware, Tracking!InFlight, Tracking!Handling,
        Tracking!NoTxn
    <3> QED
      BY <2>1, <3>2 DEF Tracking!SocketCloses, Tracking!Next, Tracks
  <2>3. CASE ~wraps
    <3>1. Tracking!Unwinds("connect")
      BY <2>1, <2>3 DEF Tracking!Unwinds, Tracking!Ends, Tracking!At,
        Tracking!DestroyRequestLifecycle, Tracking!NoTxn
    <3> QED
      BY <2>1, <3>1 DEF Tracking!Next, Tracks
  <2> QED
    BY <2>2, <2>3
<1> QED
  BY <1>1, <1>2, <1>3, <1>4

LEMMA StepIsSeen == IInv /\ WrapsInv /\ [Next]_vars => Tracks
<1> SUFFICES ASSUME IInv, WrapsInv, [Next]_vars PROVE Tracks
  OBVIOUS
<1>1. CASE HandlerSteps
  BY <1>1, HandlerStepIsSeen
<1>2. CASE TlsSteps
  BY <1>2, TlsStepIsSeen
<1>3. CASE SocketEnds \/ SocketCloses \/ TlsCloses
  BY <1>3, SocketStepIsSeen
<1>4. CASE UNCHANGED <<step, outcome, tracked, sock, tls, wraps>>
  BY <1>4, NothingSeen DEF WrapsInv, ModeSeen, StSeen, Gone, Made, Unaware
<1> QED
  BY <1>1, <1>2, <1>3, <1>4 DEF Next, ListenerSettles, ListenerTimesOut, StragglerReturns, Hijack,
    handlerVars, scopeVars, sockVars, vars

\* The indexes keep a CONNECT exactly as RequestTracking lets them, whichever of its
\* handlers, its TLS socket and its socket ends first.
THEOREM TunnelsAreTracked == Spec => TracksTunnels
<1>1. Init => WrapsInv
  BY DEF Init, WrapsInv
<1>2. IInv /\ WrapsInv /\ [Next]_vars => WrapsInv' /\ [Tracking!Next]_(Tracking!vars)
  BY StepIsSeen DEF Tracks
<1> QED
  BY <1>1, <1>2, HandshakeInductive, PTL DEF Spec, TracksTunnels

-----------------------------------------------------------------------------
(* A CONNECT is always brought on. *)

\* All listeners of a bus start together, and have no time limit.
BusRunsAll == kind = "bus" => \A l \in Listener : listener[l] \in Settlement \cup {"running"}

\* The "close" event of the TLS socket is the end of the lifecycle.
ForgottenWithTls == tls = "closed" => ~tracked

DueInv == SomethingIsDue /\ BusRunsAll /\ ForgottenWithTls

\* Each listener of an event settles or passes on: the event is over, or one of them runs.
LEMMA ListenerGoesOn ==
  ASSUME IInv, DueInv, NEW l \in Listener,
         \/ \E o \in Settlement : ListenerSettles(l, o)
         \/ ListenerTimesOut(l) \/ StragglerReturns(l)
  PROVE  DueInv' /\ step' = step /\ \A k \in Listener : ListenerRank(k)' >= ListenerRank(k)
<1>1. UNCHANGED <<kind, step, tracked, sock, tls>>
  BY DEF ListenerSettles, ListenerTimesOut, StragglerReturns, Settles, TimesOut, LateReturns,
         handlerVars, scopeVars, sockVars
<1>2. /\ listener \in [Listener -> Settlement \cup {"waiting", "running", "late"}]
      /\ step \in Events => kind \in {"plugin", "bus"}
  BY DEF IInv, TypeOK, EmissionTypeOK, Events
<1>3. ASSUME NEW o \in Settlement, ListenerSettles(l, o)
      PROVE  /\ BusRunsAll'
             /\ step \in Events => Over' \/ \E k \in Listener : listener'[k] = "running"
             /\ \A k \in Listener : ListenerRank(k)' >= ListenerRank(k)
  <2>1. /\ listener[l] = "running"
        /\ listener' = [k \in Listener |->
                          IF k = l THEN o
                          ELSE IF kind = "plugin" /\ o = "ok" /\ k = l + 1 THEN "running"
                          ELSE listener[k]]
    BY <1>3 DEF ListenerSettles, Settles
  <2>2. BusRunsAll'
    BY <1>1, <2>1 DEF DueInv, BusRunsAll
  <2>3. ASSUME kind = "plugin" /\ o = "ok" /\ l + 1 \in Listener
        PROVE  Over' \/ \E k \in Listener : listener'[k] = "running"
    <3>1. listener'[l + 1] = "running"
      BY <2>1, <2>3 DEF Listener
    <3> QED
      BY <2>3, <3>1
  <2>4. ASSUME kind = "plugin" /\ o = "ok" /\ l + 1 \notin Listener
        PROVE  Over' \/ \E k \in Listener : listener'[k] = "running"
    <3>1. \A k \in Listener : k = l \/ k < l
      BY <2>4, NListenersAssumption DEF Listener
    <3>2. \A k \in Listener : k < l => listener[k] = "ok" /\ k # l + 1 /\ k # l
      BY <2>1, <2>4 DEF IInv, OneAfterAnother, Listener
    <3>3. \A k \in Listener : listener'[k] = "ok"
      BY <2>1, <2>4, <3>1, <3>2
    <3> QED
      BY <1>1, <2>4, <3>3 DEF Over
  <2>5. ASSUME kind = "plugin" /\ o # "ok"
        PROVE  Over' \/ \E k \in Listener : listener'[k] = "running"
    <3>1. listener'[l] \in {"abort", "error"}
      BY <2>1, <2>5 DEF Settlement
    <3> QED
      BY <1>1, <2>5, <3>1 DEF Over, Failures
  <2>6. ASSUME kind = "bus"
        PROVE  Over' \/ \E k \in Listener : listener'[k] = "running"
    BY <1>1, <2>2, <2>6 DEF BusRunsAll, Over
  <2>7. \A k \in Listener : ListenerRank(k)' >= ListenerRank(k)
    <3> SUFFICES ASSUME NEW k \in Listener PROVE ListenerRank(k)' >= ListenerRank(k)
      OBVIOUS
    <3>1. CASE k = l
      BY <2>1, <3>1 DEF ListenerRank, Settlement
    <3>2. CASE kind = "plugin" /\ o = "ok" /\ k = l + 1 /\ k # l
      <4>1. listener[k] = "waiting" /\ listener'[k] = "running"
        BY <2>1, <3>2 DEF IInv, OneAfterAnother, Listener
      <4> QED
        BY <4>1 DEF ListenerRank
    <3>3. CASE k # l /\ ~(kind = "plugin" /\ o = "ok" /\ k = l + 1)
      <4>1. listener'[k] = listener[k]
        BY <2>1, <3>3
      <4> QED
        BY <4>1 DEF ListenerRank
    <3> QED
      BY <3>1, <3>2, <3>3
  <2> QED
    BY <1>2, <2>2, <2>3, <2>4, <2>5, <2>6, <2>7
<1>4. ASSUME ListenerTimesOut(l) \/ StragglerReturns(l)
      PROVE  /\ BusRunsAll'
             /\ step \in Events => Over' \/ \E k \in Listener : listener'[k] = "running"
             /\ \A k \in Listener : ListenerRank(k)' >= ListenerRank(k)
  <2>1. PICK o \in {"late", "error"} : listener' = [listener EXCEPT ![l] = o]
    BY <1>4 DEF ListenerTimesOut, StragglerReturns, TimesOut, LateReturns
  <2>2. /\ kind # "bus" /\ listener[l] \in {"running", "late"}
        /\ listener[l] = "late" => o = "error"
    BY <1>2, <1>4, <2>1 DEF ListenerTimesOut, StragglerReturns, TimesOut, LateReturns, DueInv,
                            BusRunsAll, Settlement
  <2>3. listener'[l] = o /\ \A k \in Listener : k # l => listener'[k] = listener[k]
    BY <1>2, <2>1
  <2>4. step \in Events => Over'
    BY <1>1, <1>2, <2>2, <2>3 DEF Over, Failures
  <2>5. \A k \in Listener : ListenerRank(k)' >= ListenerRank(k)
    BY <2>2, <2>3 DEF ListenerRank
  <2> QED
    BY <1>1, <2>2, <2>4, <2>5 DEF BusRunsAll
<1>5. /\ BusRunsAll' /\ \A k \in Listener : ListenerRank(k)' >= ListenerRank(k)
      /\ step \in Events => Over' \/ \E k \in Listener : listener'[k] = "running"
  BY <1>3, <1>4
<1> QED
  BY <1>1, <1>5 DEF DueInv, ForgottenWithTls, SomethingIsDue

\* Where the handlers go, the first listener, or every one, starts at once.
LEMMA StartsSomeone ==
  ASSUME NEW s, GoTo(s)
  PROVE  /\ BusRunsAll'
         /\ step' \in Events => Over' \/ \E l \in Listener : listener'[l] = "running"
<1>1. step' = s /\ kind' = KindOf(s)
      /\ listener' = IF s \in Events THEN Started(KindOf(s)) ELSE listener
  BY DEF GoTo
<1>2. CASE s \in Events
  <2>1. 1 \in Listener /\ listener' = Started(kind')
    BY <1>1, <1>2, NListenersAssumption DEF Listener
  <2>2. listener'[1] = "running"
    BY <2>1 DEF Started
  <2> QED
    BY <2>1, <2>2 DEF Started, BusRunsAll
<1>3. CASE s \notin Events
  BY <1>1, <1>3 DEF KindOf, Events, BusRunsAll
<1> QED
  BY <1>2, <1>3

\* The handlers only go on.
LEMMA HandlersGoOn ==
  ASSUME IInv, DueInv, HandlerSteps
  PROVE  DueInv' /\ StepRank(step') > StepRank(step)
<1> USE DEF Events, PluginEvents, BusEvents
<1>1. step \in Events \cup {"write", "certificate"} /\ tls = "none"
  BY DEF HandlerSteps, EventIsOver, EventAborts, EventFails, HasNoHost, WriteReturns, WriteFails,
         CertificateFails, CertificateComes, IInv, TlsComesLast
<1>2. /\ tls' = "none" \/ (tls' = "open" /\ step' = "tls")
      /\ \/ \E o \in {"returned", "aborted", "failed"} : Ends(o)
         \/ \E s : GoTo(s) /\ StepRank(s) > StepRank(step)
  <2>1. CASE EventIsOver
    BY <1>1, <2>1 DEF EventIsOver, sockVars, After, StepRank
  <2>2. CASE EventAborts \/ EventFails \/ HasNoHost \/ WriteFails \/ CertificateFails
    BY <1>1, <2>2 DEF EventAborts, EventFails, HasNoHost, WriteFails, CertificateFails,
                      PipelineFails, sockVars
  <2>3. CASE WriteReturns
    BY <1>1, <2>3 DEF WriteReturns, sockVars, StepRank
  <2>4. CASE CertificateComes
    BY <1>1, <2>4 DEF CertificateComes, GoTo, StepRank
  <2> QED
    BY <2>1, <2>2, <2>3, <2>4 DEF HandlerSteps
<1>3. CASE \E o \in {"returned", "aborted", "failed"} : Ends(o)
  BY <1>1, <1>2, <1>3 DEF Ends, DueInv, ForgottenWithTls, SomethingIsDue, BusRunsAll, StepRank
<1>4. ASSUME NEW s, GoTo(s), StepRank(s) > StepRank(step)
      PROVE  DueInv' /\ StepRank(step') > StepRank(step)
  BY <1>2, <1>4, StartsSomeone DEF GoTo, DueInv, ForgottenWithTls, SomethingIsDue
<1> QED
  BY <1>2, <1>3, <1>4

\* What happens to the sockets leaves the handlers where they are, or ends them.
LEMMA SocketsGoOn ==
  ASSUME IInv, DueInv,
         TlsSteps \/ Hijack \/ SocketEnds \/ SocketCloses \/ TlsCloses
  PROVE  /\ DueInv'
         /\ \/ StepRank(step') > StepRank(step)
            \/ step' = step /\ listener' = listener
<1> USE DEF emissionVars, handlerVars, scopeVars, sockVars
<1>1. CASE AsksForName \/ NameIsKnown \/ Hijack \/ SocketEnds \/ SocketCloses \/ TlsCloses
  <2>1. UNCHANGED <<kind, listener, step>>
    BY <1>1 DEF AsksForName, NameIsKnown, Hijack, SocketEnds, SocketCloses, TlsCloses
  <2>3. ASSUME SocketCloses
        PROVE  tls' # "none" => ~tracked' \/ tls' = "ending"
    BY <2>3 DEF SocketCloses, Destroyed, DueInv, ForgottenWithTls, SomethingIsDue, IInv, TypeOK
  <2>4. ASSUME AsksForName \/ NameIsKnown \/ Hijack \/ SocketEnds
        PROVE  UNCHANGED <<tls, tracked>> /\ (sock' = sock \/ sock' # "closed")
    BY <2>4 DEF AsksForName, NameIsKnown, Hijack, SocketEnds
  <2>5. TlsCloses => ~tracked'
    BY DEF TlsCloses
  <2>2. tls' # "none" /\ sock' = "closed" =>
          ~tracked' \/ tls' = "ending" \/ (tls' = "open" /\ step' = "tls")
    BY <1>1, <2>1, <2>3, <2>4, <2>5 DEF DueInv, ForgottenWithTls, SomethingIsDue
  <2>6. tls' = "closed" => ~tracked'
    BY <1>1, <2>3, <2>4, <2>5 DEF DueInv, ForgottenWithTls, SocketCloses
  <2> QED
    BY <2>1, <2>2, <2>6 DEF DueInv, ForgottenWithTls, SomethingIsDue, BusRunsAll, Over, Failures
<1>2. ASSUME HandshakeTimesOut \/ Secure \/ BridgeThrows \/ (TlsFails /\ step = "tls")
      PROVE  DueInv' /\ StepRank(step') > StepRank(step)
  <2>1. step = "tls" /\ step' = "done" /\ kind' = "none" /\ tracked' = tracked
    BY <1>2 DEF HandshakeTimesOut, Secure, BridgeThrows, TlsFails, Ends
  <2>2. tls' # "none" /\ sock' = "closed" => ~tracked' \/ tls' = "ending"
    BY <1>2, <2>1 DEF HandshakeTimesOut, Secure, BridgeThrows, TlsFails, DestroyBoth,
                Destroyed, DueInv, ForgottenWithTls, SomethingIsDue, IInv, TypeOK
  <2>3. tls' = "closed" => tls = "closed"
    BY <1>2, <2>1 DEF HandshakeTimesOut, Secure, BridgeThrows, TlsFails, DestroyBoth, Destroyed
  <2> QED
    BY <2>1, <2>2, <2>3 DEF DueInv, ForgottenWithTls, SomethingIsDue, BusRunsAll, StepRank,
                            Events, PluginEvents, BusEvents
<1>3. CASE TlsFails /\ step # "tls"
  <2>1. UNCHANGED <<kind, listener, step, tracked>> /\ tls' = "ending" /\ sock' # "closed"
    BY <1>3 DEF TlsFails, DestroyBoth, Destroyed
  <2> QED
    BY <2>1 DEF DueInv, ForgottenWithTls, SomethingIsDue, BusRunsAll, Over, Failures
<1> QED
  BY <1>1, <1>2, <1>3 DEF TlsSteps

\* At every moment something is due that brings the CONNECT on, and nothing takes it
\* back: the handlers' nine steps, and the listeners of each, are gone through once.
THEOREM ConnectGoesOn == Spec => []SomethingIsDue /\ NeverBack
<1> DEFINE Onward ==
      \/ StepRank(step') > StepRank(step)
      \/ step' = step /\ \A l \in Listener : ListenerRank(l)' >= ListenerRank(l)
<1>1. Init => DueInv
  <2>1. 1 \in Listener
    BY NListenersAssumption DEF Listener
  <2> QED
    BY <2>1 DEF Init, DueInv, ForgottenWithTls, SomethingIsDue, BusRunsAll, Started
<1>2. IInv /\ DueInv /\ [Next]_vars => DueInv' /\ [Onward]_vars
  <2> SUFFICES ASSUME IInv, DueInv, [Next]_vars PROVE DueInv' /\ [Onward]_vars
    OBVIOUS
  <2>1. CASE UNCHANGED vars
    BY <2>1 DEF vars, emissionVars, handlerVars, scopeVars, sockVars, DueInv,
                ForgottenWithTls, SomethingIsDue, BusRunsAll, Over, Failures
  <2>2. ASSUME NEW l \in Listener,
               \/ \E o \in Settlement : ListenerSettles(l, o)
               \/ ListenerTimesOut(l) \/ StragglerReturns(l)
        PROVE  DueInv' /\ Onward
    BY <2>2, ListenerGoesOn
  <2>3. CASE HandlerSteps
    BY <2>3, HandlersGoOn
  <2>4. ASSUME TlsSteps \/ Hijack \/ SocketEnds \/ SocketCloses \/ TlsCloses
        PROVE  DueInv' /\ Onward
    <3>1. /\ DueInv'
          /\ \/ StepRank(step') > StepRank(step)
             \/ step' = step /\ listener' = listener
      BY <2>4, SocketsGoOn
    <3>2. ASSUME listener' = listener, NEW l \in Listener
          PROVE  ListenerRank(l)' >= ListenerRank(l)
      BY <3>2 DEF ListenerRank
    <3> QED
      BY <3>1, <3>2
  <2> QED
    BY <2>1, <2>2, <2>3, <2>4 DEF Next
<1>3. DueInv => SomethingIsDue
  BY DEF DueInv
<1> QED
  BY <1>1, <1>2, <1>3, HandshakeInductive, PTL DEF Spec, NeverBack
=============================================================================
