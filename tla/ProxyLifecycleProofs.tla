------------------------- MODULE ProxyLifecycleProofs -------------------------
(***************************************************************************)
(* Theorems about ProxyLifecycle and the emissions of its handlers, for    *)
(* any plugins, connections and requests: connected clients are served by  *)
(* initialised plugins, what has been shut down is clean, and the hooks    *)
(* are run as PluginLifecycle says.                                        *)
(***************************************************************************)
EXTENDS PluginEmissions, SequenceTheorems, TLAPS

-----------------------------------------------------------------------------
(* The inductive invariant *)

ListsOfPlugins ==
  /\ activePlugins \in Seq(Plugins) /\ initialized \in Seq(Plugins) /\ todo \in Seq(Plugins)
  /\ listening \in BOOLEAN

\* A server that listens has been bound by a listen() that is under way or has come up,
\* nobody has stopped it, and all plugins with a run listener are initialised.
ListensWhenBound ==
  listening => /\ listen \in {"bound", "callback", "up"} /\ stop = "none"
               /\ observed \subseteq ToSet(initialized)

\* Who has not been stopped is what listen() has made of it.
BoundListens == stop = "none" /\ ~listening => listen \notin {"bound", "callback", "up"}
UnboundIsNotStopped == listen \in {"idle", "init", "bindError"} => stop = "none"

\* Clients outlive the server only while it is being closed.
ClientsAreServed == open # {} => listening \/ stop # "none" \/ listen = "closing"

\* Every plugin is registered until stop(); while listen() initialises them each is
\* initialised or still to be.
ObservedIsActive == stop = "none" => observed \subseteq ToSet(activePlugins)
ObservedIsToBeReady ==
  listen = "init" => observed \subseteq ToSet(initialized) \cup ToSet(todo)

\* Nothing is left where plugins are being, or have been, cleaned up.
CleanedUp ==
  /\ listen \in {"idle", "cleanup", "failed"} => initialized = <<>>
  /\ stop \in {"cleanup", "resolved", "rejected"} => open = {} /\ initialized = <<>>

IInv ==
  /\ ListsOfPlugins /\ ListensWhenBound /\ BoundListens /\ UnboundIsNotStopped
  /\ ClientsAreServed /\ ObservedIsActive /\ ObservedIsToBeReady /\ CleanedUp
  /\ ObservedAreReady

-----------------------------------------------------------------------------
(* Lists *)

LEMMA ToSetOfSeq ==
  ASSUME NEW S, NEW s \in Seq(S)
  PROVE  /\ \A i \in 1..Len(s) : s[i] \in ToSet(s)
         /\ \A e \in ToSet(s) : \E i \in 1..Len(s) : e = s[i]
  BY LenProperties DEF ToSet

LEMMA ToSetAppend ==
  ASSUME NEW S, NEW s \in Seq(S), NEW e \in S
  PROVE  Append(s, e) \in Seq(S) /\ ToSet(s) \cup {e} \subseteq ToSet(Append(s, e))
<1>1. /\ Append(s, e) \in Seq(S) /\ Len(Append(s, e)) = Len(s) + 1 /\ Len(s) \in Nat
      /\ \A i \in 1..Len(s) : Append(s, e)[i] = s[i]
      /\ Append(s, e)[Len(s) + 1] = e
  BY AppendProperties
<1>2. /\ DOMAIN s = 1..Len(s) /\ DOMAIN Append(s, e) = 1..(Len(s) + 1)
      /\ DOMAIN s \subseteq DOMAIN Append(s, e) /\ Len(s) + 1 \in DOMAIN Append(s, e)
  BY <1>1
<1> QED
  BY <1>1, <1>2 DEF ToSet

LEMMA ToSetTail ==
  ASSUME NEW S, NEW s \in Seq(S), s # <<>>
  PROVE  /\ Head(s) \in S /\ Tail(s) \in Seq(S)
         /\ ToSet(s) \subseteq ToSet(Tail(s)) \cup {Head(s)}
<1>1. /\ Head(s) \in S /\ Tail(s) \in Seq(S) /\ Len(s) \in Nat /\ Len(s) >= 1
      /\ Len(Tail(s)) = Len(s) - 1 /\ \A i \in 1..Len(Tail(s)) : Tail(s)[i] = s[i + 1]
      /\ Head(s) = s[1]
  BY HeadTailProperties, LenProperties, EmptySeq
<1> SUFFICES ASSUME NEW i \in 1..Len(s), i # 1
             PROVE  s[i] \in ToSet(Tail(s))
  BY <1>1 DEF ToSet
<1>2. i - 1 \in 1..Len(Tail(s)) /\ s[i] = Tail(s)[i - 1]
  BY <1>1
<1> QED
  BY <1>1, <1>2, ToSetOfSeq

LEMMA RemoveAtProperties ==
  ASSUME NEW S, NEW s \in Seq(S), NEW i \in 1..Len(s)
  PROVE  /\ RemoveAt(s, i) \in Seq(S) /\ Len(s) \in Nat /\ Len(RemoveAt(s, i)) = Len(s) - 1
         /\ \A k \in 1..(Len(s) - 1) : RemoveAt(s, i)[k] = IF k < i THEN s[k] ELSE s[k + 1]
<1> DEFINE before == SubSeq(s, 1, i - 1)
           after == SubSeq(s, i + 1, Len(s))
<1>1. i \in 1..Len(s) /\ Len(s) \in Nat
  BY LenProperties
<1>2. /\ before \in Seq(S) /\ Len(before) = i - 1
      /\ \A k \in 1..(i - 1) : before[k] = s[k]
  BY <1>1, SubSeqProperties
<1>3. /\ after \in Seq(S) /\ Len(after) = Len(s) - i
      /\ \A k \in 1..(Len(s) - i) : after[k] = s[i + k]
  BY <1>1, SubSeqProperties
<1>4. RemoveAt(s, i) = before \o after
  BY DEF RemoveAt
<1> HIDE DEF before, after
<1>5. /\ before \o after \in Seq(S) /\ Len(before \o after) = Len(before) + Len(after)
      /\ \A k \in 1..(Len(before) + Len(after)) : (before \o after)[k] =
           IF k <= Len(before) THEN before[k] ELSE after[k - Len(before)]
  BY <1>2, <1>3, ConcatProperties
<1>6. Len(before) + Len(after) = Len(s) - 1
  BY <1>1, <1>2, <1>3
<1>7. ASSUME NEW k \in 1..(Len(s) - 1)
      PROVE  (before \o after)[k] = IF k < i THEN s[k] ELSE s[k + 1]
  <2>1. CASE k < i
    <3>1. k \in 1..(i - 1) /\ k <= i - 1
      BY <1>1, <2>1
    <3> QED
      BY <1>2, <1>5, <1>6, <2>1, <3>1
  <2>2. CASE ~(k < i)
    <3>1. /\ ~(k <= i - 1) /\ k - (i - 1) \in 1..(Len(s) - i)
          /\ i + (k - (i - 1)) = k + 1
      BY <1>1, <2>2
    <3>2. (before \o after)[k] = after[k - (i - 1)]
      BY <1>2, <1>5, <1>6, <3>1
    <3>3. after[k - (i - 1)] = s[k + 1]
      BY <1>3, <3>1
    <3> QED
      BY <2>2, <3>2, <3>3
  <2> QED
    BY <2>1, <2>2
<1> QED
  BY <1>1, <1>4, <1>5, <1>6, <1>7

LEMMA ToSetRemoveAt ==
  ASSUME NEW S, NEW s \in Seq(S), NEW i \in 1..Len(s)
  PROVE  ToSet(s) \ {s[i]} \subseteq ToSet(RemoveAt(s, i))
<1> SUFFICES ASSUME NEW e \in ToSet(s), e # s[i]
             PROVE  e \in ToSet(RemoveAt(s, i))
  OBVIOUS
<1>1. PICK k \in 1..Len(s) : e = s[k]
  BY ToSetOfSeq
<1> DEFINE j == IF k < i THEN k ELSE k - 1
<1>2. j \in 1..(Len(s) - 1) /\ k = IF j < i THEN j ELSE j + 1
  BY <1>1, LenProperties
<1>3. RemoveAt(s, i)[j] = s[k]
  BY <1>2, RemoveAtProperties
<1>4. RemoveAt(s, i) \in Seq(S) /\ Len(RemoveAt(s, i)) = Len(s) - 1
  BY RemoveAtProperties
<1> QED
  BY <1>1, <1>2, <1>3, <1>4, ToSetOfSeq

LEMMA RemoveAtKeepsInjective ==
  ASSUME NEW S, NEW s \in Seq(S), NEW i \in 1..Len(s), IsInjective(s)
  PROVE  IsInjective(RemoveAt(s, i))
<1> DEFINE r == RemoveAt(s, i)
           At(k) == IF k < i THEN k ELSE k + 1
<1>1. /\ r \in Seq(S) /\ Len(s) \in Nat /\ Len(r) = Len(s) - 1
      /\ \A k \in 1..(Len(s) - 1) : r[k] = IF k < i THEN s[k] ELSE s[k + 1]
  BY RemoveAtProperties
<1> HIDE DEF r
<1>2. DOMAIN r = 1..(Len(s) - 1) /\ DOMAIN s = 1..Len(s)
  BY <1>1, LenProperties
<1> SUFFICES ASSUME NEW a \in 1..(Len(s) - 1), NEW b \in 1..(Len(s) - 1), r[a] = r[b]
             PROVE  a = b
  BY <1>2 DEF IsInjective, r
<1>3. At(a) \in 1..Len(s) /\ At(b) \in 1..Len(s) /\ (At(a) = At(b) => a = b)
  BY <1>1
<1>4. r[a] = s[At(a)] /\ r[b] = s[At(b)]
  BY <1>1
<1> QED
  BY <1>2, <1>3, <1>4 DEF IsInjective

LEMMA AppendKeepsInjective ==
  ASSUME NEW S, NEW s \in Seq(S), NEW e \in S, IsInjective(s), e \notin ToSet(s)
  PROVE  IsInjective(Append(s, e))
<1> DEFINE r == Append(s, e)
<1>1. /\ Len(r) = Len(s) + 1 /\ Len(s) \in Nat /\ DOMAIN r = 1..(Len(s) + 1)
      /\ \A k \in 1..Len(s) : r[k] = s[k]
      /\ r[Len(s) + 1] = e /\ DOMAIN s = 1..Len(s)
  BY AppendProperties, LenProperties
<1> HIDE DEF r
<1>2. \A k \in 1..Len(s) : r[k] # e
  BY <1>1, ToSetOfSeq
<1>3. \A k \in 1..(Len(s) + 1) : k \in 1..Len(s) \/ k = Len(s) + 1
  BY <1>1
<1> QED
  BY <1>1, <1>2, <1>3 DEF IsInjective, r

\* What listen() moves from one list to the other.
LEMMA HeadMoves ==
  ASSUME NEW S, NEW s \in Seq(S), NEW t \in Seq(S), t # <<>>
  PROVE  Append(s, Head(t)) \o Tail(t) = s \o t
<1>1. Head(t) = t[1] /\ Head(t) \in S /\ t = <<Head(t)>> \o Tail(t) /\ Tail(t) \in Seq(S)
  BY HeadTailProperties, ConcatProperties, SeqEqual
<1>2. Append(s, Head(t)) = s \o <<Head(t)>>
  BY <1>1, AppendIsConcat
<1> QED
  BY <1>1, <1>2, ConcatAssociative

LEMMA HeadIsNew ==
  ASSUME NEW S, NEW s \in Seq(S), NEW t \in Seq(S), t # <<>>, IsInjective(s \o t)
  PROVE  Head(t) \notin ToSet(s)
<1>1. /\ Len(s) \in Nat /\ Len(t) \in Nat /\ Len(t) # 0 /\ Head(t) = t[1]
      /\ DOMAIN (s \o t) = 1..(Len(s) + Len(t))
      /\ \A k \in 1..(Len(s) + Len(t)) :
           (s \o t)[k] = IF k <= Len(s) THEN s[k] ELSE t[k - Len(s)]
  BY LenProperties, EmptySeq, ConcatProperties
<1>2. /\ Len(s) + 1 \in 1..(Len(s) + Len(t)) /\ ~(Len(s) + 1 <= Len(s))
      /\ Len(s) + 1 - Len(s) = 1
  BY <1>1
<1>3. (s \o t)[Len(s) + 1] = Head(t)
  BY <1>1, <1>2
<1>4. ASSUME NEW k \in 1..Len(s)
      PROVE  s[k] # Head(t)
  <2>1. k \in 1..(Len(s) + Len(t)) /\ k <= Len(s) /\ k # Len(s) + 1
    BY <1>1
  <2>2. (s \o t)[k] = s[k]
    BY <1>1, <2>1
  <2> QED
    BY <1>1, <1>2, <1>3, <2>1, <2>2 DEF IsInjective
<1> QED
  BY <1>4, ToSetOfSeq

-----------------------------------------------------------------------------
(* Every step keeps the invariant. *)

LEMMA InitInvariant == Init => IInv
  BY EmptySeq DEF Init, IInv, ListsOfPlugins, ListensWhenBound, BoundListens, UnboundIsNotStopped,
     ClientsAreServed, ObservedIsActive, ObservedIsToBeReady, CleanedUp, ObservedAreReady

\* Where plugins may be configured nothing runs and nobody is connected.
LEMMA IdleIsEmpty ==
  ASSUME IInv, MayConfigure
  PROVE  /\ listen \in {"idle", "failed"} /\ stop = "none" /\ ~listening /\ open = {}
         /\ observed \subseteq ToSet(activePlugins)
  BY DEF IInv, MayConfigure, isStarting, ListensWhenBound, BoundListens,
     ClientsAreServed, ObservedIsActive

LEMMA RegistrationKeeps ==
  ASSUME IInv, NEW p \in Plugins, Use(p) \/ Unuse(p)
  PROVE  IInv'
<1>1. /\ UNCHANGED <<initialized, listenVars, stopVars, server>>
      /\ listen \in {"idle", "failed"} /\ stop = "none" /\ ~listening /\ open = {}
      /\ observed \subseteq ToSet(activePlugins)
  BY IdleIsEmpty DEF Use, Unuse
<1>2. activePlugins \in Seq(Plugins)
  BY DEF IInv, ListsOfPlugins
<1>3. activePlugins' \in Seq(Plugins) /\ observed' \subseteq ToSet(activePlugins')
  <2>1. CASE Use(p)
    BY <1>1, <1>2, <2>1, ToSetAppend DEF Use
  <2>2. CASE Unuse(p)
    <3>1. PICK i \in DOMAIN activePlugins :
            activePlugins[i] = p /\ activePlugins' = RemoveAt(activePlugins, i)
      BY <2>2 DEF Unuse
    <3>2. i \in 1..Len(activePlugins)
      BY <1>2, <3>1, LenProperties
    <3> QED
      BY <1>1, <1>2, <2>2, <3>1, <3>2, ToSetRemoveAt, RemoveAtProperties DEF Unuse
  <2> QED
    BY <2>1, <2>2
<1> QED
  BY <1>1, <1>3 DEF listenVars, stopVars, server, IInv, ListsOfPlugins, ListensWhenBound,
     BoundListens, UnboundIsNotStopped, ClientsAreServed, ObservedIsActive, ObservedIsToBeReady,
     CleanedUp, ObservedAreReady

LEMMA ListenKeeps ==
  ASSUME IInv, Listen
  PROVE  IInv'
<1>1. /\ listen' = "init" /\ todo' = activePlugins /\ UNCHANGED <<plugins, stop, server>>
      /\ listen \in {"idle", "failed"} /\ stop = "none" /\ ~listening /\ open = {}
      /\ observed \subseteq ToSet(activePlugins)
  BY IdleIsEmpty DEF Listen
<1> QED
  BY <1>1 DEF plugins, server, IInv, ListsOfPlugins, ListensWhenBound, BoundListens,
     UnboundIsNotStopped, ClientsAreServed, ObservedIsActive, ObservedIsToBeReady, CleanedUp,
     ObservedAreReady

LEMMA PluginInitReturnsKeeps ==
  ASSUME IInv, PluginInitReturns
  PROVE  IInv'
<1>1. /\ listen = "init" /\ todo # <<>> /\ todo \in Seq(Plugins) /\ initialized \in Seq(Plugins)
      /\ initialized' = Append(initialized, Head(todo)) /\ todo' = Tail(todo)
      /\ UNCHANGED <<activePlugins, observed, listen, stop, server>>
  BY DEF PluginInitReturns, stopVars, IInv, ListsOfPlugins
<1>2. stop = "none" /\ ~listening /\ open = {}
  BY <1>1 DEF IInv, ListensWhenBound, UnboundIsNotStopped, ClientsAreServed
<1>3. /\ todo' \in Seq(Plugins) /\ initialized' \in Seq(Plugins)
      /\ ToSet(initialized) \cup ToSet(todo) \subseteq ToSet(initialized') \cup ToSet(todo')
  BY <1>1, ToSetAppend, ToSetTail
<1> QED
  BY <1>1, <1>2, <1>3 DEF server, IInv, ListsOfPlugins, ListensWhenBound, BoundListens,
     UnboundIsNotStopped, ClientsAreServed, ObservedIsActive, ObservedIsToBeReady, CleanedUp,
     ObservedAreReady

\* listen() fails only where nobody is connected.
LEMMA FailureKeeps ==
  ASSUME IInv, PluginInitThrows \/ BindErrorEvent \/ CloseAfterCallbackError
  PROVE  IInv'
<1>1. /\ initialized' = <<>> /\ todo' = <<>> /\ listen' \in {"cleanup", "failed"}
      /\ UNCHANGED <<activePlugins, observed, stop, server>>
      /\ listen \in {"init", "bindError"} \/ (~listening /\ open = {})
  BY DEF PluginInitThrows, BindErrorEvent, CloseAfterCallbackError, ListenFails,
     TakeInitialized, ServerClosed, stopVars
<1>2. ~listening /\ open = {}
  BY <1>1 DEF IInv, ListensWhenBound, UnboundIsNotStopped, ClientsAreServed
<1> QED
  BY <1>1, <1>2, EmptySeq DEF server, IInv, ListsOfPlugins, ListensWhenBound, BoundListens,
     UnboundIsNotStopped, ClientsAreServed, ObservedIsActive, ObservedIsToBeReady, CleanedUp,
     ObservedAreReady

LEMMA BindServerKeeps ==
  ASSUME IInv, BindServer
  PROVE  IInv'
<1>1. /\ listen = "init" /\ todo = <<>>
      /\ \/ listen' = "bound" /\ listening' = TRUE
         \/ listen' = "bindError" /\ listening' = listening
      /\ UNCHANGED <<activePlugins, observed, initialized, todo, stop, open>>
  BY DEF BindServer, plugins, stopVars
<1>2. stop = "none" /\ ~listening /\ open = {}
  BY <1>1 DEF IInv, ListensWhenBound, UnboundIsNotStopped, ClientsAreServed
<1>3. observed \subseteq ToSet(initialized)
  BY <1>1 DEF IInv, ObservedIsToBeReady, ToSet
<1>4. CASE listen' = "bound" /\ listening' = TRUE
  BY <1>1, <1>2, <1>3, <1>4 DEF IInv, ListsOfPlugins, ListensWhenBound, BoundListens,
     UnboundIsNotStopped, ClientsAreServed, ObservedIsActive, ObservedIsToBeReady, CleanedUp,
     ObservedAreReady
<1>5. CASE listen' = "bindError" /\ listening' = listening
  BY <1>1, <1>2, <1>3, <1>5 DEF IInv, ListsOfPlugins, ListensWhenBound, BoundListens,
     UnboundIsNotStopped, ClientsAreServed, ObservedIsActive, ObservedIsToBeReady, CleanedUp,
     ObservedAreReady
<1> QED
  BY <1>1, <1>4, <1>5

LEMMA ListenGoesOnKeeps ==
  ASSUME IInv, ListeningEvent \/ CallbackReturns \/ CallbackThrows \/ ListenCleanupReturns
  PROVE  IInv'
<1>1. /\ UNCHANGED <<activePlugins, observed, initialized, todo, stop, open>>
      /\ \/ listen = "bound" /\ listen' = "callback" /\ listening' = listening
         \/ listen = "callback" /\ listen' = "up" /\ listening' = listening
         \/ listen = "callback" /\ listen' = "closing" /\ listening' = FALSE
         \/ listen = "cleanup" /\ listen' \in {"cleanup", "failed"} /\ listening' = listening
  BY DEF ListeningEvent, CallbackReturns, CallbackThrows, ListenCleanupReturns, plugins,
     stopVars, server
<1>2. CASE listening' = listening
  BY <1>1, <1>2 DEF IInv, ListsOfPlugins, ListensWhenBound, BoundListens,
     UnboundIsNotStopped, ClientsAreServed, ObservedIsActive, ObservedIsToBeReady, CleanedUp,
     ObservedAreReady
<1>3. CASE listening' = FALSE
  BY <1>1, <1>3 DEF IInv, ListsOfPlugins, ListensWhenBound, BoundListens,
     UnboundIsNotStopped, ClientsAreServed, ObservedIsActive, ObservedIsToBeReady, CleanedUp,
     ObservedAreReady
<1> QED
  BY <1>1, <1>2, <1>3

LEMMA StopKeeps ==
  ASSUME IInv, Stop \/ Signal
  PROVE  IInv'
<1>1. /\ UNCHANGED <<activePlugins, observed, initialized, listen, todo, open>>
      /\ \/ listening /\ stop' \in {"drained", "draining"} /\ listening' = FALSE
         \/ ~listening /\ UNCHANGED <<stop, listening>>
  BY DEF Stop, Signal, StopOrReturn, StopInternal, ReturnAtOnce, plugins, listenVars
<1>2. CASE listening
  BY <1>1, <1>2 DEF IInv, ListsOfPlugins, ListensWhenBound, BoundListens,
     UnboundIsNotStopped, ClientsAreServed, ObservedIsActive, ObservedIsToBeReady, CleanedUp,
     ObservedAreReady
<1>3. CASE ~listening
  BY <1>1, <1>3 DEF IInv, ListsOfPlugins, ListensWhenBound, BoundListens,
     UnboundIsNotStopped, ClientsAreServed, ObservedIsActive, ObservedIsToBeReady, CleanedUp,
     ObservedAreReady
<1> QED
  BY <1>2, <1>3

LEMMA StopStepsKeep ==
  ASSUME IInv, StopSteps
  PROVE  IInv'
<1>1. CASE ForceClose
  BY <1>1 DEF ForceClose, Draining, listenVars, IInv, ListsOfPlugins, ListensWhenBound,
     BoundListens, UnboundIsNotStopped, ClientsAreServed, ObservedIsActive, ObservedIsToBeReady,
     CleanedUp, ObservedAreReady
<1>2. CASE StopCleansUp
  <2>1. /\ stop = "awaitClose" /\ ~listening /\ open = {}
        /\ initialized' = <<>> /\ stop' \in {"cleanup", "rejected", "resolved"}
        /\ UNCHANGED <<activePlugins, observed, listen, todo, listening, open>>
    BY <1>2 DEF StopCleansUp, ServerClosed, TakeInitialized, StopSettles, listenVars, server
  <2> QED
    BY <2>1, EmptySeq DEF IInv, ListsOfPlugins, ListensWhenBound, BoundListens,
       UnboundIsNotStopped, ClientsAreServed, ObservedIsActive, ObservedIsToBeReady, CleanedUp,
       ObservedAreReady
<1>3. CASE \E ok \in BOOLEAN : StopCleanupReturns(ok)
  <2>1. /\ stop = "cleanup" /\ stop' \in {"cleanup", "rejected", "resolved"}
        /\ UNCHANGED <<activePlugins, observed, initialized, listen, todo, listening, open>>
    BY <1>3 DEF StopCleanupReturns, StopSettles, plugins, listenVars, server
  <2> QED
    BY <2>1 DEF IInv, ListsOfPlugins, ListensWhenBound, BoundListens, UnboundIsNotStopped,
       ClientsAreServed, ObservedIsActive, ObservedIsToBeReady, CleanedUp, ObservedAreReady
<1> QED
  BY <1>1, <1>2, <1>3 DEF StopSteps

LEMMA ClientsKeep ==
  ASSUME IInv, Clients
  PROVE  IInv'
<1>1. /\ UNCHANGED <<activePlugins, observed, initialized, listen, todo, stop, listening>>
      /\ listening \/ open' \subseteq open
  BY DEF Clients, Accept, SocketCloses, RequestStarts, RequestEnds, plugins, listenVars, stopVars
<1>2. listening => stop = "none" /\ observed \subseteq ToSet(initialized)
  BY DEF IInv, ListensWhenBound
<1> QED
  BY <1>1, <1>2 DEF IInv, ListsOfPlugins, ListensWhenBound, BoundListens, UnboundIsNotStopped,
     ClientsAreServed, ObservedIsActive, ObservedIsToBeReady, CleanedUp, ObservedAreReady

LEMMA NextKeeps == IInv /\ [Next]_vars => IInv'
<1> SUFFICES ASSUME IInv, [Next]_vars
             PROVE  IInv'
  OBVIOUS
<1>1. CASE UNCHANGED vars
  BY <1>1 DEF vars, plugins, listenVars, stopVars, server, IInv, ListsOfPlugins,
     ListensWhenBound, BoundListens, UnboundIsNotStopped, ClientsAreServed, ObservedIsActive,
     ObservedIsToBeReady, CleanedUp, ObservedAreReady
<1>2. CASE ListenSteps
  BY <1>2, PluginInitReturnsKeeps, FailureKeeps, BindServerKeeps, ListenGoesOnKeeps
     DEF ListenSteps
<1> QED
  BY <1>1, <1>2, RegistrationKeeps, ListenKeeps, StopKeeps, StopStepsKeep, ClientsKeep DEF Next

-----------------------------------------------------------------------------
(* Theorems *)

\* The invariant of a proxy's life.
THEOREM LifecycleInductive == Spec => []IInv
  BY InitInvariant, NextKeeps, PTL DEF Spec

\* While a client is connected, no run listener is registered for a plugin that is not
\* initialised, or is cleaned up already.
THEOREM ListenersAreReady == Spec => []ObservedAreReady
<1>1. IInv => ObservedAreReady
  BY DEF IInv
<1> QED
  BY <1>1, LifecycleInductive, PTL

\* Once stop() has shut the proxy down, or listen() has failed, nothing is left: no
\* server, no client, no plugin to clean up.
THEOREM ShutDownIsClean == Spec => []SettledIsClean
<1>1. IInv => SettledIsClean
  BY DEF IInv, SettledIsClean, ListensWhenBound, ClientsAreServed, CleanedUp
<1> QED
  BY <1>1, LifecycleInductive, PTL

-----------------------------------------------------------------------------
(* Emissions *)

\* Plugins are taken to be cleaned up only where nobody is connected.
LEMMA ReadyStay ==
  ASSUME IInv, Next, open # {}
  PROVE  ToSet(initialized) \subseteq ToSet(initialized')
<1>1. listen \notin {"init", "bindError"}
  BY DEF IInv, ClientsAreServed, ListensWhenBound, UnboundIsNotStopped
<1>2. UNCHANGED initialized
  BY <1>1 DEF Next, Use, Unuse, Listen, Stop, Signal, ListenSteps, PluginInitReturns,
     PluginInitThrows, BindServer, BindErrorEvent, ListeningEvent, CallbackReturns,
     CallbackThrows, CloseAfterCallbackError, ListenCleanupReturns, ServerClosed, StopSteps,
     ForceClose, StopCleansUp, StopCleanupReturns, Clients, Accept, SocketCloses,
     RequestStarts, RequestEnds, plugins
<1> QED
  BY <1>2

\* Clients are connected, handlers that have returned emit nothing, and an emission for
\* a connected client has only plugins before it that are ready.
EmissionInv ==
  /\ EmissionTypeOK
  /\ \A h \in Handlers : client[h] \subseteq open
  /\ \A h \in Handlers : h \notin running => left[h] = {}
  /\ RunsOnlyReady

LEMMA ProxyStepKeeps ==
  ASSUME IInv, EmissionInv, ProxyStep
  PROVE  EmissionInv'
<1>1. ASSUME NEW h \in Handlers
      PROVE  client'[h] = client[h] \cap open' /\ client[h] \subseteq Connections
  BY DEF ProxyStep, EmissionInv, EmissionTypeOK
<1>2. EmissionTypeOK'
  BY DEF ProxyStep, EmissionInv, EmissionTypeOK
<1>3. RunsOnlyReady'
  <2> SUFFICES ASSUME NEW h \in Handlers, client'[h] # {}
               PROVE  left[h] \subseteq ToSet(initialized')
    BY DEF ProxyStep, RunsOnlyReady
  <2>1. client[h] # {} /\ open # {}
    BY <1>1 DEF EmissionInv
  <2>2. left[h] \subseteq ToSet(initialized)
    BY <2>1 DEF EmissionInv, RunsOnlyReady
  <2> QED
    BY <2>1, <2>2, ReadyStay DEF ProxyStep
<1> QED
  BY <1>1, <1>2, <1>3 DEF ProxyStep, EmissionInv

LEMMA HandlerStepKeeps ==
  ASSUME IInv, EmissionInv, HandlerStep
  PROVE  EmissionInv'
<1> PICK h \in Handlers :
      \/ \E c \in Connections : HandlerStarts(h, c)
      \/ \E plugs \in SUBSET Plugins : Emits(h, plugs)
      \/ \E p \in Plugins : ListenerReturns(h, p)
      \/ ListenerThrows(h) \/ HandlerReturns(h)
  BY DEF HandlerStep
<1>1. UNCHANGED <<open, observed, initialized>>
  BY DEF HandlerStep, vars, server, plugins
<1>2. CASE \E c \in Connections : HandlerStarts(h, c)
  BY <1>1, <1>2 DEF HandlerStarts, EmissionInv, EmissionTypeOK, RunsOnlyReady
<1>3. CASE \E plugs \in SUBSET Plugins : Emits(h, plugs)
  <2>1. PICK plugs \in SUBSET Plugins : Emits(h, plugs)
    BY <1>3
  <2>2. client[h] # {} => plugs \subseteq ToSet(initialized)
    BY <2>1 DEF Emits, EmissionInv, IInv, ObservedAreReady
  <2> QED
    BY <1>1, <2>1, <2>2 DEF Emits, EmissionInv, EmissionTypeOK, RunsOnlyReady
<1>4. CASE \E p \in Plugins : ListenerReturns(h, p)
  BY <1>1, <1>4 DEF ListenerReturns, EmissionInv, EmissionTypeOK, RunsOnlyReady
<1>5. CASE ListenerThrows(h)
  BY <1>1, <1>5 DEF ListenerThrows, EmissionInv, EmissionTypeOK, RunsOnlyReady
<1>6. CASE HandlerReturns(h)
  BY <1>1, <1>6 DEF HandlerReturns, EmissionInv, EmissionTypeOK, RunsOnlyReady
<1> QED
  BY <1>2, <1>3, <1>4, <1>5, <1>6

\* Emissions do not disturb what is proved of the Proxy.
LEMMA EmissionsKeepLife == EmissionSpec => []IInv
<1>1. EmissionInit => Init
  BY DEF EmissionInit
<1>2. [EmissionNext]_<<vars, handlerVars>> => [Next]_vars
  BY DEF EmissionNext, ProxyStep, HandlerStep
<1> QED
  BY <1>1, <1>2, LifecycleInductive, PTL DEF EmissionSpec, Spec

\* Every listener that an emission has still to call while its client is connected
\* belongs to a plugin that is initialised, and that nobody has begun to clean up.
THEOREM EmissionsCallReady == EmissionSpec => []RunsOnlyReady
<1>1. EmissionInit => EmissionInv
  BY DEF EmissionInit, EmissionInv, EmissionTypeOK, RunsOnlyReady
<1>2. IInv /\ EmissionInv /\ [EmissionNext]_<<vars, handlerVars>> => EmissionInv'
  <2> SUFFICES ASSUME IInv, EmissionInv, [EmissionNext]_<<vars, handlerVars>>
               PROVE  EmissionInv'
    OBVIOUS
  <2>1. CASE UNCHANGED <<vars, handlerVars>>
    BY <2>1 DEF vars, handlerVars, server, plugins, EmissionInv, EmissionTypeOK,
       RunsOnlyReady
  <2> QED
    BY <2>1, ProxyStepKeeps, HandlerStepKeeps DEF EmissionNext
<1>3. EmissionInv => RunsOnlyReady
  BY DEF EmissionInv
<1> QED
  BY <1>1, <1>2, <1>3, EmissionsKeepLife, PTL DEF EmissionSpec

-----------------------------------------------------------------------------
(* The contract of the hooks *)

\* Two loops may clean up, but only one of them has plugins.
LoopsTakeTurns ==
  /\ listenLoop \in Seq(Plugins) /\ stopLoop \in Seq(Plugins)
  /\ listenLoop # <<>> <=> listen = "cleanup"
  /\ stopLoop # <<>> <=> stop = "cleanup"
  /\ ~(listen = "cleanup" /\ stop = "cleanup")

\* No plugin is registered, and so none is initialised, twice.
NoPluginTwice ==
  /\ IsInjective(activePlugins)
  /\ listen = "init" => IsInjective(initialized \o todo)

CInv == IInv /\ LoopsTakeTurns /\ NoPluginTwice

\* The contract's variables, and what a step is for them.
Ready == initialized \o (IF CleanupLoop = <<>> THEN <<>> ELSE Reverse(Tail(CleanupLoop)))
Hook ==
  IF listen = "init" /\ todo # <<>> THEN [kind |-> "init", plugin |-> Head(todo)]
  ELSE IF CleanupLoop # <<>> THEN [kind |-> "cleanup", plugin |-> Head(CleanupLoop)]
  ELSE [kind |-> "none"]

ContractStep == [Contract!Next]_(Contract!vars)

LEMMA ReverseProperties ==
  ASSUME NEW S, NEW s \in Seq(S)
  PROVE  /\ Reverse(s) \in Seq(S) /\ Len(Reverse(s)) = Len(s)
         /\ \A i \in 1..Len(s) : Reverse(s)[i] = s[Len(s) - i + 1]
         /\ Reverse(s) = <<>> <=> s = <<>>
<1>1. Len(s) \in Nat /\ \A i \in 1..Len(s) : s[Len(s) - i + 1] \in S
  <2>1. Len(s) \in Nat
    BY LenProperties
  <2>2. ASSUME NEW i \in 1..Len(s)
        PROVE  s[Len(s) - i + 1] \in S
    <3>1. Len(s) - i + 1 \in 1..Len(s)
      BY <2>1
    <3> QED
      BY <3>1, ElementOfSeq
  <2> QED
    BY <2>1, <2>2
<1>2. Reverse(s) \in [1..Len(s) -> S]
  BY <1>1 DEF Reverse
<1>3. Reverse(s) \in Seq(S) /\ Len(Reverse(s)) = Len(s)
  BY <1>1, <1>2
<1> QED
  BY <1>1, <1>3, EmptySeq DEF Reverse

LEMMA FrontProperties ==
  ASSUME NEW S, NEW s \in Seq(S), s # <<>>
  PROVE  /\ Len(s) \in Nat \ {0} /\ s[Len(s)] \in S
         /\ SubSeq(s, 1, Len(s) - 1) \in Seq(S) /\ Len(SubSeq(s, 1, Len(s) - 1)) = Len(s) - 1
         /\ \A i \in 1..(Len(s) - 1) : SubSeq(s, 1, Len(s) - 1)[i] = s[i]
<1>1. Len(s) \in Nat \ {0}
  BY EmptySeq
<1>2. /\ Len(s) - 1 \in Int /\ 1 \in Int /\ Len(s) \in 1..Len(s)
      /\ \A i \in 1..(Len(s) - 1) : s[i] \in S
  <2>1. \A i \in 1..Len(s) : s[i] \in S
    BY ElementOfSeq
  <2> QED
    BY <1>1, <2>1
<1>3. s[Len(s)] \in S
  BY <1>2, ElementOfSeq
<1> DEFINE n == Len(s) - 1
           front == SubSeq(s, 1, n)
<1>4. /\ front \in Seq(S) /\ Len(front) = (IF 1 <= n THEN n - 1 + 1 ELSE 0)
      /\ \A i \in 1..(n - 1 + 1) : front[i] = s[1 + i - 1]
  <2> HIDE DEF n
  <2> QED
    BY <1>2, SubSeqProperties DEF n
<1>5. n \in Nat
  BY <1>1
<1> HIDE DEF front, n
<1>6. Len(front) = n /\ \A i \in 1..n : front[i] = s[i]
  BY <1>4, <1>5
<1> QED
  BY <1>1, <1>3, <1>4, <1>6 DEF front, n

\* A cleanup loop takes the latest first.
LEMMA ReverseTakesLast ==
  ASSUME NEW S, NEW s \in Seq(S), s # <<>>
  PROVE  /\ Head(Reverse(s)) = s[Len(s)]
         /\ Reverse(Tail(Reverse(s))) = SubSeq(s, 1, Len(s) - 1)
<1> DEFINE n == Len(s)
           r == Reverse(s)
           t == Tail(r)
           front == SubSeq(s, 1, n - 1)
<1>1. n \in Nat \ {0} /\ front \in Seq(S) /\ Len(front) = n - 1
      /\ \A i \in 1..(n - 1) : front[i] = s[i]
  BY FrontProperties
<1>2. /\ r \in Seq(S) /\ Len(r) = n /\ r # <<>>
      /\ \A i \in 1..n : r[i] = s[n - i + 1]
  BY ReverseProperties
<1>3. /\ Head(r) = r[1] /\ t \in Seq(S) /\ Len(t) = n - 1
      /\ \A i \in 1..(n - 1) : t[i] = r[i + 1]
  <2> HIDE DEF r
  <2>1. /\ Head(r) = r[1] /\ t \in Seq(S) /\ Len(t) = Len(r) - 1
        /\ \A i \in 1..Len(t) : t[i] = r[i + 1]
    BY <1>2, HeadTailProperties
  <2> HIDE DEF t
  <2> QED
    BY <1>2, <2>1
<1>4. Reverse(t) \in Seq(S) /\ Len(Reverse(t)) = n - 1
      /\ \A i \in 1..(n - 1) : Reverse(t)[i] = t[n - 1 - i + 1]
  <2> HIDE DEF t, r, n
  <2>1. /\ Reverse(t) \in Seq(S) /\ Len(Reverse(t)) = Len(t)
        /\ \A i \in 1..Len(t) : Reverse(t)[i] = t[Len(t) - i + 1]
    BY <1>3, ReverseProperties
  <2> QED
    BY <1>3, <2>1
<1>5. ASSUME NEW i \in 1..(n - 1)
      PROVE  Reverse(t)[i] = front[i]
  <2> HIDE DEF t, r, n, front
  <2>1. /\ n - 1 - i + 1 \in 1..(n - 1) /\ n - 1 - i + 1 = n - i
        /\ n - i + 1 \in 1..n /\ n - (n - i + 1) + 1 = i
    BY <1>1
  <2>2. Reverse(t)[i] = t[n - i]
    BY <1>4, <2>1
  <2>3. t[n - i] = r[n - i + 1]
    BY <1>3, <2>1
  <2>4. r[n - i + 1] = s[i]
    BY <1>2, <2>1
  <2>5. front[i] = s[i]
    BY <1>1
  <2> QED
    BY <2>2, <2>3, <2>4, <2>5
<1>6. Reverse(t) = front
  <2> HIDE DEF t, r, n, front
  <2> QED
    BY <1>1, <1>4, <1>5, SeqEqual
<1>7. n - 1 + 1 = n /\ 1 \in 1..n
  BY <1>1
<1> QED
  BY <1>2, <1>3, <1>6, <1>7

LEMMA ReverseEndsWithHead ==
  ASSUME NEW S, NEW s \in Seq(S), s # <<>>
  PROVE  /\ Reverse(s)[Len(Reverse(s))] = Head(s)
         /\ SubSeq(Reverse(s), 1, Len(Reverse(s)) - 1) = Reverse(Tail(s))
<1> DEFINE n == Len(s)
           r == Reverse(s)
           t == Tail(s)
           front == SubSeq(r, 1, n - 1)
<1>1. /\ Head(s) = s[1] /\ t \in Seq(S) /\ Len(t) = n - 1
      /\ \A i \in 1..(n - 1) : t[i] = s[i + 1]
  BY HeadTailProperties
<1>2. /\ r \in Seq(S) /\ Len(r) = n /\ r # <<>>
      /\ \A i \in 1..n : r[i] = s[n - i + 1]
  BY ReverseProperties
<1>3. /\ n \in Nat \ {0} /\ front \in Seq(S) /\ Len(front) = n - 1
      /\ \A i \in 1..(n - 1) : front[i] = r[i]
  <2> HIDE DEF r
  <2> QED
    BY <1>2, FrontProperties
<1>4. Reverse(t) \in Seq(S) /\ Len(Reverse(t)) = n - 1
      /\ \A i \in 1..(n - 1) : Reverse(t)[i] = t[n - 1 - i + 1]
  <2> HIDE DEF t, n
  <2>1. /\ Reverse(t) \in Seq(S) /\ Len(Reverse(t)) = Len(t)
        /\ \A i \in 1..Len(t) : Reverse(t)[i] = t[Len(t) - i + 1]
    BY <1>1, ReverseProperties
  <2> QED
    BY <1>1, <2>1
<1>5. ASSUME NEW i \in 1..(n - 1)
      PROVE  front[i] = Reverse(t)[i]
  <2> HIDE DEF t, r, n, front
  <2>1. /\ n - 1 - i + 1 \in 1..(n - 1) /\ n - 1 - i + 1 + 1 = n - i + 1 /\ i \in 1..n
    BY <1>3
  <2>2. Reverse(t)[i] = t[n - 1 - i + 1]
    BY <1>4
  <2>3. t[n - 1 - i + 1] = s[n - i + 1]
    BY <1>1, <2>1
  <2>4. front[i] = r[i] /\ r[i] = s[n - i + 1]
    BY <1>2, <1>3, <2>1
  <2> QED
    BY <2>2, <2>3, <2>4
<1>6. front = Reverse(t)
  <2> HIDE DEF t, r, n, front
  <2> QED
    BY <1>3, <1>4, <1>5, SeqEqual
<1>7. n - n + 1 = 1 /\ n \in 1..n
  BY <1>3
<1> QED
  BY <1>1, <1>2, <1>6, <1>7

-----------------------------------------------------------------------------
(* The invariant of the contract *)

LEMMA InitContract == Init => CInv /\ Contract!Init
<1> SUFFICES ASSUME Init
             PROVE  CInv /\ Contract!Init
  OBVIOUS
<1>1. IInv
  BY InitInvariant
<1>2. CleanupLoop = <<>> /\ initialized = <<>> /\ <<>> \o <<>> = <<>>
  BY EmptySeq, ConcatEmptySeq DEF Init, CleanupLoop
<1>3. LoopsTakeTurns /\ NoPluginTwice
  BY EmptySeq DEF Init, LoopsTakeTurns, NoPluginTwice, IsInjective
<1>4. Contract!Init
  BY <1>2 DEF Init, Contract!Init, Contract!NoHook
<1> QED
  BY <1>1, <1>3, <1>4 DEF CInv

\* The ends of a listen() and the beginnings of a cleanup.
LEMMA FailureTakesTurns ==
  ASSUME CInv, PluginInitThrows \/ BindErrorEvent \/ CloseAfterCallbackError
  PROVE  LoopsTakeTurns' /\ NoPluginTwice'
<1>1. /\ listenLoop' = Reverse(initialized)
      /\ listen' = IF listenLoop' = <<>> THEN "failed" ELSE "cleanup"
      /\ UNCHANGED <<activePlugins, stop, stopLoop>>
      /\ listen \in {"init", "bindError", "closing"}
  BY DEF PluginInitThrows, BindErrorEvent, CloseAfterCallbackError, ListenFails,
     TakeInitialized, stopVars
<1>2. /\ Reverse(initialized) \in Seq(Plugins) /\ (Reverse(initialized) = <<>> <=> initialized = <<>>)
      /\ stop = "cleanup" => initialized = <<>>
  BY ReverseProperties DEF CInv, IInv, ListsOfPlugins, CleanedUp
<1> QED
  BY <1>1, <1>2 DEF CInv, LoopsTakeTurns, NoPluginTwice

LEMMA StopTakesTurns ==
  ASSUME CInv, StopCleansUp
  PROVE  LoopsTakeTurns' /\ NoPluginTwice'
<1>1. /\ stop = "awaitClose" /\ stopLoop' = Reverse(initialized) /\ initialized' = <<>>
      /\ stop' = IF stopLoop' # <<>> THEN "cleanup" ELSE "resolved"
      /\ UNCHANGED <<activePlugins, listen, listenLoop, todo>>
  BY DEF StopCleansUp, TakeInitialized, StopSettles, listenVars
<1>2. /\ Reverse(initialized) \in Seq(Plugins) /\ (Reverse(initialized) = <<>> <=> initialized = <<>>)
      /\ listen = "cleanup" => initialized = <<>>
      /\ listen # "init"
  BY <1>1, ReverseProperties DEF CInv, IInv, ListsOfPlugins, CleanedUp, UnboundIsNotStopped
<1> QED
  BY <1>1, <1>2 DEF CInv, LoopsTakeTurns, NoPluginTwice

LEMMA CleanupTakesTurns ==
  ASSUME CInv, ListenCleanupReturns \/ \E ok \in BOOLEAN : StopCleanupReturns(ok)
  PROVE  LoopsTakeTurns' /\ NoPluginTwice'
<1>1. CASE ListenCleanupReturns
  <2>1. /\ listen = "cleanup" /\ listenLoop' = Tail(listenLoop)
        /\ listen' = IF listenLoop' = <<>> THEN "failed" ELSE "cleanup"
        /\ UNCHANGED <<activePlugins, stop, stopLoop>>
    BY <1>1 DEF ListenCleanupReturns, plugins, stopVars
  <2>2. Tail(listenLoop) \in Seq(Plugins)
    BY <2>1, HeadTailProperties DEF CInv, LoopsTakeTurns
  <2> QED
    BY <2>1, <2>2 DEF CInv, LoopsTakeTurns, NoPluginTwice
<1>2. CASE \E ok \in BOOLEAN : StopCleanupReturns(ok)
  <2>1. /\ stop = "cleanup" /\ stopLoop' = Tail(stopLoop)
        /\ stopLoop' # <<>> <=> stop' = "cleanup"
        /\ UNCHANGED <<activePlugins, initialized, listen, listenLoop, todo>>
    BY <1>2 DEF StopCleanupReturns, StopSettles, plugins, listenVars
  <2>2. Tail(stopLoop) \in Seq(Plugins) /\ listen # "init"
    BY <2>1, HeadTailProperties DEF CInv, LoopsTakeTurns, IInv, UnboundIsNotStopped
  <2> QED
    BY <2>1, <2>2 DEF CInv, LoopsTakeTurns, NoPluginTwice
<1> QED
  BY <1>1, <1>2

LEMMA RegistrationTakesTurns ==
  ASSUME CInv, NEW p \in Plugins, Use(p) \/ Unuse(p)
  PROVE  LoopsTakeTurns' /\ NoPluginTwice'
<1>1. /\ UNCHANGED <<listen, listenLoop, stop, stopLoop>> /\ listen # "init"
      /\ activePlugins \in Seq(Plugins) /\ IsInjective(activePlugins)
  BY IdleIsEmpty DEF Use, Unuse, listenVars, stopVars, CInv, IInv, ListsOfPlugins, NoPluginTwice
<1>2. IsInjective(activePlugins')
  <2>1. CASE Use(p)
    BY <1>1, <2>1, AppendKeepsInjective DEF Use
  <2>2. CASE Unuse(p)
    <3>1. PICK i \in DOMAIN activePlugins : activePlugins' = RemoveAt(activePlugins, i)
      BY <2>2 DEF Unuse
    <3>2. i \in 1..Len(activePlugins)
      BY <1>1, <3>1, LenProperties
    <3> QED
      BY <1>1, <3>1, <3>2, RemoveAtKeepsInjective
  <2> QED
    BY <2>1, <2>2
<1> QED
  BY <1>1, <1>2 DEF CInv, LoopsTakeTurns, NoPluginTwice

LEMMA ListenTakesTurns ==
  ASSUME CInv, Listen
  PROVE  LoopsTakeTurns' /\ NoPluginTwice'
<1>1. /\ listen' = "init" /\ todo' = activePlugins
      /\ UNCHANGED <<activePlugins, initialized, listenLoop, stop, stopLoop>>
      /\ listen \in {"idle", "failed"} /\ stop = "none"
  BY IdleIsEmpty DEF Listen, plugins, CInv
<1>2. initialized = <<>> /\ activePlugins \in Seq(Plugins) /\ IsInjective(activePlugins)
  BY <1>1 DEF CInv, IInv, CleanedUp, ListsOfPlugins, NoPluginTwice
<1>3. initialized' \o todo' = activePlugins
  BY <1>1, <1>2, ConcatEmptySeq
<1> QED
  BY <1>1, <1>2, <1>3 DEF CInv, LoopsTakeTurns, NoPluginTwice

LEMMA PluginInitTakesTurns ==
  ASSUME CInv, PluginInitReturns
  PROVE  LoopsTakeTurns' /\ NoPluginTwice'
<1>1. /\ todo # <<>> /\ initialized' = Append(initialized, Head(todo)) /\ todo' = Tail(todo)
      /\ UNCHANGED <<activePlugins, listen, listenLoop, stop, stopLoop>>
  BY DEF PluginInitReturns, stopVars
<1>2. initialized' \o todo' = initialized \o todo
  BY <1>1, HeadMoves DEF CInv, IInv, ListsOfPlugins
<1> QED
  BY <1>1, <1>2 DEF CInv, LoopsTakeTurns, NoPluginTwice

\* The other steps touch no list.
Others ==
  \/ BindServer \/ ListeningEvent \/ CallbackReturns \/ CallbackThrows
  \/ Stop \/ Signal \/ ForceClose \/ Clients \/ UNCHANGED vars

LEMMA OthersTouchNoList ==
  ASSUME CInv, Others
  PROVE  /\ UNCHANGED <<activePlugins, initialized, todo, listenLoop, stopLoop>>
         /\ listen' = "init" => listen = "init"
         /\ listen = "init" => listen' = "init" \/ todo = <<>>
         /\ listen = "cleanup" <=> listen' = "cleanup"
         /\ stop = "cleanup" <=> stop' = "cleanup"
<1>1. CASE BindServer \/ ListeningEvent \/ CallbackReturns \/ CallbackThrows
  BY <1>1 DEF BindServer, ListeningEvent, CallbackReturns, CallbackThrows, plugins, stopVars
<1>2. CASE Stop \/ Signal
  <2>1. listening => stop = "none"
    BY DEF CInv, IInv, ListensWhenBound
  <2> QED
    BY <1>2, <2>1 DEF Stop, Signal, StopOrReturn, StopInternal, ReturnAtOnce, plugins, listenVars
<1>3. CASE ForceClose
  BY <1>3 DEF ForceClose, Draining, listenVars
<1>4. CASE Clients
  BY <1>4 DEF Clients, Accept, SocketCloses, RequestStarts, RequestEnds, plugins, listenVars,
     stopVars
<1>5. CASE UNCHANGED vars
  BY <1>5 DEF vars, plugins, listenVars, stopVars
<1> QED
  BY <1>1, <1>2, <1>3, <1>4, <1>5 DEF Others

LEMMA OthersTakeTurns ==
  ASSUME CInv, Others
  PROVE  LoopsTakeTurns' /\ NoPluginTwice'
  BY OthersTouchNoList DEF CInv, LoopsTakeTurns, NoPluginTwice

-----------------------------------------------------------------------------
(* Every step is one of the contract, or none. *)

LEMMA LoopIsAlone ==
  ASSUME CInv
  PROVE  /\ CleanupLoop \in Seq(Plugins) /\ initialized \in Seq(Plugins)
         /\ listen = "cleanup" => CleanupLoop = listenLoop /\ CleanupLoop # <<>>
         /\ stop = "cleanup" => CleanupLoop = stopLoop /\ CleanupLoop # <<>>
         /\ CleanupLoop # <<>> => /\ listen = "cleanup" \/ stop = "cleanup"
                                  /\ listen # "init" /\ initialized = <<>>
<1>1. listenLoop \in Seq(Plugins) /\ stopLoop \in Seq(Plugins) /\ initialized \in Seq(Plugins)
  BY DEF CInv, LoopsTakeTurns, IInv, ListsOfPlugins
<1>2. CleanupLoop \in Seq(Plugins)
  BY <1>1, ConcatProperties DEF CleanupLoop
<1>3. /\ listenLoop = <<>> => CleanupLoop = stopLoop
      /\ stopLoop = <<>> => CleanupLoop = listenLoop
  BY <1>1, ConcatEmptySeq DEF CleanupLoop
<1>4. listenLoop = <<>> \/ stopLoop = <<>>
  BY DEF CInv, LoopsTakeTurns
<1>5. listen = "cleanup" \/ stop = "cleanup" => initialized = <<>>
  BY DEF CInv, IInv, CleanedUp
<1>6. stop = "cleanup" => listen # "init"
  BY DEF CInv, IInv, UnboundIsNotStopped
<1> QED
  BY <1>1, <1>2, <1>3, <1>4, <1>5, <1>6 DEF CInv, LoopsTakeTurns

\* What the contract sees.
LEMMA ContractView ==
  ASSUME CInv
  PROVE  /\ CleanupLoop = <<>> => Ready = initialized
         /\ CleanupLoop # <<>> => /\ Ready = Reverse(Tail(CleanupLoop))
                                  /\ Hook = [kind |-> "cleanup", plugin |-> Head(CleanupLoop)]
         /\ Ready \in Contract!Ended
<1>1. CleanupLoop = <<>> => Ready = initialized
  BY LoopIsAlone, ConcatEmptySeq DEF Ready
<1>2. ASSUME CleanupLoop # <<>>
      PROVE  Ready = Reverse(Tail(CleanupLoop))
  <2>1. Tail(CleanupLoop) \in Seq(Plugins)
    BY <1>2, LoopIsAlone, HeadTailProperties
  <2>2. Reverse(Tail(CleanupLoop)) \in Seq(Plugins)
    BY <2>1, ReverseProperties
  <2>3. Ready = <<>> \o Reverse(Tail(CleanupLoop))
    BY <1>2, LoopIsAlone DEF Ready
  <2> QED
    BY <2>2, <2>3, ConcatEmptySeq
<1>3. CleanupLoop # <<>> => Hook = [kind |-> "cleanup", plugin |-> Head(CleanupLoop)]
  BY LoopIsAlone DEF Hook
<1>4. Ready \in Contract!Ended
  BY DEF Contract!Ended, Ready
<1> QED
  BY <1>1, <1>2, <1>3, <1>4

LEMMA UnseenStep ==
  ASSUME UNCHANGED <<initialized, listenLoop, stopLoop>>, Hook' = Hook
  PROVE  ContractStep
<1>1. CleanupLoop' = CleanupLoop
  BY DEF CleanupLoop
<1> QED
  BY <1>1 DEF ContractStep, Contract!vars, Hook

LEMMA OthersUnseen ==
  ASSUME CInv, Others
  PROVE  ContractStep
<1>1. CleanupLoop' = CleanupLoop
  BY OthersTouchNoList DEF CleanupLoop
<1>2. Hook' = Hook
  BY <1>1, OthersTouchNoList DEF Hook
<1> QED
  BY <1>2, OthersTouchNoList, UnseenStep

\* Somebody takes the initialised plugins to clean them up; whoever comes second finds
\* none.
LEMMA CleanupBegins ==
  ASSUME CInv, CInv', initialized' = <<>>, listen' # "init",
         \/ listenLoop' = Reverse(initialized) /\ UNCHANGED stopLoop /\ listenLoop = <<>>
         \/ stopLoop' = Reverse(initialized) /\ UNCHANGED listenLoop /\ stopLoop = <<>>
  PROVE  ContractStep
<1>1. initialized \in Seq(Plugins) /\ Reverse(initialized) \in Seq(Plugins)
      /\ (Reverse(initialized) = <<>> <=> initialized = <<>>)
  BY LoopIsAlone, ReverseProperties
<1>2. listenLoop \in Seq(Plugins) /\ stopLoop \in Seq(Plugins)
  BY DEF CInv, LoopsTakeTurns
<1>3. CASE CleanupLoop # <<>>
  <2>1. initialized = <<>> /\ listen # "init"
    BY <1>3, LoopIsAlone
  <2>2. UNCHANGED <<listenLoop, stopLoop, initialized>>
    BY <1>1, <2>1
  <2>3. Hook' = Hook
    BY <2>1, <2>2 DEF Hook, CleanupLoop
  <2> QED
    BY <2>2, <2>3, UnseenStep
<1>4. CASE CleanupLoop = <<>>
  <2>1. listenLoop = <<>> /\ stopLoop = <<>>
    BY <1>2, <1>4, ConcatEqualIffEmpty, LoopIsAlone DEF CInv, LoopsTakeTurns, CleanupLoop
  <2>2. CleanupLoop' = Reverse(initialized)
    BY <1>1, <2>1, ConcatEmptySeq DEF CleanupLoop
  <2>3. Ready = initialized /\ Ready \in Contract!Ended
    BY <1>4, ContractView
  <2>4. CASE initialized = <<>>
    <3>1. CleanupLoop' = <<>> /\ Ready' = <<>>
      BY <1>1, <2>2, <2>4, ConcatEmptySeq, EmptySeq DEF Ready
    <3>2. Hook' = [kind |-> "none"]
      BY <3>1 DEF Hook
    <3>3. Contract!Rests(<<>>)
      BY <1>4, <3>1, <3>2 DEF Contract!Rests, Contract!NoHook, Ready, Hook
    <3> QED
      BY <2>3, <2>4, <3>3 DEF ContractStep, Contract!Next
  <2>5. CASE initialized # <<>>
    <3>1. CleanupLoop' # <<>>
      BY <1>1, <2>2, <2>5
    <3>2. /\ Head(Reverse(initialized)) = initialized[Len(initialized)]
          /\ Reverse(Tail(Reverse(initialized))) = SubSeq(initialized, 1, Len(initialized) - 1)
      BY <1>1, <2>5, ReverseTakesLast
    <3>3. Ready' = SubSeq(initialized, 1, Len(initialized) - 1)
      <4>1. SubSeq(initialized, 1, Len(initialized) - 1) \in Seq(Plugins)
        BY <1>1, <2>5, FrontProperties
      <4>2. Ready' = <<>> \o Reverse(Tail(Reverse(initialized)))
        BY <2>2, <3>1 DEF Ready
      <4> QED
        BY <3>2, <4>1, <4>2, ConcatEmptySeq
    <3>5. Hook' = [kind |-> "cleanup", plugin |-> initialized[Len(initialized)]]
      BY <2>2, <3>1, <3>2 DEF Hook
    <3>4. Contract!CleansUp(initialized)
      BY <2>5, <3>1, <3>3, <3>5
         DEF Contract!CleansUp, Contract!CleanupHook, Contract!Last, Contract!Front, Ready, Hook
    <3> QED
      BY <2>3, <3>4 DEF ContractStep, Contract!Next
  <2> QED
    BY <2>4, <2>5
<1> QED
  BY <1>3, <1>4

\* A cleanup hook ends, and the next one begins.
LEMMA CleanupGoesOn ==
  ASSUME CInv, CInv', UNCHANGED initialized, CleanupLoop # <<>>,
         CleanupLoop' = Tail(CleanupLoop), listen' # "init"
  PROVE  ContractStep
<1> DEFINE rest == Tail(CleanupLoop)
<1>1. rest \in Seq(Plugins) /\ Ready = Reverse(rest) /\ Ready \in Contract!Ended
  BY LoopIsAlone, HeadTailProperties, ContractView
<1>2. CASE rest = <<>>
  <2>1. Ready = <<>> /\ Ready' = <<>>
    <3>1. initialized' = <<>> /\ Reverse(rest) = <<>>
      BY <1>1, <1>2, ReverseProperties, LoopIsAlone
    <3> QED
      BY <1>1, <1>2, <3>1, ConcatEmptySeq, EmptySeq DEF Ready
  <2>2. Hook' = [kind |-> "none"]
    BY <1>2 DEF Hook
  <2>3. Contract!Rests(<<>>)
    BY <1>2, <2>1, <2>2 DEF Contract!Rests, Contract!NoHook, Ready, Hook
  <2> QED
    BY <1>1, <2>1, <2>3 DEF ContractStep, Contract!Next
<1>3. CASE rest # <<>>
  <2>1. /\ Ready # <<>>
        /\ Ready[Len(Ready)] = Head(rest)
        /\ SubSeq(Ready, 1, Len(Ready) - 1) = Reverse(Tail(rest))
    BY <1>1, <1>3, ReverseProperties, ReverseEndsWithHead
  <2>2. Ready' = Reverse(Tail(rest))
    <3>1. initialized' = <<>> /\ Reverse(Tail(rest)) \in Seq(Plugins)
      BY <1>1, <1>3, HeadTailProperties, ReverseProperties, LoopIsAlone
    <3>2. Ready' = initialized' \o Reverse(Tail(rest))
      BY <1>3 DEF Ready
    <3> QED
      BY <3>1, <3>2, ConcatEmptySeq
  <2>4. Hook' = [kind |-> "cleanup", plugin |-> Head(rest)]
    BY <1>3 DEF Hook
  <2>3. Contract!CleansUp(Ready)
    BY <1>3, <2>1, <2>2, <2>4
       DEF Contract!CleansUp, Contract!CleanupHook, Contract!Last, Contract!Front, Ready, Hook
  <2> QED
    BY <1>1, <2>3 DEF ContractStep, Contract!Next
<1> QED
  BY <1>2, <1>3

\* listen() begins with no plugin initialised.
LEMMA ListenInitialises ==
  ASSUME CInv, Listen
  PROVE  ContractStep
<1>1. /\ listen' = "init" /\ todo' = activePlugins
      /\ UNCHANGED <<initialized, listenLoop, stopLoop>>
      /\ listen \in {"idle", "failed"} /\ stop = "none"
  BY IdleIsEmpty DEF Listen, plugins, CInv
<1>2. initialized = <<>> /\ activePlugins \in Seq(Plugins)
  BY <1>1 DEF CInv, IInv, CleanedUp, ListsOfPlugins
<1>3. CleanupLoop = <<>> /\ CleanupLoop' = <<>>
  BY <1>1, LoopIsAlone DEF CleanupLoop
<1>4. Ready = <<>> /\ Ready' = <<>>
  BY <1>1, <1>2, <1>3, ConcatEmptySeq, EmptySeq DEF Ready
<1>5. CASE activePlugins = <<>>
  <2>1. Hook' = Hook
    BY <1>1, <1>3, <1>5 DEF Hook
  <2> QED
    BY <1>1, <2>1, UnseenStep
<1>6. CASE activePlugins # <<>>
  <2>1. Hook' = [kind |-> "init", plugin |-> Head(activePlugins)]
    BY <1>1, <1>6 DEF Hook
  <2>2. Head(activePlugins) \in Plugins \ ToSet(<<>>)
    BY <1>2, <1>6, HeadTailProperties, EmptySeq DEF ToSet
  <2>3. Contract!Initialises(<<>>)
    BY <1>3, <1>4, <2>1, <2>2
       DEF Contract!Initialises, Contract!InitHook, Contract!ToSet, ToSet, Ready, Hook
  <2> QED
    BY <1>4, <2>3, ContractView DEF ContractStep, Contract!Next
<1> QED
  BY <1>5, <1>6

\* An init hook has succeeded, and the next one begins.
LEMMA PluginInitGoesOn ==
  ASSUME CInv, NoPluginTwice', PluginInitReturns
  PROVE  ContractStep
<1> DEFINE s == Append(initialized, Head(todo))
<1>1. /\ listen = "init" /\ todo # <<>> /\ initialized' = s /\ todo' = Tail(todo)
      /\ UNCHANGED <<listen, listenLoop, stopLoop>>
  BY DEF PluginInitReturns, stopVars
<1>2. /\ initialized \in Seq(Plugins) /\ Head(todo) \in Plugins /\ Tail(todo) \in Seq(Plugins)
      /\ s \in Seq(Plugins)
  BY <1>1, HeadTailProperties, AppendProperties DEF CInv, IInv, ListsOfPlugins
<1>3. CleanupLoop = <<>> /\ CleanupLoop' = <<>>
  BY <1>1, LoopIsAlone DEF CleanupLoop
<1>4. Ready = initialized /\ Ready' = s
  BY <1>1, <1>2, <1>3, ConcatEmptySeq DEF Ready
<1>5. Hook = [kind |-> "init", plugin |-> Head(todo)]
  BY <1>1 DEF Hook
<1>6. s \in Contract!Ended
  BY <1>4, <1>5 DEF Contract!Ended, Ready, Hook
<1>7. CASE Tail(todo) = <<>>
  <2>1. Hook' = [kind |-> "none"]
    BY <1>1, <1>3, <1>7 DEF Hook
  <2>2. Contract!Rests(s)
    BY <1>3, <1>4, <2>1 DEF Contract!Rests, Contract!NoHook, Ready, Hook
  <2> QED
    BY <1>6, <2>2 DEF ContractStep, Contract!Next
<1>8. CASE Tail(todo) # <<>>
  <2>1. Hook' = [kind |-> "init", plugin |-> Head(Tail(todo))]
    BY <1>1, <1>8 DEF Hook
  <2>2. Head(Tail(todo)) \in Plugins
    BY <1>2, <1>8, HeadTailProperties
  <2>3. Head(Tail(todo)) \notin ToSet(s)
    <3>1. IsInjective(s \o Tail(todo))
      BY <1>1 DEF NoPluginTwice
    <3> QED
      BY <1>2, <1>8, <3>1, HeadIsNew
  <2>4. Contract!Initialises(s)
    BY <1>3, <1>4, <2>1, <2>2, <2>3
       DEF Contract!Initialises, Contract!InitHook, Contract!ToSet, ToSet, Ready, Hook
  <2> QED
    BY <1>6, <2>4 DEF ContractStep, Contract!Next
<1> QED
  BY <1>7, <1>8

LEMMA NextKeepsContract == CInv /\ [Next]_vars => CInv' /\ ContractStep
<1> SUFFICES ASSUME CInv, [Next]_vars
             PROVE  CInv' /\ ContractStep
  OBVIOUS
<1>1. IInv'
  BY NextKeeps DEF CInv
<1>2. ASSUME NEW p \in Plugins, Use(p) \/ Unuse(p)
      PROVE  CInv' /\ ContractStep
  <2>1. UNCHANGED <<initialized, listenLoop, stopLoop>> /\ Hook' = Hook
    BY <1>2 DEF Use, Unuse, listenVars, stopVars, Hook, CleanupLoop
  <2> QED
    BY <1>1, <1>2, <2>1, RegistrationTakesTurns, UnseenStep DEF CInv
<1>3. CASE Listen
  BY <1>1, <1>3, ListenTakesTurns, ListenInitialises DEF CInv
<1>4. CASE PluginInitReturns
  BY <1>1, <1>4, PluginInitTakesTurns, PluginInitGoesOn DEF CInv
<1>5. CASE PluginInitThrows \/ BindErrorEvent \/ CloseAfterCallbackError
  <2>1. CInv'
    BY <1>1, <1>5, FailureTakesTurns DEF CInv
  <2>2. /\ listen \in {"init", "bindError", "closing"} /\ listen' # "init"
        /\ listenLoop' = Reverse(initialized) /\ initialized' = <<>> /\ UNCHANGED stopLoop
    BY <1>5 DEF PluginInitThrows, BindErrorEvent, CloseAfterCallbackError, ListenFails,
       TakeInitialized, stopVars
  <2>3. listenLoop = <<>>
    BY <2>2 DEF CInv, LoopsTakeTurns
  <2> QED
    BY <2>1, <2>2, <2>3, CleanupBegins
<1>6. CASE StopCleansUp
  <2>1. CInv'
    BY <1>1, <1>6, StopTakesTurns DEF CInv
  <2>2. /\ stop = "awaitClose" /\ UNCHANGED <<listen, listenLoop>>
        /\ stopLoop' = Reverse(initialized) /\ initialized' = <<>>
    BY <1>6 DEF StopCleansUp, TakeInitialized, listenVars
  <2>3. stopLoop = <<>> /\ listen # "init"
    BY <2>2 DEF CInv, LoopsTakeTurns, IInv, UnboundIsNotStopped
  <2> QED
    BY <2>1, <2>2, <2>3, CleanupBegins
<1>7. CASE ListenCleanupReturns
  <2>1. CInv'
    BY <1>1, <1>7, CleanupTakesTurns DEF CInv
  <2>2. /\ listen = "cleanup" /\ listen' # "init" /\ listenLoop' = Tail(listenLoop)
        /\ UNCHANGED <<initialized, stopLoop>>
    BY <1>7 DEF ListenCleanupReturns, plugins, stopVars
  <2>3. CleanupLoop = listenLoop /\ CleanupLoop # <<>> /\ stopLoop = <<>>
    BY <2>2, LoopIsAlone DEF CInv, LoopsTakeTurns
  <2>4. CleanupLoop' = Tail(CleanupLoop)
    <3>1. Tail(CleanupLoop) \in Seq(Plugins)
      BY <2>3, LoopIsAlone, HeadTailProperties
    <3>2. CleanupLoop' = Tail(CleanupLoop) \o <<>>
      BY <2>2, <2>3 DEF CleanupLoop
    <3> QED
      BY <3>1, <3>2, ConcatEmptySeq
  <2> QED
    BY <2>1, <2>2, <2>3, <2>4, CleanupGoesOn
<1>8. CASE \E ok \in BOOLEAN : StopCleanupReturns(ok)
  <2>1. CInv'
    BY <1>1, <1>8, CleanupTakesTurns DEF CInv
  <2>2. /\ stop = "cleanup" /\ UNCHANGED <<listen, listenLoop, initialized>>
        /\ stopLoop' = Tail(stopLoop)
    BY <1>8 DEF StopCleanupReturns, plugins, listenVars
  <2>3. CleanupLoop = stopLoop /\ CleanupLoop # <<>> /\ listenLoop = <<>> /\ listen # "init"
    BY <2>2, LoopIsAlone DEF CInv, LoopsTakeTurns
  <2>4. CleanupLoop' = Tail(CleanupLoop)
    <3>1. Tail(CleanupLoop) \in Seq(Plugins)
      BY <2>3, LoopIsAlone, HeadTailProperties
    <3>2. CleanupLoop' = <<>> \o Tail(CleanupLoop)
      BY <2>2, <2>3 DEF CleanupLoop
    <3> QED
      BY <3>1, <3>2, ConcatEmptySeq
  <2> QED
    BY <2>1, <2>2, <2>3, <2>4, CleanupGoesOn
<1>9. CASE Others
  BY <1>1, <1>9, OthersTakeTurns, OthersUnseen DEF CInv
<1> QED
  BY <1>2, <1>3, <1>4, <1>5, <1>6, <1>7, <1>8, <1>9
     DEF Next, ListenSteps, StopSteps, Others

\* HooksKeepContract: whatever listen(), stop() and the signals do at the same time, the
\* hooks run one at a time, and every plugin initialised is cleaned up once, latest first.
THEOREM HooksAreKept == Spec => HooksKeepContract
<1>1. CInv /\ [Next]_vars => CInv' /\ [Contract!Next]_(Contract!vars)
  BY NextKeepsContract DEF ContractStep
<1> QED
  BY <1>1, InitContract, PTL DEF Spec, HooksKeepContract, Contract!Spec

-----------------------------------------------------------------------------
(* The type invariant: no list has a plugin twice. *)

LEMMA PartsOfInjective ==
  ASSUME NEW S, NEW s \in Seq(S), NEW t \in Seq(S), IsInjective(s \o t)
  PROVE  IsInjective(s) /\ IsInjective(t)
<1> DEFINE u == s \o t
<1>1. /\ Len(s) \in Nat /\ Len(t) \in Nat /\ DOMAIN u = 1..(Len(s) + Len(t))
      /\ DOMAIN s = 1..Len(s) /\ DOMAIN t = 1..Len(t)
      /\ \A k \in 1..(Len(s) + Len(t)) :
           u[k] = IF k <= Len(s) THEN s[k] ELSE t[k - Len(s)]
  BY LenProperties, ConcatProperties
<1>2. \A a, b \in DOMAIN u : u[a] = u[b] => a = b
  BY DEF IsInjective
<1> HIDE DEF u
<1>3. ASSUME NEW a \in 1..Len(s), NEW b \in 1..Len(s), s[a] = s[b]
      PROVE  a = b
  <2>1. a \in DOMAIN u /\ b \in DOMAIN u /\ u[a] = s[a] /\ u[b] = s[b]
    BY <1>1
  <2> QED
    BY <1>2, <1>3, <2>1
<1>4. ASSUME NEW a \in 1..Len(t), NEW b \in 1..Len(t), t[a] = t[b]
      PROVE  a = b
  <2>1. /\ Len(s) + a \in 1..(Len(s) + Len(t)) /\ ~(Len(s) + a <= Len(s))
        /\ Len(s) + b \in 1..(Len(s) + Len(t)) /\ ~(Len(s) + b <= Len(s))
        /\ Len(s) + a - Len(s) = a /\ Len(s) + b - Len(s) = b
    BY <1>1
  <2>2. u[Len(s) + a] = t[a] /\ u[Len(s) + b] = t[b]
    BY <1>1, <2>1
  <2>3. Len(s) + a = Len(s) + b
    BY <1>1, <1>2, <1>4, <2>1, <2>2
  <2> QED
    BY <1>1, <2>3
<1> QED
  BY <1>1, <1>3, <1>4 DEF IsInjective

LEMMA TailKeepsInjective ==
  ASSUME NEW S, NEW s \in Seq(S), s # <<>>, IsInjective(s)
  PROVE  IsInjective(Tail(s))
<1>1. <<Head(s)>> \in Seq(S) /\ Tail(s) \in Seq(S) /\ s = <<Head(s)>> \o Tail(s)
  BY HeadTailProperties, ConcatProperties, SeqEqual
<1> QED
  BY <1>1, PartsOfInjective

LEMMA ReverseKeepsInjective ==
  ASSUME NEW S, NEW s \in Seq(S), IsInjective(s)
  PROVE  IsInjective(Reverse(s))
<1> DEFINE r == Reverse(s)
<1>1. /\ Len(s) \in Nat /\ DOMAIN s = 1..Len(s) /\ DOMAIN r = 1..Len(s)
      /\ \A i \in 1..Len(s) : r[i] = s[Len(s) - i + 1]
  BY ReverseProperties, LenProperties
<1> HIDE DEF r
<1> SUFFICES ASSUME NEW a \in 1..Len(s), NEW b \in 1..Len(s), r[a] = r[b]
             PROVE  a = b
  BY <1>1 DEF IsInjective, r
<1>2. Len(s) - a + 1 \in 1..Len(s) /\ Len(s) - b + 1 \in 1..Len(s)
  BY <1>1
<1>3. Len(s) - a + 1 = Len(s) - b + 1
  BY <1>1, <1>2 DEF IsInjective
<1> QED
  BY <1>1, <1>3

DistinctLists ==
  /\ IsInjective(initialized) /\ IsInjective(listenLoop) /\ IsInjective(stopLoop)
  /\ listen # "init" => todo = <<>>

ScalarTypes ==
  /\ observed \subseteq Plugins
  /\ listen \in {"idle", "init", "bound", "bindError", "callback", "closing",
                 "cleanup", "up", "failed"}
  /\ stop \in {"none", "drained", "draining", "awaitClose", "cleanup", "resolved",
               "rejected"}
  /\ {listening, handlers, failures, stopReturned} \subseteq BOOLEAN
  /\ open \subseteq Connections
  /\ active \subseteq Requests

TInv == CInv /\ DistinctLists /\ ScalarTypes

LEMMA InitTypes == Init => TInv
<1> SUFFICES ASSUME Init
             PROVE  TInv
  OBVIOUS
<1>1. CInv
  BY InitContract
<1>2. DOMAIN <<>> = {}
  BY EmptySeq
<1>3. DistinctLists
  BY <1>2 DEF Init, DistinctLists, IsInjective
<1>4. ScalarTypes
  BY DEF Init, ScalarTypes
<1> QED
  BY <1>1, <1>3, <1>4 DEF TInv

LEMMA NextKeepsScalars == TInv /\ [Next]_vars => ScalarTypes'
<1> SUFFICES ASSUME TInv, [Next]_vars
             PROVE  ScalarTypes'
  OBVIOUS
<1> USE DEF TInv, ScalarTypes
<1>1. ASSUME NEW p \in Plugins, Use(p) \/ Unuse(p)
      PROVE  ScalarTypes'
  BY <1>1 DEF Use, Unuse, listenVars, stopVars, server
<1>2. CASE Listen
  BY <1>2 DEF Listen, plugins, server
<1>3. CASE Stop \/ Signal
  BY <1>3 DEF Stop, Signal, StopOrReturn, StopInternal, ReturnAtOnce, plugins, listenVars
<1>4. CASE PluginInitReturns \/ ListenCleanupReturns
  BY <1>4 DEF PluginInitReturns, ListenCleanupReturns, plugins, stopVars, server
<1>5. CASE PluginInitThrows \/ BindErrorEvent \/ CloseAfterCallbackError
  BY <1>5 DEF PluginInitThrows, BindErrorEvent, CloseAfterCallbackError, ListenFails,
     stopVars, server
<1>6. CASE BindServer \/ ListeningEvent \/ CallbackReturns \/ CallbackThrows
  BY <1>6 DEF BindServer, ListeningEvent, CallbackReturns, CallbackThrows, plugins,
     stopVars, server
<1>7. CASE ForceClose \/ StopCleansUp
  BY <1>7 DEF ForceClose, StopCleansUp, StopSettles, listenVars, server
<1>8. ASSUME NEW ok \in BOOLEAN, StopCleanupReturns(ok)
      PROVE  ScalarTypes'
  BY <1>8 DEF StopCleanupReturns, StopSettles, plugins, listenVars, server
<1>9. CASE Clients
  BY <1>9 DEF Clients, Accept, SocketCloses, RequestStarts, RequestEnds, plugins, listenVars,
     stopVars
<1>10. CASE UNCHANGED vars
  BY <1>10 DEF vars, plugins, listenVars, stopVars, server
<1> QED
  BY <1>1, <1>2, <1>3, <1>4, <1>5, <1>6, <1>7, <1>8, <1>9, <1>10
     DEF Next, ListenSteps, StopSteps

LEMMA NextKeepsDistinct == TInv /\ [Next]_vars => DistinctLists'
<1> SUFFICES ASSUME TInv, [Next]_vars
             PROVE  DistinctLists'
  OBVIOUS
<1>1. /\ initialized \in Seq(Plugins) /\ listenLoop \in Seq(Plugins) /\ stopLoop \in Seq(Plugins)
      /\ todo \in Seq(Plugins)
  BY DEF TInv, CInv, IInv, ListsOfPlugins, LoopsTakeTurns
<1>2. CInv'
  BY NextKeepsContract DEF TInv
<1>3. DistinctLists
  BY DEF TInv
<1>4. CASE PluginInitReturns
  <2>1. /\ listen' = "init" /\ UNCHANGED <<listenLoop, stopLoop>>
    BY <1>4 DEF PluginInitReturns, stopVars
  <2>2. IsInjective(initialized')
    BY <1>2, <2>1, PartsOfInjective DEF CInv, IInv, ListsOfPlugins, NoPluginTwice
  <2> QED
    BY <1>3, <2>1, <2>2 DEF DistinctLists
<1>5. CASE PluginInitThrows \/ BindErrorEvent \/ CloseAfterCallbackError
  <2>1. /\ todo' = <<>> /\ listenLoop' = Reverse(initialized) /\ initialized' = <<>>
        /\ UNCHANGED stopLoop
    BY <1>5 DEF PluginInitThrows, BindErrorEvent, CloseAfterCallbackError, ListenFails,
       TakeInitialized, stopVars
  <2>2. IsInjective(listenLoop')
    BY <1>1, <1>3, <2>1, ReverseKeepsInjective DEF DistinctLists
  <2> QED
    BY <1>3, <2>1, <2>2, EmptySeq DEF DistinctLists, IsInjective
<1>6. CASE StopCleansUp
  <2>1. /\ stopLoop' = Reverse(initialized) /\ initialized' = <<>>
        /\ UNCHANGED <<listen, todo, listenLoop>>
    BY <1>6 DEF StopCleansUp, TakeInitialized, listenVars
  <2>2. IsInjective(stopLoop')
    BY <1>1, <1>3, <2>1, ReverseKeepsInjective DEF DistinctLists
  <2> QED
    BY <1>3, <2>1, <2>2, EmptySeq DEF DistinctLists, IsInjective
<1>7. CASE ListenCleanupReturns
  <2>1. /\ listenLoop # <<>> /\ listenLoop' = Tail(listenLoop)
        /\ listen # "init" /\ UNCHANGED <<initialized, todo, stopLoop>>
    BY <1>7 DEF ListenCleanupReturns, plugins, stopVars, TInv, CInv, LoopsTakeTurns
  <2>2. IsInjective(listenLoop')
    BY <1>1, <1>3, <2>1, TailKeepsInjective DEF DistinctLists
  <2> QED
    BY <1>3, <2>1, <2>2 DEF DistinctLists
<1>8. CASE \E ok \in BOOLEAN : StopCleanupReturns(ok)
  <2>1. /\ stopLoop # <<>> /\ stopLoop' = Tail(stopLoop)
        /\ UNCHANGED <<initialized, listen, todo, listenLoop>>
    BY <1>8 DEF StopCleanupReturns, plugins, listenVars, TInv, CInv, LoopsTakeTurns
  <2>2. IsInjective(stopLoop')
    BY <1>1, <1>3, <2>1, TailKeepsInjective DEF DistinctLists
  <2> QED
    BY <1>3, <2>1, <2>2 DEF DistinctLists
<1>9. CASE Listen \/ \E p \in Plugins : Use(p) \/ Unuse(p)
  BY <1>3, <1>9 DEF Listen, Use, Unuse, plugins, listenVars, stopVars, DistinctLists
<1>10. CASE Others
  BY <1>3, <1>10, OthersTouchNoList DEF TInv, DistinctLists
<1> QED
  BY <1>4, <1>5, <1>6, <1>7, <1>8, <1>9, <1>10 DEF Next, ListenSteps, StopSteps, Others

\* The lists hold registered plugins, none of them twice, and every other variable has a
\* value the code can give it.
THEOREM LifecycleTypeCorrect == Spec => []TypeOK
<1>1. TInv /\ [Next]_vars => TInv'
  BY NextKeepsContract, NextKeepsScalars, NextKeepsDistinct DEF TInv
<1>2. TInv => TypeOK
  <2> SUFFICES ASSUME TInv
               PROVE  TypeOK
    OBVIOUS
  <2>1. /\ activePlugins \in Seq(Plugins) /\ initialized \in Seq(Plugins)
        /\ todo \in Seq(Plugins) /\ listenLoop \in Seq(Plugins) /\ stopLoop \in Seq(Plugins)
    BY DEF TInv, CInv, IInv, ListsOfPlugins, LoopsTakeTurns
  <2>2. IsInjective(todo)
    <3>1. CASE listen = "init"
      BY <2>1, <3>1, PartsOfInjective DEF TInv, CInv, NoPluginTwice
    <3>2. CASE listen # "init"
      BY <3>2, EmptySeq DEF TInv, DistinctLists, IsInjective
    <3> QED
      BY <3>1, <3>2
  <2>3. \A s \in Seq(Plugins) : ToSet(s) \subseteq Plugins
    BY LenProperties, ElementOfSeq DEF ToSet
  <2> QED
    BY <2>1, <2>2, <2>3
       DEF TypeOK, Distinct, TInv, DistinctLists, ScalarTypes, CInv, NoPluginTwice
<1> QED
  BY <1>1, <1>2, InitTypes, PTL DEF Spec

-----------------------------------------------------------------------------
(* stop() is always brought on. *)

\* What a step may do to a stop() under way, and to the cleanup loop of listen().
Onward ==
  /\ stop # "none" =>
       /\ StopRank[stop'] >= StopRank[stop] /\ open' \subseteq open
       /\ stop = "cleanup" => stopLoop' \in {stopLoop, Tail(stopLoop)}
  /\ listen = "cleanup" => listenLoop' \in {listenLoop, Tail(listenLoop)}

Due == IInv /\ SomethingIsDue /\ stop \in DOMAIN StopRank

LEMMA RankStays ==
  ASSUME stop \in DOMAIN StopRank, stop' = stop
  PROVE  StopRank[stop'] >= StopRank[stop]
  BY DEF StopRank

LEMMA ListenStepsGoOn ==
  ASSUME Due, Listen \/ ListenSteps
  PROVE  SomethingIsDue' /\ Onward
<1> USE DEF server, stopVars
<1>1. CASE Listen \/ PluginInitReturns
  <2>1. /\ listen \in {"idle", "init", "failed"} /\ listen' = "init"
        /\ UNCHANGED <<stop, stopLoop, listening, open>>
    BY <1>1, IdleIsEmpty DEF Due, Listen, PluginInitReturns
  <2> QED
    BY <2>1, RankStays DEF Due, SomethingIsDue, Onward
<1>2. CASE PluginInitThrows \/ BindErrorEvent \/ CloseAfterCallbackError
  <2>1. /\ listen \in {"init", "bindError", "closing"}
        /\ listen' = IF listenLoop' = <<>> THEN "failed" ELSE "cleanup"
        /\ UNCHANGED <<stop, stopLoop, listening, open>>
    BY <1>2 DEF PluginInitThrows, BindErrorEvent, CloseAfterCallbackError, ListenFails
  <2> QED
    BY <2>1, RankStays DEF Due, SomethingIsDue, Onward
<1>3. CASE BindServer
  <2>1. /\ listen = "init" /\ UNCHANGED <<stop, stopLoop, open>>
        /\ \/ listen' = "bound" /\ listening'
           \/ listen' = "bindError" /\ listening' = listening
    BY <1>3 DEF BindServer
  <2>2. stop = "none"
    BY <2>1 DEF Due, IInv, UnboundIsNotStopped
  <2> QED
    BY <2>1, <2>2, RankStays DEF Due, SomethingIsDue, Onward
<1>4. CASE ListeningEvent \/ CallbackReturns \/ CallbackThrows
  <2>1. /\ listen \in {"bound", "callback"} /\ listen' \in {"callback", "up", "closing"}
        /\ UNCHANGED <<stop, stopLoop, open>>
        /\ listening' = listening \/ ~listening'
        /\ listen' = "closing" => ~listening'
    BY <1>4 DEF ListeningEvent, CallbackReturns, CallbackThrows
  <2> QED
    BY <2>1, RankStays DEF Due, SomethingIsDue, Onward
<1>5. CASE ListenCleanupReturns
  <2>1. /\ listen = "cleanup" /\ listenLoop' = Tail(listenLoop)
        /\ listen' = IF listenLoop' = <<>> THEN "failed" ELSE "cleanup"
        /\ UNCHANGED <<stop, stopLoop, listening, open>>
    BY <1>5 DEF ListenCleanupReturns
  <2> QED
    BY <2>1, RankStays DEF Due, SomethingIsDue, Onward
<1> QED
  BY <1>1, <1>2, <1>3, <1>4, <1>5 DEF ListenSteps

LEMMA StopStepsGoOn ==
  ASSUME Due, Stop \/ Signal \/ StopSteps
  PROVE  SomethingIsDue' /\ Onward /\ stop' \in DOMAIN StopRank
<1> USE DEF server, plugins, listenVars
<1>1. CASE Stop \/ Signal
  <2>1. /\ UNCHANGED <<listen, listenLoop, stopLoop, open>>
        /\ \/ listening /\ stop' \in {"drained", "draining"} /\ ~listening'
           \/ ~listening /\ UNCHANGED <<stop, listening>>
    BY <1>1 DEF Stop, Signal, StopOrReturn, StopInternal, ReturnAtOnce
  <2>2. listening => stop = "none"
    BY DEF Due, IInv, ListensWhenBound
  <2>3. CASE listening
    BY <2>1, <2>2, <2>3 DEF Due, SomethingIsDue, Onward, StopRank
  <2>4. CASE ~listening
    BY <2>1, <2>4, RankStays DEF Due, SomethingIsDue, Onward
  <2> QED
    BY <2>3, <2>4
<1>2. CASE ForceClose
  BY <1>2 DEF ForceClose, Draining, Due, SomethingIsDue, Onward, StopRank
<1>3. CASE StopCleansUp \/ \E ok \in BOOLEAN : StopCleanupReturns(ok)
  <2>1. /\ UNCHANGED <<listen, listenLoop, listening, open>>
        /\ stop \in {"awaitClose", "cleanup"} /\ stop' \in {"cleanup", "resolved", "rejected"}
        /\ stop' = "cleanup" => stopLoop' # <<>>
        /\ stop = "cleanup" => stopLoop' = Tail(stopLoop)
    BY <1>3 DEF StopCleansUp, StopCleanupReturns, StopSettles
  <2> QED
    BY <2>1 DEF Due, SomethingIsDue, Onward, StopRank
<1> QED
  BY <1>1, <1>2, <1>3 DEF StopSteps

\* At every moment something is due that brings a stop() under way to its end, and
\* nothing takes it back: no connection is accepted, no plugin is cleaned up again.
THEOREM StopGoesOn == Spec => []SomethingIsDue /\ NeverBack
<1>1. Init => Due
  BY InitInvariant DEF Init, Due, SomethingIsDue, StopRank
<1>2. Due /\ [Next]_vars => Due' /\ [Onward]_vars
  <2> SUFFICES ASSUME Due, [Next]_vars PROVE Due' /\ [Onward]_vars
    OBVIOUS
  <2>1. IInv'
    BY NextKeeps DEF Due
  <2>2. CASE UNCHANGED vars
    BY <2>1, <2>2 DEF vars, plugins, listenVars, stopVars, server, Due, SomethingIsDue
  <2>3. CASE Listen \/ ListenSteps
    <3>1. stop' = stop
      BY <2>3 DEF Listen, ListenSteps, PluginInitReturns, PluginInitThrows, BindServer,
         BindErrorEvent, ListeningEvent, CallbackReturns, CallbackThrows,
         CloseAfterCallbackError, ListenCleanupReturns, stopVars
    <3> QED
      BY <2>1, <2>3, <3>1, ListenStepsGoOn DEF Due
  <2>4. CASE Stop \/ Signal \/ StopSteps
    BY <2>1, <2>4, StopStepsGoOn DEF Due
  <2>5. CASE \E p \in Plugins : Use(p) \/ Unuse(p)
    <3>1. UNCHANGED <<stop, stopLoop, listen, listenLoop, listening, open>>
      BY <2>5 DEF Use, Unuse, listenVars, stopVars, server
    <3> QED
      BY <2>1, <3>1, RankStays DEF Due, SomethingIsDue, Onward
  <2>6. CASE Clients
    <3>1. /\ UNCHANGED <<stop, stopLoop, listen, listenLoop, listening>>
          /\ listening \/ open' \subseteq open
      BY <2>6 DEF Clients, Accept, SocketCloses, RequestStarts, RequestEnds, listenVars, stopVars
    <3> QED
      BY <2>1, <3>1, RankStays DEF Due, SomethingIsDue, Onward
  <2> QED
    BY <2>2, <2>3, <2>4, <2>5, <2>6 DEF Next
<1>3. Due => SomethingIsDue
  BY DEF Due
<1>4. [][Onward]_vars => NeverBack
  BY PTL DEF NeverBack, Onward
<1> QED
  BY <1>1, <1>2, <1>3, <1>4, PTL DEF Spec
==============================================================================
