--------------------------- MODULE PluginEmissions ---------------------------
(***************************************************************************)
(* ProxyLifecycle, with the plugin events that the handlers of its clients *)
(* emit.  An emission goes through the listeners that were registered when *)
(* it began, one after the other; it knows nothing of the life of the      *)
(* Proxy, and outlives its client, stop() and the plugins it has to call.  *)
(***************************************************************************)
EXTENDS ProxyLifecycle

CONSTANT Handlers  \* the handlers of requests, tunnels and messages

VARIABLES
  running,  \* the handlers that have not returned
  client,   \* per handler: its client's socket, while that is open
  left      \* per handler: the plugins its emission has still to call or to wait for

handlerVars == <<running, client, left>>

EmissionTypeOK ==
  /\ running \subseteq Handlers
  /\ client \in [Handlers -> SUBSET Connections]
  /\ left \in [Handlers -> SUBSET Plugins]

EmissionInit ==
  /\ Init
  /\ running = {}
  /\ client = [h \in Handlers |-> {}] /\ left = [h \in Handlers |-> {}]

\* A request or a message comes over an open socket.
HandlerStarts(h, c) ==
  /\ h \notin running /\ c \in open /\ (stop = "none" \/ Draining)
  /\ running' = running \cup {h}
  /\ client' = [client EXCEPT ![h] = {c}]
  /\ UNCHANGED left

\* emitAsync takes the listeners its event has now; whether its client is still there
\* makes no difference.
Emits(h, plugs) ==
  /\ h \in running /\ left[h] = {}
  /\ plugs # {} /\ plugs \subseteq observed
  /\ left' = [left EXCEPT ![h] = plugs]
  /\ UNCHANGED <<running, client>>

\* A listener has returned, and it is the next one's turn.  Their order matters to no
\* property.
ListenerReturns(h, p) ==
  /\ p \in left[h]
  /\ left' = [left EXCEPT ![h] = @ \ {p}]
  /\ UNCHANGED <<running, client>>

\* A listener throws, or takes longer than pluginTimeoutMs: the others are not called.
ListenerThrows(h) ==
  /\ left[h] # {}
  /\ left' = [left EXCEPT ![h] = {}]
  /\ UNCHANGED <<running, client>>

HandlerReturns(h) ==
  /\ h \in running /\ left[h] = {}
  /\ running' = running \ {h}
  /\ client' = [client EXCEPT ![h] = {}]
  /\ UNCHANGED left

\* What the Proxy does leaves emissions alone, but a socket that closes is nobody's client.
ProxyStep ==
  /\ Next
  /\ client' = [h \in Handlers |-> client[h] \cap open']
  /\ UNCHANGED <<running, left>>

HandlerStep ==
  /\ \E h \in Handlers :
       \/ \E c \in Connections : HandlerStarts(h, c)
       \/ \E plugs \in SUBSET Plugins : Emits(h, plugs)
       \/ \E p \in Plugins : ListenerReturns(h, p)
       \/ ListenerThrows(h) \/ HandlerReturns(h)
  /\ UNCHANGED vars

EmissionNext == ProxyStep \/ HandlerStep

EmissionSpec == EmissionInit /\ [][EmissionNext]_<<vars, handlerVars>>

\* Listeners and handlers need not return.
FairEmissionSpec == EmissionSpec /\ Fairness

-----------------------------------------------------------------------------
(* Properties *)

\* Whatever listeners an emission still has to call while its client is connected, their
\* plugins are initialised and nobody has begun to clean them up: stop() and a failed
\* listen() wait for the client's socket to close before they do.  Once it has closed
\* nothing holds the plugins back: see CallsOnlyReady.
RunsOnlyReady ==
  \A h \in Handlers : client[h] # {} => left[h] \subseteq ToSet(initialized)

-----------------------------------------------------------------------------
(* Statements about the program that the code does not keep. *)

\* No emission is left with a plugin that has been cleaned up.  An emission under way
\* goes on after ForceClose or the end of its client, and stop() does not wait for it.
CallsOnlyReady == \A h \in Handlers : left[h] \subseteq ToSet(initialized)
==============================================================================
