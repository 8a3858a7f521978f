--------------------------- MODULE ProxyLifecycle ---------------------------
(***************************************************************************)
(* The life of one Proxy: use, unuse, listen and stop, the plugin hooks    *)
(* they run, the shutdown signals, and the HTTP server they open and       *)
(* close.  listen() and stop() are asynchronous and may overlap; each is a *)
(* process whose program counter is the await it has reached.  Client      *)
(* connections and requests are seen only as far as stop() sees them.      *)
(***************************************************************************)
EXTENDS Sequences, SequencesExt, FiniteSets

CONSTANTS
  Plugins,     \* the plugin instances of the application
  Connections, \* client sockets
  Requests     \* members of ContextManager.activeRequests

VARIABLES
  activePlugins,  \* the plugins registered, in order
  observed,       \* the plugins whose run listener is on pluginEventManager
  initialized,    \* initializedPlugins
  listen,         \* what listen() awaits
  todo,           \* listen(): the plugins still to be initialised
  listenLoop,     \* listen(): the plugins its cleanup loop still has
  listening,      \* httpServer.listening
  handlers,       \* the shutdown signal handlers are installed
  stop,           \* what the promise stopPromise awaits
  stopLoop,       \* stopInternal: the plugins its cleanup loop still has
  failures,       \* stopInternal: a cleanup of its loop has failed
  stopReturned,   \* a stop() has been answered since listen() was called
  open,           \* the open client sockets
  active          \* ContextManager.activeRequests

server == <<listening, handlers, open, active>>
plugins == <<activePlugins, observed, initialized>>
listenVars == <<listen, todo, listenLoop>>
stopVars == <<stop, stopLoop, failures, stopReturned>>
vars == <<plugins, listenVars, stopVars, server>>

Distinct(s) == IsInjective(s) /\ ToSet(s) \subseteq Plugins

TypeOK ==
  /\ \A s \in {activePlugins, initialized, todo, listenLoop, stopLoop} : Distinct(s)
  /\ observed \subseteq Plugins
  /\ listen \in {"idle", "init", "bound", "bindError", "callback", "closing",
                 "cleanup", "up", "failed"}
  /\ stop \in {"none", "drained", "draining", "awaitClose", "cleanup", "resolved",
               "rejected"}
  /\ {listening, handlers, failures, stopReturned} \subseteq BOOLEAN
  /\ open \subseteq Connections
  /\ active \subseteq Requests

Init ==
  /\ activePlugins = <<>> /\ observed = {} /\ initialized = <<>>
  /\ listen = "idle" /\ todo = <<>> /\ listenLoop = <<>>
  /\ listening = FALSE /\ handlers = FALSE
  /\ stop = "none" /\ stopLoop = <<>> /\ failures = FALSE /\ stopReturned = FALSE
  /\ open = {} /\ active = {}

isStarting == listen \notin {"idle", "up", "failed"}
MayConfigure == ~isStarting /\ ~listening /\ stop = "none"

-----------------------------------------------------------------------------
(* Registration. *)

Use(p) ==
  /\ MayConfigure /\ p \notin ToSet(activePlugins)
  /\ activePlugins' = Append(activePlugins, p)
  /\ observed' = observed \cup {p}
  /\ UNCHANGED <<initialized, listenVars, stopVars, server>>

Unuse(p) ==
  /\ MayConfigure /\ p \in ToSet(activePlugins)
  /\ \E i \in DOMAIN activePlugins :
       activePlugins[i] = p /\ activePlugins' = RemoveAt(activePlugins, i)
  /\ observed' = observed \ {p}
  /\ UNCHANGED <<initialized, listenVars, stopVars, server>>

-----------------------------------------------------------------------------
(* listen() *)

\* Mutant of TakeInitialized: the list is read but not emptied.
CopyInitialized == [loop |-> Reverse(initialized), left |-> initialized]

\* cleanupInitializedPlugins takes the whole list at once (splice), latest first.
TakeInitialized == [loop |-> Reverse(initialized), left |-> <<>>]

Listen ==
  /\ MayConfigure
  /\ listen' = "init"
  /\ todo' = activePlugins
  /\ stopReturned' = FALSE
  /\ UNCHANGED <<plugins, listenLoop, stop, stopLoop, failures, server>>

\* listen() fails: its catch block cleans up what is initialised, then it rejects.
ListenFails ==
  /\ todo' = <<>>
  /\ listenLoop' = TakeInitialized.loop
  /\ initialized' = TakeInitialized.left
  /\ listen' = IF listenLoop' = <<>> THEN "failed" ELSE "cleanup"

\* The init hook of the next plugin has returned or thrown.
PluginInitReturns ==
  /\ listen = "init" /\ todo # <<>>
  /\ initialized' = Append(initialized, Head(todo))
  /\ todo' = Tail(todo)
  /\ UNCHANGED <<activePlugins, observed, listen, listenLoop, stopVars, server>>

PluginInitThrows ==
  /\ listen = "init" /\ todo # <<>>
  /\ ListenFails
  /\ UNCHANGED <<activePlugins, observed, stopVars, server>>

\* httpServer.listen: it has a handle at once, and the "listening" or "error" event
\* follows.  The shutdown handlers are installed in both cases.
BindServer ==
  /\ listen = "init" /\ todo = <<>>
  /\ \/ listen' = "bound" /\ listening' = TRUE
     \/ listen' = "bindError" /\ UNCHANGED listening
  /\ handlers' = TRUE
  /\ UNCHANGED <<plugins, todo, listenLoop, stopVars, open, active>>

\* Mutant of BindErrorEvent: listen() does not hear the event.
BindErrorUnheard == listen = "bindError" /\ UNCHANGED vars

BindErrorEvent ==
  /\ listen = "bindError"
  /\ ListenFails
  /\ UNCHANGED <<activePlugins, observed, stopVars, server>>

\* Node does not emit the "listening" event of a server closed in the meantime.
ListeningEvent ==
  /\ listen = "bound" /\ listening
  /\ listen' = "callback"
  /\ UNCHANGED <<plugins, todo, listenLoop, stopVars, server>>

\* The startup callback, if any, has returned.
CallbackReturns ==
  /\ listen = "callback"
  /\ listen' = "up"
  /\ UNCHANGED <<plugins, todo, listenLoop, stopVars, server>>

\* It has thrown: the server is closed, and listen() rejects once it is.
CallbackThrows ==
  /\ listen = "callback"
  /\ listen' = "closing"
  /\ listening' = FALSE
  /\ UNCHANGED <<plugins, todo, listenLoop, stopVars, handlers, open, active>>

\* Mutant of ServerClosed: open connections do not count.
ServerNotListening == ~listening

\* The server's "close" event has fired for those who wait for it.
ServerClosed == ~listening /\ open = {}

\* stopInternal has registered for the event first if it waits for it too, and with
\* nothing to drain it waits before any event is emitted.
CloseAfterCallbackError ==
  /\ listen = "closing" /\ ServerClosed /\ stop \notin {"drained", "awaitClose"}
  /\ ListenFails
  /\ UNCHANGED <<activePlugins, observed, stopVars, server>>

\* A cleanup hook of listen()'s loop has returned or thrown; errors are logged.
ListenCleanupReturns ==
  /\ listen = "cleanup"
  /\ listenLoop' = Tail(listenLoop)
  /\ listen' = IF listenLoop' = <<>> THEN "failed" ELSE "cleanup"
  /\ UNCHANGED <<plugins, todo, stopVars, server>>

-----------------------------------------------------------------------------
(* stop() and the signals *)

\* stopInternal up to its first await: no more connections are accepted.
StopInternal ==
  /\ stop' = IF active = {} THEN "drained" ELSE "draining"
  /\ listening' = FALSE
  /\ handlers' = FALSE
  /\ UNCHANGED stopReturned

\* A proxy that does not listen has nothing to stop.
ReturnAtOnce ==
  /\ stopReturned' = TRUE
  /\ UNCHANGED <<stop, listening>>

StopOrReturn == IF listening THEN StopInternal ELSE ReturnAtOnce /\ UNCHANGED handlers

Stop ==
  /\ stop = "none"
  /\ StopOrReturn
  /\ UNCHANGED <<plugins, listenVars, stopLoop, failures, open, active>>

\* SIGINT, SIGTERM or SIGHUP: the handlers are removed and stop() is called.
Signal ==
  /\ handlers
  /\ handlers' = FALSE
  /\ IF listening THEN StopInternal ELSE ReturnAtOnce
  /\ UNCHANGED <<plugins, listenVars, stopLoop, failures, open, active>>

Draining == stop \in {"drained", "draining"}

\* Mutant of ForceClose: only the drained requests end the wait, not the timer.
DrainOnly ==
  /\ Draining /\ active = {}
  /\ stop' = "awaitClose"
  /\ observed' = {}
  /\ UNCHANGED <<activePlugins, initialized, listenVars, stopLoop, failures,
                 stopReturned, server>>

\* The active requests have drained, or shutdownTimeoutMs has passed: what is left is
\* destroyed, and all listeners are removed.
ForceClose ==
  /\ Draining
  /\ stop' = "awaitClose"
  /\ active' = {}
  /\ observed' = {}
  /\ UNCHANGED <<activePlugins, initialized, listenVars, stopLoop, failures,
                 stopReturned, listening, handlers, open>>

StopSettles(loop, failed) ==
  /\ stop' = IF loop # <<>> THEN "cleanup"
             ELSE IF failed THEN "rejected" ELSE "resolved"
  /\ stopReturned' = (stopReturned \/ loop = <<>>)

StopCleansUp ==
  /\ stop = "awaitClose" /\ ServerClosed
  /\ stopLoop' = TakeInitialized.loop
  /\ initialized' = TakeInitialized.left
  /\ StopSettles(stopLoop', FALSE)
  /\ UNCHANGED <<activePlugins, observed, listenVars, failures, server>>

StopCleanupReturns(ok) ==
  /\ stop = "cleanup"
  /\ stopLoop' = Tail(stopLoop)
  /\ failures' = (failures \/ ~ok)
  /\ StopSettles(stopLoop', failures')
  /\ UNCHANGED <<plugins, listenVars, server>>

-----------------------------------------------------------------------------
(* The clients *)

Accept(c) ==
  /\ listening /\ c \notin open
  /\ open' = open \cup {c}
  /\ UNCHANGED <<plugins, listenVars, stopVars, listening, handlers, active>>

\* A socket closes and takes requests with it.
SocketCloses(c) ==
  /\ c \in open
  /\ open' = open \ {c}
  /\ active' \in SUBSET active
  /\ UNCHANGED <<plugins, listenVars, stopVars, listening, handlers>>

\* Requests come over open sockets, until these have been destroyed.
RequestStarts(r) ==
  /\ open # {} /\ (stop = "none" \/ Draining) /\ r \notin active
  /\ active' = active \cup {r}
  /\ UNCHANGED <<plugins, listenVars, stopVars, listening, handlers, open>>

RequestEnds(r) ==
  /\ r \in active
  /\ active' = active \ {r}
  /\ UNCHANGED <<plugins, listenVars, stopVars, listening, handlers, open>>

-----------------------------------------------------------------------------
(* The specification *)

ListenSteps ==
  \/ PluginInitReturns \/ PluginInitThrows
  \/ BindServer \/ BindErrorEvent \/ ListeningEvent
  \/ CallbackReturns \/ CallbackThrows \/ CloseAfterCallbackError
  \/ ListenCleanupReturns

StopSteps ==
  ForceClose \/ StopCleansUp \/ \E ok \in BOOLEAN : StopCleanupReturns(ok)

Clients ==
  \/ \E c \in Connections : Accept(c) \/ SocketCloses(c)
  \/ \E r \in Requests : RequestStarts(r) \/ RequestEnds(r)

Next ==
  \/ \E p \in Plugins : Use(p) \/ Unuse(p)
  \/ Listen \/ Stop \/ Signal
  \/ ListenSteps
  \/ StopSteps
  \/ Clients

Spec == Init /\ [][Next]_vars

(***************************************************************************)
(* Fairness.  Hooks and the startup callback are assumed to return, the    *)
(* server emits its events, shutdownTimeoutMs passes, and a socket that    *)
(* stop() has destroyed closes.  No client has to close its socket.        *)
(***************************************************************************)
Fairness ==
  /\ WF_vars(ListenSteps)
  /\ WF_vars(StopSteps)
  /\ \A c \in Connections :
       WF_vars(stop # "none" /\ ~Draining /\ SocketCloses(c))

FairSpec == Spec /\ Fairness

-----------------------------------------------------------------------------
(* Properties *)

\* The plugin hooks keep their promise, although listen() and stop() may both be
\* cleaning up: see PluginLifecycle.
CleanupLoop == listenLoop \o stopLoop

Contract == INSTANCE PluginLifecycle WITH
  ready <- initialized \o (IF CleanupLoop = <<>> THEN <<>> ELSE Reverse(Tail(CleanupLoop))),
  hook  <- IF listen = "init" /\ todo # <<>>
           THEN [kind |-> "init", plugin |-> Head(todo)]
           ELSE IF CleanupLoop # <<>>
           THEN [kind |-> "cleanup", plugin |-> Head(CleanupLoop)]
           ELSE [kind |-> "none"],
  down  <- CleanupLoop # <<>>

HooksKeepContract == Contract!Spec

\* While a client is connected every plugin that has a run listener is initialised and not
\* cleaned up: an emission that begins then calls plugins that are ready.
ObservedAreReady == open # {} => observed \subseteq ToSet(initialized)

\* A proxy whose stop() has shut it down, or whose listen() has failed, does not
\* listen, has no open client, and no plugin is left for anybody to clean up.
SettledIsClean ==
  stop \in {"resolved", "rejected"} \/ (listen = "failed" /\ stop = "none") =>
    /\ ~listening
    /\ open = {}
    /\ initialized = <<>>

\* Every stop() that has started to shut the server down settles.
StopSettlesEventually == Draining ~> stop \in {"resolved", "rejected"}

\* Every listen() settles, unless its server is stopped between its call of
\* httpServer.listen and the "listening" event, or a client stays connected after a
\* failed callback.
ListenSettles ==
  isStarting ~> \/ ~isStarting
                \/ listen = "bound" /\ stop # "none"
                \/ listen = "closing" /\ open # {}

\* Neither stop() nor listen() waits for nothing: a server that is being closed takes no
\* connection any more, a cleanup loop that runs has a plugin, and a "listening" event is
\* missed only because of stop().
SomethingIsDue ==
  /\ stop # "none" \/ listen = "closing" => ~listening
  /\ stop = "cleanup" => stopLoop # <<>>
  /\ listen = "cleanup" => listenLoop # <<>>
  /\ listen = "bound" /\ ~listening => stop # "none"

StopRank == [none |-> 0, drained |-> 1, draining |-> 1, awaitClose |-> 2, cleanup |-> 3,
             resolved |-> 4, rejected |-> 4]

\* Once stop() has begun to shut down it only goes on, with fewer clients and with fewer
\* plugins to clean up; in the cleanup loop of listen(), too, every step is one plugin less.
NeverBack ==
  [][/\ stop # "none" =>
          /\ StopRank[stop'] >= StopRank[stop] /\ open' \subseteq open
          /\ stop = "cleanup" => stopLoop' \in {stopLoop, Tail(stopLoop)}
     /\ listen = "cleanup" => listenLoop' \in {listenLoop, Tail(listenLoop)}]_vars

-----------------------------------------------------------------------------
(* Statements about the program that the code does not keep. *)

\* A comment says that the promise of stop() resolves when shutdown completes; so a
\* proxy whose stop() has been answered is not brought up by an earlier listen().
StopMeansStopped == stopReturned => ~(listen = "up" /\ listening)
==============================================================================
