--------------------------- MODULE RequestTracking ---------------------------
(***************************************************************************)
(* How the proxy keeps track of what its clients have asked for: the       *)
(* indexes of ContextManager and ConnectionManager, the event handlers of  *)
(* Proxy.bindAllEvents that fill them, and the ends of a transaction that  *)
(* empty them.                                                             *)
(*                                                                         *)
(* A client socket carries HTTP requests, which Node's keep-alive server   *)
(* emits one after the other or, pipelined, while earlier ones are in      *)
(* flight; or it becomes a TLS tunnel after a CONNECT, with decrypted      *)
(* requests inside; or a WebSocket after an upgrade.  What happens within  *)
(* a transaction is the business of H1Transaction; here it only ends.      *)
(***************************************************************************)
EXTENDS FiniteSets

CONSTANTS
  Conns,  \* client sockets
  Txns,   \* transactions: requests, CONNECTs and upgrades
  Kinds   \* the kinds of transaction the clients use

AllKinds == {"plain", "connect", "decrypted", "upgrade"}
ASSUME KindsAssumption == Kinds \subseteq AllKinds

\* A requestId and a lifecycle object are named after the transaction that created
\* them.  NoTxn is no name.
NoTxn == "none"
Names == Txns \cup {NoTxn}
ASSUME NamesAssumption == NoTxn \notin Txns \cup Conns

VARIABLES
  mode,           \* per socket: what it carries
  index,          \* per socket: the transaction its requestIndex entry is named after
  activeRequests, \* the requestIds in activeRequests
  lifecycles,     \* requestLifeCycleIndex: requestId to the lifecycle's creator
  activeSockets,  \* ConnectionManager.activeSockets
  txn             \* per transaction: its scope and how far it is

vars == <<mode, index, activeRequests, lifecycles, activeSockets, txn>>

\* What is known of a transaction.
Scopes == [st : {"none", "inflight", "finished", "unwinding", "closed"},
           kind : AllKinds \cup {"none"}, conn : Conns \cup {NoTxn}, id : Names, life : Names]

Fresh == [st |-> "none", kind |-> "none", conn |-> NoTxn, id |-> NoTxn, life |-> NoTxn]

TypeOK ==
  /\ mode \in [Conns -> {"none", "http", "connecting", "tls", "ws", "dead", "closed"}]
  /\ index \in [Conns -> Names]
  /\ activeRequests \subseteq Txns
  /\ lifecycles \in [Txns -> Names]
  /\ activeSockets \subseteq Conns
  /\ txn \in [Txns -> Scopes]

Init ==
  /\ mode = [c \in Conns |-> "none"]
  /\ index = [c \in Conns |-> NoTxn]
  /\ activeRequests = {}
  /\ lifecycles = [t \in Txns |-> NoTxn]
  /\ activeSockets = {}
  /\ txn = [t \in Txns |-> Fresh]

InFlight(t) == txn[t].st = "inflight"
OnConn(c) == {t \in Txns : txn[t].conn = c}

-----------------------------------------------------------------------------
(* ContextManager *)

\* getOrCreateScope for a new transaction t on c.  The handlers pass no request, so
\* the context is looked up by connection: it is created for the first transaction
\* only, and only then does its id enter activeRequests.
GetOrCreateScope(c, t, kind) ==
  LET id == IF index[c] = NoTxn THEN t ELSE index[c]
      life == IF lifecycles[id] = NoTxn THEN t ELSE lifecycles[id]
  IN  /\ index' = [index EXCEPT ![c] = id]
      /\ activeRequests' = IF index[c] = NoTxn THEN activeRequests \cup {id}
                           ELSE activeRequests
      /\ lifecycles' = [lifecycles EXCEPT ![id] = life]
      /\ txn' = [txn EXCEPT ![t] = [st |-> "inflight", kind |-> kind, conn |-> c,
                                    id |-> id, life |-> life]]

\* Mutant of DestroyRequestLifecycle: the lifecycle stays in its index.
KeepLifecycle(ids) ==
  /\ activeRequests' = activeRequests \ ids
  /\ UNCHANGED lifecycles

\* destroyRequestLifecycle, for some ids.
DestroyRequestLifecycle(ids) ==
  /\ activeRequests' = activeRequests \ ids
  /\ lifecycles' = [t \in Txns |-> IF t \in ids THEN NoTxn ELSE lifecycles[t]]

-----------------------------------------------------------------------------
(* The server's events *)

\* The "connection" event.
ConnectionOpens(c) ==
  /\ mode[c] = "none"
  /\ mode' = [mode EXCEPT ![c] = "http"]
  /\ activeSockets' = activeSockets \cup {c}
  /\ UNCHANGED <<index, activeRequests, lifecycles, txn>>

Arrives(t, kind) == txn[t].st = "none" /\ kind \in Kinds

\* The "request" event.
Request(c, t) ==
  /\ Arrives(t, "plain") /\ mode[c] = "http"
  /\ GetOrCreateScope(c, t, "plain")
  /\ UNCHANGED <<mode, activeSockets>>

\* The "connect" event.  The parser no longer reads the socket.
Connect(c, t) ==
  /\ Arrives(t, "connect") /\ mode[c] = "http"
  /\ GetOrCreateScope(c, t, "connect")
  /\ mode' = [mode EXCEPT ![c] = "connecting"]
  /\ UNCHANGED activeSockets

\* The handshake handler makes it a TLS socket.
TunnelOpens(t) ==
  /\ InFlight(t) /\ txn[t].kind = "connect" /\ mode[txn[t].conn] = "connecting"
  /\ mode' = [mode EXCEPT ![txn[t].conn] = "tls"]
  /\ UNCHANGED <<index, activeRequests, lifecycles, activeSockets, txn>>

\* A request inside a tunnel has an id and a lifecycle of its own, in no index.
DecryptedRequest(c, t) ==
  /\ Arrives(t, "decrypted") /\ mode[c] = "tls"
  /\ txn' = [txn EXCEPT ![t] = [st |-> "inflight", kind |-> "decrypted", conn |-> c,
                                id |-> t, life |-> t]]
  /\ UNCHANGED <<mode, index, activeRequests, lifecycles, activeSockets>>

\* The "upgrade" event, on a plain socket or, with the scope of its CONNECT, inside a
\* tunnel.
Upgrade(c, t) ==
  /\ Arrives(t, "upgrade")
  /\ \/ mode[c] = "http" /\ GetOrCreateScope(c, t, "upgrade")
     \/ /\ mode[c] = "tls"
        /\ \E k \in OnConn(c) :
             /\ txn[k].kind = "connect"
             /\ txn' = [txn EXCEPT ![t] = [st |-> "inflight", kind |-> "upgrade", conn |-> c,
                                           id |-> txn[k].id, life |-> txn[k].life]]
        /\ UNCHANGED <<index, activeRequests, lifecycles>>
  /\ mode' = [mode EXCEPT ![c] = "ws"]
  /\ UNCHANGED activeSockets

-----------------------------------------------------------------------------
(* The ends of a transaction *)

\* The scope r of a transaction that is as far as st.
At(r, st) == [st |-> st, kind |-> r.kind, conn |-> r.conn, id |-> r.id, life |-> r.life]

Ends(t, st) == txn' = [txn EXCEPT ![t] = At(txn[t], st)]

\* Mutant of Finishes: the lifecycle is destroyed before the response is over.
FinishesEarly(t) ==
  /\ InFlight(t) /\ txn[t].kind \in {"plain", "decrypted"}
  /\ DestroyRequestLifecycle({txn[t].id})
  /\ UNCHANGED <<mode, index, activeSockets, txn>>

\* finishPipeline or failPipeline of a plain or decrypted request.
Finishes(t) ==
  /\ InFlight(t) /\ txn[t].kind \in {"plain", "decrypted"}
  /\ Ends(t, "finished")
  /\ DestroyRequestLifecycle({txn[t].id})
  /\ UNCHANGED <<mode, index, activeSockets>>

\* The "close" event of its response, with or without finishPipeline before: only the
\* plain server's handler listens for it.
ResponseCloses(t) ==
  /\ txn[t].st \in {"inflight", "finished"} /\ txn[t].kind \in {"plain", "decrypted"}
  /\ Ends(t, "closed")
  /\ IF txn[t].kind = "plain" THEN DestroyRequestLifecycle({txn[t].id})
     ELSE UNCHANGED <<activeRequests, lifecycles>>
  /\ UNCHANGED <<mode, index, activeSockets>>

\* A CONNECT before its TLS socket, or an upgrade.
Handling(t) ==
  \/ txn[t].kind = "connect" /\ mode[txn[t].conn] = "connecting"
  \/ txn[t].kind = "upgrade" /\ mode[txn[t].conn] = "ws"

\* A CONNECT or an upgrade fails, or a WebSocket tunnel is torn down: failPipeline or
\* finishPipeline, and the socket is destroyed.
TearsDown(t) ==
  /\ InFlight(t) /\ Handling(t)
  /\ Ends(t, "closed")
  /\ DestroyRequestLifecycle({txn[t].id})
  /\ mode' = [mode EXCEPT ![txn[t].conn] = "dead"]
  /\ UNCHANGED <<index, activeSockets>>

\* A plugin hijacks or aborts it, an after-handshake hook throws, or the upstream of an
\* upgrade cannot be reached: its handlers are through with it, and forget nothing.
IsLeft(t) ==
  /\ InFlight(t) /\ Handling(t)
  /\ Ends(t, "closed")
  /\ mode' = [mode EXCEPT ![txn[t].conn] = "dead"]
  /\ UNCHANGED <<index, activeRequests, lifecycles, activeSockets>>

\* Mutant of ClosingIds: nobody listens for the socket's end.
NoIds(c) == {}

\* The ids that the "close" listeners of a closing socket destroy: those of the
\* responses and of the TLS socket on it.
ClosingIds(c) ==
  {txn[t].id : t \in {t \in OnConn(c) :
     \/ txn[t].kind = "plain" /\ txn[t].st # "closed"
     \/ txn[t].kind = "connect" /\ txn[t].st = "inflight" /\ mode[c] \in {"tls", "ws"}}}

\* The handlers of a CONNECT whose TLS socket does not exist yet, and of an upgrade, do
\* not notice, or not at once, that the socket has closed.
Unaware(t) == InFlight(t) /\ Handling(t)

\* The socket closes, whoever has closed it.  Its requestIndex entry goes, and what is
\* in flight on it is over; the upgrades in heard wait for this event, and tear down.
Closing(c, heard) ==
  /\ mode[c] \notin {"none", "closed"}
  /\ mode' = [mode EXCEPT ![c] = "closed"]
  /\ index' = [index EXCEPT ![c] = NoTxn]
  /\ activeSockets' = activeSockets \ {c}
  /\ DestroyRequestLifecycle(ClosingIds(c) \cup {txn[t].id : t \in heard})
  /\ txn' = [t \in Txns |->
               IF t \notin OnConn(c) THEN txn[t]
               ELSE At(txn[t], IF Unaware(t) /\ t \notin heard THEN "unwinding" ELSE "closed")]

SocketCloses(c) ==
  \E heard \in SUBSET {t \in OnConn(c) : Unaware(t) /\ txn[t].kind = "upgrade"} : Closing(c, heard)

\* A handler that ran on finds out: its TLS socket times out, its WebSocket tunnel is
\* torn down, or it is left as in IsLeft.
Unwinds(t) ==
  /\ txn[t].st = "unwinding"
  /\ Ends(t, "closed")
  /\ DestroyRequestLifecycle({txn[t].id}) \/ UNCHANGED <<activeRequests, lifecycles>>
  /\ UNCHANGED <<mode, index, activeSockets>>

Next ==
  \/ \E c \in Conns :
       \/ ConnectionOpens(c)
       \/ SocketCloses(c)
       \/ \E t \in Txns : Request(c, t) \/ Connect(c, t) \/ DecryptedRequest(c, t)
                            \/ Upgrade(c, t)
  \/ \E t \in Txns : TunnelOpens(t) \/ Finishes(t) \/ ResponseCloses(t)
                       \/ TearsDown(t) \/ IsLeft(t) \/ Unwinds(t)

Spec == Init /\ [][Next]_vars

-----------------------------------------------------------------------------
(* Properties *)

\* The first plain request of a connection that has no other yet, and every decrypted
\* request in the tunnel of a connection that began with its CONNECT, holds up the
\* drain of Proxy.stop(): the request's or the tunnel's id is in activeRequests.
FirstIsTracked ==
  \A t \in Txns :
    /\ InFlight(t) /\ txn[t].kind = "plain" /\ OnConn(txn[t].conn) = {t}
         => txn[t].id \in activeRequests
    /\ InFlight(t) /\ txn[t].kind = "decrypted" /\ mode[txn[t].conn] = "tls"
         => \/ index[txn[t].conn] \in activeRequests
            \/ \E k \in OnConn(txn[t].conn) : txn[k].kind = "plain"

\* A plain request shares the lifecycle of an earlier one only while that one is in
\* flight: an abort, a failure or a hijack does not leak into the next request of a
\* keep-alive connection.
LifecycleNotInherited ==
  [][\A t \in Txns :
       txn[t].st = "none" /\ txn'[t].kind = "plain" /\ txn'[t].life # t
         => txn[txn'[t].life].st = "inflight"]_vars

\* A connection that has carried plain requests only, pipelined or not, leaves nothing
\* in an index once it is closed.
NothingLeftBehind ==
  \A c \in Conns :
    mode[c] = "closed" /\ (\A t \in OnConn(c) : txn[t].kind = "plain") =>
      /\ c \notin activeSockets
      /\ \A t \in OnConn(c) : txn[t].id \notin activeRequests /\ lifecycles[txn[t].id] = NoTxn

-----------------------------------------------------------------------------
(* Statements about the program that the code does not keep. *)

\* A comment says that destroyRequestLifecycle must be called when the proxy finishes
\* serving the request or the socket closes abruptly; so once the socket is closed and
\* every handler of its transactions has ended, none of them is active.
ClosedIsForgotten ==
  \A c \in Conns :
    mode[c] = "closed" /\ (\A t \in OnConn(c) : txn[t].st = "closed")
      => \A t \in OnConn(c) : txn[t].id \notin activeRequests
==============================================================================
