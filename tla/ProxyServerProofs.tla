------------------------- MODULE ProxyServerProofs -------------------------
(***************************************************************************)
(* Proofs about RequestTracking, and about its composition with            *)
(* ProxyLifecycle in ProxyServer, for any sockets and transactions.        *)
(***************************************************************************)
EXTENDS ProxyServer, TLAPS

-----------------------------------------------------------------------------
(* The inductive invariant *)

\* A transaction is known as soon as it is on a connection, and its id is that of one
\* on the same connection.
ScopesAreWhole ==
  \A t \in Txns :
    /\ txn[t].st = "none" => txn[t] = Fresh /\ lifecycles[t] = NoTxn
    /\ txn[t].st # "none" => /\ txn[t].conn \in Conns /\ mode[txn[t].conn] # "none"
                             /\ txn[t].id \in Txns /\ txn[txn[t].id].conn = txn[t].conn
                             /\ txn[t].kind # "none"
    /\ txn[t].st = "unwinding" =>
         mode[txn[t].conn] = "closed" /\ txn[t].kind \in {"connect", "upgrade"}
    /\ txn[t].kind = "decrypted" => txn[t].id = t

\* An index entry names a transaction on its open connection.
IndexIsOpen ==
  \A c \in Conns :
    /\ index[c] # NoTxn => txn[index[c]].conn = c /\ txn[index[c]].kind # "decrypted"
    /\ mode[c] \in {"none", "closed"} => index[c] = NoTxn /\ c \notin activeSockets

\* Whatever is not decrypted has the id in the index, until its connection closes.
IdsAreShared ==
  \A t \in Txns :
    txn[t].st # "none" /\ txn[t].kind # "decrypted" /\ mode[txn[t].conn] # "closed"
      => txn[t].id = index[txn[t].conn]

PlainBeforeOthers ==
  \A t \in Txns :
    txn[t].st # "none" /\ mode[txn[t].conn] = "http" => txn[t].kind = "plain"

\* The only request of a connection is active.
FirstIsAlone ==
  \A t \in Txns :
    /\ txn[t].st = "inflight" /\ txn[t].kind = "plain"
    /\ \A s \in Txns : txn[s].conn = txn[t].conn => s = t
    => txn[t].id \in activeRequests

\* A tunnel on a connection that began with its CONNECT is active.
TunnelIsActive ==
  \A c \in Conns :
    mode[c] \in {"connecting", "tls"} /\ (\A t \in OnConn(c) : txn[t].kind # "plain")
      => index[c] \in activeRequests

\* Between requests nothing of an open connection is active.
IdleIsForgotten ==
  \A c \in Conns :
    /\ index[c] # NoTxn
    /\ \A t \in OnConn(c) : txn[t].kind = "plain" /\ txn[t].st = "closed"
    => index[c] \notin activeRequests /\ lifecycles[index[c]] = NoTxn

\* A lifecycle in the index belongs to a request in flight, while there are only plain
\* requests.
LifecycleIsInFlight ==
  \A c \in Conns :
    mode[c] = "http" /\ index[c] # NoTxn /\ lifecycles[index[c]] # NoTxn
      => LET l == lifecycles[index[c]]
         IN  txn[l].st = "inflight" /\ txn[l].conn = c

IInv ==
  /\ TypeOK /\ ScopesAreWhole /\ IndexIsOpen /\ IdsAreShared /\ PlainBeforeOthers
  /\ TunnelIsActive /\ IdleIsForgotten /\ LifecycleIsInFlight
  /\ FirstIsAlone /\ NothingLeftBehind

-----------------------------------------------------------------------------
(* Scopes *)

LEMMA FreshIsAScope == Fresh \in Scopes /\ Fresh.st = "none" /\ Fresh.conn = NoTxn
  BY DEF Fresh, Scopes, Names

\* A transaction that gets on.
LEMMA EndsKeeps ==
  ASSUME TypeOK, NEW t \in Txns, NEW st \in {"finished", "closed"}, Ends(t, st)
  PROVE  /\ txn' \in [Txns -> Scopes]
         /\ txn'[t].st = st
         /\ \A s \in Txns : s # t => txn'[s] = txn[s]
         /\ \A s \in Txns : /\ txn'[s].kind = txn[s].kind /\ txn'[s].conn = txn[s].conn
                            /\ txn'[s].id = txn[s].id /\ txn'[s].life = txn[s].life
  BY DEF TypeOK, Ends, At, Scopes

\* A transaction that is the first to be known of t.
LEMMA ArrivalKeeps ==
  ASSUME TypeOK, NEW t \in Txns, NEW c \in Conns, NEW kind \in AllKinds,
         NEW id \in Txns, NEW life \in Names,
         txn' = [txn EXCEPT ![t] = [st |-> "inflight", kind |-> kind, conn |-> c,
                                    id |-> id, life |-> life]]
  PROVE  /\ txn' \in [Txns -> Scopes]
         /\ txn'[t].st = "inflight" /\ txn'[t].kind = kind /\ txn'[t].conn = c
         /\ txn'[t].id = id /\ txn'[t].life = life
         /\ \A s \in Txns : s # t => txn'[s] = txn[s]
  BY DEF TypeOK, Scopes, Names

\* What getOrCreateScope does for a transaction that nothing is known of.
LEMMA ScopeMade ==
  ASSUME IInv, NEW c \in Conns, NEW t \in Txns, NEW kind \in AllKinds,
         txn[t].st = "none", mode[c] = "http", GetOrCreateScope(c, t, kind)
  PROVE  \E id \in Txns, life \in Txns :
           /\ id = IF index[c] = NoTxn THEN t ELSE index[c]
           /\ life = IF lifecycles[id] = NoTxn THEN t ELSE lifecycles[id]
           /\ index' = [index EXCEPT ![c] = id]
           /\ activeRequests' = IF index[c] = NoTxn THEN activeRequests \cup {id}
                                ELSE activeRequests
           /\ lifecycles' = [lifecycles EXCEPT ![id] = life]
           /\ txn' = [txn EXCEPT ![t] = [st |-> "inflight", kind |-> kind, conn |-> c,
                                         id |-> id, life |-> life]]
<1> DEFINE id == IF index[c] = NoTxn THEN t ELSE index[c]
           life == IF lifecycles[id] = NoTxn THEN t ELSE lifecycles[id]
<1>1. id \in Txns
  BY DEF IInv, TypeOK, Names
<1>2. life \in Txns
  BY <1>1 DEF IInv, TypeOK, Names
<1> QED
  BY <1>1, <1>2 DEF GetOrCreateScope

-----------------------------------------------------------------------------
(* Arrivals *)

\* A request, a CONNECT or an upgrade on a plain socket.
LEMMA ArrivalOnPlain ==
  ASSUME IInv, NEW c \in Conns, NEW t \in Txns, NEW kind \in AllKinds, kind # "decrypted",
         txn[t].st = "none", mode[c] = "http", GetOrCreateScope(c, t, kind),
         NEW m \in {"http", "connecting", "ws"},
         m = "http" <=> kind = "plain", m = "connecting" => kind = "connect",
         mode' = [mode EXCEPT ![c] = m], UNCHANGED activeSockets
  PROVE  IInv'
<1>1. PICK id \in Txns, life \in Txns :
           /\ id = IF index[c] = NoTxn THEN t ELSE index[c]
           /\ life = IF lifecycles[id] = NoTxn THEN t ELSE lifecycles[id]
           /\ index' = [index EXCEPT ![c] = id]
           /\ activeRequests' = IF index[c] = NoTxn THEN activeRequests \cup {id}
                                ELSE activeRequests
           /\ lifecycles' = [lifecycles EXCEPT ![id] = life]
           /\ txn' = [txn EXCEPT ![t] = [st |-> "inflight", kind |-> kind, conn |-> c,
                                         id |-> id, life |-> life]]
  BY ScopeMade
<1>2. /\ txn' \in [Txns -> Scopes]
      /\ txn'[t].st = "inflight" /\ txn'[t].kind = kind /\ txn'[t].conn = c
      /\ txn'[t].id = id /\ txn'[t].life = life
      /\ \A s \in Txns : s # t => txn'[s] = txn[s]
  <2>1. TypeOK
    BY DEF IInv
  <2>2. txn' = [txn EXCEPT ![t] = [st |-> "inflight", kind |-> kind, conn |-> c,
                                   id |-> id, life |-> life]]
    BY <1>1
  <2>3. life \in Names
    BY DEF Names
  <2> QED
    BY <2>1, <2>2, <2>3, ArrivalKeeps, Zenon
<1>3. TypeOK'
  BY <1>1, <1>2 DEF IInv, TypeOK, Names
<1>4. \A s \in Txns : txn[s].st = "none" => txn[s].conn = NoTxn
  BY DEF IInv, ScopesAreWhole, Fresh
<1>5. /\ \A d \in Conns : /\ d # c => index'[d] = index[d] /\ mode'[d] = mode[d]
                          /\ index'[d] = id => d = c
      /\ index'[c] = id /\ mode'[c] = m /\ index[c] \in {NoTxn, id}
      /\ txn'[id].conn = c /\ (txn[id].st # "none" \/ id = t)
  BY <1>1, <1>2, <1>4, NamesAssumption DEF IInv, TypeOK, IndexIsOpen, ScopesAreWhole
<1>6. /\ lifecycles'[id] = life
      /\ \A s \in Txns : s # id => lifecycles'[s] = lifecycles[s]
      /\ activeRequests \subseteq activeRequests'
      /\ activeRequests' \subseteq activeRequests \cup {id}
  BY <1>1 DEF IInv, TypeOK
<1>7. life # t => txn[life].st = "inflight" /\ txn[life].conn = c
  BY <1>1, NamesAssumption DEF IInv, ScopesAreWhole, LifecycleIsInFlight, TypeOK
<1>8. ScopesAreWhole'
  <2>1. ASSUME NEW s \in Txns, txn'[s].st = "none"
        PROVE  txn'[s] = Fresh /\ lifecycles'[s] = NoTxn
    <3>1. s # t /\ s # id
      BY <2>1, <1>2, <1>5
    <3> QED
      BY <3>1, <2>1, <1>2, <1>6 DEF IInv, ScopesAreWhole
  <2>2. ASSUME NEW s \in Txns, s # t, txn[s].st # "none"
        PROVE  /\ txn'[s] = txn[s] /\ txn[s].conn \in Conns /\ mode'[txn[s].conn] # "none"
               /\ txn[s].id \in Txns /\ txn'[txn[s].id].conn = txn[s].conn
               /\ txn[s].kind # "none"
               /\ txn[s].st = "unwinding" =>
                    mode'[txn[s].conn] = "closed" /\ txn[s].kind \in {"connect", "upgrade"}
    <3>1. txn[s].id # t
      BY <2>2, <1>4, NamesAssumption DEF IInv, ScopesAreWhole
    <3> QED
      BY <3>1, <2>2, <1>2, <1>5 DEF IInv, ScopesAreWhole
  <2>3. /\ txn'[t].st = "inflight" /\ txn'[t].conn = c /\ mode'[c] # "none"
        /\ txn'[t].id = id /\ txn'[id].conn = c /\ txn'[t].kind \notin {"none", "decrypted"}
    BY <1>2, <1>5 DEF AllKinds
  <2>4. \A s \in Txns : txn'[s].kind = "decrypted" => txn'[s].id = s
    BY <2>3, <1>2 DEF IInv, ScopesAreWhole
  <2>5. \A s \in Txns : s # t /\ txn'[s].st # "none" => txn[s].st # "none"
    BY <1>2
  <2>6. \A s \in Txns : txn'[s].st # "none" =>
          /\ txn'[s].conn \in Conns /\ mode'[txn'[s].conn] # "none"
          /\ txn'[s].id \in Txns /\ txn'[txn'[s].id].conn = txn'[s].conn
          /\ txn'[s].kind # "none"
          /\ txn'[s].st = "unwinding" =>
               mode'[txn'[s].conn] = "closed" /\ txn'[s].kind \in {"connect", "upgrade"}
    BY <2>2, <2>3, <2>5
  <2> QED
    BY <2>1, <2>4, <2>6 DEF ScopesAreWhole
<1>9. IndexIsOpen'
  <2>1. index'[c] = id /\ txn'[id].conn = c /\ txn'[id].kind # "decrypted"
    <3>1. CASE index[c] = NoTxn
      BY <3>1, <1>1, <1>2, <1>5
    <3>2. CASE index[c] # NoTxn
      <4>1. id = index[c] /\ txn[id].conn = c /\ txn[id].kind # "decrypted"
        BY <3>2, <1>1 DEF IInv, IndexIsOpen
      <4> QED
        BY <4>1, <1>2, <1>4, <1>5, NamesAssumption
    <3> QED
      BY <3>1, <3>2
  <2>2. ASSUME NEW d \in Conns, d # c, index'[d] # NoTxn
        PROVE  txn'[index'[d]].conn = d /\ txn'[index'[d]].kind # "decrypted"
    <3>1. index[d] \in Txns /\ txn[index[d]].conn = d /\ txn[index[d]].kind # "decrypted"
      BY <2>2, <1>5 DEF IInv, IndexIsOpen, TypeOK, Names
    <3>2. index[d] # t
      BY <3>1, <1>4, NamesAssumption
    <3> QED
      BY <3>1, <3>2, <1>2, <1>5, <2>2
  <2>3. ASSUME NEW d \in Conns, mode'[d] \in {"none", "closed"}
        PROVE  index'[d] = NoTxn /\ d \notin activeSockets'
    BY <2>3, <1>5 DEF IInv, IndexIsOpen
  <2> QED
    BY <2>1, <2>2, <2>3 DEF IndexIsOpen
<1>10. IdsAreShared'
  BY <1>1, <1>2, <1>4, <1>5, NamesAssumption DEF IInv, IdsAreShared, IndexIsOpen, ScopesAreWhole, TypeOK
<1>11. PlainBeforeOthers'
  BY <1>2, <1>5 DEF IInv, PlainBeforeOthers
<1>12. TunnelIsActive'
  BY <1>1, <1>2, <1>4, <1>5, <1>6, NamesAssumption
  DEF IInv, TunnelIsActive, PlainBeforeOthers, IndexIsOpen, OnConn, TypeOK
<1>13. IdleIsForgotten'
  BY <1>2, <1>4, <1>5, <1>6, NamesAssumption DEF IInv, IdleIsForgotten, OnConn, TypeOK, Names
<1>14. LifecycleIsInFlight'
  BY <1>2, <1>4, <1>5, <1>6, <1>7, NamesAssumption DEF IInv, LifecycleIsInFlight, TypeOK, Names
<1>15. FirstIsAlone'
  <2>1. index[c] # NoTxn => index[c] # t /\ txn'[index[c]].conn = c /\ index[c] \in Txns
    BY <1>2, <1>4, NamesAssumption DEF IInv, IndexIsOpen, TypeOK, Names
  <2>2. index[c] = NoTxn => id \in activeRequests'
    BY <1>1
  <2> QED
    BY <2>1, <2>2, <1>2, <1>4, <1>6, NamesAssumption
    DEF IInv, FirstIsAlone, ScopesAreWhole
<1>16. NothingLeftBehind'
  BY <1>2, <1>4, <1>5, <1>6, NamesAssumption
  DEF IInv, NothingLeftBehind, OnConn, TypeOK, ScopesAreWhole
<1> QED
  BY <1>3, <1>8, <1>9, <1>10, <1>11, <1>12, <1>13, <1>14, <1>15, <1>16 DEF IInv

\* A decrypted request, or an upgrade, in a tunnel.
LEMMA ArrivalInTunnel ==
  ASSUME IInv, NEW c \in Conns, NEW t \in Txns, NEW kind \in {"decrypted", "upgrade"},
         txn[t].st = "none", mode[c] = "tls", NEW id \in Txns, NEW life \in Names,
         txn' = [txn EXCEPT ![t] = [st |-> "inflight", kind |-> kind, conn |-> c,
                                    id |-> id, life |-> life]],
         kind = "decrypted" => id = t,
         kind = "upgrade" => id = index[c],
         mode' = [mode EXCEPT ![c] = IF kind = "upgrade" THEN "ws" ELSE "tls"],
         UNCHANGED <<index, activeRequests, lifecycles, activeSockets>>
  PROVE  IInv'
<1>1. /\ txn' \in [Txns -> Scopes]
      /\ txn'[t].st = "inflight" /\ txn'[t].kind = kind /\ txn'[t].conn = c
      /\ txn'[t].id = id /\ txn'[t].life = life
      /\ \A s \in Txns : s # t => txn'[s] = txn[s]
  <2> kind \in AllKinds
    BY DEF AllKinds
  <2> QED
    BY ArrivalKeeps DEF IInv
<1>2. /\ \A d \in Conns : d # c => mode'[d] = mode[d]
      /\ mode'[c] \in {"tls", "ws"} /\ mode' \in [Conns -> {"none", "http", "connecting", "tls", "ws", "dead", "closed"}]
  BY DEF IInv, TypeOK
<1>3. TypeOK'
  BY <1>1, <1>2 DEF IInv, TypeOK
<1>4. \A s \in Txns : txn[s].st = "none" => txn[s].conn = NoTxn
  BY DEF IInv, ScopesAreWhole, Fresh
<1>5. \A d \in Conns : index[d] # NoTxn => index[d] \in Txns \ {t}
  BY <1>4, NamesAssumption DEF IInv, IndexIsOpen, TypeOK, Names
<1>6. id # t => txn[id].conn = c
  BY NamesAssumption DEF IInv, IndexIsOpen
<1>7. ScopesAreWhole'
  BY <1>1, <1>2, <1>4, <1>6, NamesAssumption DEF IInv, ScopesAreWhole
<1>8. IndexIsOpen'
  BY <1>1, <1>2, <1>5 DEF IInv, IndexIsOpen
<1>9. IdsAreShared'
  BY <1>1, <1>2, <1>4 DEF IInv, IdsAreShared
<1>10. PlainBeforeOthers'
  BY <1>1, <1>2, <1>4 DEF IInv, PlainBeforeOthers
<1>11. TunnelIsActive'
  BY <1>1, <1>2, <1>4, NamesAssumption DEF IInv, TunnelIsActive, OnConn
<1>12. IdleIsForgotten'
  BY <1>1, <1>2, <1>4, NamesAssumption DEF IInv, IdleIsForgotten, OnConn
<1>13. LifecycleIsInFlight'
  BY <1>1, <1>2, NamesAssumption DEF IInv, LifecycleIsInFlight, TypeOK, Names
<1>14. FirstIsAlone'
  BY <1>1, <1>4, NamesAssumption DEF IInv, FirstIsAlone, ScopesAreWhole
<1>15. NothingLeftBehind'
  BY <1>1, <1>2, <1>4, NamesAssumption DEF IInv, NothingLeftBehind, OnConn
<1> QED
  BY <1>3, <1>7, <1>8, <1>9, <1>10, <1>11, <1>12, <1>13, <1>14, <1>15 DEF IInv

-----------------------------------------------------------------------------
(* Ends *)

\* A transaction ends, and its id is destroyed or not.  A plain request's is, and the
\* id of a tunnel that stays is not.
LEMMA EndKeeps ==
  ASSUME IInv, NEW t \in Txns, txn[t].st # "none", NEW st \in {"finished", "closed"},
         Ends(t, st),
         DestroyRequestLifecycle({txn[t].id}) \/ UNCHANGED <<activeRequests, lifecycles>>,
         txn[t].kind = "plain" => DestroyRequestLifecycle({txn[t].id}),
         NEW m \in {mode[txn[t].conn], "dead"},
         mode' = [mode EXCEPT ![txn[t].conn] = m],
         m = "dead" => mode[txn[t].conn] \in {"connecting", "ws", "dead"},
         \/ txn[t].kind \in {"plain", "decrypted"}
         \/ m \notin {"http", "connecting", "tls"},
         UNCHANGED <<index, activeSockets>>
  PROVE  IInv'
<1> DEFINE c == txn[t].conn
           id == txn[t].id
<1>1. /\ txn' \in [Txns -> Scopes]
      /\ txn'[t].st = st
      /\ \A s \in Txns : s # t => txn'[s] = txn[s]
      /\ \A s \in Txns : /\ txn'[s].kind = txn[s].kind /\ txn'[s].conn = txn[s].conn
                         /\ txn'[s].id = txn[s].id /\ txn'[s].life = txn[s].life
  BY EndsKeeps DEF IInv
<1>2. c \in Conns /\ id \in Txns /\ txn[id].conn = c
  BY DEF IInv, ScopesAreWhole
<1>3. /\ activeRequests' \subseteq activeRequests /\ activeRequests \ {id} \subseteq activeRequests'
      /\ lifecycles' \in [Txns -> Names]
      /\ \A s \in Txns : /\ s # id => lifecycles'[s] = lifecycles[s]
                         /\ lifecycles'[s] \in {NoTxn, lifecycles[s]}
      /\ txn[t].kind = "plain" => id \notin activeRequests' /\ lifecycles'[id] = NoTxn
  BY <1>2 DEF IInv, TypeOK, DestroyRequestLifecycle, Names
<1>4. /\ \A d \in Conns : d # c => mode'[d] = mode[d]
      /\ mode'[c] = m
      /\ mode' \in [Conns -> {"none", "http", "connecting", "tls", "ws", "dead", "closed"}]
      /\ \A d \in Conns : \/ mode'[d] = mode[d]
                          \/ mode'[d] = "dead" /\ mode[d] \in {"connecting", "ws"}
  BY <1>2 DEF IInv, TypeOK
<1>5. TypeOK'
  BY <1>1, <1>3, <1>4 DEF IInv, TypeOK
<1>6. ScopesAreWhole'
  BY <1>1, <1>3, <1>4 DEF IInv, ScopesAreWhole
<1>7. IndexIsOpen'
  BY <1>1, <1>4 DEF IInv, IndexIsOpen, TypeOK, Names
<1>8. IdsAreShared'
  BY <1>1, <1>4 DEF IInv, IdsAreShared, ScopesAreWhole
<1>9. PlainBeforeOthers'
  BY <1>1, <1>4 DEF IInv, PlainBeforeOthers, ScopesAreWhole
<1>10. TunnelIsActive'
  <2> SUFFICES ASSUME NEW d \in Conns, mode'[d] \in {"connecting", "tls"},
                      \A s \in Txns : txn'[s].conn = d => txn'[s].kind # "plain"
               PROVE  index[d] \in activeRequests'
    BY DEF TunnelIsActive, OnConn
  <2>1. index[d] \in activeRequests /\ mode'[d] = mode[d]
    BY <1>1, <1>4 DEF IInv, TunnelIsActive, OnConn
  <2>2. txn[index[d]].conn = d /\ txn[index[d]].kind # "decrypted"
    BY <2>1, NamesAssumption DEF IInv, IndexIsOpen, TypeOK
  <2>3. CASE d # c
    BY <2>1, <2>2, <2>3, <1>2, <1>3
  <2>4. CASE d = c
    <3>1. txn[t].kind = "decrypted"
      BY <2>4, <1>1, <1>4
    <3> QED
      BY <3>1, <2>1, <2>2, <1>3 DEF IInv, ScopesAreWhole
  <2> QED
    BY <2>3, <2>4
<1>11. IdleIsForgotten'
  BY <1>1, <1>2, <1>3, <1>4
  DEF IInv, IdleIsForgotten, OnConn, IdsAreShared, IndexIsOpen, ScopesAreWhole, TypeOK, Names
<1>12. LifecycleIsInFlight'
  <2> SUFFICES ASSUME NEW d \in Conns, mode'[d] = "http", index[d] # NoTxn,
                      lifecycles'[index[d]] # NoTxn
               PROVE  LET l == lifecycles'[index[d]]
                      IN  txn'[l].st = "inflight" /\ txn'[l].conn = d
    BY DEF LifecycleIsInFlight
  <2> DEFINE l == lifecycles[index[d]]
  <2>1. mode[d] = "http" /\ index[d] \in Txns /\ lifecycles'[index[d]] = l /\ l # NoTxn
    BY <1>3, <1>4 DEF IInv, TypeOK, Names
  <2>2. txn[l].st = "inflight" /\ txn[l].conn = d /\ l \in Txns
    BY <2>1 DEF IInv, LifecycleIsInFlight, TypeOK, Names
  <2>3. ASSUME l = t PROVE FALSE
    <3>1. txn[t].kind = "plain" /\ id = index[d]
      BY <2>1, <2>2, <2>3 DEF IInv, PlainBeforeOthers, IdsAreShared
    <3> QED
      BY <3>1, <2>1, <1>3
  <2> QED
    BY <2>1, <2>2, <2>3, <1>1
<1>13. FirstIsAlone'
  BY <1>1, <1>2, <1>3 DEF IInv, FirstIsAlone, ScopesAreWhole
<1>14. NothingLeftBehind'
  <2>1. \A s \in Txns : txn[s].conn \in Conns => txn[s].id \in Txns
    BY NamesAssumption DEF IInv, ScopesAreWhole, Fresh
  <2> QED
    BY <2>1, <1>1, <1>3, <1>4 DEF IInv, NothingLeftBehind, OnConn
<1> QED
  BY <1>5, <1>6, <1>7, <1>8, <1>9, <1>10, <1>11, <1>12, <1>13, <1>14 DEF IInv

-----------------------------------------------------------------------------
(* Sockets *)

LEMMA SocketClosesKeeps ==
  ASSUME IInv, NEW c \in Conns, SocketCloses(c)
  PROVE  IInv'
<1>0. PICK heard \in SUBSET {t \in OnConn(c) : Unaware(t) /\ txn[t].kind = "upgrade"} :
        Closing(c, heard)
  BY DEF SocketCloses
<1> DEFINE gone == ClosingIds(c) \cup {txn[t].id : t \in heard}
<1>1. /\ txn' \in [Txns -> Scopes]
      /\ \A s \in Txns : txn[s].conn # c => txn'[s] = txn[s]
      /\ \A s \in Txns : txn[s].conn = c =>
           \/ txn'[s].st = "closed"
           \/ txn'[s].st = "unwinding" /\ txn[s].kind \in {"connect", "upgrade"}
      /\ \A s \in Txns : /\ txn'[s].kind = txn[s].kind /\ txn'[s].conn = txn[s].conn
                         /\ txn'[s].id = txn[s].id /\ txn'[s].life = txn[s].life
  BY <1>0 DEF IInv, TypeOK, Closing, OnConn, At, Scopes, Unaware, Handling
<1>2. /\ mode' \in [Conns -> {"none", "http", "connecting", "tls", "ws", "dead", "closed"}]
      /\ mode[c] \notin {"none", "closed"} /\ mode'[c] = "closed"
      /\ index' \in [Conns -> Names] /\ index'[c] = NoTxn
      /\ \A d \in Conns : d # c => mode'[d] = mode[d] /\ index'[d] = index[d]
      /\ activeSockets' = activeSockets \ {c}
  BY <1>0 DEF IInv, TypeOK, Closing, Names
<1>3. \A s \in Txns : txn[s].conn \in Conns =>
        /\ txn[s].st # "none" /\ txn[s].id \in Txns /\ txn[txn[s].id].conn = txn[s].conn
  BY NamesAssumption DEF IInv, ScopesAreWhole, Fresh
<1>4. \A i \in gone : i \in Txns /\ txn[i].conn = c
  BY <1>3 DEF ClosingIds, OnConn
<1>5. /\ activeRequests' = activeRequests \ gone
      /\ lifecycles' \in [Txns -> Names]
      /\ \A s \in Txns : /\ txn[s].conn # c => lifecycles'[s] = lifecycles[s]
                         /\ lifecycles'[s] \in {NoTxn, lifecycles[s]}
                         /\ s \in gone => lifecycles'[s] = NoTxn
  BY <1>0, <1>4 DEF IInv, TypeOK, Closing, DestroyRequestLifecycle, Names
<1>6. TypeOK'
  BY <1>1, <1>2, <1>5 DEF IInv, TypeOK
<1>7. ScopesAreWhole'
  <2>1. \A s \in Txns : txn'[s].st = "none" => txn'[s] = txn[s] /\ txn[s].st = "none"
    BY <1>1
  <2>2. \A s \in Txns : txn'[s].st # "none" => txn[s].st # "none"
    BY <1>1, <1>3
  <2>3. \A s \in Txns : txn'[s].st = "unwinding" =>
          mode'[txn'[s].conn] = "closed" /\ txn'[s].kind \in {"connect", "upgrade"}
    BY <1>1, <1>2 DEF IInv, ScopesAreWhole
  <2> QED
    BY <1>1, <1>2, <1>5, <2>1, <2>2, <2>3 DEF IInv, ScopesAreWhole
<1>8. IndexIsOpen'
  BY <1>1, <1>2 DEF IInv, IndexIsOpen, TypeOK, Names
<1>9. IdsAreShared'
  BY <1>1, <1>2, <1>3 DEF IInv, IdsAreShared, ScopesAreWhole
<1>10. PlainBeforeOthers'
  BY <1>1, <1>2, <1>3 DEF IInv, PlainBeforeOthers, ScopesAreWhole
<1>11. TunnelIsActive'
  <2> SUFFICES ASSUME NEW d \in Conns, mode'[d] \in {"connecting", "tls"},
                      \A s \in Txns : txn'[s].conn = d => txn'[s].kind # "plain"
               PROVE  index'[d] \in activeRequests'
    BY DEF TunnelIsActive, OnConn
  <2>1. index[d] \in activeRequests /\ d # c /\ index'[d] = index[d]
    BY <1>1, <1>2 DEF IInv, TunnelIsActive, OnConn
  <2>2. txn[index[d]].conn = d
    BY <2>1, NamesAssumption DEF IInv, IndexIsOpen, TypeOK
  <2> QED
    BY <2>1, <2>2, <1>4, <1>5
<1>12. IdleIsForgotten'
  <2> SUFFICES ASSUME NEW d \in Conns, index'[d] # NoTxn,
                      \A s \in Txns : txn'[s].conn = d =>
                        txn'[s].kind = "plain" /\ txn'[s].st = "closed"
               PROVE  index'[d] \notin activeRequests' /\ lifecycles'[index'[d]] = NoTxn
    BY DEF IdleIsForgotten, OnConn
  <2>1. d # c /\ index'[d] = index[d] /\ index[d] \in Txns
    BY <1>2 DEF Names
  <2>2. index[d] \notin activeRequests /\ lifecycles[index[d]] = NoTxn
    BY <2>1, <1>1 DEF IInv, IdleIsForgotten, OnConn
  <2> QED
    BY <2>1, <2>2, <1>5
<1>13. LifecycleIsInFlight'
  <2> SUFFICES ASSUME NEW d \in Conns, mode'[d] = "http", index'[d] # NoTxn,
                      lifecycles'[index'[d]] # NoTxn
               PROVE  LET l == lifecycles'[index'[d]]
                      IN  txn'[l].st = "inflight" /\ txn'[l].conn = d
    BY DEF LifecycleIsInFlight
  <2> DEFINE l == lifecycles[index[d]]
  <2>1. /\ d # c /\ mode[d] = "http" /\ index'[d] = index[d] /\ index[d] \in Txns
        /\ lifecycles'[index[d]] = l /\ l # NoTxn
    BY <1>2, <1>5 DEF Names
  <2>2. txn[l].st = "inflight" /\ txn[l].conn = d /\ l \in Txns
    BY <2>1 DEF IInv, LifecycleIsInFlight, TypeOK, Names
  <2> QED
    BY <2>1, <2>2, <1>1
<1>14. FirstIsAlone'
  <2> SUFFICES ASSUME NEW s \in Txns, txn'[s].st = "inflight", txn'[s].kind = "plain",
                      \A k \in Txns : txn'[k].conn = txn'[s].conn => k = s
               PROVE  txn'[s].id \in activeRequests'
    BY DEF FirstIsAlone
  <2>1. txn'[s] = txn[s] /\ txn[s].conn \in Conns \ {c}
    BY <1>1 DEF IInv, ScopesAreWhole
  <2>2. txn[s].id \in activeRequests
    BY <2>1, <1>1 DEF IInv, FirstIsAlone
  <2> QED
    BY <2>1, <2>2, <1>3, <1>4, <1>5
<1>15. NothingLeftBehind'
  <2> SUFFICES ASSUME NEW d \in Conns, mode'[d] = "closed",
                      \A s \in Txns : txn[s].conn = d => txn[s].kind = "plain"
               PROVE  /\ d \notin activeSockets'
                      /\ \A s \in Txns : txn[s].conn = d =>
                           txn[s].id \notin activeRequests' /\ lifecycles'[txn[s].id] = NoTxn
    BY <1>1 DEF NothingLeftBehind, OnConn
  <2>1. CASE d # c
    BY <2>1, <1>2, <1>3, <1>5 DEF IInv, NothingLeftBehind, OnConn
  <2>2. CASE d = c
    <3>1. d \notin activeSockets'
      BY <2>2, <1>2
    <3>2. ASSUME NEW s \in Txns, txn[s].conn = c
          PROVE  txn[s].id \notin activeRequests' /\ lifecycles'[txn[s].id] = NoTxn
      <4>1. txn[s].id = index[c] /\ index[c] \in Txns /\ index[c] # NoTxn
        BY <2>2, <3>2, <1>2, <1>3, NamesAssumption DEF IInv, IdsAreShared
      <4>2. CASE \E k \in Txns : txn[k].conn = c /\ txn[k].st # "closed"
        <5>1. PICK k \in Txns : txn[k].conn = c /\ txn[k].st # "closed"
          BY <4>2
        <5>2. txn[k].id = index[c] /\ txn[k].kind = "plain"
          BY <5>1, <2>2, <1>2, <1>3 DEF IInv, IdsAreShared
        <5>3. index[c] \in gone
          BY <5>1, <5>2 DEF ClosingIds, OnConn
        <5> QED
          BY <4>1, <5>3, <1>5
      <4>3. CASE \A k \in Txns : txn[k].conn = c => txn[k].st = "closed"
        <5>1. index[c] \notin activeRequests /\ lifecycles[index[c]] = NoTxn
          BY <4>1, <4>3, <2>2 DEF IInv, IdleIsForgotten, OnConn
        <5> QED
          BY <4>1, <5>1, <1>5
      <4> QED
        BY <4>2, <4>3
    <3> QED
      BY <2>2, <3>1, <3>2
  <2> QED
    BY <2>1, <2>2
<1> QED
  BY <1>6, <1>7, <1>8, <1>9, <1>10, <1>11, <1>12, <1>13, <1>14, <1>15 DEF IInv

LEMMA ConnectionOpensKeeps ==
  ASSUME IInv, NEW c \in Conns, ConnectionOpens(c)
  PROVE  IInv'
<1> USE DEF ConnectionOpens
<1>1. \A s \in Txns : txn[s].conn # c
  BY NamesAssumption DEF IInv, ScopesAreWhole, Fresh
<1>2. index[c] = NoTxn
  BY DEF IInv, IndexIsOpen
<1>3. /\ mode' \in [Conns -> {"none", "http", "connecting", "tls", "ws", "dead", "closed"}]
      /\ mode'[c] = "http" /\ \A d \in Conns : d # c => mode'[d] = mode[d]
      /\ activeSockets' = activeSockets \cup {c}
  BY DEF IInv, TypeOK
<1>4. TypeOK' /\ FirstIsAlone' /\ IdleIsForgotten'
  BY <1>3 DEF IInv, TypeOK, FirstIsAlone, IdleIsForgotten, OnConn
<1>5. ScopesAreWhole' /\ IdsAreShared' /\ PlainBeforeOthers'
  BY <1>1, <1>3 DEF IInv, ScopesAreWhole, IdsAreShared, PlainBeforeOthers
<1>6. IndexIsOpen' /\ TunnelIsActive' /\ LifecycleIsInFlight' /\ NothingLeftBehind'
  BY <1>2, <1>3 DEF IInv, IndexIsOpen, TunnelIsActive, LifecycleIsInFlight, NothingLeftBehind, OnConn
<1> QED
  BY <1>4, <1>5, <1>6 DEF IInv

LEMMA TunnelOpensKeeps ==
  ASSUME IInv, NEW t \in Txns, TunnelOpens(t)
  PROVE  IInv'
<1> USE DEF TunnelOpens
<1> DEFINE c == txn[t].conn
<1>1. c \in Conns /\ mode[c] = "connecting"
  BY DEF IInv, ScopesAreWhole, InFlight
<1>2. /\ mode' \in [Conns -> {"none", "http", "connecting", "tls", "ws", "dead", "closed"}]
      /\ mode'[c] = "tls" /\ \A d \in Conns : d # c => mode'[d] = mode[d]
  BY <1>1 DEF IInv, TypeOK
<1>3. TypeOK' /\ FirstIsAlone' /\ IdleIsForgotten'
  BY <1>2 DEF IInv, TypeOK, FirstIsAlone, IdleIsForgotten, OnConn
<1>4. ScopesAreWhole' /\ IdsAreShared' /\ PlainBeforeOthers'
  BY <1>1, <1>2 DEF IInv, ScopesAreWhole, IdsAreShared, PlainBeforeOthers
<1>5. IndexIsOpen' /\ TunnelIsActive' /\ LifecycleIsInFlight' /\ NothingLeftBehind'
  BY <1>1, <1>2 DEF IInv, IndexIsOpen, TunnelIsActive, LifecycleIsInFlight, NothingLeftBehind, OnConn
<1> QED
  BY <1>3, <1>4, <1>5 DEF IInv

-----------------------------------------------------------------------------
(* The theorems *)

LEMMA InitEstablishes == Init => IInv
<1> SUFFICES ASSUME Init PROVE IInv
  OBVIOUS
<1> USE DEF Init
<1>1. TypeOK
  BY FreshIsAScope DEF TypeOK, Names
<1>2. \A t \in Txns : txn[t] = Fresh /\ txn[t].st = "none" /\ txn[t].kind = "none"
                      /\ txn[t].conn = NoTxn
  BY DEF Fresh
<1>3. ScopesAreWhole /\ IndexIsOpen /\ IdsAreShared /\ PlainBeforeOthers
  BY <1>2 DEF ScopesAreWhole, IndexIsOpen, IdsAreShared, PlainBeforeOthers
<1>4. TunnelIsActive /\ IdleIsForgotten /\ LifecycleIsInFlight
  BY <1>2 DEF TunnelIsActive, IdleIsForgotten, LifecycleIsInFlight
<1>5. FirstIsAlone /\ NothingLeftBehind
  BY <1>2 DEF FirstIsAlone, NothingLeftBehind
<1> QED
  BY <1>1, <1>3, <1>4, <1>5 DEF IInv

LEMMA StepKeeps == IInv /\ [Next]_vars => IInv'
<1> SUFFICES ASSUME IInv, [Next]_vars PROVE IInv'
  OBVIOUS
<1>1. ASSUME NEW c \in Conns, ConnectionOpens(c) PROVE IInv'
  BY <1>1, ConnectionOpensKeeps
<1>2. ASSUME NEW c \in Conns, SocketCloses(c) PROVE IInv'
  BY <1>2, SocketClosesKeeps
<1>3. ASSUME NEW c \in Conns, NEW t \in Txns, Request(c, t) PROVE IInv'
  <2>1. "plain" \in AllKinds /\ mode' = [mode EXCEPT ![c] = "http"]
    BY <1>3 DEF Request, AllKinds, IInv, TypeOK
  <2> QED
    BY <1>3, <2>1, ArrivalOnPlain DEF Request, Arrives
<1>4. ASSUME NEW c \in Conns, NEW t \in Txns, Connect(c, t) PROVE IInv'
  BY <1>4, ArrivalOnPlain DEF Connect, Arrives, AllKinds
<1>5. ASSUME NEW c \in Conns, NEW t \in Txns, DecryptedRequest(c, t) PROVE IInv'
  <2>1. mode' = [mode EXCEPT ![c] = "tls"]
    BY <1>5 DEF DecryptedRequest, IInv, TypeOK
  <2>2. t \in Names
    BY DEF Names
  <2> QED
    BY <1>5, <2>1, <2>2, ArrivalInTunnel DEF DecryptedRequest, Arrives
<1>6. ASSUME NEW c \in Conns, NEW t \in Txns, Upgrade(c, t) PROVE IInv'
  <2>1. CASE mode[c] = "http"
    BY <1>6, <2>1, ArrivalOnPlain DEF Upgrade, Arrives, AllKinds
  <2>2. CASE mode[c] = "tls"
    <3>1. PICK k \in OnConn(c) :
            /\ txn[k].kind = "connect"
            /\ txn' = [txn EXCEPT ![t] = [st |-> "inflight", kind |-> "upgrade", conn |-> c,
                                          id |-> txn[k].id, life |-> txn[k].life]]
      BY <1>6, <2>2 DEF Upgrade
    <3>2. txn[k].st # "none" /\ txn[k].id \in Txns /\ txn[k].id = index[c]
      BY <3>1, <2>2, NamesAssumption
      DEF OnConn, IInv, ScopesAreWhole, Fresh, IdsAreShared
    <3>3. txn[k].life \in Names
      BY DEF OnConn, IInv, TypeOK, Scopes
    <3> QED
      BY <1>6, <2>2, <3>1, <3>2, <3>3, ArrivalInTunnel DEF Upgrade, Arrives
  <2> QED
    BY <1>6, <2>1, <2>2 DEF Upgrade
<1>7. ASSUME NEW t \in Txns, TunnelOpens(t) PROVE IInv'
  BY <1>7, TunnelOpensKeeps
<1>8. ASSUME NEW t \in Txns, Finishes(t) \/ ResponseCloses(t) \/ Unwinds(t) PROVE IInv'
  <2>1. mode' = [mode EXCEPT ![txn[t].conn] = mode[txn[t].conn]] /\ txn[t].st # "none"
    BY <1>8 DEF Finishes, ResponseCloses, Unwinds, InFlight, IInv, TypeOK
  <2>2. txn[t].st = "unwinding" =>
          mode[txn[t].conn] = "closed" /\ txn[t].kind \in {"connect", "upgrade"}
    BY DEF IInv, ScopesAreWhole
  <2>3. CASE Finishes(t)
    BY <2>1, <2>3, EndKeeps DEF Finishes
  <2>4. CASE ResponseCloses(t)
    BY <2>1, <2>4, EndKeeps DEF ResponseCloses
  <2>5. CASE Unwinds(t)
    BY <2>1, <2>2, <2>5, EndKeeps DEF Unwinds
  <2> QED
    BY <1>8, <2>3, <2>4, <2>5
<1>9. ASSUME NEW t \in Txns, TearsDown(t) \/ IsLeft(t) PROVE IInv'
  <2>1. /\ txn[t].st # "none" /\ txn[t].kind \in {"connect", "upgrade"}
        /\ mode[txn[t].conn] \in {"connecting", "ws"}
    BY <1>9 DEF TearsDown, IsLeft, InFlight, Handling
  <2>2. CASE TearsDown(t)
    BY <2>1, <2>2, EndKeeps DEF TearsDown
  <2>3. CASE IsLeft(t)
    BY <2>1, <2>3, EndKeeps DEF IsLeft
  <2> QED
    BY <1>9, <2>2, <2>3
<1>10. CASE UNCHANGED vars
  BY <1>10 DEF vars, IInv, TypeOK, ScopesAreWhole, IndexIsOpen, IdsAreShared,
    PlainBeforeOthers, TunnelIsActive, IdleIsForgotten, LifecycleIsInFlight, FirstIsAlone,
    NothingLeftBehind, OnConn
<1> QED
  BY <1>1, <1>2, <1>3, <1>4, <1>5, <1>6, <1>7, <1>8, <1>9, <1>10 DEF Next

\* The invariant, whatever the clients ask for, pipelined or not, and however their
\* sockets close.
THEOREM TrackingInductive == Spec => []IInv
<1>1. Init => IInv
  BY InitEstablishes
<1>2. IInv /\ [Next]_vars => IInv'
  BY StepKeeps
<1> QED
  BY <1>1, <1>2, PTL DEF Spec

\* The indexes hold names of transactions and sockets.
THEOREM TrackingTypeCorrect == Spec => []TypeOK
<1>1. IInv => TypeOK
  BY DEF IInv
<1> QED
  BY <1>1, TrackingInductive, PTL

LEMMA InvariantTracksFirst == IInv => FirstIsTracked
<1> SUFFICES ASSUME IInv, NEW t \in Txns
             PROVE  /\ InFlight(t) /\ txn[t].kind = "plain" /\ OnConn(txn[t].conn) = {t}
                         => txn[t].id \in activeRequests
                    /\ InFlight(t) /\ txn[t].kind = "decrypted" /\ mode[txn[t].conn] = "tls"
                         => \/ index[txn[t].conn] \in activeRequests
                            \/ \E k \in OnConn(txn[t].conn) : txn[k].kind = "plain"
  BY DEF FirstIsTracked
<1>1. InFlight(t) => txn[t].conn \in Conns
  BY DEF IInv, ScopesAreWhole, InFlight
<1>2. OnConn(txn[t].conn) = {t} => \A s \in Txns : txn[s].conn = txn[t].conn => s = t
  BY DEF OnConn
<1>3. InFlight(t) /\ txn[t].kind = "plain" /\ OnConn(txn[t].conn) = {t}
        => txn[t].id \in activeRequests
  BY <1>2 DEF IInv, FirstIsAlone, InFlight
<1>4. InFlight(t) /\ mode[txn[t].conn] = "tls"
        => \/ index[txn[t].conn] \in activeRequests
           \/ \E k \in OnConn(txn[t].conn) : txn[k].kind = "plain"
  BY <1>1 DEF IInv, TunnelIsActive
<1> QED
  BY <1>3, <1>4

\* The drain of stop() sees the first request of a connection and the requests inside
\* its tunnel.
THEOREM DrainSeesFirst == Spec => []FirstIsTracked
  BY InvariantTracksFirst, TrackingInductive, PTL

\* Connections with plain requests only leave nothing in the indexes.
THEOREM PlainLeavesNothing == Spec => []NothingLeftBehind
<1>1. IInv => NothingLeftBehind
  BY DEF IInv
<1> QED
  BY <1>1, TrackingInductive, PTL

-----------------------------------------------------------------------------
\* What LifecycleNotInherited says of a step.
NotInherited ==
  \A t \in Txns :
    txn[t].st = "none" /\ txn'[t].kind = "plain" /\ txn'[t].life # t
      => txn[txn'[t].life].st = "inflight"

LEMMA StepInheritsNothing == IInv /\ [Next]_vars => NotInherited
<1> SUFFICES ASSUME IInv, [Next]_vars, NEW t \in Txns, txn[t].st = "none",
                    txn'[t].kind = "plain", txn'[t].life # t
             PROVE  txn[txn'[t].life].st = "inflight"
  BY DEF NotInherited
<1>1. txn[t].kind = "none" /\ txn[t].conn = NoTxn
  BY DEF IInv, ScopesAreWhole, Fresh
<1>2. ASSUME NEW c \in Conns, NEW s \in Txns, NEW kind \in AllKinds, txn[s].st = "none",
             mode[c] = "http", GetOrCreateScope(c, s, kind)
      PROVE  txn[txn'[t].life].st = "inflight"
  <2>1. PICK id \in Txns, life \in Txns :
           /\ id = IF index[c] = NoTxn THEN s ELSE index[c]
           /\ life = IF lifecycles[id] = NoTxn THEN s ELSE lifecycles[id]
           /\ index' = [index EXCEPT ![c] = id]
           /\ activeRequests' = IF index[c] = NoTxn THEN activeRequests \cup {id}
                                ELSE activeRequests
           /\ lifecycles' = [lifecycles EXCEPT ![id] = life]
           /\ txn' = [txn EXCEPT ![s] = [st |-> "inflight", kind |-> kind, conn |-> c,
                                         id |-> id, life |-> life]]
    BY <1>2, ScopeMade
  <2>2. t = s /\ txn'[t].life = life
    BY <1>1, <2>1 DEF IInv, TypeOK
  <2>3. lifecycles[s] = NoTxn
    BY <1>2 DEF IInv, ScopesAreWhole
  <2>4. index[c] # NoTxn /\ lifecycles[index[c]] = life /\ life # NoTxn
    BY <2>1, <2>2, <2>3, NamesAssumption
  <2> QED
    BY <1>2, <2>2, <2>4 DEF IInv, LifecycleIsInFlight
<1>3. ASSUME NEW c \in Conns, NEW s \in Txns, Request(c, s) \/ Connect(c, s)
      PROVE  txn[txn'[t].life].st = "inflight"
  BY <1>2, <1>3 DEF Request, Connect, Arrives, AllKinds
<1>4. ASSUME NEW c \in Conns, NEW s \in Txns, DecryptedRequest(c, s)
      PROVE  FALSE
  BY <1>1, <1>4 DEF DecryptedRequest, IInv, TypeOK
<1>5. ASSUME NEW c \in Conns, NEW s \in Txns, Upgrade(c, s)
      PROVE  txn[txn'[t].life].st = "inflight"
  <2>1. CASE mode[c] = "http"
    BY <1>2, <1>5, <2>1 DEF Upgrade, Arrives, AllKinds
  <2>2. CASE mode[c] = "tls"
    BY <1>1, <1>5, <2>2 DEF Upgrade, IInv, TypeOK
  <2> QED
    BY <1>5, <2>1, <2>2 DEF Upgrade
<1>6. ASSUME NEW c \in Conns, ConnectionOpens(c) \/ SocketCloses(c)
      PROVE  FALSE
  <2>1. CASE ConnectionOpens(c)
    BY <1>1, <2>1 DEF ConnectionOpens
  <2>2. ASSUME NEW heard, Closing(c, heard)
        PROVE  FALSE
    BY <1>1, <2>2 DEF Closing, At
  <2> QED
    BY <1>6, <2>1, <2>2 DEF SocketCloses
<1>7. ASSUME NEW s \in Txns, NEW st \in {"finished", "closed"}, Ends(s, st)
      PROVE  FALSE
  BY <1>1, <1>7, EndsKeeps DEF IInv
<1>8. ASSUME NEW s \in Txns, \/ TunnelOpens(s) \/ Finishes(s) \/ ResponseCloses(s)
                             \/ TearsDown(s) \/ IsLeft(s) \/ Unwinds(s)
      PROVE  FALSE
  BY <1>1, <1>7, <1>8
  DEF TunnelOpens, Finishes, ResponseCloses, TearsDown, IsLeft, Unwinds
<1>9. CASE UNCHANGED vars
  BY <1>1, <1>9 DEF vars
<1> QED
  BY <1>3, <1>4, <1>5, <1>6, <1>8, <1>9 DEF Next

\* The flags of one request reach the next on its connection only while it is in flight.
THEOREM LifecyclesAreOwn == Spec => LifecycleNotInherited
<1>1. IInv /\ [Next]_vars => [NotInherited]_vars
  BY StepInheritsNothing
<1>2. [][NotInherited]_vars => LifecycleNotInherited
  BY PTL DEF LifecycleNotInherited, NotInherited
<1> QED
  BY <1>1, <1>2, TrackingInductive, PTL DEF Spec

-----------------------------------------------------------------------------
(* The server: the inductive invariant *)

\* Until ForceClose the requests are tracked as in RequestTracking; after it the
\* sockets that are left only wait for their "close" events.
Serving == stop \in {"none", "drained", "draining"}
Destroyed == stop \in {"awaitClose", "cleanup", "resolved", "rejected"}

\* Only a server that listens is stopped, and it never listens again.
ProxyInv ==
  /\ Serving \/ Destroyed
  /\ listening => listen \in {"bound", "callback", "up"}
  /\ stop # "none" => ~listening /\ listen \notin {"idle", "init", "bindError"}

OpenWhileInFlight == \A t \in Txns : InFlight(t) => txn[t].conn \in OpenSockets

Quiet ==
  /\ \A c \in Conns : mode[c] \in {"none", "dead", "closed"}
  /\ activeRequests = {} /\ activeSockets = {}
  /\ stop # "awaitClose" => OpenSockets = {}

ServerInv ==
  /\ TypeOK /\ ProxyInv /\ OpenWhileInFlight
  /\ Serving => IInv
  /\ Destroyed => Quiet

\* The steps that the tracking of requests takes on its own.
Tracks ==
  /\ UNCHANGED proxyVars
  /\ [Next]_vars

-----------------------------------------------------------------------------
(* Steps of the Proxy *)

LEMMA ForceCloseDestroys ==
  ASSUME ProxyInv, ForceClose
  PROVE  ProxyInv' /\ Serving /\ stop # "none" /\ stop' = "awaitClose"
  BY DEF ForceClose, Proxy!ForceClose, Proxy!Draining, Proxy!listenVars, ProxyInv, Serving,
    Destroyed

\* The proxy does not leave its state of destruction, and enters it by ForceClose only.
ProxyGoesOn ==
  /\ ProxyInv'
  /\ Destroyed' <=> Destroyed
  /\ Destroyed /\ stop' # "awaitClose" => stop # "awaitClose" \/ OpenSockets = {}
  /\ stop' = "awaitClose" => stop = "awaitClose"

LEMMA ProxyStepsGoOn ==
  ASSUME ProxyInv, ProxySteps
  PROVE  ProxyGoesOn
<1> USE DEF ProxyInv, Serving, Destroyed, ProxyGoesOn
<1>1. ASSUME NEW p \in Plugins, Proxy!Use(p) \/ Proxy!Unuse(p)
      PROVE  UNCHANGED <<stop, listen, listening>>
  BY <1>1 DEF Proxy!Use, Proxy!Unuse, Proxy!listenVars, Proxy!stopVars, Proxy!server
<1>2. CASE Proxy!Listen
  BY <1>2 DEF Proxy!Listen, Proxy!MayConfigure, Proxy!server
<1>3. CASE Proxy!Stop \/ Proxy!Signal
  BY <1>3 DEF Proxy!Stop, Proxy!Signal, Proxy!StopOrReturn, Proxy!StopInternal,
    Proxy!ReturnAtOnce, Proxy!listenVars
<1>4. CASE Proxy!ListenSteps
  <2> USE DEF Proxy!stopVars, Proxy!server, Proxy!ListenFails
  <2>1. CASE Proxy!PluginInitReturns \/ Proxy!PluginInitThrows
    BY <2>1 DEF Proxy!PluginInitReturns, Proxy!PluginInitThrows
  <2>2. CASE Proxy!BindServer \/ Proxy!BindErrorEvent \/ Proxy!ListeningEvent
    BY <2>2 DEF Proxy!BindServer, Proxy!BindErrorEvent, Proxy!ListeningEvent
  <2>3. CASE Proxy!CallbackReturns \/ Proxy!CallbackThrows
    BY <2>3 DEF Proxy!CallbackReturns, Proxy!CallbackThrows
  <2>4. CASE Proxy!CloseAfterCallbackError \/ Proxy!ListenCleanupReturns
    BY <2>4 DEF Proxy!CloseAfterCallbackError, Proxy!ListenCleanupReturns,
      Proxy!ServerClosed
  <2> QED
    BY <1>4, <2>1, <2>2, <2>3, <2>4 DEF Proxy!ListenSteps
<1>5. CASE Proxy!StopCleansUp
  BY <1>5 DEF Proxy!StopCleansUp, Proxy!StopSettles, Proxy!ServerClosed,
    Proxy!listenVars, Proxy!server
<1>6. ASSUME NEW ok \in BOOLEAN, Proxy!StopCleanupReturns(ok)
      PROVE  /\ stop = "cleanup" /\ stop' \in {"cleanup", "resolved", "rejected"}
             /\ UNCHANGED <<listen, listening>>
  BY <1>6 DEF Proxy!StopCleanupReturns, Proxy!StopSettles, Proxy!listenVars, Proxy!server
<1>7. CASE UNCHANGED <<stop, listen, listening>>
  BY <1>7
<1> QED
  BY <1>1, <1>2, <1>3, <1>4, <1>5, <1>6, <1>7 DEF ProxySteps

-----------------------------------------------------------------------------
(* Steps of the transactions *)

\* What ProxyLifecycle sees of them: a request more or a request less.
ActiveByOne ==
  \/ UNCHANGED activeRequests
  \/ /\ Serving /\ OpenSockets # {}
     /\ \E r \in Txns : r \notin activeRequests /\ activeRequests' = activeRequests \cup {r}
  \/ \E r \in Txns : r \in activeRequests /\ activeRequests' = activeRequests \ {r}

Maps == UNCHANGED OpenSockets /\ ActiveByOne /\ OpenWhileInFlight'

LEMMA OpenStaysOpen ==
  ASSUME TypeOK, NEW c \in OpenSockets, NEW m, m \notin {"none", "closed"},
         mode' = [mode EXCEPT ![c] = m]
  PROVE  UNCHANGED OpenSockets
  BY DEF OpenSockets, TypeOK

\* A transaction that arrives on c.
LEMMA ArrivalIsOpen ==
  ASSUME TypeOK, OpenWhileInFlight, UNCHANGED OpenSockets, NEW t \in Txns,
         NEW c \in OpenSockets, NEW r, r.conn = c, txn' = [txn EXCEPT ![t] = r]
  PROVE  OpenWhileInFlight'
  BY DEF OpenWhileInFlight, InFlight, TypeOK

LEMMA ServesWhileInUse ==
  ASSUME ServerInv, NEW c \in Conns, mode[c] \notin {"none", "dead", "closed"}
  PROVE  Serving /\ IInv /\ c \in OpenSockets
  BY DEF ServerInv, ProxyInv, Quiet, OpenSockets

LEMMA PlainArrivalMaps ==
  ASSUME ServerInv, NEW c \in Conns, NEW t \in Txns, NEW kind \in AllKinds,
         Arrives(t, kind), mode[c] = "http", GetOrCreateScope(c, t, kind),
         NEW m \in {"http", "connecting", "ws"}, mode' = [mode EXCEPT ![c] = m]
  PROVE  Maps
<1>1. Serving /\ IInv /\ c \in OpenSockets
  BY ServesWhileInUse
<1>2. UNCHANGED OpenSockets
  BY <1>1, OpenStaysOpen DEF ServerInv
<1>3. OpenWhileInFlight'
  <2> DEFINE id == IF index[c] = NoTxn THEN t ELSE index[c]
             r == [st |-> "inflight", kind |-> kind, conn |-> c, id |-> id,
                   life |-> IF lifecycles[id] = NoTxn THEN t ELSE lifecycles[id]]
  <2>1. r.conn = c /\ txn' = [txn EXCEPT ![t] = r]
    BY DEF GetOrCreateScope
  <2> HIDE DEF r
  <2> QED
    BY <1>1, <1>2, <2>1, ArrivalIsOpen DEF ServerInv
<1>4. ActiveByOne
  <2>1. index[c] = NoTxn => activeRequests' = activeRequests \cup {t}
    BY DEF GetOrCreateScope
  <2>2. index[c] # NoTxn => UNCHANGED activeRequests
    BY DEF GetOrCreateScope
  <2>3. t \in activeRequests => activeRequests \cup {t} = activeRequests
    OBVIOUS
  <2> QED
    BY <1>1, <2>1, <2>2, <2>3 DEF ActiveByOne
<1> QED
  BY <1>2, <1>3, <1>4 DEF Maps

LEMMA TunnelArrivalMaps ==
  ASSUME ServerInv, NEW c \in Conns, NEW t \in Txns, mode[c] = "tls",
         NEW r, r.conn = c, txn' = [txn EXCEPT ![t] = r], UNCHANGED activeRequests,
         NEW m \in {"tls", "ws"}, mode' = [mode EXCEPT ![c] = m]
  PROVE  Maps
<1>1. Serving /\ IInv /\ c \in OpenSockets
  BY ServesWhileInUse
<1>2. UNCHANGED OpenSockets
  BY <1>1, OpenStaysOpen DEF ServerInv
<1>3. OpenWhileInFlight'
  BY <1>1, <1>2, ArrivalIsOpen DEF ServerInv
<1> QED
  BY <1>2, <1>3 DEF Maps, ActiveByOne

\* The end of a transaction whose socket stays, or is destroyed.
LEMMA EndMaps ==
  ASSUME ServerInv, NEW t \in Txns, NEW st \in {"finished", "closed"}, Ends(t, st),
         DestroyRequestLifecycle({txn[t].id}) \/ UNCHANGED <<activeRequests, lifecycles>>,
         \/ UNCHANGED mode
         \/ /\ txn[t].conn \in OpenSockets
            /\ mode' = [mode EXCEPT ![txn[t].conn] = "dead"]
  PROVE  Maps
<1>1. UNCHANGED OpenSockets
  <2>1. CASE UNCHANGED mode
    BY <2>1 DEF OpenSockets
  <2>2. CASE /\ txn[t].conn \in OpenSockets
             /\ mode' = [mode EXCEPT ![txn[t].conn] = "dead"]
    <3>1. PICK c \in OpenSockets : mode' = [mode EXCEPT ![c] = "dead"]
      BY <2>2
    <3> QED
      BY <3>1, OpenStaysOpen DEF ServerInv
  <2> QED
    BY <2>1, <2>2
<1>2. OpenWhileInFlight'
  <2>1. txn'[t].st # "inflight"
    BY EndsKeeps DEF ServerInv
  <2>2. \A s \in Txns : s # t => txn'[s] = txn[s]
    BY EndsKeeps DEF ServerInv
  <2> QED
    BY <1>1, <2>1, <2>2 DEF ServerInv, OpenWhileInFlight, InFlight
<1>3. ActiveByOne
  <2>1. CASE UNCHANGED activeRequests
    BY <2>1 DEF ActiveByOne
  <2>2. CASE activeRequests' = activeRequests \ {txn[t].id}
    <3>1. CASE txn[t].id \in activeRequests
      BY <2>2, <3>1 DEF ActiveByOne, ServerInv, TypeOK
    <3>2. CASE txn[t].id \notin activeRequests
      BY <2>2, <3>2 DEF ActiveByOne
    <3> QED
      BY <3>1, <3>2
  <2> QED
    BY <2>1, <2>2 DEF DestroyRequestLifecycle
<1> QED
  BY <1>1, <1>2, <1>3 DEF Maps

LEMMA TransactionsMap ==
  ASSUME ServerInv, Transactions
  PROVE  Maps
<1>1. ASSUME NEW c \in Conns, NEW t \in Txns, Request(c, t)
      PROVE  Maps
  <2>1. mode' = [mode EXCEPT ![c] = "http"]
    BY <1>1 DEF Request, ServerInv, TypeOK
  <2> QED
    BY <1>1, <2>1, PlainArrivalMaps DEF Request, AllKinds
<1>2. ASSUME NEW c \in Conns, NEW t \in Txns, Connect(c, t)
      PROVE  Maps
  BY <1>2, PlainArrivalMaps DEF Connect, AllKinds
<1>3. ASSUME NEW c \in Conns, NEW t \in Txns, DecryptedRequest(c, t)
      PROVE  Maps
  <2>1. mode' = [mode EXCEPT ![c] = "tls"]
    BY <1>3 DEF DecryptedRequest, ServerInv, TypeOK
  <2> QED
    BY <1>3, <2>1, TunnelArrivalMaps DEF DecryptedRequest
<1>4. ASSUME NEW c \in Conns, NEW t \in Txns, Upgrade(c, t)
      PROVE  Maps
  <2>1. CASE mode[c] = "http"
    BY <1>4, <2>1, PlainArrivalMaps DEF Upgrade, AllKinds
  <2>2. CASE mode[c] = "tls"
    BY <1>4, <2>2, TunnelArrivalMaps DEF Upgrade
  <2> QED
    BY <1>4, <2>1, <2>2 DEF Upgrade
<1>5. ASSUME NEW t \in Txns, TunnelOpens(t)
      PROVE  Maps
  <2>1. txn[t].conn \in OpenSockets
    BY <1>5 DEF TunnelOpens, ServerInv, OpenWhileInFlight
  <2>2. UNCHANGED OpenSockets
    <3>1. PICK c \in OpenSockets : mode' = [mode EXCEPT ![c] = "tls"]
      BY <1>5, <2>1 DEF TunnelOpens
    <3> QED
      BY <3>1, OpenStaysOpen DEF ServerInv
  <2> QED
    BY <1>5, <2>2 DEF TunnelOpens, Maps, ActiveByOne, ServerInv, OpenWhileInFlight, InFlight
<1>6. ASSUME NEW t \in Txns, Finishes(t) \/ ResponseCloses(t) \/ Unwinds(t)
      PROVE  Maps
  BY <1>6, EndMaps DEF Finishes, ResponseCloses, Unwinds
<1>7. ASSUME NEW t \in Txns, TearsDown(t) \/ IsLeft(t)
      PROVE  Maps
  <2>1. txn[t].conn \in OpenSockets
    BY <1>7 DEF TearsDown, IsLeft, ServerInv, OpenWhileInFlight
  <2> QED
    BY <1>7, <2>1, EndMaps DEF TearsDown, IsLeft
<1> QED
  BY <1>1, <1>2, <1>3, <1>4, <1>5, <1>6, <1>7 DEF Transactions

-----------------------------------------------------------------------------
(* Sockets *)

LEMMA OpensMaps ==
  ASSUME ServerInv, NEW c \in Conns, Opens(c)
  PROVE  /\ c \notin OpenSockets /\ OpenSockets' = OpenSockets \cup {c}
         /\ UNCHANGED activeRequests
         /\ OpenWhileInFlight'
<1> USE DEF Opens, ConnectionOpens
<1>1. c \notin OpenSockets /\ OpenSockets' = OpenSockets \cup {c}
  BY DEF OpenSockets, ServerInv, TypeOK
<1> QED
  BY <1>1 DEF ServerInv, OpenWhileInFlight, InFlight

LEMMA ClosesMaps ==
  ASSUME ServerInv, NEW c \in Conns, Closes(c)
  PROVE  /\ c \in OpenSockets /\ OpenSockets' = OpenSockets \ {c}
         /\ activeRequests' \in SUBSET activeRequests
         /\ OpenWhileInFlight'
<1> USE DEF Closes, SocketCloses, Closing
<1>1. c \in OpenSockets /\ OpenSockets' = OpenSockets \ {c}
  BY DEF OpenSockets, ServerInv, TypeOK
<1>2. ASSUME NEW t \in Txns, InFlight(t)'
      PROVE  txn'[t].conn \in OpenSockets'
  <2>1. t \notin OnConn(c) /\ txn'[t] = txn[t]
    BY <1>2 DEF InFlight, At
  <2> QED
    BY <1>1, <1>2, <2>1 DEF ServerInv, OpenWhileInFlight, InFlight, OnConn
<1> QED
  BY <1>1, <1>2 DEF DestroyRequestLifecycle, OpenWhileInFlight

-----------------------------------------------------------------------------
(* The server: the invariant is inductive *)

\* After ForceClose no step opens, accepts or tracks anything.
LEMMA QuietStays ==
  ASSUME ServerInv, Destroyed, Transactions \/ \E c \in Conns : Opens(c) \/ Closes(c)
  PROVE  TypeOK' /\ Quiet'
<1>1. Quiet /\ ~listening /\ TypeOK
  BY DEF ServerInv, ProxyInv, Destroyed
<1>2. ASSUME NEW t \in Txns, NEW st \in {"finished", "closed"}, Ends(t, st),
             DestroyRequestLifecycle({txn[t].id}) \/ UNCHANGED <<activeRequests, lifecycles>>,
             UNCHANGED <<mode, index, activeSockets, proxyVars>>
      PROVE  TypeOK' /\ Quiet'
  <2>1. txn' \in [Txns -> Scopes]
    BY <1>1, <1>2, EndsKeeps
  <2>2. lifecycles' \in [Txns -> Names] /\ activeRequests' = {}
    BY <1>1, <1>2 DEF DestroyRequestLifecycle, TypeOK, Quiet, Names
  <2> QED
    BY <1>1, <1>2, <2>1, <2>2 DEF TypeOK, Quiet, OpenSockets, proxyVars
<1>3. ASSUME NEW c \in Conns, Closes(c)
      PROVE  TypeOK' /\ Quiet'
  <2>0. PICK heard : Closing(c, heard) /\ UNCHANGED proxyVars
    BY <1>3 DEF Closes, SocketCloses
  <2> USE DEF Closing
  <2>1. txn' \in [Txns -> Scopes]
    BY <1>1, <2>0 DEF TypeOK, At, Scopes
  <2>2. /\ lifecycles' \in [Txns -> Names] /\ activeRequests' = {} /\ activeSockets' = {}
        /\ index' \in [Conns -> Names]
    BY <1>1, <2>0 DEF DestroyRequestLifecycle, TypeOK, Quiet, Names
  <2>3. /\ mode' \in [Conns -> {"none", "http", "connecting", "tls", "ws", "dead", "closed"}]
        /\ \A d \in Conns : mode'[d] \in {"none", "dead", "closed"}
    BY <1>1, <2>0 DEF TypeOK, Quiet
  <2>4. OpenSockets' \subseteq OpenSockets /\ UNCHANGED stop
    BY <1>3, <2>0, ClosesMaps DEF proxyVars
  <2> QED
    BY <1>1, <2>1, <2>2, <2>3, <2>4 DEF TypeOK, Quiet
<1>4. ASSUME NEW c \in Conns
      PROVE  /\ ~Opens(c)
             /\ \A t \in Txns : /\ ~Request(c, t) /\ ~Connect(c, t)
                                /\ ~DecryptedRequest(c, t) /\ ~Upgrade(c, t)
  BY <1>1 DEF Opens, Request, Connect, DecryptedRequest, Upgrade, Quiet
<1>5. ASSUME NEW t \in Txns
      PROVE  ~TunnelOpens(t) /\ ~TearsDown(t) /\ ~IsLeft(t)
  <2>1. InFlight(t) => mode[txn[t].conn] \in {"dead"}
    BY <1>1 DEF ServerInv, OpenWhileInFlight, OpenSockets, Quiet
  <2> QED
    BY <2>1 DEF TunnelOpens, TearsDown, IsLeft, Handling
<1>6. ASSUME NEW t \in Txns, Finishes(t) \/ ResponseCloses(t) \/ Unwinds(t),
             UNCHANGED proxyVars
      PROVE  TypeOK' /\ Quiet'
  BY <1>2, <1>6 DEF Finishes, ResponseCloses, Unwinds
<1> QED
  BY <1>3, <1>4, <1>5, <1>6 DEF Transactions

LEMMA ForceCloseKeeps ==
  ASSUME ServerInv, ForceClose
  PROVE  ServerInv'
<1>1. TypeOK'
  BY DEF ForceClose, DestroyAll, ServerInv, TypeOK, OpenSockets, Names
<1>2. ProxyInv' /\ stop' = "awaitClose"
  BY ForceCloseDestroys DEF ServerInv
<1>3. UNCHANGED OpenSockets
  BY DEF ForceClose, DestroyAll, OpenSockets, ServerInv, TypeOK
<1>4. OpenWhileInFlight'
  BY <1>3 DEF ForceClose, DestroyAll, ServerInv, OpenWhileInFlight, InFlight
<1>5. Quiet'
  BY <1>2 DEF ForceClose, DestroyAll, OpenSockets, ServerInv, TypeOK, Quiet
<1> QED
  BY <1>1, <1>2, <1>4, <1>5 DEF ServerInv, Serving, Destroyed

LEMMA ServerInvInductive == ServerInv /\ [ServerNext]_<<vars, proxyVars>> => ServerInv'
<1> SUFFICES ASSUME ServerInv, [ServerNext]_<<vars, proxyVars>> PROVE ServerInv'
  OBVIOUS
<1>1. CASE ProxySteps
  <2>1. ProxyGoesOn
    BY <1>1, ProxyStepsGoOn DEF ServerInv
  <2>2. TypeOK' /\ OpenWhileInFlight' /\ UNCHANGED OpenSockets
    BY <1>1 DEF ProxySteps, vars, ServerInv, TypeOK, OpenWhileInFlight, InFlight, OpenSockets
  <2>3. IInv => IInv'
    BY <1>1, StepKeeps DEF ProxySteps
  <2>4. Destroyed /\ Quiet => Quiet'
    BY <1>1, <2>1, <2>2 DEF ProxySteps, vars, Quiet, ProxyGoesOn
  <2> QED
    BY <2>1, <2>2, <2>3, <2>4 DEF ServerInv, ProxyGoesOn, ProxyInv, Serving, Destroyed
<1>2. CASE ForceClose
  BY <1>2, ForceCloseKeeps
<1>3. CASE Transactions \/ \E c \in Conns : Opens(c) \/ Closes(c)
  <2>1. OpenWhileInFlight'
    <3>1. CASE Transactions
      BY <3>1, TransactionsMap DEF Maps
    <3>2. CASE \E c \in Conns : Opens(c) \/ Closes(c)
      BY <3>2, OpensMaps, ClosesMaps
    <3> QED
      BY <1>3, <3>1, <3>2
  <2>2. UNCHANGED <<Serving, Destroyed, ProxyInv>>
    BY <1>3 DEF Transactions, Opens, Closes, proxyVars, Serving, Destroyed, ProxyInv
  <2>3. Next
    BY <1>3 DEF Transactions, Opens, Closes, Next
  <2>4. CASE Serving
    <3>1. IInv'
      BY <2>3, <2>4, StepKeeps DEF ServerInv
    <3> QED
      BY <2>1, <2>2, <2>4, <3>1 DEF ServerInv, Serving, Destroyed, IInv
  <2>5. CASE Destroyed
    BY <1>3, <2>1, <2>2, <2>5, QuietStays DEF ServerInv, Serving, Destroyed
  <2> QED
    BY <2>4, <2>5 DEF ServerInv, ProxyInv
<1>4. CASE UNCHANGED <<vars, proxyVars>>
  BY <1>4 DEF vars, proxyVars, ServerInv, ProxyInv, Serving, Destroyed, Quiet, IInv, TypeOK,
    ScopesAreWhole, IndexIsOpen, IdsAreShared, PlainBeforeOthers, TunnelIsActive,
    IdleIsForgotten, LifecycleIsInFlight, FirstIsAlone, NothingLeftBehind, OnConn,
    OpenWhileInFlight, InFlight, OpenSockets
<1> QED
  BY <1>1, <1>2, <1>3, <1>4 DEF ServerNext

-----------------------------------------------------------------------------
(* The server: the theorems *)

LEMMA ServerInitEstablishes == ServerInit => ServerInv
<1> SUFFICES ASSUME ServerInit PROVE ServerInv
  OBVIOUS
<1>1. IInv
  BY InitEstablishes DEF ServerInit
<1>2. OpenWhileInFlight
  BY DEF ServerInit, Init, OpenWhileInFlight, InFlight, Fresh
<1>3. ProxyInv /\ Serving /\ ~Destroyed
  BY DEF ServerInit, Proxy!Init, ProxyInv, Serving, Destroyed
<1> QED
  BY <1>1, <1>2, <1>3 DEF ServerInv, IInv

\* While stop() lets requests drain they are tracked as if nobody stopped the server;
\* after it has destroyed what was left, nothing comes back.
THEOREM ServerInductive == ServerSpec => []ServerInv
  BY ServerInitEstablishes, ServerInvInductive, PTL DEF ServerSpec

\* A stop() that has settled leaves nothing tracked, in flight or open.
THEOREM StopLeavesNothing == ServerSpec => []StoppedIsIdle
<1>1. ServerInv => StoppedIsIdle
  BY DEF ServerInv, Destroyed, Quiet, OpenWhileInFlight, StoppedIsIdle
<1> QED
  BY <1>1, ServerInductive, PTL

-----------------------------------------------------------------------------
\* What FirstRequestIsWaitedFor says of a step.
FirstIsWaitedFor ==
  \A t \in Txns :
     \/ OnConn(txn[t].conn) = {t} /\ txn[t].kind = "plain"
     \/ /\ txn[t].kind = "decrypted" /\ mode[txn[t].conn] = "tls"
        /\ \A k \in OnConn(txn[t].conn) : txn[k].kind # "plain"
     => WaitedFor(t)

LEMMA StepWaits == ServerInv /\ [ServerNext]_<<vars, proxyVars>> => FirstIsWaitedFor
<1> SUFFICES ASSUME ServerInv, [ServerNext]_<<vars, proxyVars>>, NEW t \in Txns,
                    \/ OnConn(txn[t].conn) = {t} /\ txn[t].kind = "plain"
                    \/ /\ txn[t].kind = "decrypted" /\ mode[txn[t].conn] = "tls"
                       /\ \A k \in OnConn(txn[t].conn) : txn[k].kind # "plain",
                    stop # "awaitClose", stop' = "awaitClose", InFlight(t)
             PROVE  activeRequests # {}
  BY DEF FirstIsWaitedFor, WaitedFor
<1>1. ~UNCHANGED proxyVars
  BY DEF proxyVars
<1>2. ~ProxySteps
  BY ProxyStepsGoOn DEF ServerInv, ProxyGoesOn
<1>3. ForceClose
  BY <1>1, <1>2 DEF ServerNext, Opens, Closes, Transactions
<1>4. IInv
  BY <1>3, ForceCloseDestroys DEF ServerInv
<1>5. FirstIsTracked
  BY <1>4, InvariantTracksFirst
<1> QED
  BY <1>5 DEF FirstIsTracked

\* The requests that a promise of the drain reaches do hold it up.
THEOREM DrainWaitsForFirst == ServerSpec => FirstRequestIsWaitedFor
<1>1. ServerInv /\ [ServerNext]_<<vars, proxyVars>> => [FirstIsWaitedFor]_<<vars, proxyVars>>
  BY StepWaits
<1>2. [][FirstIsWaitedFor]_<<vars, proxyVars>> => FirstRequestIsWaitedFor
  BY PTL DEF FirstRequestIsWaitedFor, FirstIsWaitedFor
<1> QED
  BY <1>1, <1>2, ServerInductive, PTL DEF ServerSpec

-----------------------------------------------------------------------------
(* The server implements ProxyLifecycle. *)

LEMMA ServerStepMaps ==
  ServerInv /\ [ServerNext]_<<vars, proxyVars>> => [Proxy!Next]_(Proxy!vars)
<1> SUFFICES ASSUME ServerInv, [ServerNext]_<<vars, proxyVars>>
             PROVE  [Proxy!Next]_(Proxy!vars)
  OBVIOUS
<1> USE DEF Proxy!vars, Proxy!server, Proxy!plugins, Proxy!listenVars, Proxy!stopVars
<1>1. CASE ProxySteps
  BY <1>1 DEF ProxySteps, Proxy!Next, Proxy!StopSteps
<1>2. CASE ForceClose
  BY <1>2 DEF ForceClose, Proxy!Next, Proxy!StopSteps
<1>3. ASSUME NEW c \in Conns, Opens(c)
      PROVE  Proxy!Accept(c)
  BY <1>3, OpensMaps DEF Opens, proxyVars, Proxy!Accept
<1>4. ASSUME NEW c \in Conns, Closes(c)
      PROVE  Proxy!SocketCloses(c)
  BY <1>4, ClosesMaps DEF Closes, proxyVars, Proxy!SocketCloses
<1>5. CASE Transactions
  <2>1. UNCHANGED OpenSockets /\ ActiveByOne /\ UNCHANGED proxyVars
    BY <1>5, TransactionsMap DEF Maps, Transactions
  <2>2. CASE UNCHANGED activeRequests
    BY <2>1, <2>2 DEF proxyVars
  <2>3. ASSUME Serving, OpenSockets # {}, NEW r \in Txns, r \notin activeRequests,
               activeRequests' = activeRequests \cup {r}
        PROVE  Proxy!RequestStarts(r)
    BY <2>1, <2>3 DEF proxyVars, Serving, Proxy!RequestStarts, Proxy!Draining
  <2>4. ASSUME NEW r \in Txns, r \in activeRequests, activeRequests' = activeRequests \ {r}
        PROVE  Proxy!RequestEnds(r)
    BY <2>1, <2>4 DEF proxyVars, Proxy!RequestEnds
  <2> QED
    BY <2>1, <2>2, <2>3, <2>4 DEF ActiveByOne, Proxy!Next, Proxy!Clients
<1>6. CASE UNCHANGED <<vars, proxyVars>>
  BY <1>6 DEF vars, proxyVars, OpenSockets
<1> QED
  BY <1>1, <1>2, <1>3, <1>4, <1>5, <1>6 DEF ServerNext, Proxy!Next, Proxy!Clients

\* What ProxyLifecycle assumes of clients and requests, and so what is proved of it,
\* holds with the sockets and the requests that RequestTracking keeps.
THEOREM ServerImplementsProxy == ServerSpec => KeepsProxyLifecycle
<1>1. ServerInit => Proxy!Init
  BY DEF ServerInit
<1> QED
  BY <1>1, ServerStepMaps, ServerInductive, PTL
  DEF ServerSpec, KeepsProxyLifecycle, Proxy!Spec

-----------------------------------------------------------------------------
(* What is proved of ProxyLifecycle holds of the server. *)

\* Proxy, with the theorems of ProxyLifecycle; those about emissions are not used.
PL == INSTANCE ProxyLifecycleProofs WITH
  Connections <- Conns, Requests <- Txns, open <- OpenSockets, active <- activeRequests,
  Handlers <- {}, running <- {}, client <- <<>>, left <- <<>>

LEMMA SameProxy == Proxy!Spec => PL!Spec
<1> USE DEF Proxy!vars, PL!vars, Proxy!server, PL!server, Proxy!plugins, PL!plugins,
            Proxy!listenVars, PL!listenVars, Proxy!stopVars, PL!stopVars
<1>1. Proxy!Init <=> PL!Init
  BY DEF Proxy!Init, PL!Init
<1>2. \A p \in Plugins : (Proxy!Use(p) <=> PL!Use(p)) /\ (Proxy!Unuse(p) <=> PL!Unuse(p))
  BY DEF Proxy!Use, PL!Use, Proxy!Unuse, PL!Unuse, Proxy!MayConfigure,
         PL!MayConfigure, Proxy!isStarting, PL!isStarting, Proxy!ToSet,
         PL!ToSet, Proxy!RemoveAt, PL!RemoveAt
<1>3. (Proxy!Listen <=> PL!Listen) /\ (Proxy!Stop <=> PL!Stop) /\ (Proxy!Signal <=> PL!Signal)
  BY DEF Proxy!Listen, PL!Listen, Proxy!Stop, PL!Stop, Proxy!Signal,
         PL!Signal, Proxy!MayConfigure, PL!MayConfigure, Proxy!isStarting,
         PL!isStarting, Proxy!StopOrReturn, PL!StopOrReturn,
         Proxy!StopInternal, PL!StopInternal, Proxy!ReturnAtOnce,
         PL!ReturnAtOnce
<1>4. Proxy!ListenSteps <=> PL!ListenSteps
  BY DEF Proxy!ListenSteps, PL!ListenSteps, Proxy!PluginInitReturns,
         PL!PluginInitReturns, Proxy!PluginInitThrows, PL!PluginInitThrows,
         Proxy!BindServer, PL!BindServer, Proxy!BindErrorEvent,
         PL!BindErrorEvent, Proxy!ListeningEvent, PL!ListeningEvent,
         Proxy!CallbackReturns, PL!CallbackReturns, Proxy!CallbackThrows,
         PL!CallbackThrows, Proxy!CloseAfterCallbackError,
         PL!CloseAfterCallbackError, Proxy!ListenCleanupReturns,
         PL!ListenCleanupReturns, Proxy!ListenFails, PL!ListenFails,
         Proxy!TakeInitialized, PL!TakeInitialized, Proxy!Reverse, PL!Reverse,
         Proxy!ServerClosed, PL!ServerClosed
<1>5. Proxy!StopSteps <=> PL!StopSteps
  BY DEF Proxy!StopSteps, PL!StopSteps, Proxy!ForceClose, PL!ForceClose,
         Proxy!Draining, PL!Draining, Proxy!StopCleansUp, PL!StopCleansUp,
         Proxy!StopCleanupReturns, PL!StopCleanupReturns, Proxy!StopSettles,
         PL!StopSettles, Proxy!TakeInitialized, PL!TakeInitialized,
         Proxy!Reverse, PL!Reverse, Proxy!ServerClosed, PL!ServerClosed
<1>6. Proxy!Clients <=> PL!Clients
  BY DEF Proxy!Clients, PL!Clients, Proxy!Accept, PL!Accept,
         Proxy!SocketCloses, PL!SocketCloses, Proxy!RequestStarts,
         PL!RequestStarts, Proxy!RequestEnds, PL!RequestEnds, Proxy!Draining,
         PL!Draining
<1>7. [Proxy!Next]_(Proxy!vars) <=> [PL!Next]_(PL!vars)
  BY <1>2, <1>3, <1>4, <1>5, <1>6 DEF Proxy!Next, PL!Next
<1> QED
  BY <1>1, <1>7, PTL DEF Proxy!Spec, PL!Spec

\* The promises that ProxyLifecycle makes for clients that come and go as they like are
\* kept by the server with its own indexes: hooks are run as PluginLifecycle says, an
\* emission that begins finds its plugins initialised, what is shut down is clean, and a stop() only goes on.
THEOREM ServerKeepsPromises ==
  ServerSpec => /\ PL!HooksKeepContract
                /\ []PL!ObservedAreReady /\ []PL!SettledIsClean
                /\ []PL!SomethingIsDue /\ PL!NeverBack
  BY SameProxy, ServerImplementsProxy, PL!HooksAreKept, PL!ListenersAreReady,
     PL!ShutDownIsClean, PL!StopGoesOn, PTL DEF KeepsProxyLifecycle
=============================================================================
