------------------------- MODULE ResponseCacheProofs -------------------------
(***************************************************************************)
(* Proofs about ResponseCache, for any transactions, requests, pipelined   *)
(* or not, responses and times.                                            *)
(***************************************************************************)
EXTENDS ResponseCache, TLAPS

-----------------------------------------------------------------------------
(* The inductive invariant *)

\* t's response may be cached, by t's own request or by that of a later one.
Judged(t) == \E n \in Requests : IsCacheable(n, resp[t]) /\ (mixed[t] \/ n = req[t])

\* A transaction starts with nothing, and buffers what passes while it may be cached:
\* judged by its own request, or by a later one of its connection.
StreamsAreBuffered ==
  \A t \in Txns :
    /\ st[t] = "none" => looked[t] = None /\ ~mixed[t]
    /\ st[t] # "none" => /\ req[t] \in Requests /\ key[t] \in Keys
                         /\ mixed[t] \/ key[t] = Key(req[t])
    /\ st[t] \in {"none", "upstream"} => got[t] = 0 /\ buffer[t] = 0
    /\ st[t] = "streaming" =>
         /\ resp[t] \in Responses
         /\ keeps[t] => buffer[t] = got[t] /\ Judged(t)

\* u's response is all there, and may be cached.
Whole(u) ==
  /\ st[u] = "over" /\ resp[u] \in Responses /\ Judged(u)
  /\ mixed[u] \/ key[u] = Key(req[u])
  /\ buffer[u] = resp[u].size

\* When u's response expires, by what its expires was set by.
Expiry(u) == ExpirationAt(terms[u].of, terms[u].at)

TermsAreTrue ==
  \A u \in Txns : terms[u].of # None =>
    /\ terms[u].of \in Responses /\ terms[u].at \in 1..now
    /\ expires[u] = Expiry(u)

CacheIsSound ==
  \A k \in Keys, u \in Txns : cache[k] = u =>
    Whole(u) /\ key[u] = k /\ stored[u] <= now /\ terms[u].of # None

LookedUpIsSound ==
  \A t, u \in Txns : looked[t] = u => Whole(u) /\ key[u] = key[t]

\* Who asks the upstream although it has found a fresh response has sent headers, or
\* those of a later request of its connection.
HitsAskNobody ==
  \A t \in Txns :
    /\ st[t] = "upstream" /\ looked[t] # None => early[t] = "sent"
    /\ st[t] = "hit" => looked[t] # None
    /\ st[t] = "revalidated" => mixed[t]

\* Without pipelining every context has one request.
ContextsAreOwn == Pipelined = {} => \A t \in Txns : ~mixed[t]

IInv ==
  /\ TypeOK /\ StreamsAreBuffered /\ TermsAreTrue /\ CacheIsSound /\ LookedUpIsSound
  /\ HitsAskNobody /\ ContextsAreOwn

-----------------------------------------------------------------------------
(* Keys and times *)

LEMMA KeyIsAKey == \A r \in Requests : Key(r) \in Keys
  BY DEF Keys

LEMMA ExpirationIsATime ==
  ASSUME now \in Nat, NEW s \in Responses
  PROVE  Expiration(s) \in Nat
  BY ResponsesAssumption, TimesAssumption DEF Expiration, ExpirationAt, Later

LEMMA LookupFinds ==
  ASSUME IInv, NEW k \in Keys, NEW u \in Txns, Lookup(k) = u
  PROVE  /\ cache[k] = u /\ Whole(u) /\ key[u] = k
         /\ stored[u] <= now /\ now - stored[u] <= LruTtl /\ terms[u].of # None
BY NoneAssumption DEF IInv, CacheIsSound, Lookup

\* A context that is read is the transaction's own, or a later request's.
LEMMA ReadsContext ==
  ASSUME IInv, NEW t \in Txns, NEW r \in Requests, NEW n \in Requests, NEW m \in BOOLEAN,
         Reads(t, r, n, m)
  PROVE  /\ mixed' \in [Txns -> BOOLEAN] /\ mixed'[t] = m /\ (mixed[t] => m)
         /\ \A u \in Txns : u # t => mixed'[u] = mixed[u]
         /\ m \/ n = r
         /\ ContextsAreOwn'
<1>1. /\ mixed' \in [Txns -> BOOLEAN] /\ mixed'[t] = m /\ (mixed[t] => m)
      /\ \A u \in Txns : u # t => mixed'[u] = mixed[u]
      /\ m \/ n = r
  BY DEF Reads, IInv, TypeOK
<1>2. m => Pipelined # {}
  BY DEF Reads
<1> QED
  BY <1>1, <1>2 DEF IInv, ContextsAreOwn

-----------------------------------------------------------------------------
(* What is whole stays so *)

Settled(t) ==
  /\ st'[t] = st[t] /\ req'[t] = req[t] /\ resp'[t] = resp[t] /\ buffer'[t] = buffer[t]
  /\ key'[t] = key[t] /\ mixed'[t] = mixed[t]

LEMMA WholeStays ==
  ASSUME NEW u \in Txns, Whole(u), Settled(u)
  PROVE  Whole(u)' /\ key'[u] = key[u]
BY DEF Whole, Judged, Settled

\* While no expires is set, they stay true.
LEMMA TermsStay ==
  ASSUME IInv, UNCHANGED <<expires, terms>>, now' \in Nat, now <= now'
  PROVE  TermsAreTrue'
<1>1. now \in Nat
  BY DEF IInv, TypeOK
<1>2. \A i \in 1..now : i \in 1..now'
  BY <1>1
<1> QED
  BY <1>2 DEF IInv, TermsAreTrue, Expiry, ExpirationAt, Later

\* One response's expires is set by what an upstream answers now.
LEMMA TermsAreSet ==
  ASSUME IInv, NEW u \in Txns, NEW s \in Responses, SetsExpires(u, s), now' = now
  PROVE  /\ TermsAreTrue' /\ terms'[u].of # None
         /\ \A v \in Txns : v # u => terms'[v] = terms[v]
         /\ terms' \in [Txns -> [of : Responses \cup {None}, at : 0..MaxTime]]
         /\ expires' \in [Txns -> Nat]
<1>1. now \in 1..MaxTime /\ now \in Nat /\ now \in 1..now /\ now \in 0..MaxTime
  BY TimesAssumption DEF IInv, TypeOK
<1>2. Expiration(s) \in Nat
  BY <1>1, ExpirationIsATime
<1>3. /\ terms'[u] = [of |-> s, at |-> now] /\ expires'[u] = Expiration(s)
      /\ \A v \in Txns : v # u => terms'[v] = terms[v] /\ expires'[v] = expires[v]
      /\ terms' \in [Txns -> [of : Responses \cup {None}, at : 0..MaxTime]]
      /\ expires' \in [Txns -> Nat]
  BY <1>1, <1>2 DEF SetsExpires, IInv, TypeOK
<1>4. terms'[u].of = s /\ terms'[u].at = now /\ s # None
  BY <1>3, NoneAssumption
<1>5. expires'[u] = Expiry(u)'
  BY <1>3, <1>4 DEF Expiry, Expiration, ExpirationAt, Later
<1>6. ASSUME NEW v \in Txns, v # u, terms'[v].of # None
      PROVE  /\ terms'[v].of \in Responses /\ terms'[v].at \in 1..now'
             /\ expires'[v] = Expiry(v)'
  BY <1>3, <1>6 DEF IInv, TermsAreTrue, Expiry, ExpirationAt, Later
<1> QED
  BY <1>1, <1>3, <1>4, <1>5, <1>6 DEF TermsAreTrue

\* While no transaction that is over changes, and the cache only loses entries, its
\* content stays sound.
LEMMA CacheStays ==
  ASSUME IInv, \A u \in Txns : st[u] = "over" => Settled(u),
         \A k \in Keys : cache'[k] \in {None, cache[k]},
         UNCHANGED stored, now' \in Nat, now <= now',
         \A u \in Txns : terms[u].of # None => terms'[u].of # None
  PROVE  CacheIsSound'
<1> SUFFICES ASSUME NEW k \in Keys, NEW u \in Txns, cache'[k] = u
             PROVE  Whole(u)' /\ key'[u] = k /\ stored'[u] <= now' /\ terms'[u].of # None
  BY DEF CacheIsSound
<1>1. Whole(u) /\ key[u] = k /\ stored[u] <= now /\ terms[u].of # None
  BY NoneAssumption DEF IInv, CacheIsSound
<1>2. Settled(u)
  BY <1>1 DEF Whole
<1>3. Whole(u)' /\ key'[u] = key[u]
  BY <1>1, <1>2, WholeStays
<1>4. stored[u] \in Nat /\ now \in Nat /\ stored'[u] = stored[u]
  BY DEF IInv, TypeOK
<1> QED
  BY <1>1, <1>3, <1>4

LEMMA LookedUpStays ==
  ASSUME IInv, \A u \in Txns : st[u] = "over" => Settled(u),
         \A t \in Txns : looked[t] # None => key'[t] = key[t],
         UNCHANGED looked
  PROVE  LookedUpIsSound'
<1> SUFFICES ASSUME NEW t \in Txns, NEW u \in Txns, looked[t] = u
             PROVE  Whole(u)' /\ key'[u] = key'[t]
  BY DEF LookedUpIsSound
<1>1. Whole(u) /\ key[u] = key[t] /\ key'[t] = key[t]
  BY NoneAssumption DEF IInv, LookedUpIsSound
<1>2. Settled(u)
  BY <1>1 DEF Whole
<1> QED
  BY <1>1, <1>2, WholeStays

-----------------------------------------------------------------------------
(* The actions *)

LEMMA HitsKeeps ==
  ASSUME IInv, NEW t \in Txns, NEW r \in Requests, NEW n \in Requests, NEW m \in BOOLEAN,
         NEW e \in Earlier, Hits(t, r, n, m, e)
  PROVE  IInv'
<1> USE DEF Hits, Starts, streamVars
<1>1. PICK u \in Txns : Lookup(Key(n)) = u
  BY KeyIsAKey DEF IsFresh, Lookup, IInv, TypeOK, Names
<1>2. Whole(u) /\ key[u] = Key(n)
  BY <1>1, KeyIsAKey, LookupFinds
<1>3. /\ st'[t] \in {"hit", "upstream", "over"} /\ looked' = [looked EXCEPT ![t] = u]
      /\ st'[t] = "upstream" => e = "sent"
      /\ st' \in [Txns -> {"none", "hit", "upstream", "streaming", "revalidated", "over"}]
      /\ \A s \in Txns : s # t => st'[s] = st[s] /\ early'[s] = early[s] /\ req'[s] = req[s]
                                  /\ key'[s] = key[s]
      /\ looked'[t] = u /\ req'[t] = r /\ early'[t] = e /\ key'[t] = Key(n)
      /\ \A s \in Txns : s # t => looked'[s] = looked[s]
  BY <1>1 DEF IInv, TypeOK, Earlier
<1>4. /\ mixed' \in [Txns -> BOOLEAN] /\ mixed'[t] = m
      /\ \A s \in Txns : s # t => mixed'[s] = mixed[s]
      /\ m \/ n = r
      /\ ContextsAreOwn'
  BY ReadsContext
<1>5. TypeOK'
  BY <1>3, <1>4, KeyIsAKey DEF IInv, TypeOK, Names
<1>6. \A s \in Txns : st[s] # "none" => Settled(s)
  BY <1>3, <1>4 DEF Settled
<1>7. StreamsAreBuffered'
  BY <1>3, <1>4, KeyIsAKey DEF IInv, StreamsAreBuffered, Judged
<1>8. TermsAreTrue' /\ CacheIsSound'
  BY <1>6, CacheStays, TermsStay DEF IInv, TypeOK
<1>9. LookedUpIsSound'
  <2> SUFFICES ASSUME NEW s \in Txns, NEW v \in Txns, looked'[s] = v
               PROVE  Whole(v)' /\ key'[v] = key'[s]
    BY DEF LookedUpIsSound
  <2>1. Whole(v) /\ key[v] = key'[s]
    BY <1>2, <1>3 DEF IInv, LookedUpIsSound
  <2>2. Settled(v)
    BY <2>1, <1>6 DEF Whole
  <2> QED
    BY <2>1, <2>2, WholeStays
<1>10. HitsAskNobody'
  BY <1>3, <1>4, NoneAssumption DEF IInv, HitsAskNobody
<1> QED
  BY <1>4, <1>5, <1>7, <1>8, <1>9, <1>10 DEF IInv

LEMMA MissesKeeps ==
  ASSUME IInv, NEW t \in Txns, NEW r \in Requests, NEW n \in Requests, NEW m \in BOOLEAN,
         NEW e \in Earlier, Misses(t, r, n, m, e)
  PROVE  IInv'
<1> USE DEF Misses, Starts, streamVars
<1>1. looked[t] = None
  BY DEF IInv, StreamsAreBuffered
<1>2. /\ mixed' \in [Txns -> BOOLEAN] /\ mixed'[t] = m
      /\ \A s \in Txns : s # t => mixed'[s] = mixed[s]
      /\ m \/ n = r
      /\ ContextsAreOwn'
  BY ReadsContext
<1>3. TypeOK'
  BY <1>2, KeyIsAKey DEF IInv, TypeOK, Names
<1>4. /\ st'[t] = "upstream" /\ req'[t] = r /\ key'[t] = Key(n)
      /\ \A s \in Txns : s # t => st'[s] = st[s] /\ req'[s] = req[s] /\ early'[s] = early[s]
                                  /\ key'[s] = key[s]
      /\ \A k \in Keys : cache'[k] \in {None, cache[k]}
  BY KeyIsAKey DEF IInv, TypeOK
<1>5. \A s \in Txns : st[s] # "none" => Settled(s)
  BY <1>2, <1>4 DEF Settled
<1>6. StreamsAreBuffered'
  BY <1>1, <1>2, <1>4, KeyIsAKey DEF IInv, StreamsAreBuffered, Judged
<1>7. TermsAreTrue' /\ CacheIsSound'
  BY <1>4, <1>5, CacheStays, TermsStay DEF IInv, TypeOK
<1>8. LookedUpIsSound'
  BY <1>1, <1>4, <1>5, LookedUpStays
<1>9. HitsAskNobody'
  BY <1>1, <1>2, <1>4 DEF IInv, HitsAskNobody
<1> QED
  BY <1>2, <1>3, <1>6, <1>7, <1>8, <1>9 DEF IInv

\* The response that was looked up gets the expiry of one that revalidates it, or the
\* upstream's response is judged.
LEMMA RespondsKeeps ==
  ASSUME IInv, NEW t \in Txns, NEW s \in Responses, NEW n \in Requests, NEW m \in BOOLEAN,
         NEW e \in Earlier, Responds(t, s, n, m, e)
  PROVE  IInv'
<1>1. req[t] \in Requests
  BY DEF Responds, IInv, StreamsAreBuffered
<1>2. /\ mixed' \in [Txns -> BOOLEAN] /\ mixed'[t] = m /\ (mixed[t] => m)
      /\ \A u \in Txns : u # t => mixed'[u] = mixed[u]
      /\ m \/ n = req[t]
      /\ ContextsAreOwn'
  BY <1>1, ReadsContext DEF Responds
<1>3. /\ st[t] = "upstream" /\ resp' = [resp EXCEPT ![t] = s]
      /\ st' \in [Txns -> {"none", "hit", "upstream", "streaming", "revalidated", "over"}]
      /\ \A u \in Txns : u # t => st'[u] = st[u]
      /\ st'[t] \in {"over", "streaming", "revalidated"}
      /\ UNCHANGED <<now, cache, stored, req, key, early, looked, got, buffer>>
  BY DEF Responds, IInv, TypeOK
<1>4. \A u \in Txns : st[u] = "over" => Settled(u)
  BY <1>2, <1>3 DEF IInv, TypeOK, Settled
<1>5. LookedUpIsSound'
  BY <1>3, <1>4, LookedUpStays
<1>6. CASE Revalidates(t, s, e)
  <2>1. PICK u \in Txns : looked[t] = u
    BY <1>6 DEF Revalidates, IInv, TypeOK, Names
  <2>2. SetsExpires(u, s) /\ st'[t] = "revalidated" /\ UNCHANGED keeps
    BY <1>6, <2>1 DEF Responds, IInv, TypeOK
  <2>3. /\ TermsAreTrue' /\ terms'[u].of # None
        /\ \A v \in Txns : v # u => terms'[v] = terms[v]
        /\ terms' \in [Txns -> [of : Responses \cup {None}, at : 0..MaxTime]]
        /\ expires' \in [Txns -> Nat]
    BY <1>3, <2>2, TermsAreSet
  <2>4. TypeOK'
    BY <1>2, <1>3, <2>2, <2>3 DEF IInv, TypeOK
  <2>5. StreamsAreBuffered'
    BY <1>2, <1>3, <2>2 DEF IInv, TypeOK, StreamsAreBuffered, Judged
  <2>6. CacheIsSound'
    <3>1. now' \in Nat /\ now <= now' /\ \A k \in Keys : cache'[k] \in {None, cache[k]}
      BY <1>3 DEF IInv, TypeOK
    <3>2. \A v \in Txns : terms[v].of # None => terms'[v].of # None
      BY <2>3
    <3> QED
      BY <1>3, <1>4, <3>1, <3>2, CacheStays
  <2>7. m
    BY <1>3, <1>6, <2>1 DEF Responds, Revalidates, IInv, HitsAskNobody
  <2>8. HitsAskNobody'
    BY <1>2, <1>3, <2>2, <2>7 DEF IInv, HitsAskNobody
  <2> QED
    BY <1>2, <1>5, <2>3, <2>4, <2>5, <2>6, <2>8 DEF IInv
<1>7. CASE ~Revalidates(t, s, e)
  <2>1. /\ keeps' = [keeps EXCEPT ![t] = IsCacheable(n, s) /\ s.declared <= Limit]
        /\ st'[t] \in {"over", "streaming"}
        /\ UNCHANGED <<expires, terms>>
    BY <1>7 DEF Responds, IInv, TypeOK
  <2>2. TypeOK'
    BY <1>2, <1>3, <2>1 DEF IInv, TypeOK
  <2>3. keeps'[t] => Judged(t)'
    BY <1>2, <1>3, <2>1 DEF Judged, IsCacheable, IInv, TypeOK
  <2>4. StreamsAreBuffered'
    <3>1. ASSUME NEW u \in Txns, u # t
          PROVE  /\ resp'[u] = resp[u] /\ keeps'[u] = keeps[u] /\ (Judged(u)' <=> Judged(u))
      BY <1>2, <1>3, <2>1, <3>1 DEF Judged, IsCacheable, IInv, TypeOK
    <3>2. resp'[t] = s
      BY <1>3 DEF IInv, TypeOK
    <3> QED
      BY <1>2, <1>3, <2>1, <2>3, <3>1, <3>2 DEF IInv, StreamsAreBuffered
  <2>5. TermsAreTrue' /\ CacheIsSound'
    BY <1>3, <1>4, <2>1, CacheStays, TermsStay DEF IInv, TypeOK
  <2>6. HitsAskNobody'
    BY <1>2, <1>3, <2>1 DEF IInv, HitsAskNobody
  <2> QED
    BY <1>2, <1>5, <2>2, <2>4, <2>5, <2>6 DEF IInv
<1> QED
  BY <1>6, <1>7

LEMMA ChunkPassesKeeps ==
  ASSUME IInv, NEW t \in Txns, ChunkPasses(t)
  PROVE  IInv'
<1> USE DEF ChunkPasses, entryVars, ownVars
<1>1. /\ got' = [got EXCEPT ![t] = got[t] + 1] /\ got[t] \in Nat
      /\ \/ keeps[t] /\ buffer[t] < Limit /\ buffer' = [buffer EXCEPT ![t] = buffer[t] + 1]
            /\ UNCHANGED keeps
         \/ buffer' = [buffer EXCEPT ![t] = 0] /\ keeps' = [keeps EXCEPT ![t] = FALSE]
  BY DEF TrackChunk, IInv, TypeOK
<1>2. TypeOK'
  <2>1. got' \in [Txns -> Nat]
    BY <1>1 DEF IInv, TypeOK
  <2>2. buffer[t] \in 0..Limit /\ Limit \in Nat
    BY TimesAssumption DEF IInv, TypeOK
  <2>3. PICK n \in 0..Limit : buffer' = [buffer EXCEPT ![t] = n]
    <3>1. CASE keeps[t] /\ buffer[t] < Limit /\ buffer' = [buffer EXCEPT ![t] = buffer[t] + 1]
      <4>1. buffer[t] + 1 \in 0..Limit
        BY <3>1, <2>2
      <4> QED
        BY <3>1, <4>1
    <3>2. CASE buffer' = [buffer EXCEPT ![t] = 0]
      <4>1. 0 \in 0..Limit
        BY <2>2
      <4> QED
        BY <3>2, <4>1
    <3> QED
      BY <1>1, <3>1, <3>2
  <2>4. buffer' \in [Txns -> 0..Limit]
    BY <2>3 DEF IInv, TypeOK
  <2>5. keeps' \in [Txns -> BOOLEAN]
    BY <1>1 DEF IInv, TypeOK
  <2> QED
    BY <2>1, <2>4, <2>5 DEF IInv, TypeOK
<1>3. \A u \in Txns : st[u] = "over" => Settled(u)
  BY <1>1 DEF IInv, TypeOK, Settled
<1>4. StreamsAreBuffered'
  BY <1>1 DEF IInv, TypeOK, StreamsAreBuffered, Judged
<1>5. TermsAreTrue' /\ CacheIsSound'
  BY <1>3, CacheStays, TermsStay DEF IInv, TypeOK
<1>6. LookedUpIsSound'
  BY <1>3, LookedUpStays
<1>7. HitsAskNobody' /\ ContextsAreOwn'
  BY DEF IInv, HitsAskNobody, ContextsAreOwn
<1> QED
  BY <1>2, <1>4, <1>5, <1>6, <1>7 DEF IInv

LEMMA BreaksKeeps ==
  ASSUME IInv, NEW t \in Txns, Breaks(t)
  PROVE  IInv'
<1> USE DEF Breaks, entryVars, ownVars, streamVars
<1>1. /\ st' \in [Txns -> {"none", "hit", "upstream", "streaming", "revalidated", "over"}]
      /\ st'[t] = "over" /\ st[t] # "over" /\ \A u \in Txns : u # t => st'[u] = st[u]
  BY DEF IInv, TypeOK
<1>2. TypeOK'
  BY <1>1 DEF IInv, TypeOK
<1>3. \A u \in Txns : st[u] = "over" => Settled(u)
  BY <1>1 DEF Settled
<1>4. StreamsAreBuffered'
  BY <1>1 DEF IInv, StreamsAreBuffered, Judged
<1>5. TermsAreTrue' /\ CacheIsSound'
  BY <1>3, CacheStays, TermsStay DEF IInv, TypeOK
<1>6. LookedUpIsSound'
  BY <1>3, LookedUpStays
<1>7. HitsAskNobody' /\ ContextsAreOwn'
  BY <1>1 DEF IInv, HitsAskNobody, ContextsAreOwn
<1> QED
  BY <1>2, <1>4, <1>5, <1>6, <1>7 DEF IInv

LEMMA CompletesKeeps ==
  ASSUME IInv, NEW t \in Txns, Completes(t)
  PROVE  IInv'
<1>1. CASE ~keeps[t]
  <2>1. Breaks(t)
    BY <1>1 DEF Completes, Breaks
  <2> QED
    BY <2>1, BreaksKeeps
<1>2. CASE keeps[t]
  <2>1. /\ st[t] = "streaming" /\ got[t] = resp[t].size /\ Commit(t)
        /\ st' = [st EXCEPT ![t] = "over"]
        /\ UNCHANGED <<now, req, key, mixed, resp, early, looked, keeps, got, buffer>>
    BY <1>2 DEF Completes, streamVars, ownVars
  <2>2. /\ st' \in [Txns -> {"none", "hit", "upstream", "streaming", "revalidated", "over"}]
        /\ st'[t] = "over" /\ \A u \in Txns : u # t => st'[u] = st[u]
    BY <2>1 DEF IInv, TypeOK
  <2>3. /\ key[t] \in Keys /\ resp[t] \in Responses /\ buffer[t] = resp[t].size
        /\ Judged(t) /\ (mixed[t] \/ key[t] = Key(req[t]))
    BY <1>2, <2>1 DEF IInv, StreamsAreBuffered
  <2>4. /\ cache' = [cache EXCEPT ![key[t]] = t]
        /\ stored' = [stored EXCEPT ![t] = now]
        /\ SetsExpires(t, resp[t])
    BY <2>1 DEF Commit
  <2>5. /\ TermsAreTrue' /\ terms'[t].of # None
        /\ \A v \in Txns : v # t => terms'[v] = terms[v]
        /\ terms' \in [Txns -> [of : Responses \cup {None}, at : 0..MaxTime]]
        /\ expires' \in [Txns -> Nat]
    BY <2>1, <2>3, <2>4, TermsAreSet
  <2>6. now \in Nat /\ now \in 0..MaxTime
    BY TimesAssumption DEF IInv, TypeOK
  <2>7. TypeOK'
    BY <2>1, <2>2, <2>3, <2>4, <2>5, <2>6 DEF IInv, TypeOK, Names
  <2>8. \A u \in Txns : st[u] = "over" => Settled(u)
    BY <2>1, <2>2 DEF Settled
  <2>9. StreamsAreBuffered'
    BY <2>1, <2>2 DEF IInv, StreamsAreBuffered, Judged
  <2>10. CacheIsSound'
    <3>1. Whole(t)' /\ stored'[t] = now /\ key'[t] = key[t]
      BY <2>1, <2>2, <2>3, <2>4 DEF Whole, Judged, IInv, TypeOK
    <3>2. ASSUME NEW k \in Keys, NEW u \in Txns, cache'[k] = u, k # key[t]
          PROVE  Whole(u)' /\ key'[u] = k /\ stored'[u] <= now' /\ terms'[u].of # None
      <4>1. Whole(u) /\ key[u] = k /\ stored[u] <= now /\ terms[u].of # None
        BY <3>2, <2>4 DEF IInv, CacheIsSound, TypeOK
      <4>2. u # t /\ Settled(u)
        BY <4>1, <2>1, <2>8 DEF Whole
      <4>3. Whole(u)' /\ key'[u] = key[u]
        BY <4>1, <4>2, WholeStays
      <4>4. stored'[u] = stored[u]
        BY <4>2, <2>4 DEF IInv, TypeOK
      <4> QED
        BY <4>1, <4>2, <4>3, <4>4, <2>1, <2>5
    <3>3. cache'[key[t]] = t
      BY <2>3, <2>4 DEF IInv, TypeOK
    <3>4. ASSUME NEW u \in Txns, cache'[key[t]] = u
          PROVE  Whole(u)' /\ key'[u] = key[t] /\ stored'[u] <= now' /\ terms'[u].of # None
      BY <3>1, <3>3, <3>4, <2>1, <2>5, <2>6
    <3> QED
      BY <3>2, <3>4 DEF CacheIsSound
  <2>11. LookedUpIsSound'
    BY <2>1, <2>8, LookedUpStays
  <2>12. HitsAskNobody' /\ ContextsAreOwn'
    BY <2>1, <2>2 DEF IInv, HitsAskNobody, ContextsAreOwn
  <2> QED
    BY <2>5, <2>7, <2>9, <2>10, <2>11, <2>12 DEF IInv
<1> QED
  BY <1>1, <1>2

LEMMA EvictKeeps ==
  ASSUME IInv, NEW k \in Keys, Evict(k)
  PROVE  IInv'
<1> USE DEF Evict, ownVars, streamVars
<1>1. \A u \in Txns : Settled(u)
  BY DEF Settled
<1>2. TermsAreTrue' /\ CacheIsSound'
  BY <1>1, CacheStays, TermsStay DEF IInv, TypeOK
<1>3. LookedUpIsSound'
  BY <1>1, LookedUpStays
<1>4. TypeOK'
  BY DEF IInv, TypeOK, Names
<1> QED
  BY <1>2, <1>3, <1>4 DEF IInv, StreamsAreBuffered, Judged, HitsAskNobody, ContextsAreOwn

LEMMA TickKeeps ==
  ASSUME IInv, Tick
  PROVE  IInv'
<1> USE DEF Tick, entryVars, ownVars, streamVars
<1>1. \A u \in Txns : Settled(u)
  BY DEF Settled
<1>2. now \in Nat /\ now' \in 1..MaxTime /\ now' \in Nat /\ now <= now'
  BY TimesAssumption DEF IInv, TypeOK
<1>3. TermsAreTrue' /\ CacheIsSound'
  BY <1>1, <1>2, CacheStays, TermsStay
<1>4. LookedUpIsSound'
  BY <1>1, LookedUpStays
<1>5. TypeOK'
  BY <1>2 DEF IInv, TypeOK
<1> QED
  BY <1>3, <1>4, <1>5 DEF IInv, StreamsAreBuffered, Judged, HitsAskNobody, ContextsAreOwn

-----------------------------------------------------------------------------
(* The theorems *)

LEMMA InitSound == Init => IInv
<1> SUFFICES ASSUME Init PROVE IInv
  OBVIOUS
<1>1. TypeOK
  BY TimesAssumption DEF Init, TypeOK, Names, Earlier
<1> QED
  BY <1>1, NoneAssumption
  DEF Init, IInv, StreamsAreBuffered, TermsAreTrue, CacheIsSound, LookedUpIsSound,
      HitsAskNobody, ContextsAreOwn

LEMMA StepKeeps == IInv /\ [Next]_vars => IInv'
<1> SUFFICES ASSUME IInv, [Next]_vars
             PROVE  IInv'
  OBVIOUS
<1>1. ASSUME NEW t \in Txns, NEW r \in Requests, NEW n \in Requests, NEW m \in BOOLEAN,
             NEW e \in Earlier, Hits(t, r, n, m, e)
      PROVE  IInv'
  BY <1>1, HitsKeeps
<1>2. ASSUME NEW t \in Txns, NEW r \in Requests, NEW n \in Requests, NEW m \in BOOLEAN,
             NEW e \in Earlier, Misses(t, r, n, m, e)
      PROVE  IInv'
  BY <1>2, MissesKeeps
<1>3. ASSUME NEW t \in Txns, NEW s \in Responses, NEW n \in Requests, NEW m \in BOOLEAN,
             NEW e \in Earlier, Responds(t, s, n, m, e)
      PROVE  IInv'
  BY <1>3, RespondsKeeps
<1>4. ASSUME NEW t \in Txns, ChunkPasses(t) \/ Completes(t) \/ Breaks(t)
      PROVE  IInv'
  BY <1>4, ChunkPassesKeeps, CompletesKeeps, BreaksKeeps
<1>5. ASSUME NEW k \in Keys, Evict(k)
      PROVE  IInv'
  BY <1>5, EvictKeeps
<1>6. ASSUME Tick
      PROVE  IInv'
  BY <1>6, TickKeeps
<1>7. CASE UNCHANGED vars
  <2>1. \A u \in Txns : Settled(u)
    BY <1>7 DEF vars, ownVars, streamVars, Settled
  <2>2. now \in Nat /\ now <= now
    BY TimesAssumption DEF IInv, TypeOK
  <2>3. TermsAreTrue' /\ CacheIsSound'
    BY <1>7, <2>1, <2>2, CacheStays, TermsStay DEF vars, entryVars
  <2>4. LookedUpIsSound'
    BY <1>7, <2>1, LookedUpStays DEF vars, ownVars
  <2> QED
    BY <1>7, <2>3, <2>4
    DEF vars, entryVars, ownVars, streamVars, IInv, TypeOK, StreamsAreBuffered, Judged,
        HitsAskNobody, ContextsAreOwn
<1> QED
  BY <1>1, <1>2, <1>3, <1>4, <1>5, <1>6, <1>7 DEF Next

\* The invariant holds in every behaviour: what is cached is whole, was judged cacheable
\* by its own request unless a pipelined one had taken its place, and expires when the
\* headers that set its expiry ask for it.
THEOREM CacheInductive == Spec => []IInv
<1> QED
  BY InitSound, StepKeeps, PTL DEF Spec

\* Every variable of the cache keeps its type.
THEOREM CacheTypeCorrect == Spec => []TypeOK
<1>1. IInv => TypeOK
  BY DEF IInv
<1> QED
  BY <1>1, CacheInductive, PTL

\* What tryServeHit finds has been committed by a response that came to its end.
THEOREM OnlyCompleteIsCached == Spec => []CachedIsComplete
<1>1. IInv => CachedIsComplete
  <2> SUFFICES ASSUME IInv, NEW k \in Keys, cache[k] # None
               PROVE  LET u == cache[k]
                      IN  st[u] = "over" /\ key[u] = k /\ buffer[u] = resp[u].size
    BY DEF CachedIsComplete
  <2>1. PICK u \in Txns : cache[k] = u
    BY DEF IInv, TypeOK, Names
  <2> QED
    BY <2>1 DEF IInv, CacheIsSound, Whole
<1> QED
  BY <1>1, CacheInductive, PTL

\* What is whole may be shared, if no pipelined request took the place of its own.
LEMMA WholeIsShared ==
  ASSUME NEW u \in Txns, Whole(u), ~mixed[u]
  PROVE  Key(req[u]) = key[u] /\ ~Forbidden(u)
<1>1. PICK n \in Requests : IsCacheable(n, resp[u]) /\ n = req[u]
  BY DEF Whole, Judged
<1> QED
  BY <1>1 DEF Whole, IsCacheable, Forbidden

LEMMA HitIsWhole ==
  ASSUME IInv, NEW t \in Txns, st[t] = "hit"
  PROVE  looked[t] \in Txns /\ Whole(looked[t]) /\ key[looked[t]] = key[t]
<1>1. looked[t] \in Txns
  BY DEF IInv, TypeOK, Names, HitsAskNobody
<1> QED
  BY <1>1 DEF IInv, LookedUpIsSound

\* A hit has the key of the request it answers, and its response may be shared if
\* isCacheableResponse was given the request that it was the response to: that is, if no
\* later request had come over the connection that fetched it.
THEOREM HitsAreShared == Spec => []HitMayBeShared
<1>1. IInv => HitMayBeShared
  <2> SUFFICES ASSUME IInv, NEW t \in Txns, st[t] = "hit"
               PROVE  LET u == looked[t]
                      IN  key[u] = key[t] /\ (~mixed[u] => Key(req[u]) = key[u] /\ ~Forbidden(u))
    BY DEF HitMayBeShared
  <2> QED
    BY HitIsWhole, WholeIsShared
<1> QED
  BY <1>1, CacheInductive, PTL

\* With clients that do not pipeline, an authorised or private response is never a hit.
THEOREM UnmixedHitsAreAllowed == Spec => [](Pipelined = {} => ForbiddenIsNotHit)
<1>1. IInv => (Pipelined = {} => ForbiddenIsNotHit)
  <2> SUFFICES ASSUME IInv, Pipelined = {}, NEW t \in Txns, st[t] = "hit"
               PROVE  ~Forbidden(looked[t])
    BY DEF ForbiddenIsNotHit
  <2>1. looked[t] \in Txns /\ Whole(looked[t])
    BY HitIsWhole
  <2>2. ~mixed[looked[t]]
    BY <2>1 DEF IInv, ContextsAreOwn
  <2> QED
    BY <2>1, <2>2, WholeIsShared
<1> QED
  BY <1>1, CacheInductive, PTL

\* tryServeRevalidation never finds a cached response that it may serve, unless the
\* client's response is no longer the one that tryServeHit has looked at.
THEOREM RevalidationIsIdle == Spec => []NothingIsRevalidated
<1>1. IInv => NothingIsRevalidated
  BY DEF IInv, HitsAskNobody, NothingIsRevalidated
<1> QED
  BY <1>1, CacheInductive, PTL

\* A response that has not expired is as fresh as the headers demand that have set its
\* expiry.
LEMMA FreshIsUsable ==
  ASSUME IInv, NEW u \in Txns, terms[u].of # None, now <= expires[u]
  PROVE  Usable(u)
<1> DEFINE s == terms[u].of
           at == terms[u].at
<1>1. s \in Responses /\ at \in 1..now /\ expires[u] = ExpirationAt(s, at)
  BY DEF IInv, TermsAreTrue, Expiry
<1>2. now \in Nat /\ at \in Nat /\ at >= 1 /\ at <= now /\ DefaultTtl \in Nat
  BY <1>1, TimesAssumption DEF IInv, TypeOK
<1>3. \A d \in DOMAIN s.life : s.life[d] \in Nat
  BY <1>1, ResponsesAssumption
<1> HIDE DEF s, at
<1>4. CASE "no-store" \in s.cc
  BY <1>1, <1>2, <1>4 DEF ExpirationAt
<1>5. CASE "no-store" \notin s.cc
  <2>1. \/ s.cc \cap {"no-cache", "must-revalidate"} # {} /\ now - at = 0
        \/ /\ s.cc \cap {"no-cache", "must-revalidate"} = {}
           /\ IF "s-maxage" \in DOMAIN s.life THEN now - at <= s.life["s-maxage"]
              ELSE IF "max-age" \in DOMAIN s.life THEN now - at <= s.life["max-age"]
              ELSE IF "expires" \in DOMAIN s.life THEN now - at = 0 \/ now <= s.life["expires"]
              ELSE now - at <= DefaultTtl
    BY <1>1, <1>2, <1>3, <1>5 DEF ExpirationAt, Later
  <2> QED
    BY <2>1, <1>5 DEF Usable, s, at
<1> QED
  BY <1>4, <1>5

\* A hit is as fresh as the headers demand that it was stored, or last revalidated, with,
\* and within the LRU's time.
THEOREM HitsAreFresh == Spec => HitIsFresh
<1>1. IInv /\ [Next]_vars =>
        [\A t \in Txns : st[t] = "none" /\ st'[t] = "hit" =>
           Usable(looked'[t]) /\ now - stored[looked'[t]] <= LruTtl]_vars
  <2> SUFFICES ASSUME IInv, Next, NEW t \in Txns, st[t] = "none", st'[t] = "hit"
               PROVE  Usable(looked'[t]) /\ now - stored[looked'[t]] <= LruTtl
    OBVIOUS
  <2>1. PICK r \in Requests, n \in Requests, m \in BOOLEAN, e \in Earlier :
          Hits(t, r, n, m, e)
    BY DEF Next, Hits, Misses, Starts, Responds, ChunkPasses, Completes, Breaks, Evict, Tick,
           IInv, TypeOK
  <2>2. PICK u \in Txns : Lookup(Key(n)) = u
    BY <2>1, KeyIsAKey DEF Hits, IsFresh, Lookup, IInv, TypeOK, Names
  <2>3. looked'[t] = u /\ now <= expires[u]
    BY <2>1, <2>2 DEF Hits, IsFresh, IInv, TypeOK
  <2>4. stored[u] <= now /\ now - stored[u] <= LruTtl /\ terms[u].of # None
    BY <2>2, KeyIsAKey, LookupFinds
  <2>5. Usable(u)
    BY <2>3, <2>4, FreshIsUsable
  <2> QED
    BY <2>3, <2>4, <2>5
<1> QED
  BY <1>1, CacheInductive, PTL DEF Spec, HitIsFresh
=============================================================================
