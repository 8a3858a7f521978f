---------------------------- MODULE ResponseCache ----------------------------
(***************************************************************************)
(* The response cache of a proxy, between the transactions that fill it    *)
(* and those it answers: ResponseCache and a ResponseCacheProcessor for    *)
(* each transaction that has reached H1OutboundBridge.                     *)
(*                                                                         *)
(* A processor does not hold its request: whenever it needs the request or *)
(* the client's response it reads client.req and client.res of a           *)
(* RequestContext that all requests of a connection share.  A pipelined    *)
(* request that has come meanwhile has overwritten both.                   *)
(*                                                                         *)
(* A cached response is named after the transaction that has fetched it.   *)
(* Header texts are sets of directives, bodies are counted in chunks.      *)
(* The LRU cache is external: it may evict any entry at any time.          *)
(***************************************************************************)
EXTENDS Integers

CONSTANTS
  Txns,
  Requests,    \* [key, method, auth, sse]
  Pipelined,   \* requests that may come while another of their connection is in flight
  Responses,   \* [status, cc, life, typed, framed, declared, size]
  Limit,       \* MAX_CACHE_MEMORY_LIMIT, in chunks
  DefaultTtl,  \* the default life of a response
  LruTtl,      \* the life of an LRU entry
  MaxTime,     \* bound on the clock
  None         \* no transaction, request or response

ASSUME TimesAssumption ==
  Limit \in Nat /\ DefaultTtl \in Nat /\ LruTtl \in Nat /\ MaxTime \in Nat \ {0}

ASSUME PipelinedAssumption == Pipelined \subseteq Requests

VARIABLES
  now,      \* Date.now()
  cache,    \* per key: the cached response
  stored,   \* per response: when it was cached
  expires,  \* per response: its expires
  terms,    \* history, per response: the headers expires was set by, and when
  st,       \* per transaction: how far it is
  req,      \* per transaction: the request the upstream answers
  key,      \* per transaction: cacheKey
  mixed,    \* history, per transaction: it has read a later request of its connection
  resp,     \* per transaction: the upstream's response
  early,    \* per transaction: what had been done with client.res when it began
  looked,   \* per transaction: cachedRes
  keeps,    \* per transaction: isCacheable
  got,      \* per transaction: chunks that have passed
  buffer    \* per transaction: accumulatedBytes

entryVars == <<cache, stored, expires, terms>>
ownVars == <<req, key, mixed>>
streamVars == <<keeps, got, buffer>>
vars == <<now, entryVars, st, ownVars, resp, early, looked, streamVars>>

ASSUME NoneAssumption == None \notin Txns \cup Requests \cup Responses
ASSUME ResponsesAssumption ==
  \A s \in Responses : s.size \in Nat /\ \A d \in DOMAIN s.life : s.life[d] \in Nat

Names == Txns \cup {None}
Earlier == {"untouched", "sent", "ended"}

\* The key knows method, host, URL and accepted encoding.
Key(r) == <<r.method, r.key>>
Keys == {Key(r) : r \in Requests}

TypeOK ==
  /\ now \in 1..MaxTime
  /\ cache \in [Keys -> Names]
  /\ stored \in [Txns -> 0..MaxTime] /\ expires \in [Txns -> Nat]
  /\ terms \in [Txns -> [of : Responses \cup {None}, at : 0..MaxTime]]
  /\ st \in [Txns -> {"none", "hit", "upstream", "streaming", "revalidated", "over"}]
  /\ req \in [Txns -> Requests \cup {None}] /\ resp \in [Txns -> Responses \cup {None}]
  /\ key \in [Txns -> Keys \cup {None}] /\ mixed \in [Txns -> BOOLEAN]
  /\ early \in [Txns -> Earlier] /\ looked \in [Txns -> Names] /\ keeps \in [Txns -> BOOLEAN]
  /\ got \in [Txns -> Nat]
  /\ buffer \in [Txns -> 0..Limit]

Init ==
  /\ now = 1
  /\ cache = [k \in Keys |-> None]
  /\ stored = [t \in Txns |-> 0] /\ expires = [t \in Txns |-> 0]
  /\ terms = [t \in Txns |-> [of |-> None, at |-> 0]]
  /\ st = [t \in Txns |-> "none"]
  /\ key = [t \in Txns |-> None] /\ mixed = [t \in Txns |-> FALSE]
  /\ req = [t \in Txns |-> None] /\ resp = [t \in Txns |-> None]
  /\ early = [t \in Txns |-> "untouched"]
  /\ looked = [t \in Txns |-> None] /\ keeps = [t \in Txns |-> FALSE]
  /\ got = [t \in Txns |-> 0] /\ buffer = [t \in Txns |-> 0]

-----------------------------------------------------------------------------
(* What may be cached, and for how long *)

CacheableStatus == {200, 203, 204, 206, 300, 301, 302, 307, 308, 404, 410}

\* Mutant of IsCacheable: credentials are overlooked.
IsCacheableForAll(r, s) ==
  /\ r.method \in {"GET", "HEAD"} /\ s.status \in CacheableStatus
  /\ s.cc \cap {"no-store", "no-cache", "vary", "private"} = {}
  /\ ~r.sse /\ s.framed /\ (s.status >= 300 \/ s.status = 204 \/ s.typed)

\* isCacheableResponse, when no body has come yet.  "vary" in s.cc stands for the
\* value "*" of that header.
IsCacheable(r, s) ==
  /\ r.method \in {"GET", "HEAD"}
  /\ s.status \in CacheableStatus
  /\ s.cc \cap {"no-store", "no-cache", "vary", "private"} = {}
  /\ r.auth => s.cc \cap {"public", "must-revalidate"} # {} \/ "s-maxage" \in DOMAIN s.life
  /\ ~r.sse
  /\ s.framed
  /\ s.status >= 300 \/ s.status = 204 \/ s.typed

Later(a, b) == IF a >= b THEN a ELSE b

\* Mutant of Expiration: max-age goes before s-maxage, must-revalidate is overlooked.
MaxAgeExpiration(s) ==
  now + IF "max-age" \in DOMAIN s.life THEN s.life["max-age"] ELSE DefaultTtl

\* When a response with the headers of s expires that is dated at.  s.life has the
\* times it states: two ages and a date.
ExpirationAt(s, at) ==
  IF "no-store" \in s.cc THEN 0
  ELSE IF s.cc \cap {"no-cache", "must-revalidate"} # {} THEN at
  ELSE IF "s-maxage" \in DOMAIN s.life THEN at + s.life["s-maxage"]
  ELSE IF "max-age" \in DOMAIN s.life THEN at + s.life["max-age"]
  ELSE IF "expires" \in DOMAIN s.life THEN Later(at, s.life["expires"])
  ELSE at + DefaultTtl

\* getExpirationTimestamp.
Expiration(s) == ExpirationAt(s, now)

\* expires of u's response is set by the headers of s.
SetsExpires(u, s) ==
  /\ expires' = [expires EXCEPT ![u] = Expiration(s)]
  /\ terms' = [terms EXCEPT ![u] = [of |-> s, at |-> now]]

-----------------------------------------------------------------------------
(* A transaction reaches the bridge *)

\* ResponseCache.get, which ignores what the LRU's own time has run out for.
Lookup(k) == IF cache[k] # None /\ now - stored[cache[k]] <= LruTtl THEN cache[k] ELSE None

\* A response that expires in this very millisecond is fresh.
IsFresh(u) == u # None /\ now <= expires[u]

\* t, whose own request is r, reads n as its client.req: another one if a later request
\* of its connection has come (m), and from then on never its own again.
Reads(t, r, n, m) ==
  /\ IF m THEN n \in Pipelined ELSE n = r /\ ~mixed[t]
  /\ mixed' = [mixed EXCEPT ![t] = m]

\* The constructor of the processor, and tryServeHit; e is what has been done with the
\* client.res that belongs to n.
Starts(t, r, n, m, e) ==
  /\ st[t] = "none"
  /\ Reads(t, r, n, m)
  /\ req' = [req EXCEPT ![t] = r] /\ key' = [key EXCEPT ![t] = Key(n)]
  /\ early' = [early EXCEPT ![t] = e]
  /\ UNCHANGED <<now, stored, expires, terms, resp, streamVars>>

\* A hit is served, to n, unless its response has been ended, or has headers already.
Hits(t, r, n, m, e) ==
  /\ Starts(t, r, n, m, e) /\ IsFresh(Lookup(Key(n)))
  /\ looked' = [looked EXCEPT ![t] = Lookup(Key(n))]
  /\ st' = [st EXCEPT ![t] = CASE e = "untouched" -> "hit"
                               [] e = "sent" -> "upstream"
                               [] OTHER -> "over"]
  /\ UNCHANGED cache

\* Nothing is there, or it has expired: then it is deleted and forgotten.
Misses(t, r, n, m, e) ==
  /\ Starts(t, r, n, m, e) /\ ~IsFresh(Lookup(Key(n)))
  /\ cache' = [cache EXCEPT ![Key(n)] = None]
  /\ st' = [st EXCEPT ![t] = "upstream"]
  /\ UNCHANGED looked

-----------------------------------------------------------------------------
(* The upstream's response *)

\* tryServeRevalidation, as far as it serves the response that was looked up.
Revalidates(t, s, e) == looked[t] # None /\ s.status = 304 /\ e = "untouched"

NoContent(s) == s.status \in {204, 304}

\* The "response" event: tryServeRevalidation, else initializeUpstreamIntercept and the
\* dispatcher, which streams nothing to a response that has been ended, nor what has no
\* content.  The request that is judged is the one in the context by now.
Responds(t, s, n, m, e) ==
  /\ st[t] = "upstream"
  /\ Reads(t, req[t], n, m) /\ (~m => e = early[t])
  /\ resp' = [resp EXCEPT ![t] = s]
  /\ IF Revalidates(t, s, e)
     THEN /\ SetsExpires(looked[t], s)
          /\ st' = [st EXCEPT ![t] = "revalidated"]
          /\ UNCHANGED keeps
     ELSE /\ keeps' = [keeps EXCEPT ![t] = IsCacheable(n, s) /\ s.declared <= Limit]
          /\ st' = [st EXCEPT ![t] = IF NoContent(s) \/ e = "ended"
                                        THEN "over" ELSE "streaming"]
          /\ UNCHANGED <<expires, terms>>
  /\ UNCHANGED <<now, cache, stored, req, key, early, looked, got, buffer>>

\* trackChunk: above the limit the response is given up, with what was buffered.
TrackChunk(t) ==
  IF keeps[t] /\ buffer[t] < Limit
  THEN buffer' = [buffer EXCEPT ![t] = @ + 1] /\ UNCHANGED keeps
  ELSE buffer' = [buffer EXCEPT ![t] = 0] /\ keeps' = [keeps EXCEPT ![t] = FALSE]

\* A chunk passes to the client.
ChunkPasses(t) ==
  /\ st[t] = "streaming" /\ got[t] < resp[t].size
  /\ got' = [got EXCEPT ![t] = @ + 1]
  /\ TrackChunk(t)
  /\ UNCHANGED <<now, entryVars, st, ownVars, resp, early, looked>>

\* commit: a later entry of the key is replaced as well as an earlier one.
Commit(t) ==
  /\ cache' = [cache EXCEPT ![key[t]] = t]
  /\ stored' = [stored EXCEPT ![t] = now]
  /\ SetsExpires(t, resp[t])

\* The pipeline of streams is through.
Completes(t) ==
  /\ st[t] = "streaming" /\ got[t] = resp[t].size
  /\ st' = [st EXCEPT ![t] = "over"]
  /\ IF keeps[t] THEN Commit(t) ELSE UNCHANGED entryVars
  /\ UNCHANGED <<now, ownVars, resp, early, looked, streamVars>>

\* Mutant of Breaks: what has come is cached.
BreaksAndKeeps(t) ==
  /\ st[t] = "streaming"
  /\ st' = [st EXCEPT ![t] = "over"]
  /\ IF keeps[t] THEN Commit(t) ELSE UNCHANGED entryVars
  /\ UNCHANGED <<now, ownVars, resp, early, looked, streamVars>>

\* The client or the upstream goes away.
Breaks(t) ==
  /\ st[t] \in {"upstream", "streaming"}
  /\ st' = [st EXCEPT ![t] = "over"]
  /\ UNCHANGED <<now, entryVars, ownVars, resp, early, looked, streamVars>>

-----------------------------------------------------------------------------
\* The LRU cache makes room.
Evict(k) ==
  /\ cache[k] # None
  /\ cache' = [cache EXCEPT ![k] = None]
  /\ UNCHANGED <<now, stored, expires, terms, st, ownVars, resp, early, looked, streamVars>>

Tick ==
  /\ now < MaxTime
  /\ now' = now + 1
  /\ UNCHANGED <<entryVars, st, ownVars, resp, early, looked, streamVars>>

Next ==
  \/ \E t \in Txns :
       \/ \E r, n \in Requests, m \in BOOLEAN, e \in Earlier :
            Hits(t, r, n, m, e) \/ Misses(t, r, n, m, e)
       \/ \E s \in Responses, n \in Requests, m \in BOOLEAN, e \in Earlier :
            Responds(t, s, n, m, e)
       \/ ChunkPasses(t) \/ Completes(t) \/ Breaks(t)
  \/ \E k \in Keys : Evict(k)
  \/ Tick

Spec == Init /\ [][Next]_vars

-----------------------------------------------------------------------------
(* Properties *)

\* What is cached has come to its end and is all there, whatever streams broke, whatever
\* exceeded the limit and whoever else was fetching the same.
CachedIsComplete ==
  \A k \in Keys : cache[k] # None =>
    LET u == cache[k] IN st[u] = "over" /\ key[u] = k /\ buffer[u] = resp[u].size

\* Forbidden(u): the response to u must not be given to another request.
Forbidden(u) ==
  \/ resp[u].cc \cap {"no-store", "private"} # {}
  \/ req[u].auth /\ resp[u].cc \cap {"public", "must-revalidate"} = {}
     /\ "s-maxage" \notin DOMAIN resp[u].life

\* A hit has the key of the request it answers.  If the transaction that fetched it was
\* the last of its connection until its response came, it answers a request of that key,
\* and may be shared; a pipelined request would have been keyed or judged in its place.
HitMayBeShared ==
  \A t \in Txns : st[t] = "hit" =>
    LET u == looked[t]
    IN  key[u] = key[t] /\ (~mixed[u] => Key(req[u]) = key[u] /\ ~Forbidden(u))

\* For how long a response may be used after it was cached or last revalidated: a limit
\* for shared caches goes before the others, and what must be revalidated cannot be used
\* later at all.
Usable(u) ==
  LET s == terms[u].of
      age == now - terms[u].at
  IN  IF "no-store" \in s.cc THEN FALSE
      ELSE IF s.cc \cap {"no-cache", "must-revalidate"} # {} THEN age = 0
      ELSE IF "s-maxage" \in DOMAIN s.life THEN age <= s.life["s-maxage"]
      ELSE IF "max-age" \in DOMAIN s.life THEN age <= s.life["max-age"]
      ELSE IF "expires" \in DOMAIN s.life THEN age = 0 \/ now <= s.life["expires"]
      ELSE age <= DefaultTtl

\* A hit is as fresh as the cached response demands, or the one that has revalidated it,
\* and never older than the LRU's time.
HitIsFresh ==
  [][\A t \in Txns : st[t] = "none" /\ st'[t] = "hit" =>
       Usable(looked'[t]) /\ now - stored[looked'[t]] <= LruTtl]_vars

\* Nothing is revalidated, except by accident: a transaction that asks the upstream has
\* looked up nothing, or its client's response had headers, so that the revalidation in
\* tryServeRevalidation is idle unless a later request has put its response there.
NothingIsRevalidated == \A t \in Txns : st[t] = "revalidated" => mixed[t]

-----------------------------------------------------------------------------
(* Statements about the program that the code does not keep. *)

\* The rule of isCacheableResponse for authorised requests, on whatever connection they
\* come: a pipelined request without credentials makes the response to an authorised
\* one cacheable.
ForbiddenIsNotHit == \A t \in Txns : st[t] = "hit" => ~Forbidden(looked[t])
==============================================================================
