--------------------------- MODULE CertificateCache ---------------------------
(***************************************************************************)
(* Where a TLS handshake gets its certificate: SecureContextManager in     *)
(* front of CertificateCacheManager, the files under leafCacheDir, and the *)
(* worker pool that generates what is nowhere else.                        *)
(*                                                                         *)
(* Several proxy processes may share the directory.  Within a process the  *)
(* file operations of a task are synchronous: nothing else of the process  *)
(* runs in between, but other processes do.  A leaf matters only by the    *)
(* key pair it was made with, and every worker thread has its own.         *)
(***************************************************************************)
EXTENDS FiniteSets

CONSTANTS
  Procs,    \* proxy processes
  Callers,  \* handshakes
  Home,     \* the process of a handshake
  Hosts,    \* host names
  KeyPairs, \* the key pairs of the workers
  Faults    \* what may go wrong

None == "none"

ASSUME NoneAssumption == None \notin KeyPairs \cup Hosts \cup Callers
ASSUME HomeAssumption == Home \in [Callers -> Procs]
ASSUME FaultsAssumption == Faults \subseteq {"read", "worker", "mkdir", "save", "crash"}

VARIABLES
  useCertificateCache, \* the option, which a run of the program never changes
  disk,      \* per host: the key pairs of cert.crt and of key.pem
  cache,     \* per process and host: CertificateCacheManager.cache
  ctxCache,  \* per process and host: SecureContextManager.ctxCache
  inFlight,  \* per process and host: inFlight of the manager in use
  task,      \* per caller: the task it has started
  call       \* per caller: what has become of its call

vars == <<useCertificateCache, disk, cache, ctxCache, inFlight, task, call>>

Leaf(cert, key) == [cert |-> cert, key |-> key]
NoLeaf == Leaf(None, None)
Leaves == [cert : KeyPairs, key : KeyPairs]

IsPair(l) == l.cert # None /\ l.key # None
Matches(l) == l.cert = l.key

Got(l) == [st |-> "got", leaf |-> l]
Failed == [st |-> "failed", leaf |-> NoLeaf]
Results == {Failed} \cup {Got(l) : l \in Leaves}

NoEntry == [st |-> "none"]
NoTask == [pc |-> "none", host |-> None, leaf |-> NoLeaf]
NoCall == [st |-> "idle", host |-> None, on |-> None, leaf |-> NoLeaf]

Files == [cert : KeyPairs \cup {None}, key : KeyPairs \cup {None}]
Entries == {NoEntry} \cup [st : {"running"}, task : Callers]
                     \cup [st : {"settled"}, result : Results]
Tasks == [pc : {"none", "readCert", "readKey", "generating", "renameCert", "renameKey"},
          host : Hosts \cup {None}, leaf : Files]
CallStates == [st : {"idle", "waiting", "got", "failed"}, host : Hosts \cup {None},
               on : Callers \cup {None}, leaf : Leaves \cup {NoLeaf}]

TypeOK ==
  /\ useCertificateCache \in BOOLEAN
  /\ disk \in [Hosts -> Files]
  /\ cache \in [Procs -> [Hosts -> Leaves \cup {NoLeaf}]]
  /\ ctxCache \in [Procs -> [Hosts -> Leaves \cup {NoLeaf}]]
  /\ inFlight \in [Procs -> [Hosts -> Entries]]
  /\ task \in [Callers -> Tasks]
  /\ call \in [Callers -> CallStates]

Init ==
  /\ useCertificateCache \in BOOLEAN
  /\ disk = [h \in Hosts |-> NoLeaf]
  /\ cache = [p \in Procs |-> [h \in Hosts |-> NoLeaf]]
  /\ ctxCache = cache
  /\ inFlight = [p \in Procs |-> [h \in Hosts |-> NoEntry]]
  /\ task = [c \in Callers |-> NoTask]
  /\ call = [c \in Callers |-> NoCall]

\* A process in the middle of synchronous file operations.
Busy(p) ==
  \E c \in Callers : Home[c] = p /\ task[c].pc \notin {"none", "generating"}

-----------------------------------------------------------------------------
(* The ends of a call *)

\* tls.createSecureContext throws for a key that is not the certificate's.
Context(r) == IF r.st = "got" /\ ~Matches(r.leaf) THEN Failed ELSE r

\* The callers in cs continue with the result r for h.
Answer(cs, p, h, r) ==
  /\ call' = [c \in Callers |->
               IF c \in cs THEN [st |-> Context(r).st, host |-> h, on |-> None,
                                 leaf |-> Context(r).leaf]
               ELSE call[c]]
  /\ ctxCache' = IF Context(r).st = "got" THEN [ctxCache EXCEPT ![p][h] = r.leaf]
                 ELSE ctxCache

\* Mutant of Waiting: a call that has joined the task of another is not answered.
OnlyItsOwn(t) == {c \in Callers : call[c].st = "waiting" /\ c = t}

Waiting(t) == {c \in Callers : call[c].st = "waiting" /\ call[c].on = t}

\* The entry of a task that has run without an await: its finally block has come
\* before inFlight.set.
AfterSync(r) == [st |-> "settled", result |-> r]

\* The task of t ends with r, and its inFlight entry becomes entry.
Settles(t, r, entry) ==
  LET p == Home[t]
      h == task[t].host
  IN  /\ Answer(Waiting(t), p, h, r)
      /\ inFlight' = [inFlight EXCEPT ![p][h] = entry]
      /\ task' = [task EXCEPT ![t] = NoTask]
      /\ cache' = IF r.st = "got" /\ useCertificateCache
                  THEN [cache EXCEPT ![p][h] = r.leaf] ELSE cache

-----------------------------------------------------------------------------
(* A call: getSecureContext or, without the certificate cache,             *)
(* generateSecureContext.                                                  *)

\* What a call finds without a task: the secure context, the leaf in memory, or the
\* result of a task that is still in inFlight.
Known(p, h) ==
  IF useCertificateCache /\ ctxCache[p][h] # NoLeaf THEN {Got(ctxCache[p][h])}
  ELSE IF useCertificateCache /\ cache[p][h] # NoLeaf THEN {Got(cache[p][h])}
  ELSE IF inFlight[p][h].st = "settled" THEN {inFlight[p][h].result} ELSE {}

Calls(c) == ~Busy(Home[c]) /\ call[c].st # "waiting" /\ task[c] = NoTask

CallIsAnswered(c, h) ==
  /\ Calls(c)
  /\ \E r \in Known(Home[c], h) : Answer({c}, Home[c], h, r)
  /\ UNCHANGED <<disk, cache, inFlight, task>>

WaitsFor(c, h, t) == call' = [call EXCEPT ![c] = [st |-> "waiting", host |-> h,
                                                  on |-> t, leaf |-> NoLeaf]]

CallJoins(c, h) ==
  /\ Calls(c) /\ Known(Home[c], h) = {}
  /\ inFlight[Home[c]][h].st = "running"
  /\ WaitsFor(c, h, inFlight[Home[c]][h].task)
  /\ UNCHANGED <<disk, cache, ctxCache, inFlight, task>>

\* Mutant of Registers: the task is not entered into inFlight.
NotRegistered(c, h) == UNCHANGED inFlight

Registers(c, h) ==
  inFlight' = [inFlight EXCEPT ![Home[c]][h] = [st |-> "running", task |-> c]]

\* A new task: it reads the files, if both exist, or calls the worker.
CallStarts(c, h) ==
  /\ Calls(c) /\ Known(Home[c], h) = {} /\ inFlight[Home[c]][h].st = "none"
  /\ task' = [task EXCEPT ![c] =
               [pc |-> IF useCertificateCache /\ IsPair(disk[h]) THEN "readCert"
                       ELSE "generating",
                host |-> h, leaf |-> NoLeaf]]
  /\ Registers(c, h)
  /\ WaitsFor(c, h, c)
  /\ UNCHANGED <<disk, cache, ctxCache>>

-----------------------------------------------------------------------------
(* A task *)

\* The task of t goes on with pc and leaf.
GoesTo(t, pc, leaf) ==
  task' = [task EXCEPT ![t] = [pc |-> pc, host |-> task[t].host, leaf |-> leaf]]

ReadCert(t) ==
  /\ task[t].pc = "readCert"
  /\ GoesTo(t, "readKey", Leaf(disk[task[t].host].cert, None))
  /\ UNCHANGED <<disk, cache, ctxCache, inFlight, call>>

ReadKey(t) ==
  /\ task[t].pc = "readKey"
  /\ LET r == Got(Leaf(task[t].leaf.cert, disk[task[t].host].key))
     IN  Settles(t, r, AfterSync(r))
  /\ UNCHANGED disk

ReadFails(t) ==
  /\ "read" \in Faults /\ task[t].pc \in {"readCert", "readKey"}
  /\ Settles(t, Failed, AfterSync(Failed))
  /\ UNCHANGED disk

\* The worker returns a leaf made with its key pair.
WorkerReturns(t) ==
  /\ task[t].pc = "generating" /\ ~Busy(Home[t])
  /\ \E k \in KeyPairs :
       IF useCertificateCache
       THEN /\ GoesTo(t, "renameCert", Leaf(k, k))
            /\ UNCHANGED <<cache, ctxCache, inFlight, call>>
       ELSE Settles(t, Got(Leaf(k, k)), NoEntry)
  /\ UNCHANGED disk

\* The worker fails.
WorkerFails(t) ==
  /\ "worker" \in Faults /\ task[t].pc = "generating" /\ ~Busy(Home[t])
  /\ Settles(t, Failed, NoEntry)
  /\ UNCHANGED disk

\* saveToFile cannot create the directory, which it does not catch.
MkdirFails(t) ==
  /\ "mkdir" \in Faults /\ task[t].pc = "renameCert"
  /\ disk[task[t].host] = NoLeaf
  /\ Settles(t, Failed, NoEntry)
  /\ UNCHANGED disk

\* Mutant of RenamesCert: a certificate that is there is kept.
KeepsCert(h, k) == IF disk[h].cert = None THEN k ELSE disk[h].cert

\* fs.renameSync replaces what is there.
RenamesCert(h, k) == k

\* saveToFile has written the temporary files and renames the first.
RenameCert(t) ==
  LET h == task[t].host IN
  /\ task[t].pc = "renameCert"
  /\ disk' = [disk EXCEPT ![h] = Leaf(RenamesCert(h, task[t].leaf.cert), @.key)]
  /\ GoesTo(t, "renameKey", task[t].leaf)
  /\ UNCHANGED <<cache, ctxCache, inFlight, call>>

RenameKey(t) ==
  /\ task[t].pc = "renameKey"
  /\ disk' = [disk EXCEPT ![task[t].host] = Leaf(@.cert, task[t].leaf.key)]
  /\ Settles(t, Got(task[t].leaf), NoEntry)

\* A write or a rename fails: it is logged, and the leaf is used all the same, unless a
\* temporary file cannot be deleted, which saveToFile does not catch.
SaveFails(t) ==
  /\ "save" \in Faults /\ task[t].pc \in {"renameCert", "renameKey"}
  /\ \E r \in {Got(task[t].leaf), Failed} : Settles(t, r, NoEntry)
  /\ UNCHANGED disk

-----------------------------------------------------------------------------
(* The environment *)

\* An LRU cache drops an entry: its time is over or the cache is full.
Evict(p, h) ==
  /\ ~Busy(p)
  /\ \/ /\ cache[p][h] # NoLeaf
        /\ cache' = [cache EXCEPT ![p][h] = NoLeaf]
        /\ UNCHANGED ctxCache
     \/ /\ ctxCache[p][h] # NoLeaf
        /\ ctxCache' = [ctxCache EXCEPT ![p][h] = NoLeaf]
        /\ UNCHANGED cache
  /\ UNCHANGED <<disk, inFlight, task, call>>

\* A process crashes and starts again.
Restart(p) ==
  /\ "crash" \in Faults
  /\ cache' = [cache EXCEPT ![p] = [h \in Hosts |-> NoLeaf]]
  /\ ctxCache' = [ctxCache EXCEPT ![p] = [h \in Hosts |-> NoLeaf]]
  /\ inFlight' = [inFlight EXCEPT ![p] = [h \in Hosts |-> NoEntry]]
  /\ task' = [c \in Callers |-> IF Home[c] = p THEN NoTask ELSE task[c]]
  /\ call' = [c \in Callers |-> IF Home[c] = p THEN NoCall ELSE call[c]]
  /\ UNCHANGED disk

TaskSteps(t) ==
  /\ \/ ReadCert(t) \/ ReadKey(t) \/ ReadFails(t)
     \/ WorkerReturns(t) \/ WorkerFails(t)
     \/ MkdirFails(t) \/ RenameCert(t) \/ RenameKey(t) \/ SaveFails(t)
  /\ UNCHANGED useCertificateCache

CallSteps(c) ==
  /\ \E h \in Hosts : CallIsAnswered(c, h) \/ CallJoins(c, h) \/ CallStarts(c, h)
  /\ UNCHANGED useCertificateCache

EnvironmentSteps(p) ==
  /\ Restart(p) \/ \E h \in Hosts : Evict(p, h)
  /\ UNCHANGED useCertificateCache

Next ==
  \/ \E c \in Callers : CallSteps(c) \/ TaskSteps(c)
  \/ \E p \in Procs : EnvironmentSteps(p)

Spec == Init /\ [][Next]_vars

\* Fairness: the workers answer, synchronous code runs on, and the event loop comes to
\* a worker's answer however often new calls keep the process busy.
Fairness == \A t \in Callers : SF_vars(TaskSteps(t))

FairSpec == Spec /\ Fairness

-----------------------------------------------------------------------------
(* Properties *)

\* A process never works on two tasks for one host: concurrent handshakes share the
\* generation of a certificate.
OneTaskPerHost ==
  \A s, t \in Callers :
    s # t /\ task[s].pc # "none" /\ task[t].pc # "none" /\ Home[s] = Home[t]
      => task[s].host # task[t].host

\* A certificate is never paired with the key of another, on disk or in memory,
\* whichever step of the save a crash or a fault has interrupted.
PairsMatch ==
  /\ \A h \in Hosts : IsPair(disk[h]) => Matches(disk[h])
  /\ \A p \in Procs, h \in Hosts : Matches(cache[p][h])

\* What a process has in memory for a host is what it would read from disk, if there
\* is anything to read: caches that expire at different times do not make a host
\* change its certificate.
MemoryMatchesDisk ==
  \A p \in Procs, h \in Hosts :
    IsPair(disk[h]) => {cache[p][h], ctxCache[p][h]} \subseteq {NoLeaf, disk[h]}

\* The inFlight entry of a host names the task that works on it.
TasksAreRegistered ==
  \A t \in Callers : task[t].pc # "none" =>
    /\ task[t].host \in Hosts
    /\ inFlight[Home[t]][task[t].host] = [st |-> "running", task |-> t]

\* A task reads where both files exist, and saves the leaf of a worker.
TasksKnowTheirPart ==
  \A t \in Callers :
    /\ task[t].pc \in {"readCert", "readKey"} =>
         useCertificateCache /\ IsPair(disk[task[t].host])
    /\ task[t].pc = "readKey" => task[t].leaf.cert \in KeyPairs
    /\ task[t].pc \in {"renameCert", "renameKey"} =>
         useCertificateCache /\ task[t].leaf \in Leaves /\ Matches(task[t].leaf)

OneProcess == \A p, q \in Procs : p = q

\* With one process the key is saved last, ...
KeyComesLast ==
  \A h \in Hosts :
    /\ disk[h].key # None => Matches(disk[h])
    /\ ~useCertificateCache => disk[h] = NoLeaf

\* ... a task that generates finds neither a key on disk nor anything in memory, ...
GeneratesWhatIsMissing ==
  \A t \in Callers :
    useCertificateCache /\ task[t].pc \in {"generating", "renameCert", "renameKey"} =>
      /\ disk[task[t].host].key = None
      /\ cache[Home[t]][task[t].host] = NoLeaf
      /\ ctxCache[Home[t]][task[t].host] = NoLeaf

\* ... the certificate a task has read or saved is still there, ...
CertStays ==
  \A t \in Callers :
    task[t].pc \in {"readKey", "renameKey"} => task[t].leaf.cert = disk[task[t].host].cert

\* ... and what stays in inFlight is a failure or the pair on disk.
SettledIsOnDisk ==
  \A p \in Procs, h \in Hosts :
    inFlight[p][h].st = "settled" =>
      \/ inFlight[p][h].result = Failed
      \/ IsPair(disk[h]) /\ inFlight[p][h].result = Got(disk[h])

Consistent ==
  /\ KeyComesLast
  /\ GeneratesWhatIsMissing
  /\ CertStays
  /\ SettledIsOnDisk
  /\ PairsMatch
  /\ MemoryMatchesDisk

\* The inductive invariant.
IInv ==
  /\ TypeOK
  /\ TasksAreRegistered
  /\ TasksKnowTheirPart
  /\ OneProcess => Consistent

\* A running inFlight entry names a task that is at work for its process and host, ...
RunningIsAtWork ==
  \A p \in Procs, h \in Hosts : inFlight[p][h].st = "running" =>
    LET t == inFlight[p][h].task
    IN  Home[t] = p /\ task[t].pc # "none" /\ task[t].host = h

\* ... and so does every call that waits: no handshake waits for a result that nobody
\* is working out any more.
NobodyIsForgotten ==
  \A c \in Callers : call[c].st = "waiting" =>
    LET t == call[c].on
    IN  /\ t \in Callers /\ Home[t] = Home[c]
        /\ task[t].pc # "none" /\ task[t].host = call[c].host

\* Every handshake gets its certificate or an error.
CallSettles ==
  \A c \in Callers : call[c].st = "waiting" ~> call[c].st # "waiting"

-----------------------------------------------------------------------------
(* A statement about the program that the code does not keep. *)

\* A comment says that inFlight is cleaned up when a task ends, and a test that a
\* failed task is cleared; so the failure of one is not the answer to a later call.
FailureIsCleared ==
  \A p \in Procs, h \in Hosts : inFlight[p][h] # AfterSync(Failed)
==============================================================================
