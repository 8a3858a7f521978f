----------------------- MODULE CertificateCacheProofs -----------------------
(***************************************************************************)
(* Proofs about CertificateCache, for any handshakes, hosts, key pairs and *)
(* faults: what holds of any number of processes that share a directory,   *)
(* and what holds of one.                                                  *)
(***************************************************************************)
EXTENDS CertificateCache, TLAPS

-----------------------------------------------------------------------------
(* Results and entries. *)

LEMMA NoLeafIsAFile == NoLeaf \in Files
  BY DEF NoLeaf, Leaf, Files

LEMMA LeavesAreFiles ==
  /\ Leaves \subseteq Files
  /\ \A l \in Leaves : IsPair(l) /\ l # NoLeaf
  BY NoneAssumption DEF Leaves, Files, IsPair, NoLeaf, Leaf

LEMMA PairIsALeaf ==
  ASSUME NEW l \in Files, IsPair(l)
  PROVE  l \in Leaves
  BY DEF Leaves, Files, IsPair

LEMMA ResultFields ==
  ASSUME NEW r \in Results
  PROVE  /\ r.st \in {"got", "failed"}
         /\ r.st = "got" => r.leaf \in Leaves /\ r = Got(r.leaf)
         /\ r.st = "failed" => r = Failed
         /\ r.leaf \in Leaves \cup {NoLeaf}
  BY DEF Results, Got, Failed

LEMMA ContextOf ==
  ASSUME NEW r \in Results
  PROVE  /\ Context(r) \in Results
         /\ Context(r).st = "got" => Context(r) = r /\ r.st = "got" /\ Matches(r.leaf)
         /\ r.st = "got" /\ Matches(r.leaf) => Context(r) = r
  BY ResultFields DEF Context, Results, Failed, Got

LEMMA GotIsAResult ==
  ASSUME NEW l \in Leaves
  PROVE  Got(l) \in Results /\ Got(l).st = "got" /\ Got(l).leaf = l
  BY DEF Results, Got

LEMMA FailedIsAResult == Failed \in Results /\ Failed.st = "failed" /\ Failed.leaf = NoLeaf
  BY DEF Results, Failed

LEMMA EntryFields ==
  ASSUME NEW e \in Entries
  PROVE  /\ e.st \in {"none", "running", "settled"}
         /\ e.st = "settled" => e.result \in Results
         /\ e.st = "running" => e.task \in Callers
  BY DEF Entries, NoEntry

LEMMA EntriesMade ==
  /\ NoEntry \in Entries /\ NoEntry.st = "none"
  /\ \A t \in Callers : [st |-> "running", task |-> t] \in Entries
  /\ \A r \in Results : /\ AfterSync(r) \in Entries
                        /\ AfterSync(r).st = "settled" /\ AfterSync(r).result = r
  BY DEF Entries, NoEntry, AfterSync

-----------------------------------------------------------------------------
(* The ends of a call and of a task, for any number of processes. *)

\* What answering calls with r does to the secure contexts.
Caches(p, h, r) ==
  \A q \in Procs, g \in Hosts :
    ctxCache'[q][g] = IF q = p /\ g = h /\ r.st = "got" /\ Matches(r.leaf)
                      THEN r.leaf ELSE ctxCache[q][g]

\* Answering calls keeps the types, and caches the context of a matching leaf only.
LEMMA AnswerKeeps ==
  ASSUME TypeOK, NEW cs, NEW p \in Procs, NEW h \in Hosts, NEW r \in Results,
         Answer(cs, p, h, r)
  PROVE  /\ call' \in [Callers -> CallStates]
         /\ ctxCache' \in [Procs -> [Hosts -> Leaves \cup {NoLeaf}]]
         /\ Caches(p, h, r)
<1>1. Context(r) \in Results /\ Context(r).leaf \in Leaves \cup {NoLeaf}
      /\ Context(r).st \in {"got", "failed"}
  BY ContextOf, ResultFields
<1>2. [st |-> Context(r).st, host |-> h, on |-> None, leaf |-> Context(r).leaf]
        \in CallStates
  BY <1>1 DEF CallStates
<1>3. call' \in [Callers -> CallStates]
  BY <1>2 DEF Answer, TypeOK
<1>4. Context(r).st = "got" <=> r.st = "got" /\ Matches(r.leaf)
  BY ContextOf
<1>5. CASE Context(r).st = "got"
  <2>1. r.leaf \in Leaves
    BY <1>4, <1>5, ResultFields
  <2> QED
    BY <1>3, <1>4, <1>5, <2>1 DEF Answer, TypeOK, Caches
<1>6. CASE Context(r).st # "got"
  BY <1>3, <1>4, <1>6 DEF Answer, TypeOK, Caches
<1> QED
  BY <1>5, <1>6

\* The parts of the invariant that hold of any number of processes.
Orderly == TypeOK /\ TasksAreRegistered /\ TasksKnowTheirPart

\* Only one task works on a host in a process.
LEMMA OneTask ==
  ASSUME TasksAreRegistered, NEW s \in Callers, NEW t \in Callers,
         task[s].pc # "none", task[t].pc # "none",
         Home[s] = Home[t], task[s].host = task[t].host
  PROVE  s = t
<1>1. [st |-> "running", task |-> s] = [st |-> "running", task |-> t]
  BY DEF TasksAreRegistered
<1>2. [st |-> "running", task |-> s].task = [st |-> "running", task |-> t].task
  BY <1>1
<1> QED
  BY <1>2

\* A task that ends leaves the other tasks alone.
LEMMA SettlesKeepsOrder ==
  ASSUME Orderly, NEW t \in Callers, task[t].pc # "none", NEW r \in Results,
         NEW entry \in Entries, Settles(t, r, entry), UNCHANGED useCertificateCache,
         disk' \in [Hosts -> Files],
         \A h \in Hosts : IsPair(disk[h]) => IsPair(disk'[h])
  PROVE  Orderly'
<1> DEFINE p == Home[t]
           h == task[t].host
<1>1. p \in Procs /\ h \in Hosts
  BY HomeAssumption DEF Orderly, TasksAreRegistered
<1>2. /\ Answer(Waiting(t), p, h, r)
      /\ inFlight' = [inFlight EXCEPT ![p][h] = entry]
      /\ task' = [task EXCEPT ![t] = NoTask]
      /\ cache' = IF r.st = "got" /\ useCertificateCache
                  THEN [cache EXCEPT ![p][h] = r.leaf] ELSE cache
  BY DEF Settles
<1>3. call' \in [Callers -> CallStates]
      /\ ctxCache' \in [Procs -> [Hosts -> Leaves \cup {NoLeaf}]]
  BY <1>1, <1>2, AnswerKeeps DEF Orderly
<1>4. NoTask \in Tasks /\ NoTask.pc = "none"
  BY NoLeafIsAFile DEF NoTask, Tasks
<1>5. TypeOK'
  BY <1>1, <1>2, <1>3, <1>4, ResultFields DEF Orderly, TypeOK
<1>6. TasksAreRegistered'
  <2> SUFFICES ASSUME NEW s \in Callers, task'[s].pc # "none"
               PROVE  /\ task'[s].host \in Hosts
                      /\ inFlight'[Home[s]][task'[s].host] = [st |-> "running", task |-> s]
    BY DEF TasksAreRegistered
  <2>1. s # t /\ task'[s] = task[s]
    BY <1>2, <1>4 DEF Orderly, TypeOK
  <2>2. task[s].host \in Hosts /\ Home[s] \in Procs
        /\ inFlight[Home[s]][task[s].host] = [st |-> "running", task |-> s]
    BY <2>1, HomeAssumption DEF Orderly, TasksAreRegistered
  <2>3. ~(Home[s] = p /\ task[s].host = h)
    BY <2>1, OneTask DEF Orderly
  <2> QED
    BY <1>1, <1>2, <2>1, <2>2, <2>3 DEF Orderly, TypeOK
<1>7. TasksKnowTheirPart'
  <2> SUFFICES ASSUME NEW s \in Callers
      PROVE  /\ task'[s].pc \in {"readCert", "readKey"} =>
                  useCertificateCache' /\ IsPair(disk'[task'[s].host])
             /\ task'[s].pc = "readKey" => task'[s].leaf.cert \in KeyPairs
             /\ task'[s].pc \in {"renameCert", "renameKey"} =>
                  useCertificateCache' /\ task'[s].leaf \in Leaves /\ Matches(task'[s].leaf)
    BY DEF TasksKnowTheirPart
  <2>1. CASE s = t
    BY <1>2, <1>4, <2>1 DEF Orderly, TypeOK
  <2>2. CASE s # t
    <3>1. task'[s] = task[s]
      BY <1>2, <2>2 DEF Orderly, TypeOK
    <3> QED
      BY <3>1 DEF Orderly, TasksKnowTheirPart, TasksAreRegistered
  <2> QED
    BY <2>1, <2>2
<1> QED
  BY <1>5, <1>6, <1>7 DEF Orderly

-----------------------------------------------------------------------------
(* The steps, for any number of processes. *)

LEMMA KnownResults ==
  ASSUME TypeOK, NEW p \in Procs, NEW h \in Hosts, NEW r \in Known(p, h)
  PROVE  r \in Results
<1>1. ctxCache[p][h] # NoLeaf => Got(ctxCache[p][h]) \in Results
  BY GotIsAResult DEF TypeOK
<1>2. cache[p][h] # NoLeaf => Got(cache[p][h]) \in Results
  BY GotIsAResult DEF TypeOK
<1>3. inFlight[p][h].st = "settled" => inFlight[p][h].result \in Results
  BY EntryFields DEF TypeOK
<1> QED
  BY <1>1, <1>2, <1>3 DEF Known

LEMMA CallsKeepOrder ==
  ASSUME Orderly, NEW c \in Callers, CallSteps(c)
  PROVE  Orderly'
<1> USE HomeAssumption DEF Orderly
<1>1. PICK h \in Hosts : CallIsAnswered(c, h) \/ CallJoins(c, h) \/ CallStarts(c, h)
  BY DEF CallSteps
<1>2. UNCHANGED useCertificateCache /\ Home[c] \in Procs
  BY DEF CallSteps
<1>3. ASSUME NEW t \in Callers PROVE [st |-> "waiting", host |-> h, on |-> t, leaf |-> NoLeaf]
                                       \in CallStates
  BY DEF CallStates
<1>4. CASE CallIsAnswered(c, h)
  <2>1. PICK r \in Results : Answer({c}, Home[c], h, r)
    BY <1>2, <1>4, KnownResults DEF CallIsAnswered
  <2>2. call' \in [Callers -> CallStates]
        /\ ctxCache' \in [Procs -> [Hosts -> Leaves \cup {NoLeaf}]]
    BY <1>2, <2>1, AnswerKeeps
  <2>3. TypeOK'
    BY <1>2, <1>4, <2>2 DEF CallIsAnswered, TypeOK
  <2> QED
    BY <1>2, <1>4, <2>3 DEF CallIsAnswered, TasksAreRegistered, TasksKnowTheirPart
<1>5. CASE CallJoins(c, h)
  <2>1. inFlight[Home[c]][h].task \in Callers
    BY <1>2, <1>5, EntryFields DEF CallJoins, TypeOK
  <2>2. call' \in [Callers -> CallStates]
    BY <1>3, <1>5, <2>1 DEF CallJoins, WaitsFor, TypeOK
  <2>3. TypeOK'
    BY <1>2, <1>5, <2>2 DEF CallJoins, TypeOK
  <2> QED
    BY <1>2, <1>5, <2>3 DEF CallJoins, TasksAreRegistered, TasksKnowTheirPart
<1>6. CASE CallStarts(c, h)
  <2> DEFINE new == [pc |-> IF useCertificateCache /\ IsPair(disk[h]) THEN "readCert"
                            ELSE "generating",
                     host |-> h, leaf |-> NoLeaf]
  <2>1. new \in Tasks
    BY NoLeafIsAFile DEF Tasks
  <2>2. /\ task[c] = NoTask /\ task' = [task EXCEPT ![c] = new]
        /\ inFlight[Home[c]][h].st = "none"
        /\ inFlight' = [inFlight EXCEPT ![Home[c]][h] = [st |-> "running", task |-> c]]
        /\ UNCHANGED <<disk, cache, ctxCache>>
    BY <1>6 DEF CallStarts, Calls, Registers
  <2>3. call' \in [Callers -> CallStates]
    BY <1>3, <1>6 DEF CallStarts, WaitsFor, TypeOK
  <2>4. TypeOK'
    BY <1>2, <2>1, <2>2, <2>3, EntriesMade DEF TypeOK
  <2>5. ASSUME NEW s \in Callers, s # c, task[s].pc # "none"
        PROVE  ~(Home[s] = Home[c] /\ task[s].host = h)
    <3>1. inFlight[Home[s]][task[s].host].st = "running"
      <4>1. inFlight[Home[s]][task[s].host] = [st |-> "running", task |-> s]
        BY <2>5 DEF TasksAreRegistered
      <4> QED
        BY <4>1
    <3> QED
      BY <2>2, <3>1
  <2>6. TasksAreRegistered'
    <3> SUFFICES ASSUME NEW s \in Callers, task'[s].pc # "none"
                 PROVE  /\ task'[s].host \in Hosts
                        /\ inFlight'[Home[s]][task'[s].host] = [st |-> "running", task |-> s]
      BY DEF TasksAreRegistered
    <3>1. CASE s = c
      BY <1>2, <2>2, <3>1 DEF TypeOK
    <3>2. CASE s # c
      BY <1>2, <2>2, <2>5, <3>2 DEF TypeOK, TasksAreRegistered
    <3> QED
      BY <3>1, <3>2
  <2>7. TasksKnowTheirPart'
    BY <1>2, <2>2 DEF TypeOK, TasksKnowTheirPart
  <2> QED
    BY <2>4, <2>6, <2>7
<1> QED
  BY <1>1, <1>4, <1>5, <1>6

\* A task that goes on keeps its host and its entry.
LEMMA TaskGoesOn ==
  ASSUME Orderly, NEW t \in Callers, task[t].pc # "none", NEW pc, NEW leaf,
         pc # "none", [pc |-> pc, host |-> task[t].host, leaf |-> leaf] \in Tasks,
         GoesTo(t, pc, leaf),
         UNCHANGED <<useCertificateCache, cache, ctxCache, inFlight, call>>,
         disk' \in [Hosts -> Files],
         \A h \in Hosts : IsPair(disk[h]) => IsPair(disk'[h]),
         pc \in {"readCert", "readKey"} =>
           useCertificateCache /\ IsPair(disk'[task[t].host]),
         pc = "readKey" => leaf.cert \in KeyPairs,
         pc \in {"renameCert", "renameKey"} =>
           useCertificateCache /\ leaf \in Leaves /\ Matches(leaf)
  PROVE  Orderly'
<1>1. TypeOK'
  BY DEF Orderly, TypeOK, GoesTo
<1>2. TasksAreRegistered'
  BY DEF Orderly, TypeOK, TasksAreRegistered, GoesTo
<1>3. TasksKnowTheirPart'
  BY DEF Orderly, TypeOK, TasksAreRegistered, TasksKnowTheirPart, GoesTo
<1> QED
  BY <1>1, <1>2, <1>3 DEF Orderly

LEMMA TaskHost ==
  ASSUME Orderly, NEW t \in Callers, task[t].pc # "none"
  PROVE  task[t].host \in Hosts /\ disk[task[t].host] \in Files /\ task[t] \in Tasks
         /\ task[t].leaf \in Files
  BY DEF Orderly, TasksAreRegistered, TypeOK, Tasks

LEMMA RenamesKeepPairs ==
  ASSUME TypeOK, NEW h \in Hosts, NEW k \in KeyPairs
  PROVE  /\ Leaf(k, disk[h].key) \in Files /\ Leaf(disk[h].cert, k) \in Files
         /\ IsPair(disk[h]) => IsPair(Leaf(k, disk[h].key)) /\ IsPair(Leaf(disk[h].cert, k))
  BY NoneAssumption DEF TypeOK, Files, IsPair, Leaf

LEMMA TasksKeepOrder ==
  ASSUME Orderly, NEW t \in Callers, TaskSteps(t)
  PROVE  Orderly'
<1> DEFINE h == task[t].host
<1>1. UNCHANGED useCertificateCache /\ task[t].pc # "none"
  BY DEF TaskSteps, ReadCert, ReadKey, ReadFails, WorkerReturns, WorkerFails, MkdirFails,
     RenameCert, RenameKey, SaveFails
<1>2. h \in Hosts /\ disk[h] \in Files /\ task[t] \in Tasks /\ task[t].leaf \in Files
  BY <1>1, TaskHost
<1>3. disk \in [Hosts -> Files]
  BY DEF Orderly, TypeOK
<1>4. CASE ReadCert(t)
  <2>1. disk[h].cert \in KeyPairs /\ useCertificateCache /\ IsPair(disk[h])
    BY <1>2, <1>4 DEF ReadCert, Orderly, TasksKnowTheirPart, IsPair, Files
  <2>2. [pc |-> "readKey", host |-> h, leaf |-> Leaf(disk[h].cert, None)] \in Tasks
        /\ Leaf(disk[h].cert, None).cert = disk[h].cert
    BY <1>2, <2>1 DEF Tasks, Files, Leaf
  <2> QED
    BY <1>1, <1>2, <1>3, <1>4, <2>1, <2>2, TaskGoesOn DEF ReadCert
<1>5. CASE ReadKey(t)
  <2> DEFINE r == Got(Leaf(task[t].leaf.cert, disk[h].key))
  <2>1. Leaf(task[t].leaf.cert, disk[h].key) \in Leaves
    BY <1>2, <1>5 DEF ReadKey, Orderly, TasksKnowTheirPart, IsPair, Files, Leaves, Leaf
  <2>2. r \in Results /\ AfterSync(r) \in Entries
    BY <2>1, GotIsAResult, EntriesMade
  <2>3. Settles(t, r, AfterSync(r)) /\ disk' = disk
    BY <1>5 DEF ReadKey
  <2> QED
    BY <1>1, <1>3, <2>2, <2>3, SettlesKeepsOrder
<1>6. CASE ReadFails(t)
  BY <1>1, <1>3, <1>6, SettlesKeepsOrder, FailedIsAResult, EntriesMade DEF ReadFails
<1>7. CASE WorkerReturns(t)
  <2>1. PICK k \in KeyPairs :
          IF useCertificateCache
          THEN /\ GoesTo(t, "renameCert", Leaf(k, k))
               /\ UNCHANGED <<cache, ctxCache, inFlight, call>>
          ELSE Settles(t, Got(Leaf(k, k)), NoEntry)
    BY <1>7 DEF WorkerReturns
  <2>2. Leaf(k, k) \in Leaves /\ Leaf(k, k) \in Files /\ Matches(Leaf(k, k))
    BY DEF Leaves, Leaf, Matches, Files
  <2>3. disk' = disk
    BY <1>7 DEF WorkerReturns
  <2>4. CASE useCertificateCache
    <3>1. [pc |-> "renameCert", host |-> h, leaf |-> Leaf(k, k)] \in Tasks
      BY <1>2, <2>2 DEF Tasks
    <3> QED
      BY <1>1, <1>2, <1>3, <2>1, <2>2, <2>3, <2>4, <3>1, TaskGoesOn
  <2>5. CASE ~useCertificateCache
    BY <1>1, <1>3, <2>1, <2>2, <2>3, <2>5, SettlesKeepsOrder, GotIsAResult, EntriesMade
  <2> QED
    BY <2>4, <2>5
<1>8. CASE WorkerFails(t)
  BY <1>1, <1>3, <1>8, SettlesKeepsOrder, FailedIsAResult, EntriesMade DEF WorkerFails
<1>9. CASE MkdirFails(t)
  BY <1>1, <1>3, <1>9, SettlesKeepsOrder, FailedIsAResult, EntriesMade DEF MkdirFails
<1>10. ASSUME task[t].pc \in {"renameCert", "renameKey"}
       PROVE  /\ useCertificateCache /\ task[t].leaf \in Leaves /\ Matches(task[t].leaf)
              /\ task[t].leaf.cert \in KeyPairs /\ task[t].leaf.key \in KeyPairs
  BY <1>10 DEF Orderly, TasksKnowTheirPart, Leaves
<1>11. CASE RenameCert(t)
  <2> DEFINE f == Leaf(task[t].leaf.cert, disk[h].key)
  <2>1. f \in Files /\ (IsPair(disk[h]) => IsPair(f))
    BY <1>2, <1>10, <1>11, RenamesKeepPairs DEF RenameCert, Orderly
  <2>2. disk' = [disk EXCEPT ![h] = f]
    BY <1>11 DEF RenameCert, RenamesCert
  <2>3. disk' \in [Hosts -> Files] /\ \A g \in Hosts : IsPair(disk[g]) => IsPair(disk'[g])
    BY <1>2, <1>3, <2>1, <2>2
  <2>4. [pc |-> "renameKey", host |-> h, leaf |-> task[t].leaf] \in Tasks
    BY <1>2 DEF Tasks
  <2> QED
    BY <1>1, <1>2, <1>10, <1>11, <2>3, <2>4, TaskGoesOn DEF RenameCert
<1>12. CASE RenameKey(t)
  <2> DEFINE f == Leaf(disk[h].cert, task[t].leaf.key)
  <2>1. f \in Files /\ (IsPair(disk[h]) => IsPair(f))
    BY <1>2, <1>10, <1>12, RenamesKeepPairs DEF RenameKey, Orderly
  <2>2. disk' = [disk EXCEPT ![h] = f]
    BY <1>12 DEF RenameKey
  <2>3. disk' \in [Hosts -> Files] /\ \A g \in Hosts : IsPair(disk[g]) => IsPair(disk'[g])
    BY <1>2, <1>3, <2>1, <2>2
  <2> QED
    BY <1>1, <1>10, <1>12, <2>3, SettlesKeepsOrder, GotIsAResult, EntriesMade DEF RenameKey
<1>13. CASE SaveFails(t)
  <2>1. PICK r \in {Got(task[t].leaf), Failed} : Settles(t, r, NoEntry)
    BY <1>13 DEF SaveFails
  <2>2. disk' = disk /\ task[t].pc \in {"renameCert", "renameKey"}
    BY <1>13 DEF SaveFails
  <2>3. CASE r = Got(task[t].leaf)
    BY <1>1, <1>3, <1>10, <2>1, <2>2, <2>3, SettlesKeepsOrder, GotIsAResult, EntriesMade
  <2>4. CASE r = Failed
    BY <1>1, <1>3, <2>1, <2>2, <2>4, SettlesKeepsOrder, FailedIsAResult, EntriesMade
  <2> QED
    BY <2>1, <2>3, <2>4
<1> QED
  BY <1>4, <1>5, <1>6, <1>7, <1>8, <1>9, <1>11, <1>12, <1>13 DEF TaskSteps

LEMMA EnvironmentKeepsOrder ==
  ASSUME Orderly, NEW p \in Procs, EnvironmentSteps(p)
  PROVE  Orderly'
<1> USE HomeAssumption
<1>1. CASE Restart(p)
  <2>1. NoTask \in Tasks /\ NoTask.pc = "none" /\ NoCall \in CallStates
    BY NoLeafIsAFile DEF NoTask, Tasks, NoCall, CallStates
  <2>2. UNCHANGED <<disk, useCertificateCache>>
    BY <1>1 DEF EnvironmentSteps, Restart
  <2>3. TypeOK'
    BY <1>1, <2>1, <2>2, EntriesMade DEF Restart, Orderly, TypeOK
  <2>4. ASSUME NEW s \in Callers, task'[s].pc # "none"
        PROVE  task'[s] = task[s] /\ Home[s] # p /\ Home[s] \in Procs
    BY <1>1, <2>1, <2>4 DEF Restart
  <2>5. TasksAreRegistered'
    BY <1>1, <2>4 DEF Restart, Orderly, TypeOK, TasksAreRegistered
  <2>6. TasksKnowTheirPart'
    BY <2>2, <2>4 DEF Orderly, TasksKnowTheirPart
  <2> QED
    BY <2>3, <2>5, <2>6 DEF Orderly
<1>2. CASE \E h \in Hosts : Evict(p, h)
  <2>1. TypeOK'
    <3>1. PICK h \in Hosts : Evict(p, h)
      BY <1>2
    <3>2. CASE cache' = [cache EXCEPT ![p][h] = NoLeaf] /\ UNCHANGED ctxCache
      BY <3>1, <3>2 DEF EnvironmentSteps, Evict, Orderly, TypeOK
    <3>3. CASE ctxCache' = [ctxCache EXCEPT ![p][h] = NoLeaf] /\ UNCHANGED cache
      BY <3>1, <3>3 DEF EnvironmentSteps, Evict, Orderly, TypeOK
    <3> QED
      BY <3>1, <3>2, <3>3 DEF Evict
  <2> QED
    BY <1>2, <2>1 DEF EnvironmentSteps, Evict, Orderly, TasksAreRegistered, TasksKnowTheirPart
<1> QED
  BY <1>1, <1>2 DEF EnvironmentSteps

LEMMA StepsKeepOrder ==
  ASSUME Orderly, [Next]_vars
  PROVE  Orderly'
<1>1. CASE UNCHANGED vars
  BY <1>1 DEF vars, Orderly, TypeOK, TasksAreRegistered, TasksKnowTheirPart
<1> QED
  BY <1>1, CallsKeepOrder, TasksKeepOrder, EnvironmentKeepsOrder DEF Next

LEMMA InitIsOrderly == Init => Orderly
<1> SUFFICES ASSUME Init PROVE Orderly
  OBVIOUS
<1>1. NoTask \in Tasks /\ NoTask.pc = "none" /\ NoCall \in CallStates
  BY NoLeafIsAFile DEF NoTask, Tasks, NoCall, CallStates
<1>2. TypeOK
  BY <1>1, NoLeafIsAFile, EntriesMade DEF Init, TypeOK
<1> QED
  BY <1>1, <1>2 DEF Init, Orderly, TasksAreRegistered, TasksKnowTheirPart

-----------------------------------------------------------------------------
(* The steps of one process. *)

\* No other task works on the host of a task.
LEMMA OthersElsewhere ==
  ASSUME Orderly, OneProcess, NEW s \in Callers, NEW t \in Callers, s # t,
         task[s].pc # "none", task[t].pc # "none"
  PROVE  task[s].host # task[t].host /\ task[s].host \in Hosts /\ Home[s] \in Procs
<1>1. Home[s] \in Procs /\ Home[s] = Home[t]
  BY HomeAssumption DEF OneProcess
<1> QED
  BY <1>1, OneTask DEF Orderly, TasksAreRegistered

\* A task that ends with what is on disk, or saves it, keeps memory and disk consistent.
LEMMA SettlesKeepsConsistent ==
  ASSUME Orderly, OneProcess, Consistent,
         NEW t \in Callers, task[t].pc # "none", NEW r \in Results,
         NEW entry \in Entries, Settles(t, r, entry), UNCHANGED useCertificateCache,
         \/ disk' = disk
         \/ /\ useCertificateCache
            /\ \E f \in Leaves : /\ Matches(f) /\ r = Got(f)
                                 /\ disk' = [disk EXCEPT ![task[t].host] = f],
         r.st = "got" => /\ Matches(r.leaf)
                         /\ IsPair(disk'[task[t].host]) => r.leaf = disk'[task[t].host],
         entry.st = "settled" =>
           \/ entry.result = Failed
           \/ IsPair(disk'[task[t].host]) /\ entry.result = Got(disk'[task[t].host])
  PROVE  Consistent'
<1> DEFINE p == Home[t]
           h == task[t].host
<1>1. p \in Procs /\ h \in Hosts
  BY HomeAssumption DEF Orderly, TasksAreRegistered
<1>2. /\ Answer(Waiting(t), p, h, r)
      /\ inFlight' = [inFlight EXCEPT ![p][h] = entry]
      /\ task' = [task EXCEPT ![t] = NoTask]
      /\ cache' = IF r.st = "got" /\ useCertificateCache
                  THEN [cache EXCEPT ![p][h] = r.leaf] ELSE cache
  BY DEF Settles
<1>3. \A q \in Procs, g \in Hosts :
        /\ ctxCache'[q][g] = IF g = h /\ r.st = "got" THEN r.leaf ELSE ctxCache[q][g]
        /\ cache'[q][g] = IF g = h /\ r.st = "got" /\ useCertificateCache THEN r.leaf
                          ELSE cache[q][g]
        /\ inFlight'[q][g] = IF g = h THEN entry ELSE inFlight[q][g]
  <2> SUFFICES ASSUME NEW q \in Procs, NEW g \in Hosts
      PROVE  /\ ctxCache'[q][g] = IF g = h /\ r.st = "got" THEN r.leaf ELSE ctxCache[q][g]
             /\ cache'[q][g] = IF g = h /\ r.st = "got" /\ useCertificateCache THEN r.leaf
                               ELSE cache[q][g]
             /\ inFlight'[q][g] = IF g = h THEN entry ELSE inFlight[q][g]
    OBVIOUS
  <2>1. q = p
    BY <1>1 DEF OneProcess
  <2>2. ctxCache'[q][g] = IF g = h /\ r.st = "got" THEN r.leaf ELSE ctxCache[q][g]
    <3>1. Caches(p, h, r)
      BY <1>1, <1>2, AnswerKeeps DEF Orderly
    <3>2. r.st = "got" => Matches(r.leaf)
      OBVIOUS
    <3> QED
      BY <2>1, <3>1, <3>2 DEF Caches
  <2>3. /\ cache'[q][g] = IF g = h /\ r.st = "got" /\ useCertificateCache THEN r.leaf
                          ELSE cache[q][g]
        /\ inFlight'[q][g] = IF g = h THEN entry ELSE inFlight[q][g]
    BY <1>1, <1>2, <2>1 DEF Orderly, TypeOK
  <2> QED
    BY <2>2, <2>3
<1>4. \A g \in Hosts : g # h => disk'[g] = disk[g]
  BY <1>1 DEF Orderly, TypeOK
<1>5. \/ disk'[h] = disk[h]
      \/ /\ useCertificateCache /\ Matches(disk'[h])
         /\ r.st = "got" /\ r.leaf = disk'[h]
  BY <1>1, GotIsAResult DEF Orderly, TypeOK
<1>6. ASSUME NEW s \in Callers, task'[s].pc # "none"
      PROVE  /\ task'[s] = task[s] /\ task[s].host \in Hosts /\ Home[s] \in Procs
             /\ task[s].host # h
  <2>1. s # t /\ task'[s] = task[s]
    BY <1>2, <1>6 DEF Orderly, TypeOK, NoTask
  <2> QED
    BY <1>6, <2>1, OthersElsewhere
<1>7. KeyComesLast'
  BY <1>4, <1>5 DEF Consistent, KeyComesLast
<1>8. GeneratesWhatIsMissing'
  BY <1>3, <1>4, <1>6 DEF Consistent, GeneratesWhatIsMissing
<1>9. CertStays'
  BY <1>4, <1>6 DEF Consistent, CertStays
<1>10. SettledIsOnDisk'
  BY <1>3, <1>4 DEF Consistent, SettledIsOnDisk
<1>11. PairsMatch'
  BY <1>3, <1>7 DEF Consistent, KeyComesLast, PairsMatch, IsPair
<1>12. MemoryMatchesDisk'
  BY <1>3, <1>4, <1>5 DEF Consistent, MemoryMatchesDisk
<1> QED
  BY <1>7, <1>8, <1>9, <1>10, <1>11, <1>12 DEF Consistent

\* A call finds nothing but what is on disk, if there is anything.
LEMMA KnownIsOnDisk ==
  ASSUME Orderly, Consistent, NEW p \in Procs, NEW h \in Hosts, NEW r \in Known(p, h)
  PROVE  /\ r.st = "got" /\ IsPair(disk[h]) => r.leaf = disk[h]
         /\ \/ ctxCache[p][h] # NoLeaf \/ cache[p][h] # NoLeaf
            \/ inFlight[p][h].st = "settled"
<1>1. CASE r = Got(ctxCache[p][h]) /\ ctxCache[p][h] # NoLeaf
  BY <1>1 DEF Got, Consistent, MemoryMatchesDisk
<1>2. CASE r = Got(cache[p][h]) /\ cache[p][h] # NoLeaf
  BY <1>2 DEF Got, Consistent, MemoryMatchesDisk
<1>3. CASE inFlight[p][h].st = "settled" /\ r = inFlight[p][h].result
  <2>1. r = Failed \/ r = Got(disk[h])
    BY <1>3 DEF Consistent, SettledIsOnDisk
  <2>2. Got(disk[h]).leaf = disk[h]
    BY DEF Got
  <2> QED
    BY <1>3, <2>1, <2>2, FailedIsAResult
<1> QED
  BY <1>1, <1>2, <1>3 DEF Known

LEMMA CallsKeepConsistent ==
  ASSUME Orderly, OneProcess, Consistent, NEW c \in Callers, CallSteps(c)
  PROVE  Consistent'
<1>1. PICK h \in Hosts : CallIsAnswered(c, h) \/ CallJoins(c, h) \/ CallStarts(c, h)
  BY DEF CallSteps
<1>2. UNCHANGED useCertificateCache /\ Home[c] \in Procs
  BY HomeAssumption DEF CallSteps
<1>3. CASE CallIsAnswered(c, h)
  <2> DEFINE p == Home[c]
  <2>1. PICK r \in Known(p, h) : Answer({c}, p, h, r)
    BY <1>3 DEF CallIsAnswered
  <2>2. UNCHANGED <<disk, cache, inFlight, task>>
    BY <1>3 DEF CallIsAnswered
  <2>3. \A q \in Procs, g \in Hosts :
          ctxCache'[q][g] = IF g = h /\ r.st = "got" /\ Matches(r.leaf) THEN r.leaf
                            ELSE ctxCache[q][g]
    <3>1. r \in Results
      BY <1>2, <2>1, KnownResults DEF Orderly
    <3>2. Caches(p, h, r)
      BY <1>2, <2>1, <3>1, AnswerKeeps DEF Orderly
    <3> QED
      BY <1>2, <3>2 DEF Caches, OneProcess
  <2>4. GeneratesWhatIsMissing'
    <3> SUFFICES ASSUME NEW t \in Callers, useCertificateCache,
                        task[t].pc \in {"generating", "renameCert", "renameKey"}
                 PROVE  ctxCache'[Home[t]][task[t].host] = NoLeaf
      BY <1>2, <2>2 DEF Consistent, GeneratesWhatIsMissing
    <3>1. /\ disk[task[t].host].key = None
          /\ cache[Home[t]][task[t].host] = NoLeaf
          /\ ctxCache[Home[t]][task[t].host] = NoLeaf
      BY DEF Consistent, GeneratesWhatIsMissing
    <3>2. /\ task[t].host \in Hosts /\ Home[t] = p
          /\ inFlight[Home[t]][task[t].host] = [st |-> "running", task |-> t]
      BY <1>2, HomeAssumption DEF Orderly, TasksAreRegistered, OneProcess
    <3>3. inFlight[p][task[t].host].st = "running"
      BY <3>2
    <3>4. task[t].host # h
      BY <1>2, <2>1, <3>1, <3>2, <3>3, KnownIsOnDisk
    <3> QED
      BY <1>2, <2>3, <3>1, <3>2, <3>4
  <2>5. MemoryMatchesDisk'
    BY <1>2, <2>1, <2>2, <2>3, KnownIsOnDisk DEF Consistent, MemoryMatchesDisk, OneProcess
  <2> QED
    BY <1>2, <2>2, <2>4, <2>5
       DEF Consistent, KeyComesLast, CertStays, SettledIsOnDisk, PairsMatch
<1>4. CASE CallJoins(c, h)
  BY <1>2, <1>4 DEF CallJoins, Consistent, KeyComesLast, GeneratesWhatIsMissing, CertStays,
     SettledIsOnDisk, PairsMatch, MemoryMatchesDisk
<1>5. CASE CallStarts(c, h)
  <2> DEFINE p == Home[c]
             pc == IF useCertificateCache /\ IsPair(disk[h]) THEN "readCert"
                   ELSE "generating"
  <2>1. /\ Known(p, h) = {}
        /\ task' = [task EXCEPT ![c] = [pc |-> pc, host |-> h, leaf |-> NoLeaf]]
        /\ inFlight' = [inFlight EXCEPT ![p][h] = [st |-> "running", task |-> c]]
        /\ UNCHANGED <<disk, cache, ctxCache>>
    BY <1>5 DEF CallStarts, Registers
  <2>2. useCertificateCache => ctxCache[p][h] = NoLeaf /\ cache[p][h] = NoLeaf
    BY <2>1 DEF Known
  <2>3. useCertificateCache /\ pc = "generating" => disk[h].key = None
    BY <1>2 DEF Consistent, KeyComesLast, IsPair, Matches
  <2>4. GeneratesWhatIsMissing'
    BY <1>2, <2>1, <2>2, <2>3 DEF Orderly, TypeOK, Consistent, GeneratesWhatIsMissing
  <2>5. CertStays'
    BY <2>1 DEF Orderly, TypeOK, Consistent, CertStays
  <2>6. SettledIsOnDisk'
    BY <1>2, <2>1 DEF Orderly, TypeOK, Consistent, SettledIsOnDisk
  <2> QED
    BY <1>2, <2>1, <2>4, <2>5, <2>6
       DEF Consistent, KeyComesLast, PairsMatch, MemoryMatchesDisk
<1> QED
  BY <1>1, <1>3, <1>4, <1>5

\* A task that goes on, and may replace a certificate that has no key yet.
LEMMA TaskGoesOnConsistent ==
  ASSUME Orderly, OneProcess, Consistent,
         NEW t \in Callers, task[t].pc # "none", NEW pc, NEW leaf, GoesTo(t, pc, leaf),
         UNCHANGED <<useCertificateCache, cache, ctxCache, inFlight>>,
         \/ disk' = disk
         \/ /\ useCertificateCache /\ disk[task[t].host].key = None
            /\ \E k \in KeyPairs : disk' = [disk EXCEPT ![task[t].host] = Leaf(k, None)],
         pc \in {"readKey", "renameKey"} => leaf.cert = disk'[task[t].host].cert,
         pc \in {"generating", "renameCert", "renameKey"} =>
           task[t].pc \in {"generating", "renameCert", "renameKey"}
  PROVE  Consistent'
<1> DEFINE h == task[t].host
<1>1. h \in Hosts
  BY TaskHost
<1>2. \A g \in Hosts : g # h => disk'[g] = disk[g]
  BY <1>1 DEF Orderly, TypeOK
<1>3. \/ disk'[h] = disk[h]
      \/ useCertificateCache /\ disk[h].key = None /\ disk'[h].key = None
  <2>1. CASE disk' # disk
    <3>1. PICK k \in KeyPairs : disk' = [disk EXCEPT ![h] = Leaf(k, None)]
      BY <2>1
    <3>2. disk'[h] = Leaf(k, None)
      BY <1>1, <3>1 DEF Orderly, TypeOK
    <3> QED
      BY <2>1, <3>2 DEF Leaf
  <2> QED
    BY <2>1
<1>4. task'[t] = [pc |-> pc, host |-> h, leaf |-> leaf]
      /\ \A s \in Callers : s # t => task'[s] = task[s]
  BY DEF GoesTo, Orderly, TypeOK
<1>5. ASSUME NEW s \in Callers, task'[s].pc # "none", s # t
      PROVE  task'[s] = task[s] /\ task[s].host \in Hosts /\ task[s].host # h
  BY <1>4, <1>5, OthersElsewhere
<1>6. KeyComesLast'
  BY <1>2, <1>3 DEF Consistent, KeyComesLast
<1>7. GeneratesWhatIsMissing'
  <2> SUFFICES ASSUME NEW s \in Callers, useCertificateCache,
                      task'[s].pc \in {"generating", "renameCert", "renameKey"}
               PROVE  /\ disk'[task'[s].host].key = None
                      /\ cache[Home[s]][task'[s].host] = NoLeaf
                      /\ ctxCache[Home[s]][task'[s].host] = NoLeaf
    BY DEF GeneratesWhatIsMissing
  <2>1. CASE s = t
    <3>1. task[t].pc \in {"generating", "renameCert", "renameKey"} /\ task'[t].host = h
      BY <1>4, <2>1
    <3> QED
      BY <1>3, <2>1, <3>1 DEF Consistent, GeneratesWhatIsMissing
  <2>2. CASE s # t
    BY <1>2, <1>5, <2>2 DEF Consistent, GeneratesWhatIsMissing
  <2> QED
    BY <2>1, <2>2
<1>8. CertStays'
  <2> SUFFICES ASSUME NEW s \in Callers, task'[s].pc \in {"readKey", "renameKey"}
               PROVE  task'[s].leaf.cert = disk'[task'[s].host].cert
    BY DEF CertStays
  <2>1. CASE s = t
    BY <1>4, <2>1
  <2>2. CASE s # t
    BY <1>2, <1>5, <2>2 DEF Consistent, CertStays
  <2> QED
    BY <2>1, <2>2
<1>9. \A g \in Hosts : IsPair(disk[g]) \/ IsPair(disk'[g]) => disk'[g] = disk[g]
  BY <1>2, <1>3 DEF IsPair
<1>10. SettledIsOnDisk'
  BY <1>9 DEF Consistent, SettledIsOnDisk
<1>11. PairsMatch'
  BY <1>9 DEF Consistent, PairsMatch
<1>12. MemoryMatchesDisk'
  BY <1>9 DEF Consistent, MemoryMatchesDisk
<1> QED
  BY <1>6, <1>7, <1>8, <1>10, <1>11, <1>12 DEF Consistent

LEMMA TasksKeepConsistent ==
  ASSUME Orderly, OneProcess, Consistent, NEW t \in Callers, TaskSteps(t)
  PROVE  Consistent'
<1> DEFINE h == task[t].host
<1>1. UNCHANGED useCertificateCache /\ task[t].pc # "none"
  BY DEF TaskSteps, ReadCert, ReadKey, ReadFails, WorkerReturns, WorkerFails, MkdirFails,
     RenameCert, RenameKey, SaveFails
<1>2. h \in Hosts /\ disk[h] \in Files /\ disk \in [Hosts -> Files]
  BY <1>1, TaskHost DEF Orderly, TypeOK
<1>3. CASE ReadCert(t)
  <2>1. Leaf(disk[h].cert, None).cert = disk[h].cert
    BY DEF Leaf
  <2> QED
    BY <1>1, <1>3, <2>1, TaskGoesOnConsistent DEF ReadCert
<1>4. CASE ReadKey(t)
  <2> DEFINE r == Got(disk[h])
  <2>1. /\ task[t].leaf.cert = disk[h].cert /\ IsPair(disk[h]) /\ Matches(disk[h])
    BY <1>2, <1>4 DEF ReadKey, Orderly, TasksKnowTheirPart, Consistent, CertStays, PairsMatch
  <2>2. Leaf(task[t].leaf.cert, disk[h].key) = disk[h] /\ disk[h] \in Leaves
    BY <1>2, <2>1, PairIsALeaf DEF Leaf, Files
  <2>3. /\ r \in Results /\ r.leaf = disk[h] /\ AfterSync(r) \in Entries
        /\ AfterSync(r).st = "settled" /\ AfterSync(r).result = r
    BY <2>2, GotIsAResult, EntriesMade
  <2>4. Settles(t, r, AfterSync(r)) /\ disk' = disk
    BY <1>4, <2>2 DEF ReadKey
  <2> QED
    BY <1>1, <2>1, <2>3, <2>4, SettlesKeepsConsistent
<1>5. ASSUME NEW entry \in {NoEntry, AfterSync(Failed)}, Settles(t, Failed, entry),
             disk' = disk
      PROVE  Consistent'
  <2>1. entry \in Entries /\ (entry.st = "settled" => entry.result = Failed)
    BY EntriesMade, FailedIsAResult
  <2> QED
    BY <1>1, <1>5, <2>1, FailedIsAResult, SettlesKeepsConsistent
<1>6. ASSUME task[t].pc \in {"renameCert", "renameKey"}
       PROVE  /\ useCertificateCache /\ task[t].leaf \in Leaves /\ Matches(task[t].leaf)
              /\ task[t].leaf.cert \in KeyPairs
              /\ disk[h].key = None
  BY <1>6 DEF Orderly, TasksKnowTheirPart, Leaves, Consistent, GeneratesWhatIsMissing
<1>7. CASE WorkerReturns(t)
  <2>1. PICK k \in KeyPairs :
          IF useCertificateCache
          THEN /\ GoesTo(t, "renameCert", Leaf(k, k))
               /\ UNCHANGED <<cache, ctxCache, inFlight, call>>
          ELSE Settles(t, Got(Leaf(k, k)), NoEntry)
    BY <1>7 DEF WorkerReturns
  <2>2. task[t].pc = "generating" /\ disk' = disk
    BY <1>7 DEF WorkerReturns
  <2>3. CASE useCertificateCache
    BY <1>1, <2>1, <2>2, <2>3, TaskGoesOnConsistent
  <2>4. CASE ~useCertificateCache
    <3>1. Leaf(k, k) \in Leaves /\ Matches(Leaf(k, k))
      BY DEF Leaves, Leaf, Matches
    <3>2. Got(Leaf(k, k)) \in Results /\ Got(Leaf(k, k)).leaf = Leaf(k, k)
      BY <3>1, GotIsAResult
    <3>3. ~IsPair(disk'[h])
      BY <1>2, <2>2, <2>4 DEF Consistent, KeyComesLast, IsPair, NoLeaf, Leaf
    <3> QED
      BY <1>1, <2>1, <2>2, <2>4, <3>1, <3>2, <3>3, EntriesMade, SettlesKeepsConsistent
  <2> QED
    BY <2>3, <2>4
<1>8. CASE RenameCert(t)
  <2>1. disk' = [disk EXCEPT ![h] = Leaf(task[t].leaf.cert, None)]
    BY <1>2, <1>6, <1>8 DEF RenameCert, RenamesCert
  <2>2. disk'[h].cert = task[t].leaf.cert
    BY <1>2, <2>1 DEF Leaf
  <2> QED
    BY <1>1, <1>6, <1>8, <2>1, <2>2, TaskGoesOnConsistent DEF RenameCert
<1>9. CASE RenameKey(t)
  <2>1. disk' = [disk EXCEPT ![h] = Leaf(disk[h].cert, task[t].leaf.key)]
    BY <1>9 DEF RenameKey
  <2>2. disk[h].cert = task[t].leaf.cert
    BY <1>9 DEF RenameKey, Consistent, CertStays
  <2>3. task[t].leaf = Leaf(disk[h].cert, task[t].leaf.key)
    BY <1>6, <1>9, <2>2 DEF RenameKey, Leaves, Leaf
  <2>4. disk' = [disk EXCEPT ![h] = task[t].leaf] /\ disk'[h] = task[t].leaf
    BY <1>2, <2>1, <2>3
  <2>5. Got(task[t].leaf) \in Results /\ Got(task[t].leaf).leaf = task[t].leaf
    BY <1>6, <1>9, GotIsAResult DEF RenameKey
  <2> QED
    BY <1>1, <1>6, <1>9, <2>4, <2>5, EntriesMade, SettlesKeepsConsistent DEF RenameKey
<1>10. CASE SaveFails(t)
  <2>1. PICK r \in {Got(task[t].leaf), Failed} : Settles(t, r, NoEntry)
    BY <1>10 DEF SaveFails
  <2>2. task[t].pc \in {"renameCert", "renameKey"} /\ disk' = disk
    BY <1>10 DEF SaveFails
  <2>3. Got(task[t].leaf) \in Results /\ Got(task[t].leaf).leaf = task[t].leaf
    BY <1>6, <2>2, GotIsAResult
  <2>4. ~IsPair(disk'[h])
    BY <1>6, <2>2 DEF IsPair
  <2>5. CASE r = Got(task[t].leaf)
    BY <1>1, <1>6, <2>1, <2>2, <2>3, <2>4, <2>5, EntriesMade, SettlesKeepsConsistent
  <2>6. CASE r = Failed
    BY <1>1, <2>1, <2>2, <2>6, FailedIsAResult, EntriesMade, SettlesKeepsConsistent
  <2> QED
    BY <2>1, <2>5, <2>6
<1> QED
  BY <1>3, <1>4, <1>5, <1>7, <1>8, <1>9, <1>10
     DEF TaskSteps, ReadFails, WorkerFails, MkdirFails

LEMMA EnvironmentKeepsConsistent ==
  ASSUME Orderly, OneProcess, Consistent, NEW p \in Procs, EnvironmentSteps(p)
  PROVE  Consistent'
<1>1. CASE Restart(p)
  <2>1. /\ UNCHANGED <<disk, useCertificateCache>>
        /\ \A c \in Callers : task'[c] = NoTask
        /\ \A q \in Procs, h \in Hosts : /\ cache'[q][h] = NoLeaf
                                         /\ ctxCache'[q][h] = NoLeaf
                                         /\ inFlight'[q][h] = NoEntry
    BY <1>1, HomeAssumption DEF EnvironmentSteps, Restart, OneProcess, Orderly, TypeOK
  <2>2. NoTask.pc = "none" /\ Matches(NoLeaf)
    BY DEF NoTask, Matches, NoLeaf, Leaf
  <2> QED
    BY <2>1, <2>2, EntriesMade DEF Consistent, KeyComesLast, GeneratesWhatIsMissing, CertStays,
       SettledIsOnDisk, PairsMatch, MemoryMatchesDisk
<1>2. CASE \E h \in Hosts : Evict(p, h)
  <2>1. UNCHANGED <<disk, inFlight, task, useCertificateCache>>
    BY <1>2 DEF EnvironmentSteps, Evict
  <2>2. \A q \in Procs, h \in Hosts : /\ cache'[q][h] \in {cache[q][h], NoLeaf}
                                      /\ ctxCache'[q][h] \in {ctxCache[q][h], NoLeaf}
    <3>1. PICK h \in Hosts : Evict(p, h)
      BY <1>2
    <3>2. CASE cache' = [cache EXCEPT ![p][h] = NoLeaf] /\ UNCHANGED ctxCache
      BY <3>2 DEF Orderly, TypeOK
    <3>3. CASE ctxCache' = [ctxCache EXCEPT ![p][h] = NoLeaf] /\ UNCHANGED cache
      BY <3>3 DEF Orderly, TypeOK
    <3> QED
      BY <3>1, <3>2, <3>3 DEF Evict
  <2>3. Matches(NoLeaf)
    BY DEF Matches, NoLeaf, Leaf
  <2>4. GeneratesWhatIsMissing'
    <3> SUFFICES ASSUME NEW t \in Callers, useCertificateCache,
                        task[t].pc \in {"generating", "renameCert", "renameKey"}
                 PROVE  /\ disk[task[t].host].key = None
                        /\ cache'[Home[t]][task[t].host] = NoLeaf
                        /\ ctxCache'[Home[t]][task[t].host] = NoLeaf
      BY <2>1 DEF GeneratesWhatIsMissing
    <3>1. /\ disk[task[t].host].key = None
          /\ cache[Home[t]][task[t].host] = NoLeaf
          /\ ctxCache[Home[t]][task[t].host] = NoLeaf
      BY DEF Consistent, GeneratesWhatIsMissing
    <3>2. Home[t] \in Procs /\ task[t].host \in Hosts
      BY HomeAssumption DEF Orderly, TasksAreRegistered
    <3> QED
      BY <2>2, <3>1, <3>2
  <2>5. PairsMatch'
    BY <2>1, <2>2, <2>3 DEF Consistent, PairsMatch
  <2>6. MemoryMatchesDisk'
    BY <2>1, <2>2 DEF Consistent, MemoryMatchesDisk
  <2> QED
    BY <2>1, <2>4, <2>5, <2>6 DEF Consistent, KeyComesLast, CertStays, SettledIsOnDisk
<1> QED
  BY <1>1, <1>2 DEF EnvironmentSteps

-----------------------------------------------------------------------------
(* The theorems. *)

\* The inductive invariant: what any number of processes keep and, if there is one
\* process only, that disk, memory and tasks are consistent (CertificateCacheManager and
\* SecureContextManager).
THEOREM CacheInductive == Spec => []IInv
<1>1. Init => IInv
  <2> SUFFICES ASSUME Init PROVE IInv
    OBVIOUS
  <2>1. Consistent
    <3>1. NoTask.pc = "none" /\ Matches(NoLeaf) /\ NoLeaf.key = None /\ NoEntry.st = "none"
      BY DEF NoTask, Matches, NoLeaf, Leaf, NoEntry
    <3> QED
      BY <3>1 DEF Init, Consistent, KeyComesLast, GeneratesWhatIsMissing, CertStays,
         SettledIsOnDisk, PairsMatch, MemoryMatchesDisk
  <2> QED
    BY <2>1, InitIsOrderly DEF IInv, Orderly
<1>2. IInv /\ [Next]_vars => IInv'
  <2> SUFFICES ASSUME IInv, [Next]_vars PROVE IInv'
    OBVIOUS
  <2>1. Orderly
    BY DEF IInv, Orderly
  <2>2. Orderly'
    BY <2>1, StepsKeepOrder
  <2>3. ASSUME OneProcess PROVE Consistent'
    <3>1. Consistent
      BY <2>3 DEF IInv
    <3>2. CASE UNCHANGED vars
      BY <3>1, <3>2 DEF vars, Consistent, KeyComesLast, GeneratesWhatIsMissing, CertStays,
         SettledIsOnDisk, PairsMatch, MemoryMatchesDisk
    <3> QED
      BY <2>1, <2>3, <3>1, <3>2, CallsKeepConsistent, TasksKeepConsistent,
         EnvironmentKeepsConsistent DEF Next
  <2> QED
    BY <2>2, <2>3 DEF IInv, Orderly
<1> QED
  BY <1>1, <1>2, PTL DEF Spec

\* The type invariant, for any number of processes.
THEOREM CacheTypeCorrect == Spec => []TypeOK
<1>1. IInv => TypeOK
  BY DEF IInv
<1> QED
  BY <1>1, CacheInductive, PTL

\* Concurrent handshakes of a process for one host share the generation, for any number
\* of processes, with and without the certificate cache, whatever fails.
THEOREM GenerationIsShared == Spec => []OneTaskPerHost
<1>1. IInv => OneTaskPerHost
  BY OneTask DEF IInv, OneTaskPerHost
<1> QED
  BY <1>1, CacheInductive, PTL

\* The only process that uses a directory never pairs a certificate with another key, at
\* whichever step of a save it crashes or fails.
THEOREM PairsStayMatched ==
  ASSUME OneProcess
  PROVE  Spec => []PairsMatch
<1>1. IInv => PairsMatch
  BY DEF IInv, Consistent
<1> QED
  BY <1>1, CacheInductive, PTL

\* ... and what it has in memory for a host is what it has on disk.
THEOREM MemoryStaysTrue ==
  ASSUME OneProcess
  PROVE  Spec => []MemoryMatchesDisk
<1>1. IInv => MemoryMatchesDisk
  BY DEF IInv, Consistent
<1> QED
  BY <1>1, CacheInductive, PTL

-----------------------------------------------------------------------------
(* No handshake is forgotten, for any number of processes. *)

\* A task ends, and what is then in inFlight is over, or it goes on.
LEMMA TaskEndsOrGoesOn ==
  ASSUME NEW t \in Callers, TaskSteps(t)
  PROVE  /\ task[t].pc # "none"
         /\ \/ \E r, entry : /\ Settles(t, r, entry)
                             /\ r.st # "waiting" /\ entry.st # "running"
            \/ \E pc, leaf : pc # "none" /\ GoesTo(t, pc, leaf) /\ UNCHANGED <<inFlight, call>>
<1> DEFINE Ends == \E r, entry : /\ Settles(t, r, entry)
                                 /\ r.st # "waiting" /\ entry.st # "running"
           GoesOn == \E pc, leaf : /\ pc # "none" /\ GoesTo(t, pc, leaf)
                                   /\ UNCHANGED <<inFlight, call>>
<1>1. /\ Failed.st # "waiting" /\ \A l : Got(l).st # "waiting"
      /\ NoEntry.st # "running" /\ \A r : AfterSync(r).st # "running"
  BY DEF Failed, Got, NoEntry, AfterSync
<1>2. CASE ReadCert(t) \/ RenameCert(t)
  <2>1. GoesOn
    BY <1>2 DEF ReadCert, RenameCert
  <2> QED
    BY <1>2, <2>1 DEF ReadCert, RenameCert
<1>3. CASE ReadKey(t) \/ ReadFails(t) \/ WorkerFails(t) \/ MkdirFails(t) \/ RenameKey(t)
           \/ SaveFails(t)
  <2>1. Ends
    BY <1>1, <1>3 DEF ReadKey, ReadFails, WorkerFails, MkdirFails, RenameKey, SaveFails
  <2> QED
    BY <1>3, <2>1 DEF ReadKey, ReadFails, WorkerFails, MkdirFails, RenameKey, SaveFails
<1>4. CASE WorkerReturns(t)
  <2>1. GoesOn \/ Ends
    BY <1>1, <1>4 DEF WorkerReturns
  <2> QED
    BY <1>4, <2>1 DEF WorkerReturns
<1> QED
  BY <1>2, <1>3, <1>4 DEF TaskSteps

\* Who works for whom.
AtWork == RunningIsAtWork /\ NobodyIsForgotten

\* A task that ends answers everybody who waits for it.
LEMMA SettlesForgetsNobody ==
  ASSUME Orderly, AtWork, NEW t \in Callers, task[t].pc # "none", NEW r, NEW entry,
         Settles(t, r, entry), r.st # "waiting", entry.st # "running"
  PROVE  AtWork'
<1> DEFINE p == Home[t]
           h == task[t].host
<1>1. p \in Procs /\ h \in Hosts
  BY HomeAssumption DEF Orderly, TasksAreRegistered
<1>2. /\ inFlight' = [inFlight EXCEPT ![p][h] = entry]
      /\ \A s \in Callers : s # t => task'[s] = task[s]
      /\ Answer(Waiting(t), p, h, r)
  BY DEF Settles, Orderly, TypeOK
<1>3. RunningIsAtWork'
  <2> SUFFICES ASSUME NEW q \in Procs, NEW g \in Hosts, inFlight'[q][g].st = "running"
               PROVE  LET s == inFlight'[q][g].task
                      IN  Home[s] = q /\ task'[s].pc # "none" /\ task'[s].host = g
    BY DEF RunningIsAtWork
  <2> DEFINE s == inFlight[q][g].task
  <2>1. ~(q = p /\ g = h) /\ inFlight'[q][g] = inFlight[q][g]
    BY <1>1, <1>2 DEF Orderly, TypeOK
  <2>2. Home[s] = q /\ task[s].pc # "none" /\ task[s].host = g /\ s \in Callers
    BY <2>1, EntryFields DEF AtWork, RunningIsAtWork, Orderly, TypeOK
  <2>3. s # t
    BY <2>1, <2>2
  <2> QED
    BY <1>2, <2>1, <2>2, <2>3
<1>4. NobodyIsForgotten'
  <2> SUFFICES ASSUME NEW c \in Callers, call'[c].st = "waiting"
               PROVE  LET s == call'[c].on
                      IN  /\ s \in Callers /\ Home[s] = Home[c]
                          /\ task'[s].pc # "none" /\ task'[s].host = call'[c].host
    BY DEF NobodyIsForgotten
  <2>1. Context(r).st # "waiting"
    BY DEF Context, Failed
  <2>2. c \notin Waiting(t) /\ call'[c] = call[c]
    BY <1>2, <2>1 DEF Answer
  <2>3. call[c].on # t
    BY <2>2 DEF Waiting
  <2> QED
    BY <1>2, <2>2, <2>3 DEF AtWork, NobodyIsForgotten
<1> QED
  BY <1>3, <1>4 DEF AtWork

LEMMA GoingOnForgetsNobody ==
  ASSUME Orderly, AtWork, NEW t \in Callers, NEW pc, NEW leaf, pc # "none",
         GoesTo(t, pc, leaf), UNCHANGED <<inFlight, call>>
  PROVE  AtWork'
<1>1. \A s \in Callers : /\ task[s].pc # "none" => task'[s].pc # "none"
                         /\ task'[s].host = task[s].host
  BY DEF GoesTo, Orderly, TypeOK
<1>2. \A p \in Procs, h \in Hosts :
        inFlight[p][h].st = "running" => inFlight[p][h].task \in Callers
  BY EntryFields DEF Orderly, TypeOK
<1> QED
  BY <1>1, <1>2 DEF AtWork, RunningIsAtWork, NobodyIsForgotten

\* A call that waits has found a task at work, or has started one.
LEMMA CallsForgetNobody ==
  ASSUME Orderly, AtWork, NEW c \in Callers, CallSteps(c)
  PROVE  AtWork'
<1>1. PICK h \in Hosts : CallIsAnswered(c, h) \/ CallJoins(c, h) \/ CallStarts(c, h)
  BY DEF CallSteps
<1>2. Home[c] \in Procs
  BY HomeAssumption
<1>3. CASE CallIsAnswered(c, h)
  <2>1. PICK r \in Results : Answer({c}, Home[c], h, r)
    BY <1>2, <1>3, KnownResults DEF CallIsAnswered, Orderly
  <2>2. Context(r).st # "waiting"
    BY ContextOf, ResultFields
  <2>3. \A d \in Callers : call'[d].st = "waiting" => call'[d] = call[d]
    BY <2>1, <2>2 DEF Answer
  <2> QED
    BY <1>3, <2>3 DEF CallIsAnswered, AtWork, RunningIsAtWork, NobodyIsForgotten
<1>4. CASE CallJoins(c, h)
  <2> DEFINE t == inFlight[Home[c]][h].task
  <2>1. t \in Callers /\ Home[t] = Home[c] /\ task[t].pc # "none" /\ task[t].host = h
    BY <1>2, <1>4, EntryFields DEF CallJoins, AtWork, RunningIsAtWork, Orderly, TypeOK
  <2>2. \A d \in Callers : call'[d] = IF d = c THEN [st |-> "waiting", host |-> h, on |-> t,
                                                     leaf |-> NoLeaf] ELSE call[d]
    BY <1>4 DEF CallJoins, WaitsFor, Orderly, TypeOK
  <2> QED
    BY <1>4, <2>1, <2>2 DEF CallJoins, AtWork, RunningIsAtWork, NobodyIsForgotten
<1>5. CASE CallStarts(c, h)
  <2>1. task[c].pc = "none"
    BY <1>5 DEF CallStarts, Calls, NoTask
  <2>2. /\ task'[c].pc # "none" /\ task'[c].host = h
        /\ \A s \in Callers : s # c => task'[s] = task[s]
    BY <1>5 DEF CallStarts, Orderly, TypeOK
  <2>3. \A d \in Callers : call'[d] = IF d = c THEN [st |-> "waiting", host |-> h, on |-> c,
                                                     leaf |-> NoLeaf] ELSE call[d]
    BY <1>5 DEF CallStarts, WaitsFor, Orderly, TypeOK
  <2>4. \A q \in Procs, g \in Hosts :
          inFlight'[q][g] = IF q = Home[c] /\ g = h THEN [st |-> "running", task |-> c]
                            ELSE inFlight[q][g]
    BY <1>2, <1>5 DEF CallStarts, Registers, Orderly, TypeOK
  <2>5. RunningIsAtWork'
    <3> SUFFICES ASSUME NEW q \in Procs, NEW g \in Hosts, inFlight'[q][g].st = "running"
                 PROVE  LET s == inFlight'[q][g].task
                        IN  Home[s] = q /\ task'[s].pc # "none" /\ task'[s].host = g
      BY DEF RunningIsAtWork
    <3>1. CASE q = Home[c] /\ g = h
      BY <2>2, <2>4, <3>1
    <3>2. CASE ~(q = Home[c] /\ g = h)
      <4>1. inFlight'[q][g] = inFlight[q][g]
        BY <2>4, <3>2
      <4>2. inFlight[q][g].task \in Callers /\ task[inFlight[q][g].task].pc # "none"
        BY <4>1, EntryFields DEF AtWork, RunningIsAtWork, Orderly, TypeOK
      <4> QED
        BY <2>1, <2>2, <4>1, <4>2 DEF AtWork, RunningIsAtWork
    <3> QED
      BY <3>1, <3>2
  <2>6. NobodyIsForgotten'
    <3> SUFFICES ASSUME NEW d \in Callers, call'[d].st = "waiting"
                 PROVE  LET s == call'[d].on
                        IN  /\ s \in Callers /\ Home[s] = Home[d]
                            /\ task'[s].pc # "none" /\ task'[s].host = call'[d].host
      BY DEF NobodyIsForgotten
    <3>1. CASE d = c
      BY <2>2, <2>3, <3>1
    <3>2. CASE d # c
      BY <2>1, <2>2, <2>3, <3>2 DEF AtWork, NobodyIsForgotten
    <3> QED
      BY <3>1, <3>2
  <2> QED
    BY <2>5, <2>6 DEF AtWork
<1> QED
  BY <1>1, <1>3, <1>4, <1>5

\* A crash takes the calls of its process along with their tasks.
LEMMA EnvironmentForgetsNobody ==
  ASSUME Orderly, AtWork, NEW p \in Procs, EnvironmentSteps(p)
  PROVE  AtWork'
<1>1. CASE Restart(p)
  <2>1. /\ \A c \in Callers : Home[c] = p => call'[c].st # "waiting"
        /\ \A c \in Callers : Home[c] # p => call'[c] = call[c] /\ task'[c] = task[c]
        /\ \A q \in Procs, h \in Hosts :
             IF q = p THEN inFlight'[q][h].st # "running" ELSE inFlight'[q][h] = inFlight[q][h]
    BY <1>1 DEF Restart, NoCall, NoEntry, Orderly, TypeOK
  <2>2. \A q \in Procs, h \in Hosts :
          inFlight[q][h].st = "running" => inFlight[q][h].task \in Callers
    BY EntryFields DEF Orderly, TypeOK
  <2> QED
    BY <2>1, <2>2 DEF AtWork, RunningIsAtWork, NobodyIsForgotten
<1>2. CASE \E h \in Hosts : Evict(p, h)
  BY <1>2 DEF Evict, AtWork, RunningIsAtWork, NobodyIsForgotten
<1> QED
  BY <1>1, <1>2 DEF EnvironmentSteps

\* No wake-up is lost: as long as a handshake waits, the task it waits for is at work in
\* its process and for its host, so the step that ends the task answers it.
THEOREM WaitersAreServed == Spec => []NobodyIsForgotten
<1>1. Init => AtWork
  BY DEF Init, AtWork, RunningIsAtWork, NobodyIsForgotten, NoEntry, NoCall
<1>2. IInv /\ AtWork /\ [Next]_vars => AtWork'
  <2> SUFFICES ASSUME Orderly, AtWork, [Next]_vars PROVE AtWork'
    BY DEF IInv, Orderly
  <2>1. CASE UNCHANGED vars
    BY <2>1 DEF vars, AtWork, RunningIsAtWork, NobodyIsForgotten
  <2>2. ASSUME NEW t \in Callers, TaskSteps(t) PROVE AtWork'
    BY <2>2, TaskEndsOrGoesOn, SettlesForgetsNobody, GoingOnForgetsNobody
  <2> QED
    BY <2>1, <2>2, CallsForgetNobody, EnvironmentForgetsNobody DEF Next
<1>3. AtWork => NobodyIsForgotten
  BY DEF AtWork
<1> QED
  BY <1>1, <1>2, <1>3, CacheInductive, PTL DEF Spec
==============================================================================
