--------------------------- MODULE RuleStoreProofs ---------------------------
(***************************************************************************)
(* Proofs about RuleStore, for any stores, rules and inputs, and however   *)
(* often other programs change the file.                                   *)
(***************************************************************************)
EXTENDS RuleStore, TLAPS

-----------------------------------------------------------------------------
(* The inductive invariant *)

\* The two invariants hold from the first load on, before the watcher starts.
Live(s) == phase[s] \in {"loaded", "watching"}
Informed(s) == event[s] \/ timer[s] \/ missed[s]

NewHasNothingPending ==
  \A s \in Stores : phase[s] \in {"none", "loaded"} => pending[s] = {}

WatchedIsThere == \A s \in Stores : phase[s] = "watching" => status # "missing"

LiveIsFresh ==
  \A s \in Stores :
    Live(s) /\ status = "good" => \/ \A r \in Rules : r \in rules[s] <=> file[r] > 0
                                  \/ Informed(s)

IInv ==
  /\ TypeOK /\ NoDuplicates /\ NewHasNothingPending /\ WatchedIsThere
  /\ LiveIsFresh /\ PendingIsWritten

-----------------------------------------------------------------------------
(* Operators *)

LEMMA OnceIsAFile == \A R : Once(R) \in [Rules -> Nat] /\ \A r \in Rules : Once(R)[r] <= 1
  BY DEF Once

LEMMA OccursInFile ==
  ASSUME NEW r \in Rules, Occurs(r)
  PROVE  \E q \in Rules : q \in {r} \cup Inside[r] /\ file[q] > 0
  BY InsideAssumption DEF Occurs

\* Notify tells every live store of a change.
LEMMA NotifyInforms ==
  ASSUME TypeOK, Notify, NEW s \in Stores, Live(s)
  PROVE  event'[s] \/ missed'[s]
  BY DEF TypeOK, Notify, Live

LEMMA NotifyTypes ==
  ASSUME TypeOK, Notify
  PROVE  /\ event' \in [Stores -> BOOLEAN] /\ missed' \in [Stores -> BOOLEAN]
         /\ \A s \in Stores : /\ event[s] => event'[s]
                              /\ missed[s] => missed'[s]
                              /\ event'[s] => event[s] \/ phase[s] = "watching"
<1>1. event' \in [Stores -> BOOLEAN] /\ missed' \in [Stores -> BOOLEAN]
  BY Zenon DEF TypeOK, Notify
<1> QED
  BY <1>1 DEF TypeOK, Notify

-----------------------------------------------------------------------------
(* Loading *)

LEMMA LoadRulesLoads ==
  ASSUME TypeOK, NEW s \in Stores, NEW b \in BOOLEAN, LoadRules(s, b)
  PROVE  /\ rules' \in [Stores -> SUBSET Rules] /\ pending' \in [Stores -> SUBSET Inputs]
         /\ missed' \in [Stores -> BOOLEAN] /\ pending'[s] = {}
         /\ status = "good" => missed'[s] \/ \A r \in Rules : r \in rules'[s] <=> file[r] > 0
         /\ \A t \in Stores : t # s => /\ rules'[t] = rules[t] /\ pending'[t] = pending[t]
                                       /\ missed'[t] = missed[t]
<1>1. pending' \in [Stores -> SUBSET Inputs] /\ pending'[s] = {}
  BY DEF TypeOK, LoadRules
<1>2. rules' \in [Stores -> SUBSET Rules]
  <2>1. Written \in SUBSET Rules
    BY DEF Written
  <2> QED
    BY <2>1 DEF TypeOK, LoadRules
<1>3. missed' \in [Stores -> BOOLEAN] /\ missed'[s] = ~b
  BY DEF TypeOK, LoadRules
<1>4. status = "good" /\ b => rules'[s] = Written
  BY DEF TypeOK, LoadRules
<1>5. \A t \in Stores : t # s => /\ rules'[t] = rules[t] /\ pending'[t] = pending[t]
                                 /\ missed'[t] = missed[t]
  BY DEF TypeOK, LoadRules
<1> QED
  BY <1>1, <1>2, <1>3, <1>4, <1>5 DEF Written

\* Occurrences in an unchanged file stay.
LEMMA OccursStays ==
  ASSUME NEW r \in Rules, Occurs(r), TypeOK,
         \A q \in Rules : file[q] > 0 => file'[q] > 0
  PROVE  Occurs(r)'
  BY OccursInFile DEF Occurs

LEMMA CreateKeeps ==
  ASSUME IInv, NEW s \in Stores, NEW b \in BOOLEAN, Create(s, b)
  PROVE  IInv'
<1>1. /\ phase[s] = "none" /\ phase' = [phase EXCEPT ![s] = "loaded"]
      /\ UNCHANGED <<registered, event, timer, edits>>
      /\ phase'[s] = "loaded" /\ \A t \in Stores : t # s => phase'[t] = phase[t]
      /\ pending[s] = {} /\ ~event[s] /\ ~timer[s]
  BY DEF Create, IInv, TypeOK, NewHasNothingPending
<1>2. CASE status = "missing"
  <2>1. /\ status' = "good" /\ file' = Once({}) /\ rules' = [rules EXCEPT ![s] = {}]
        /\ UNCHANGED <<pending, missed>>
    BY <1>2 DEF Create
  <2>2. \A t \in Stores : phase[t] \notin {"loaded", "watching"}
    BY <1>2 DEF Create, Constructing, IInv, WatchedIsThere
  <2>3. \A r \in Rules : file'[r] = 0
    BY <2>1 DEF Once
  <2>4. TypeOK'
    BY <1>1, <2>1, OnceIsAFile DEF IInv, TypeOK
  <2>5. NoDuplicates'
    BY <2>3 DEF NoDuplicates
  <2>6. NewHasNothingPending' /\ WatchedIsThere'
    BY <1>1, <2>1 DEF IInv, NewHasNothingPending, WatchedIsThere
  <2>7. LiveIsFresh'
    BY <1>1, <2>1, <2>2, <2>3 DEF IInv, TypeOK, LiveIsFresh, Live
  <2>8. PendingIsWritten'
    BY <1>1, <2>2 DEF PendingIsWritten
  <2> QED
    BY <2>4, <2>5, <2>6, <2>7, <2>8 DEF IInv
<1>3. CASE status # "missing"
  <2>1. LoadRules(s, b) /\ UNCHANGED <<file, status>>
    BY <1>3 DEF Create
  <2>2. TypeOK
    BY DEF IInv
  <2>3. /\ rules' \in [Stores -> SUBSET Rules] /\ pending' \in [Stores -> SUBSET Inputs]
        /\ missed' \in [Stores -> BOOLEAN] /\ pending'[s] = {}
        /\ status = "good" => missed'[s] \/ \A r \in Rules : r \in rules'[s] <=> file[r] > 0
        /\ \A t \in Stores : t # s => /\ rules'[t] = rules[t] /\ pending'[t] = pending[t]
                                      /\ missed'[t] = missed[t]
    BY <2>1, <2>2, LoadRulesLoads
  <2>4. TypeOK'
    BY <1>1, <2>1, <2>3 DEF IInv, TypeOK
  <2>5. NoDuplicates'
    BY <2>1 DEF IInv, NoDuplicates
  <2>6. NewHasNothingPending' /\ WatchedIsThere'
    BY <1>1, <2>1, <2>3 DEF IInv, NewHasNothingPending, WatchedIsThere
  <2>7. LiveIsFresh'
    BY <1>1, <2>1, <2>3 DEF IInv, LiveIsFresh, Live, Informed
  <2>8. PendingIsWritten'
    BY <1>1, <2>1, <2>3 DEF IInv, PendingIsWritten, Occurs
  <2> QED
    BY <2>4, <2>5, <2>6, <2>7, <2>8 DEF IInv
<1> QED
  BY <1>2, <1>3

LEMMA ReloadKeeps ==
  ASSUME IInv, NEW s \in Stores, NEW b \in BOOLEAN, Reload(s, b)
  PROVE  IInv'
<1>1. /\ timer[s] /\ timer' = [timer EXCEPT ![s] = FALSE] /\ LoadRules(s, b) /\ TypeOK
      /\ UNCHANGED <<registered, phase, event, file, status, edits>>
      /\ \A t \in Stores : t # s => timer'[t] = timer[t]
      /\ \A t \in Stores : timer'[t] => timer[t]
      /\ timer' \in [Stores -> BOOLEAN]
  BY DEF Reload, fileVars, IInv, TypeOK
<1>2. /\ rules' \in [Stores -> SUBSET Rules] /\ pending' \in [Stores -> SUBSET Inputs]
      /\ missed' \in [Stores -> BOOLEAN] /\ pending'[s] = {}
      /\ status = "good" => missed'[s] \/ \A r \in Rules : r \in rules'[s] <=> file[r] > 0
      /\ \A t \in Stores : t # s => /\ rules'[t] = rules[t] /\ pending'[t] = pending[t]
                                    /\ missed'[t] = missed[t]
  BY <1>1, LoadRulesLoads
<1>3. TypeOK'
  BY <1>1, <1>2 DEF TypeOK
<1>4. NoDuplicates' /\ WatchedIsThere'
  BY <1>1 DEF IInv, NoDuplicates, WatchedIsThere
<1>5. NewHasNothingPending'
  BY <1>1, <1>2 DEF IInv, NewHasNothingPending
<1>6. LiveIsFresh'
  BY <1>1, <1>2 DEF IInv, LiveIsFresh, Live, Informed
<1>7. PendingIsWritten'
  BY <1>1, <1>2 DEF IInv, PendingIsWritten, Occurs
<1> QED
  BY <1>3, <1>4, <1>5, <1>6, <1>7 DEF IInv

-----------------------------------------------------------------------------
(* The steps of a store that leave the file alone *)

LEMMA WatchKeeps ==
  ASSUME IInv, NEW s \in Stores, Watch(s) \/ WatchThrows(s)
  PROVE  IInv'
<1> USE DEF Watch, WatchThrows, fileVars
<1>1. /\ phase[s] = "loaded" /\ phase'[s] \in {"watching", "destroyed"}
      /\ phase'[s] = "watching" => status # "missing"
      /\ phase' \in [Stores -> {"none", "loaded", "watching", "deaf", "destroyed"}]
      /\ registered' \in Stores \cup {NoStore}
      /\ \A t \in Stores : t # s => phase'[t] = phase[t]
      /\ UNCHANGED <<rules, pending, event, timer, missed, file, status, edits>>
  BY DEF IInv, TypeOK
<1>2. TypeOK'
  BY <1>1 DEF IInv, TypeOK
<1>3. NoDuplicates' /\ WatchedIsThere' /\ NewHasNothingPending'
  BY <1>1 DEF IInv, NoDuplicates, WatchedIsThere, NewHasNothingPending
<1>4. LiveIsFresh'
  BY <1>1 DEF IInv, LiveIsFresh, Live, Informed
<1>5. PendingIsWritten'
  BY <1>1 DEF IInv, PendingIsWritten, NewHasNothingPending, Occurs
<1> QED
  BY <1>2, <1>3, <1>4, <1>5 DEF IInv

LEMMA ChangeEventKeeps ==
  ASSUME IInv, NEW s \in Stores, ChangeEvent(s)
  PROVE  IInv'
<1> USE DEF ChangeEvent, fileVars
<1>1. /\ event[s] /\ timer'[s]
      /\ event' \in [Stores -> BOOLEAN] /\ timer' \in [Stores -> BOOLEAN]
      /\ \A t \in Stores : t # s => event'[t] = event[t] /\ timer'[t] = timer[t]
      /\ UNCHANGED <<registered, phase, rules, pending, missed, file, status, edits>>
  BY DEF IInv, TypeOK
<1>2. TypeOK'
  BY <1>1 DEF IInv, TypeOK
<1>3. NoDuplicates' /\ WatchedIsThere' /\ NewHasNothingPending'
  BY <1>1 DEF IInv, NoDuplicates, WatchedIsThere, NewHasNothingPending
<1>4. LiveIsFresh'
  BY <1>1 DEF IInv, LiveIsFresh, Live, Informed
<1>5. PendingIsWritten'
  BY <1>1 DEF IInv, PendingIsWritten, Occurs
<1> QED
  BY <1>2, <1>3, <1>4, <1>5 DEF IInv

LEMMA DestroyKeeps ==
  ASSUME IInv, NEW s \in Stores, Destroy(s)
  PROVE  IInv'
<1> USE DEF Destroy, fileVars
<1>1. /\ phase'[s] = "destroyed" /\ ~event'[s] /\ ~timer'[s]
      /\ phase' \in [Stores -> {"none", "loaded", "watching", "deaf", "destroyed"}]
      /\ event' \in [Stores -> BOOLEAN] /\ timer' \in [Stores -> BOOLEAN]
      /\ \A t \in Stores : t # s => /\ event'[t] = event[t] /\ timer'[t] = timer[t]
                                    /\ phase'[t] = phase[t]
      /\ UNCHANGED <<registered, rules, pending, missed, file, status, edits>>
  BY DEF IInv, TypeOK
<1>2. TypeOK'
  BY <1>1 DEF IInv, TypeOK
<1>3. NoDuplicates' /\ WatchedIsThere' /\ NewHasNothingPending'
  BY <1>1 DEF IInv, NoDuplicates, WatchedIsThere, NewHasNothingPending
<1>4. LiveIsFresh'
  BY <1>1 DEF IInv, LiveIsFresh, Live, Informed
<1>5. PendingIsWritten'
  BY <1>1 DEF IInv, PendingIsWritten, Occurs
<1> QED
  BY <1>2, <1>3, <1>4, <1>5 DEF IInv
-----------------------------------------------------------------------------
(* Appending *)

LEMMA AppendRuleKeeps ==
  ASSUME IInv, NEW s \in Stores, NEW i \in Inputs, AppendRule(s, i)
  PROVE  IInv'
<1> DEFINE r == Format[i]
<1>1. /\ TypeOK /\ ~Constructing /\ r \in Rules
      /\ pending' \in [Stores -> SUBSET Inputs] /\ pending'[s] = pending[s] \cup {i}
      /\ \A t \in Stores : t # s => pending'[t] = pending[t]
      /\ phase[s] \in {"watching", "deaf", "destroyed"} /\ status # "missing"
      /\ UNCHANGED <<registered, phase, rules, timer, status, edits>>
  BY FormatAssumption DEF AppendRule, Appends, IInv, TypeOK
<1>2. \A t \in Stores : phase[t] # "loaded"
  BY <1>1 DEF Constructing
<1>3. NewHasNothingPending' /\ WatchedIsThere'
  BY <1>1 DEF IInv, NewHasNothingPending, WatchedIsThere
<1>4. CASE Occurs(r)
  <2>1. UNCHANGED <<file, event, missed>>
    BY <1>4 DEF AppendRule
  <2>2. TypeOK' /\ NoDuplicates'
    BY <1>1, <2>1 DEF IInv, TypeOK, NoDuplicates
  <2>3. LiveIsFresh'
    BY <1>1, <2>1 DEF IInv, LiveIsFresh, Live, Informed
  <2>4. PendingIsWritten'
    BY <1>1, <1>4, <2>1 DEF IInv, PendingIsWritten, Occurs
  <2> QED
    BY <1>3, <2>2, <2>3, <2>4 DEF IInv
<1>5. CASE ~Occurs(r)
  <2>1. /\ Notify /\ file' = [file EXCEPT ![r] = file[r] + 1]
        /\ file' \in [Rules -> Nat] /\ file'[r] = file[r] + 1
        /\ \A q \in Rules : q # r => file'[q] = file[q]
    BY <1>1, <1>5 DEF AppendRule, TypeOK
  <2>2. file[r] = 0
    BY <1>1, <1>5 DEF Occurs, TypeOK
  <2>3. /\ event' \in [Stores -> BOOLEAN] /\ missed' \in [Stores -> BOOLEAN]
        /\ \A t \in Stores : /\ event[t] => event'[t]
                             /\ missed[t] => missed'[t]
                             /\ event'[t] => event[t] \/ phase[t] = "watching"
    BY <1>1, <2>1, NotifyTypes
  <2>4. TypeOK'
    BY <1>1, <2>1, <2>3 DEF TypeOK
  <2>5. NoDuplicates'
    BY <1>1, <2>1, <2>2 DEF IInv, NoDuplicates
  <2>6. LiveIsFresh'
    <3> SUFFICES ASSUME NEW t \in Stores, Live(t)'
                 PROVE  event'[t] \/ missed'[t]
      BY DEF LiveIsFresh, Informed
    <3> QED
      BY <1>1, <2>1, NotifyInforms DEF Live
  <2>7. PendingIsWritten'
    <3> SUFFICES ASSUME NEW t \in Stores, phase'[t] = "watching"
                 PROVE  event'[t] \/ missed'[t]
      BY DEF PendingIsWritten
    <3> QED
      BY <1>1, <2>1, NotifyInforms DEF Live
  <2> QED
    BY <1>3, <2>4, <2>5, <2>6, <2>7 DEF IInv
<1> QED
  BY <1>4, <1>5

LEMMA AppendFailsKeeps ==
  ASSUME IInv, NEW s \in Stores, NEW i \in Inputs, AppendFails(s, i)
  PROVE  IInv'
<1>1. /\ pending' \in [Stores -> SUBSET Inputs] /\ missed' \in [Stores -> BOOLEAN]
      /\ missed'[s] /\ phase[s] \in {"watching", "deaf", "destroyed"}
      /\ \A t \in Stores : t # s => pending'[t] = pending[t] /\ missed'[t] = missed[t]
      /\ UNCHANGED <<registered, phase, rules, timer, event, file, status, edits>>
  BY DEF AppendFails, Appends, IInv, TypeOK
<1>2. TypeOK'
  BY <1>1 DEF IInv, TypeOK
<1>3. NoDuplicates' /\ WatchedIsThere' /\ NewHasNothingPending'
  BY <1>1 DEF IInv, NoDuplicates, WatchedIsThere, NewHasNothingPending
<1>4. LiveIsFresh'
  BY <1>1 DEF IInv, LiveIsFresh, Live, Informed
<1>5. PendingIsWritten'
  BY <1>1 DEF IInv, PendingIsWritten, Occurs
<1> QED
  BY <1>2, <1>3, <1>4, <1>5 DEF IInv

-----------------------------------------------------------------------------
(* Other programs *)

LEMMA EditKeeps ==
  ASSUME IInv, NEW R \in SUBSET Rules, NEW st \in {"good", "broken"}, Edit(R, st)
  PROVE  IInv'
<1>1. /\ TypeOK /\ Notify /\ file' = Once(R) /\ status' = st /\ edits' \in 0..MaxEdits
      /\ UNCHANGED <<registered, rules, pending, timer, phase>>
  BY MaxEditsAssumption DEF Edit, Edits, IInv, TypeOK
<1>2. /\ event' \in [Stores -> BOOLEAN] /\ missed' \in [Stores -> BOOLEAN]
      /\ \A t \in Stores : event'[t] => event[t] \/ phase[t] = "watching"
  BY <1>1, NotifyTypes
<1>3. TypeOK'
  BY <1>1, <1>2, OnceIsAFile DEF TypeOK
<1>4. NoDuplicates'
  BY <1>1, OnceIsAFile DEF NoDuplicates
<1>5. NewHasNothingPending' /\ WatchedIsThere'
  BY <1>1 DEF IInv, NewHasNothingPending, WatchedIsThere
<1>6. \A t \in Stores : Live(t) => event'[t] \/ missed'[t]
  BY <1>1, NotifyInforms
<1>7. LiveIsFresh' /\ PendingIsWritten'
  BY <1>1, <1>6 DEF LiveIsFresh, PendingIsWritten, Live, Informed
<1> QED
  BY <1>3, <1>4, <1>5, <1>7 DEF IInv

\* What Replace and Remove have in common: no store watches the file any more, and one
\* that is being made misses the change, unless the file is away.
LEMMA OtherFileKeeps ==
  ASSUME IInv, NEW R \in SUBSET Rules, NEW b \in BOOLEAN,
         Edits, Deafen, file' = Once(R), status' \in {"good", "broken", "missing"},
         IF b THEN Notify ELSE UNCHANGED event,
         ~b => /\ missed' \in [Stores -> BOOLEAN]
               /\ \A s \in Stores : phase[s] = "loaded" /\ status' = "good" => missed'[s]
  PROVE  IInv'
<1>1. /\ TypeOK /\ edits' \in 0..MaxEdits
      /\ UNCHANGED <<registered, rules, pending, timer>>
  BY MaxEditsAssumption DEF Edits, IInv, TypeOK
<1>2. /\ phase' \in [Stores -> {"none", "loaded", "watching", "deaf", "destroyed"}]
      /\ \A s \in Stores :
           /\ phase[s] = "watching" => phase'[s] = "deaf"
           /\ phase[s] # "watching" => phase'[s] = phase[s]
  BY <1>1 DEF Deafen, TypeOK
<1>3. /\ event' \in [Stores -> BOOLEAN] /\ missed' \in [Stores -> BOOLEAN]
      /\ \A t \in Stores : event'[t] => event[t] \/ phase[t] = "watching"
  <2>1. CASE b
    BY <2>1, <1>1, NotifyTypes
  <2>2. CASE ~b
    BY <2>2, <1>1 DEF TypeOK
  <2> QED
    BY <2>1, <2>2
<1>4. TypeOK'
  BY <1>1, <1>2, <1>3, OnceIsAFile DEF TypeOK
<1>5. NoDuplicates'
  BY OnceIsAFile DEF NoDuplicates
<1>6. NewHasNothingPending' /\ WatchedIsThere' /\ PendingIsWritten'
  BY <1>1, <1>2 DEF IInv, NewHasNothingPending, WatchedIsThere, PendingIsWritten
<1>7. LiveIsFresh'
  <2> SUFFICES ASSUME NEW s \in Stores, phase'[s] \in {"loaded", "watching"}, status' = "good"
               PROVE  event'[s] \/ missed'[s]
    BY DEF LiveIsFresh, Live, Informed
  <2>1. phase[s] = "loaded"
    BY <1>1, <1>2 DEF TypeOK
  <2>2. CASE b
    BY <2>1, <2>2, <1>1, NotifyInforms DEF Live
  <2>3. CASE ~b
    BY <2>1, <2>3
  <2> QED
    BY <2>2, <2>3
<1> QED
  BY <1>4, <1>5, <1>6, <1>7 DEF IInv

LEMMA ReplaceKeeps ==
  ASSUME IInv, NEW R \in SUBSET Rules, NEW st \in {"good", "broken"}, NEW change \in BOOLEAN,
         Replace(R, st, change)
  PROVE  IInv'
<1>1. /\ Edits /\ Deafen /\ file' = Once(R) /\ status' \in {"good", "broken", "missing"}
      /\ IF change THEN Notify ELSE UNCHANGED event
  BY DEF Replace
<1>2. ASSUME ~change
      PROVE  /\ missed' \in [Stores -> BOOLEAN]
             /\ \A s \in Stores : phase[s] = "loaded" /\ status' = "good" => missed'[s]
  <2>1. missed' = [s \in Stores |-> missed[s] \/ phase[s] = "loaded"]
    BY <1>2 DEF Replace
  <2>2. missed' \in [Stores -> BOOLEAN]
    BY <2>1, Zenon DEF IInv, TypeOK
  <2> QED
    BY <2>1, <2>2
<1> QED
  BY <1>1, <1>2, OtherFileKeeps

LEMMA RemoveKeeps ==
  ASSUME IInv, NEW change \in BOOLEAN, Remove(change)
  PROVE  IInv'
<1>1. /\ Edits /\ Deafen /\ file' = Once({}) /\ status' = "missing"
      /\ IF change THEN Notify ELSE UNCHANGED <<event, missed>>
  BY DEF Remove
<1>2. ~change => /\ missed' \in [Stores -> BOOLEAN]
                 /\ \A s \in Stores : phase[s] = "loaded" /\ status' = "good" => missed'[s]
  BY <1>1 DEF IInv, TypeOK
<1>3. {} \in SUBSET Rules
  OBVIOUS
<1> QED
  BY <1>1, <1>2, <1>3, OtherFileKeeps

-----------------------------------------------------------------------------
(* The theorems *)

LEMMA InitSound == Init => IInv
<1> SUFFICES ASSUME Init PROVE IInv
  OBVIOUS
<1>1. file \in [Rules -> Nat] /\ status \in {"good", "broken", "missing"}
      /\ \A r \in Rules : file[r] <= 1
  BY OnceIsAFile DEF Init
<1>2. TypeOK
  BY <1>1, MaxEditsAssumption DEF Init, TypeOK
<1>3. NoDuplicates
  BY <1>1 DEF NoDuplicates
<1> QED
  BY <1>2, <1>3
  DEF Init, IInv, NewHasNothingPending, WatchedIsThere, LiveIsFresh, Live, PendingIsWritten

LEMMA StepKeeps == IInv /\ [Next]_vars => IInv'
<1> SUFFICES ASSUME IInv, [Next]_vars
             PROVE  IInv'
  OBVIOUS
<1>1. ASSUME NEW s \in Stores, StoreSteps(s)
      PROVE  IInv'
  <2>1. ASSUME NEW b \in BOOLEAN, Create(s, b) \/ Reload(s, b)
        PROVE  IInv'
    BY <2>1, CreateKeeps, ReloadKeeps
  <2>2. ASSUME Watch(s) \/ WatchThrows(s)
        PROVE  IInv'
    BY <2>2, WatchKeeps
  <2>3. ASSUME ChangeEvent(s) \/ Destroy(s)
        PROVE  IInv'
    BY <2>3, ChangeEventKeeps, DestroyKeeps
  <2>4. ASSUME NEW i \in Inputs, AppendRule(s, i) \/ AppendFails(s, i)
        PROVE  IInv'
    BY <2>4, AppendRuleKeeps, AppendFailsKeeps
  <2> QED
    BY <1>1, <2>1, <2>2, <2>3, <2>4 DEF StoreSteps
<1>2. ASSUME OtherPrograms
      PROVE  IInv'
  BY <1>2, EditKeeps, ReplaceKeeps, RemoveKeeps DEF OtherPrograms
<1>3. CASE UNCHANGED vars
  BY <1>3 DEF vars, storeVars, fileVars, IInv, TypeOK, NoDuplicates, NewHasNothingPending,
              WatchedIsThere, LiveIsFresh, Live, Informed, PendingIsWritten, Occurs
<1> QED
  BY <1>1, <1>2, <1>3 DEF Next

\* The invariant holds in every behaviour of the stores and the other programs.
THEOREM RulesInductive == Spec => []IInv
<1> QED
  BY InitSound, StepKeeps, PTL DEF Spec

\* Every variable of the stores and of the file keeps its type.
THEOREM RulesTypeCorrect == Spec => []TypeOK
<1>1. IInv => TypeOK
  BY DEF IInv
<1> QED
  BY <1>1, RulesInductive, PTL

\* appendRule never writes a rule that is in the file, whatever is pending in which store.
THEOREM NothingWrittenTwice == Spec => []NoDuplicates
<1>1. IInv => NoDuplicates
  BY DEF IInv
<1> QED
  BY <1>1, RulesInductive, PTL

\* What appendRule skips as pending has been written, or will be forgotten.
THEOREM SkippedIsWritten == Spec => []PendingIsWritten
<1>1. IInv => PendingIsWritten
  BY DEF IInv
<1> QED
  BY <1>1, RulesInductive, PTL

\* A store that watches its file and has stale rules has a reload on its way, unless it
\* has missed something.
THEOREM StaleIsReloaded == Spec => []StaleHasReload
<1>1. IInv => StaleHasReload
  <2> SUFFICES ASSUME IInv, NEW s \in Stores, phase[s] = "watching", status = "good",
                      rules[s] # Written
               PROVE  Informed(s)
    BY DEF StaleHasReload, Informed
  <2>1. rules[s] \subseteq Rules
    BY DEF IInv, TypeOK
  <2>2. ~\A r \in Rules : r \in rules[s] <=> file[r] > 0
    BY <2>1 DEF Written
  <2> QED
    BY <2>2 DEF IInv, LiveIsFresh, Live
<1> QED
  BY <1>1, RulesInductive, PTL

\* No event or timer reaches a store that has been destroyed.
THEOREM DestroyedStaysQuiet == Spec => DestroyedIsQuiet
<1>1. IInv /\ [Next]_vars =>
        [\A s \in Stores : phase[s] = "destroyed" => rules'[s] = rules[s] /\ ~timer'[s]]_vars
  <2> SUFFICES ASSUME IInv, Next, NEW s \in Stores, phase[s] = "destroyed"
               PROVE  rules'[s] = rules[s] /\ ~timer'[s]
    OBVIOUS
  <2>1. ~event[s] /\ ~timer[s]
    BY DEF IInv, TypeOK
  <2>2. ASSUME NEW t \in Stores, StoreSteps(t)
        PROVE  rules'[s] = rules[s] /\ timer'[s] = timer[s]
    BY <2>1, <2>2 DEF StoreSteps, Create, Reload, LoadRules, Watch, WatchThrows, ChangeEvent,
                      Destroy, AppendRule, AppendFails, Appends, IInv, TypeOK
  <2>3. ASSUME OtherPrograms
        PROVE  rules'[s] = rules[s] /\ timer'[s] = timer[s]
    BY <2>3 DEF OtherPrograms, Edit, Replace, Remove, Edits
  <2> QED
    BY <2>1, <2>2, <2>3 DEF Next
<1> QED
  BY <1>1, RulesInductive, PTL DEF Spec, DestroyedIsQuiet
=============================================================================
