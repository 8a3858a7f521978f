------------------------------ MODULE RuleStore ------------------------------
(***************************************************************************)
(* The rule stores of one name, with the rule file they share: created by  *)
(* RuleEngine.createRule, appended to by plugins, reloaded 200 ms after a  *)
(* change event of the file, which other programs may edit in place,       *)
(* replace or remove at any time.                                          *)
(*                                                                         *)
(* The process is one thread, and a method of a store is one step of it,   *)
(* except that another program may change the file between the first load  *)
(* and the start of the watcher, which no event tells of.                  *)
(***************************************************************************)
EXTENDS Naturals

CONSTANTS
  Stores,
  Rules,     \* the rules as they are written
  Inputs,    \* the arguments of appendRule
  Format,    \* per input: the rule formatForSave makes of it
  Inside,    \* per rule: the other rules whose text contains it
  MaxEdits   \* bound on what other programs do to the file

ASSUME FormatAssumption == Format \in [Inputs -> Rules]
ASSUME InsideAssumption == Inside \in [Rules -> SUBSET Rules]
ASSUME MaxEditsAssumption == MaxEdits \in Nat

VARIABLES
  registered,  \* RuleEngine.stores: the store of the name
  phase,       \* per store: how far it is
  rules,       \* per store: the rules it matches by
  pending,     \* per store: pendingSaves
  event,       \* per store: a change event is on its way
  timer,       \* per store: reloadTimer is set
  missed,      \* per store: since its last load, a change without an event or a failure
  file,        \* how often each rule is in the file
  status,      \* "good", "broken" (parse throws) or "missing"
  edits        \* how often other programs have changed it

storeVars == <<registered, phase, rules, pending, event, timer, missed>>
fileVars == <<file, status, edits>>
vars == <<storeVars, fileVars>>

NoStore == "none"
ASSUME NoStoreAssumption == NoStore \notin Stores

TypeOK ==
  /\ registered \in Stores \cup {NoStore}
  /\ phase \in [Stores -> {"none", "loaded", "watching", "deaf", "destroyed"}]
  /\ rules \in [Stores -> SUBSET Rules]
  /\ pending \in [Stores -> SUBSET Inputs]
  /\ event \in [Stores -> BOOLEAN] /\ timer \in [Stores -> BOOLEAN]
  /\ missed \in [Stores -> BOOLEAN]
  /\ file \in [Rules -> Nat] /\ status \in {"good", "broken", "missing"}
  /\ edits \in 0..MaxEdits
  /\ \A s \in Stores : event[s] \/ timer[s] => phase[s] \in {"watching", "deaf"}

Once(R) == [r \in Rules |-> IF r \in R THEN 1 ELSE 0]
Written == {r \in Rules : file[r] > 0}

\* No store yet; the file may be there from earlier.
Init ==
  /\ registered = NoStore
  /\ phase = [s \in Stores |-> "none"]
  /\ rules = [s \in Stores |-> {}] /\ pending = [s \in Stores |-> {}]
  /\ event = [s \in Stores |-> FALSE] /\ timer = [s \in Stores |-> FALSE]
  /\ missed = [s \in Stores |-> FALSE]
  /\ \/ file = Once({}) /\ status = "missing"
     \/ \E R \in SUBSET Rules : file = Once(R) /\ status \in {"good", "broken"}
  /\ edits = 0

-----------------------------------------------------------------------------
(* Loading *)

\* The thread is inside a constructor.
Constructing == \E s \in Stores : phase[s] = "loaded"

\* A change of the file: the stores that watch it will hear of it, the others will not.
Notify ==
  /\ event' = [s \in Stores |-> event[s] \/ phase[s] = "watching"]
  /\ missed' = [s \in Stores |-> missed[s] \/ phase[s] = "loaded"]

\* Mutant of LoadRules: the saves of before the reload stay pending.
LoadRulesOnly(s, readable) ==
  /\ rules' = IF readable /\ status = "good" THEN [rules EXCEPT ![s] = Written] ELSE rules
  /\ missed' = [missed EXCEPT ![s] = ~readable]
  /\ UNCHANGED pending

\* loadRules: a file that cannot be read or parsed leaves the rules as they are.
LoadRules(s, readable) ==
  /\ pending' = [pending EXCEPT ![s] = {}]
  /\ rules' = IF readable /\ status = "good" THEN [rules EXCEPT ![s] = Written] ELSE rules
  /\ missed' = [missed EXCEPT ![s] = ~readable]

\* The constructor, until its first load, with a file it has made if there was none.
Create(s, readable) ==
  /\ ~Constructing /\ phase[s] = "none"
  /\ phase' = [phase EXCEPT ![s] = "loaded"]
  /\ status' = IF status = "missing" THEN "good" ELSE status
  /\ IF status = "missing"
     THEN /\ file' = Once({}) /\ rules' = [rules EXCEPT ![s] = {}]
          /\ UNCHANGED <<pending, missed>>
     ELSE LoadRules(s, readable) /\ UNCHANGED file
  /\ UNCHANGED <<registered, event, timer, edits>>

\* The watcher starts, and createRule registers the store in place of an earlier one.
Watch(s) ==
  /\ phase[s] = "loaded" /\ status # "missing"
  /\ phase' = [phase EXCEPT ![s] = "watching"]
  /\ registered' = s
  /\ UNCHANGED <<rules, pending, event, timer, missed, fileVars>>

\* fs.watch throws, and with it the constructor.
WatchThrows(s) ==
  /\ phase[s] = "loaded" /\ status = "missing"
  /\ phase' = [phase EXCEPT ![s] = "destroyed"]
  /\ UNCHANGED <<registered, rules, pending, event, timer, missed, fileVars>>

\* Mutant of ChangeEvent: an event is taken for that of the store's own append.
OthersChangeEvent(s) ==
  /\ ~Constructing /\ event[s]
  /\ event' = [event EXCEPT ![s] = FALSE]
  /\ timer' = IF pending[s] = {} THEN [timer EXCEPT ![s] = TRUE] ELSE timer
  /\ UNCHANGED <<registered, phase, rules, pending, missed, fileVars>>

\* The watcher's callback: triggerDebounce sets the timer, or sets it anew.
ChangeEvent(s) ==
  /\ ~Constructing /\ event[s]
  /\ event' = [event EXCEPT ![s] = FALSE]
  /\ timer' = [timer EXCEPT ![s] = TRUE]
  /\ UNCHANGED <<registered, phase, rules, pending, missed, fileVars>>

\* The timer's callback.
Reload(s, readable) ==
  /\ ~Constructing /\ timer[s]
  /\ timer' = [timer EXCEPT ![s] = FALSE]
  /\ LoadRules(s, readable)
  /\ UNCHANGED <<registered, phase, event, fileVars>>

\* destroy(): the store stays registered, and can still be matched and appended to.
Destroy(s) ==
  /\ ~Constructing /\ phase[s] \in {"watching", "deaf"}
  /\ phase' = [phase EXCEPT ![s] = "destroyed"]
  /\ event' = [event EXCEPT ![s] = FALSE]
  /\ timer' = [timer EXCEPT ![s] = FALSE]
  /\ UNCHANGED <<registered, rules, pending, missed, fileVars>>

-----------------------------------------------------------------------------
(* Appending *)

\* Mutant of Occurs: it asks the loaded rules.
OccursInRules(r) == registered # NoStore /\ r \in rules[registered]

\* The text of r is in the file, be it inside another rule.
Occurs(r) == \E q \in {r} \cup Inside[r] : file[q] > 0

\* appendRule(i).  The input becomes pending whatever comes of it.
Appends(s, i) ==
  /\ ~Constructing /\ phase[s] \in {"watching", "deaf", "destroyed"}
  /\ i \notin pending[s]
  /\ pending' = [pending EXCEPT ![s] = @ \cup {i}]
  /\ UNCHANGED <<registered, phase, rules, timer, status, edits>>

AppendRule(s, i) ==
  /\ Appends(s, i) /\ status # "missing"
  /\ IF Occurs(Format[i]) THEN UNCHANGED <<file, event, missed>>
     ELSE file' = [file EXCEPT ![Format[i]] = @ + 1] /\ Notify

\* The file cannot be read or written: the error is logged.
AppendFails(s, i) ==
  /\ Appends(s, i)
  /\ missed' = [missed EXCEPT ![s] = TRUE]
  /\ UNCHANGED <<file, event>>

-----------------------------------------------------------------------------
(* Other programs *)

Edits ==
  /\ edits < MaxEdits
  /\ edits' = edits + 1
  /\ UNCHANGED <<registered, rules, pending, timer>>

\* The file gets other contents, in place.
Edit(R, st) ==
  /\ Edits /\ status # "missing"
  /\ file' = Once(R) /\ status' = st
  /\ Notify
  /\ UNCHANGED phase

\* A watcher stays with the file it was started on.
Deafen == phase' = [s \in Stores |-> IF phase[s] = "watching" THEN "deaf" ELSE phase[s]]

\* Another file takes its place, or it comes back; whether a watcher's last event is
\* "change" or "rename" depends on the platform.
Replace(R, st, change) ==
  /\ Edits
  /\ file' = Once(R) /\ status' = st
  /\ Deafen
  /\ IF change THEN Notify
     ELSE missed' = [s \in Stores |-> missed[s] \/ phase[s] = "loaded"] /\ UNCHANGED event

Remove(change) ==
  /\ Edits /\ status # "missing"
  /\ file' = Once({}) /\ status' = "missing"
  /\ Deafen
  /\ IF change THEN Notify ELSE UNCHANGED <<event, missed>>

-----------------------------------------------------------------------------
StoreSteps(s) ==
  \/ \E readable \in BOOLEAN : Create(s, readable) \/ Reload(s, readable)
  \/ Watch(s) \/ WatchThrows(s) \/ ChangeEvent(s) \/ Destroy(s)
  \/ \E i \in Inputs : AppendRule(s, i) \/ AppendFails(s, i)

OtherPrograms ==
  \E change \in BOOLEAN :
    \/ Remove(change)
    \/ \E R \in SUBSET Rules, st \in {"good", "broken"} : Edit(R, st) \/ Replace(R, st, change)

Next == (\E s \in Stores : StoreSteps(s)) \/ OtherPrograms

\* The event loop delivers events and fires timers.
Fairness ==
  \A s \in Stores :
    /\ WF_vars(Watch(s) \/ WatchThrows(s))
    /\ WF_vars(ChangeEvent(s))
    /\ WF_vars(\E readable \in BOOLEAN : Reload(s, readable))

Spec == Init /\ [][Next]_vars
FairSpec == Spec /\ Fairness

-----------------------------------------------------------------------------
(* Properties *)

\* Two stores on one file, inputs that are formatted alike and reloads that forget what
\* is pending never write a rule that is there already.
NoDuplicates == \A r \in Rules : file[r] <= 1

\* A store whose rules are not those of the file is about to reload it, unless it has
\* missed something: a change during its construction, a read or a write that failed.
StaleHasReload ==
  \A s \in Stores :
    phase[s] = "watching" /\ status = "good" /\ rules[s] # Written
      => event[s] \/ timer[s] \/ missed[s]

\* An input that appendRule will skip because it is pending is in the file, or about to
\* be forgotten by a reload, unless the store has missed something.
PendingIsWritten ==
  \A s \in Stores : \A i \in pending[s] :
    phase[s] = "watching" => Occurs(Format[i]) \/ event[s] \/ timer[s] \/ missed[s]

\* A destroyed store loads no more, whatever event or timer was on its way.
DestroyedIsQuiet ==
  [][\A s \in Stores : phase[s] = "destroyed" => rules'[s] = rules[s] /\ ~timer'[s]]_vars

\* A rule in the file, by whichever store or program, is matched by the registered store
\* in the end, or the file or the store changes first.
Expects(s, r) ==
  /\ registered = s /\ phase[s] = "watching" /\ ~missed[s]
  /\ status = "good" /\ r \in Written

WrittenIsMatched ==
  \A s \in Stores, r \in Rules : Expects(s, r) ~> (r \in rules[s] \/ ~Expects(s, r))
==============================================================================
