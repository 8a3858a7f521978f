--------------------------- MODULE PluginLifecycle ---------------------------
(***************************************************************************)
(* What a proxy promises its plugins: init and cleanup hooks run one at a  *)
(* time; cleanup runs once for every init that succeeded, in reverse       *)
(* order; and once cleaning up has begun nothing is initialised before it  *)
(* is complete.                                                            *)
(***************************************************************************)
EXTENDS Sequences, SequencesExt

CONSTANT Plugins

VARIABLES
  ready,  \* the plugins initialised and not yet cleaned up, oldest first
  hook,   \* the hook that is running
  down    \* cleaning up has begun

vars == <<ready, hook, down>>

NoHook         == [kind |-> "none"]
InitHook(p)    == [kind |-> "init", plugin |-> p]
CleanupHook(p) == [kind |-> "cleanup", plugin |-> p]

Init ==
  /\ ready = <<>>
  /\ hook = NoHook
  /\ down = FALSE

\* What is ready once the running hook has ended: an init may fail.
Ended ==
  IF hook.kind = "init" THEN {ready, Append(ready, hook.plugin)} ELSE {ready}

\* With s ready, no hook runs next.
Rests(s) ==
  /\ ready' = s
  /\ hook' = NoHook
  /\ down' = (down /\ s # <<>>)

Initialises(s) ==
  /\ ~down
  /\ \E p \in Plugins \ ToSet(s) : hook' = InitHook(p)
  /\ ready' = s
  /\ UNCHANGED down

CleansUp(s) ==
  /\ s # <<>>
  /\ hook' = CleanupHook(Last(s))
  /\ ready' = Front(s)
  /\ down' = TRUE

Next == \E s \in Ended : Rests(s) \/ Initialises(s) \/ CleansUp(s)

Spec == Init /\ [][Next]_vars
==============================================================================
