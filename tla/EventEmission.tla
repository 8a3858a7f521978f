---------------------------- MODULE EventEmission ----------------------------
(***************************************************************************)
(* One emitAsync at a time, of the plugin event manager, which runs its    *)
(* listeners one after the other and gives each of them a time limit, or   *)
(* of an event bus, which runs them together and waits for all of them.    *)
(***************************************************************************)
EXTENDS Naturals

CONSTANT NListeners  \* listeners of each event; one that returns at once is like none

ASSUME NListenersAssumption == NListeners \in Nat \ {0}

VARIABLES
  kind,     \* of the current emission: "plugin", "bus" or "none"
  listener  \* per listener, in the order of registration, how far it is

emissionVars == <<kind, listener>>

Listener == 1..NListeners
Settlement == {"ok", "abort", "error"}

EmissionTypeOK ==
  /\ kind \in {"none", "plugin", "bus"}
  /\ listener \in [Listener -> Settlement \cup {"waiting", "running", "late"}]

\* The listeners as an emission of kind k starts them.
Started(k) == [l \in Listener |-> IF k = "bus" \/ l = 1 THEN "running" ELSE "waiting"]

\* A listener returns (o = "ok"), throws the abort signal or throws something else.
\* What one does after its time-out is over is nobody's business.
Settles(l, o) ==
  /\ listener[l] = "running"
  /\ listener' = [k \in Listener |->
                    IF k = l THEN o
                    ELSE IF kind = "plugin" /\ o = "ok" /\ k = l + 1 THEN "running"
                    ELSE listener[k]]
  /\ UNCHANGED kind

\* pluginTimeoutMs are over: the emission fails, and the listener runs on.
TimesOut(l) ==
  /\ kind = "plugin" /\ listener[l] = "running"
  /\ listener' = [listener EXCEPT ![l] = "late"]
  /\ UNCHANGED kind

LateReturns(l) ==
  /\ listener[l] = "late"
  /\ listener' = [listener EXCEPT ![l] = "error"]
  /\ UNCHANGED kind

Failures == {l \in Listener : listener[l] \in {"abort", "error", "late"}}

\* Mutant of Over: Promise.all instead of Promise.allSettled.
OverAtFirstFailure ==
  \/ Failures # {}
  \/ \A l \in Listener : listener[l] = "ok"

\* emitAsync settles: a plugin's failure ends the loop over the listeners, a bus waits.
Over ==
  IF kind = "plugin" THEN Failures # {} \/ \A l \in Listener : listener[l] = "ok"
  ELSE \A l \in Listener : listener[l] \in Settlement

\* What it throws, or "ok".  Two errors become an aggregate, which is no abort signal
\* even if both of them were.
Thrown ==
  IF Failures = {} THEN "ok"
  ELSE IF \E l \in Listener : Failures = {l} /\ listener[l] = "abort" THEN "abort"
  ELSE "error"
==============================================================================
