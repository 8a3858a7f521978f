---------------------------- MODULE MessageRelay ----------------------------
(***************************************************************************)
(* What a WebSocket tunnel promises for the messages that its two sides    *)
(* send through it: each is delivered at most once, those of an ordered    *)
(* side never overtake one another, and nothing is delivered once the      *)
(* tunnel is cut or has been taken over.  A message may be lost: a plugin  *)
(* may drop it, and the other side may have gone.                          *)
(***************************************************************************)
EXTENDS Integers, Sequences, SequencesExt

CONSTANTS
  Sides,        \* where messages come from
  Ordered,      \* the sides whose messages keep their order
  MaxMessages   \* bound on the messages of a tunnel

VARIABLES
  received,  \* the side each message came from, in the order of receipt
  delivered, \* the messages that have been delivered, in that order
  over       \* nothing is delivered any more

relayVars == <<received, delivered, over>>

Init ==
  /\ received = <<>>
  /\ delivered = <<>>
  /\ over = FALSE

Receive(s) ==
  /\ Len(received) < MaxMessages
  /\ received' = Append(received, s)
  /\ UNCHANGED <<delivered, over>>

\* m is delivered at most once, and after no later message of its side if that side is
\* ordered.  rcv is what has been received by then.
Deliver(m, rcv) ==
  /\ ~over
  /\ m \notin ToSet(delivered)
  /\ rcv[m] \in Ordered => \A k \in ToSet(delivered) : rcv[k] = rcv[m] => k < m
  /\ delivered' = Append(delivered, m)
  /\ UNCHANGED over

DeliverReceived == \E m \in 1..Len(received) : Deliver(m, received) /\ UNCHANGED received

\* A message may be delivered as it comes.
ReceiveAndDeliver(s) ==
  /\ Len(received) < MaxMessages
  /\ received' = Append(received, s)
  /\ Deliver(Len(received) + 1, Append(received, s))

End == ~over /\ over' = TRUE /\ UNCHANGED <<received, delivered>>

Next ==
  \/ \E s \in Sides : Receive(s) \/ ReceiveAndDeliver(s)
  \/ DeliverReceived
  \/ End

Spec == Init /\ [][Next]_relayVars
==============================================================================
