---------------------------- MODULE EventBuffer ----------------------------
(***************************************************************************)
(* What the outbox promises to whoever reads its documentation, without    *)
(* processes, locks, listings or files in flight: an event that was        *)
(* buffered leaves the buffer because the collector has it or because at   *)
(* least Cap newer events were buffered, and the collector gets an event   *)
(* twice only when the sender was left in doubt about it.                  *)
(***************************************************************************)
EXTENDS Naturals, FiniteSets

CONSTANTS
  Events,   \* every event there may be, numbered by age
  Cap,      \* events the buffer keeps
  Present   \* events in the buffer at start

VARIABLES
  accepted,   \* events ever buffered
  buffered,   \* events in the buffer
  delivered,  \* events the collector has
  repeated,   \* events it got more than once
  dropped,    \* events given up for newer ones
  doubted     \* delivered events the sender could not take out

vars == <<accepted, buffered, delivered, repeated, dropped, doubted>>

Newer(n) == {m \in accepted : m > n}

Init ==
  /\ accepted = Present
  /\ buffered = Present
  /\ delivered = {}
  /\ repeated = {}
  /\ dropped = {}
  /\ doubted = {}

Accept ==
  /\ \E n \in Events \ accepted :
       /\ accepted' = accepted \cup {n}
       /\ buffered' = buffered \cup {n}
  /\ UNCHANGED <<delivered, repeated, dropped, doubted>>

\* The collector gets the events S; the sender may learn of it or not. The
\* buffer may have dropped some of S meanwhile.
Deliver ==
  /\ \E S, D \in SUBSET accepted :
       /\ S \cap delivered \subseteq doubted
       /\ D \subseteq S \cup delivered
       /\ delivered' = delivered \cup S
       /\ repeated' = repeated \cup (S \cap delivered)
       /\ doubted' = doubted \cup D
  /\ UNCHANGED <<accepted, buffered, dropped>>

Discard ==
  /\ \E n \in buffered \cap delivered : buffered' = buffered \ {n}
  /\ UNCHANGED <<accepted, delivered, repeated, dropped, doubted>>

Drop ==
  /\ \E n \in buffered :
       /\ Cardinality(Newer(n)) >= Cap
       /\ buffered' = buffered \ {n}
       /\ dropped' = dropped \cup {n}
  /\ UNCHANGED <<accepted, delivered, repeated, doubted>>

Next == Accept \/ Deliver \/ Discard \/ Drop

Spec == Init /\ [][Next]_vars
=============================================================================
