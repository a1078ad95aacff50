------------------------ MODULE NotificationContract ------------------------
(***************************************************************************)
(* What the notification pipeline promises its users: every notification   *)
(* key (rule, expression, forecast window) reaches the chat at most once,  *)
(* and what reached the chat is recorded as sent, for good.                *)
(***************************************************************************)
EXTENDS Naturals, Sequences, Functions

CONSTANT Keys   \* what a notification is about: rule, expression, window

VARIABLES
  delivered,    \* the keys of the messages in the chat, in order
  recorded      \* the keys with a committed row in status 'sent'

contract == <<delivered, recorded>>

Init ==
  /\ delivered = <<>>
  /\ recorded = {}

Deliver(k) ==
  /\ k \notin Range(delivered)
  /\ delivered' = Append(delivered, k)
  /\ UNCHANGED recorded

\* A worker commits the records of one cycle.
Record(K) ==
  /\ K # {}
  /\ K \subseteq Range(delivered) \ recorded
  /\ recorded' = recorded \union K
  /\ UNCHANGED delivered

Next ==
  \/ \E k \in Keys : Deliver(k)
  \/ \E K \in SUBSET Keys : Record(K)

Spec == Init /\ [][Next]_contract

\* No delivery stays without its record.
FairSpec ==
  /\ Spec
  /\ \A k \in Keys : WF_contract(\E K \in SUBSET Keys : k \in K /\ Record(K))
=============================================================================
