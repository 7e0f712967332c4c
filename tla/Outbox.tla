------------------------------- MODULE Outbox -------------------------------
(***************************************************************************)
(* What the webhook machinery promises to the panel, without attempts,     *)
(* retries or a table: an order that becomes due is announced at least     *)
(* once, is recorded as delivered only after the panel has it, and is      *)
(* never un-recorded.                                                      *)
(***************************************************************************)
CONSTANT Orders

VARIABLES
  due,           \* paid orders that have a callback
  received,      \* the orders the panel has been told about
  recorded       \* the orders recorded as delivered

outboxVars == <<due, received, recorded>>

OutboxInit ==
  /\ due = {}
  /\ received = {}
  /\ recorded = {}

Become(i) ==
  /\ due' = due \cup {i}
  /\ UNCHANGED <<received, recorded>>

Announce(i) ==
  /\ i \in due
  /\ received' = received \cup {i}
  /\ UNCHANGED <<due, recorded>>

Record(i) ==
  /\ i \in received
  /\ recorded' = recorded \cup {i}
  /\ UNCHANGED <<due, received>>

OutboxNext == \E i \in Orders : Become(i) \/ Announce(i) \/ Record(i)

OutboxSpec == OutboxInit /\ [][OutboxNext]_outboxVars
=============================================================================
