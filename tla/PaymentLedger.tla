---------------------------- MODULE PaymentLedger ----------------------------
(***************************************************************************)
(* What the payment service promises of its orders, without handlers,      *)
(* cookies, time or faults: an order is opened once and is then settled    *)
(* once, as paid, which takes the customer's money, or as failed.          *)
(***************************************************************************)
CONSTANT Orders

VARIABLES
  order,         \* [Orders -> status]
  charged        \* the orders whose money was collected

ledgerVars == <<order, charged>>

LedgerInit ==
  /\ order = [i \in Orders |-> "none"]
  /\ charged = {}

Open(i) ==
  /\ order[i] = "none"
  /\ order' = [order EXCEPT ![i] = "pending"]
  /\ UNCHANGED charged

\* The provider collects the money, at any time after the order was opened:
\* the service cannot stop it.
Collect(i) ==
  /\ order[i] # "none"
  /\ charged' = charged \cup {i}
  /\ UNCHANGED order

Settle(i) ==
  /\ order[i] = "pending"
  /\ i \in charged
  /\ order' = [order EXCEPT ![i] = "paid"]
  /\ UNCHANGED charged

\* Orders are given up, one by its customer or many by age.
Void(S) ==
  /\ \A i \in S : order[i] = "pending"
  /\ order' = [i \in Orders |-> IF i \in S THEN "failed" ELSE order[i]]
  /\ UNCHANGED charged

LedgerNext ==
  \/ \E i \in Orders : Open(i) \/ Collect(i) \/ Settle(i)
  \/ \E S \in SUBSET Orders : Void(S)

LedgerSpec == LedgerInit /\ [][LedgerNext]_ledgerVars
=============================================================================
