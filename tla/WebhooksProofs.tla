--------------------------- MODULE WebhooksProofs ---------------------------
(***************************************************************************)
(* Safety of Webhooks for any number of orders, senders, attempts, batch   *)
(* size and crashes.                                                       *)
(*                                                                         *)
(* What a sender carries was due when it was read.  It still is, because   *)
(* no statement takes an order out of Due; and what it marks is that very  *)
(* order, because every order has its own number (AllNumbered).            *)
(***************************************************************************)
EXTENDS Webhooks, PaymentStoreProofs

-----------------------------------------------------------------------------
(* The inductive invariant *)

\* Every order exists and has its id for a number.
AllNumbered ==
  /\ lastId = MaxId
  /\ \A i \in Ids : payments[i].invId = i

PaidOrders == {i \in Ids : payments[i].status = "paid"}

\* Results about to be answered and goroutines not yet running.
JobsAreDue ==
  /\ settling \subseteq PaidOrders
  /\ jobs \subseteq Due

\* Send makes a request only while attempts are left.
AttemptsLeft == \A s \in Senders : send[s].pc = "sending" => send[s].tries < Attempts

\* Recorded as delivered, known to the panel, paid: each implies the next.
RecordsAreTrue ==
  /\ Delivered \subseteq received
  /\ received \subseteq Due

DeliveryInv ==
  /\ WebhooksTypeOK
  /\ AllNumbered
  /\ JobsAreDue
  /\ AttemptsLeft
  /\ SendersCarryDueOrders
  /\ RecordsAreTrue

\* The table has all orders, and a number finds its order only.
LEMMA OrderRows ==
  ASSUME DeliveryInv
  PROVE  /\ StoreTypeOK
         /\ 1..lastId = Ids
         /\ DOMAIN payments = Ids
         /\ payments \in [Ids -> Row]
         /\ \A inv \in Ids : RowsOf(inv) = {inv}
         /\ \A inv : Pending(inv) \subseteq {i \in Ids : payments[i].status = "pending"}
         /\ \A inv \in Ids : Pending(inv) \subseteq {inv}
<1>1. StoreTypeOK
  BY DEF DeliveryInv, WebhooksTypeOK
<1>2. 1..lastId = Ids
  BY DEF DeliveryInv, AllNumbered, Ids
<1>3. DOMAIN payments = Ids /\ payments \in [Ids -> Row]
  BY <1>1, <1>2 DEF StoreTypeOK
<1>4. \A inv \in Ids : RowsOf(inv) = {inv}
  BY <1>3 DEF DeliveryInv, AllNumbered, RowsOf
<1>5. \A inv : Pending(inv) \subseteq {i \in Ids : payments[i].status = "pending"}
  BY <1>3 DEF Pending, RowsOf
<1>6. \A inv \in Ids : Pending(inv) \subseteq {inv}
  BY <1>4 DEF Pending
<1> QED
  BY <1>1, <1>2, <1>3, <1>4, <1>5, <1>6

\* A sender that is not idle has a call's fields.
LEMMA BusyIsSending ==
  ASSUME DeliveryInv, NEW s \in Senders, send[s] # NotSending
  PROVE  send[s] \in Sending /\ send[s].inv \in Due
BY DEF DeliveryInv, WebhooksTypeOK, SendersCarryDueOrders

\* An idle sender is at none of Send's steps.
LEMMA IdleSends == NotSending.pc = "idle"
BY DEF NotSending

\* A due order is one of the orders.
LEMMA DueAreIds ==
  ASSUME DeliveryInv
  PROVE  Due \subseteq Ids
BY OrderRows DEF Due

-----------------------------------------------------------------------------
(* What a step does to the table *)

\* The statement a step executes.
DeliveryForms ==
  /\ lastId' = lastId
  /\ \/ payments' = payments
     \/ \E S \in SUBSET {i \in Ids : payments[i].status = "pending"} : payments' = Failed(S)
     \/ \E inv \in Ids : payments' = MarkPaid(inv)
     \/ payments' = AgedRows
     \/ \E inv \in Due \cap received : payments' = MarkWebhookDelivered(inv)
     \/ \E inv \in Due : payments' = MarkWebhookFailed(inv)

\* What the invariants need to know of it: at most one order becomes due, or one
\* that the panel knows becomes recorded, and none ceases to be either.
TableEffect ==
  /\ lastId' = lastId
  /\ StoreTypeOK'
  /\ \A i \in Ids : payments'[i].invId = payments[i].invId
  /\ PaidOrders \subseteq PaidOrders'
  /\ \/ Due' = Due /\ Delivered' = Delivered
     \/ \E i \in Ids : Due' = Due \cup {i} /\ Delivered' = Delivered
     \/ \E i \in received : Due' = Due /\ Delivered' = Delivered \cup {i}

\* Every step executes at most one statement on the table.
LEMMA DeliveryStepForms ==
  ASSUME DeliveryInv, [WebhooksNext]_vars
  PROVE  DeliveryForms
<1>1. ASSUME NEW inv PROVE Pending(inv) \in SUBSET {i \in Ids : payments[i].status = "pending"}
  BY OrderRows
<1>2. Expired \in SUBSET {i \in Ids : payments[i].status = "pending"}
  BY OrderRows DEF Expired
<1>3. ASSUME NEW s \in Senders, Step(s) PROVE DeliveryForms
  <2>1. CASE RequestSucceeds(s) \/ RequestFails(s)
    BY <2>1 DEF RequestSucceeds, RequestFails, DeliveryForms, storeVars
  <2>2. CASE Mark(s)
    <3>1. send[s] # NotSending
      BY <2>2, IdleSends DEF Mark
    <3>2. send[s].inv \in Due
      BY <3>1, BusyIsSending
    <3>3. send[s].pc = "ok" => send[s].inv \in received
      BY <3>1 DEF DeliveryInv, SendersCarryDueOrders
    <3> QED
      BY <2>2, <3>2, <3>3 DEF Mark, Faulty, DeliveryForms
  <2> QED
    BY <1>3, <2>1, <2>2 DEF Step
<1>4. ASSUME NEW inv \in Ids, Pay(inv) \/ GiveUp(inv) \/ Result(inv) \/ SendWebhook(inv)
      PROVE  DeliveryForms
  <2>1. CASE Pay(inv) \/ SendWebhook(inv)
    BY <2>1 DEF Pay, Charge, SendWebhook, DeliveryForms, storeVars
  <2>2. CASE GiveUp(inv)
    BY <1>1, <2>2 DEF GiveUp, CancelPending, DeliveryForms
  <2>3. CASE Result(inv)
    BY <2>3 DEF Result, ResultURL, ResultMarksPaid, ResultMarkPaidError, ResultAnswers, Faulty,
                DeliveryForms, storeVars
  <2> QED
    BY <1>4, <2>1, <2>2, <2>3
<1>5. CASE \E a \in Admins, inv \in Ids : RetryWebhook(a, inv)
  BY <1>5 DEF RetryWebhook, DeliveryForms, storeVars
<1>6. CASE Reconcile
  BY <1>2, <1>6 DEF Reconcile, Tick, RetryNext, FinishTick, CleanupExpiredPending, Faulty,
                    DeliveryForms, storeVars
<1>7. CASE TimePasses
  BY <1>7 DEF TimePasses, DeliveryForms
<1>8. CASE (\E c \in Callbacks : PanelChanges(c)) \/ Restart \/ UNCHANGED vars
  BY <1>8 DEF PanelChanges, Restart, LoseHandlers, vars, DeliveryForms, storeVars
<1> QED
  BY <1>3, <1>4, <1>5, <1>6, <1>7, <1>8 DEF WebhooksNext

\* Failing pending orders, ageing and failed attempts leave what is due and what is
\* recorded as it was.
LEMMA NothingDue ==
  ASSUME DeliveryInv, payments' \in [Ids -> Row], lastId' = lastId,
         \A i \in Ids : /\ payments'[i].link = payments[i].link
                        /\ payments'[i].invId = payments[i].invId
                        /\ payments'[i].delivered = payments[i].delivered
                        /\ payments'[i].status = "paid" <=> payments[i].status = "paid"
  PROVE  TableEffect
<1>1. DOMAIN payments = Ids /\ DOMAIN payments' = Ids
  BY OrderRows
<1>2. Due' = Due
  BY <1>1 DEF Due
<1>3. Delivered' = Delivered
  BY <1>1 DEF Delivered
<1>4. PaidOrders' = PaidOrders
  BY DEF PaidOrders
<1>5. StoreTypeOK'
  BY OrderRows DEF StoreTypeOK
<1> QED
  BY <1>2, <1>3, <1>4, <1>5 DEF TableEffect

\* The effect of a step on the table.
LEMMA TableSteps ==
  ASSUME DeliveryInv, [WebhooksNext]_vars
  PROVE  TableEffect
<1>1. DeliveryForms
  BY DeliveryStepForms
<1>2. lastId' = lastId
  BY <1>1 DEF DeliveryForms
<1>3. CASE payments' = payments
  BY <1>2, <1>3, OrderRows, NothingDue
<1>4. ASSUME NEW S \in SUBSET {i \in Ids : payments[i].status = "pending"}, payments' = Failed(S)
      PROVE  TableEffect
  <2>1. payments' \in [Ids -> Row]
    BY <1>4, OrderRows, FailedRows
  <2>2. \A i \in Ids : /\ payments'[i].link = payments[i].link
                       /\ payments'[i].invId = payments[i].invId
                       /\ payments'[i].delivered = payments[i].delivered
                       /\ payments'[i].status = IF i \in S THEN "failed" ELSE payments[i].status
    <3>1. StoreTypeOK /\ 1..lastId = Ids
      BY OrderRows
    <3>2. \A i \in 1..lastId :
            /\ Failed(S)[i].link = payments[i].link
            /\ Failed(S)[i].delivered = payments[i].delivered
            /\ Failed(S)[i].invId = payments[i].invId
            /\ Failed(S)[i].status = IF i \in S THEN "failed" ELSE payments[i].status
      BY <3>1, FailedRows
    <3> QED
      BY <1>4, <3>1, <3>2
  <2>3. \A i \in Ids : payments'[i].status = "paid" <=> payments[i].status = "paid"
    BY <2>2
  <2> QED
    BY <1>2, <2>1, <2>2, <2>3, NothingDue
<1>5. ASSUME NEW inv \in Ids, payments' = MarkPaid(inv)
      PROVE  TableEffect
  <2>1. /\ payments' \in [Ids -> Row]
        /\ \A i \in Ids :
             /\ payments'[i].link = payments[i].link
             /\ payments'[i].invId = payments[i].invId
             /\ payments'[i].delivered = payments[i].delivered
             /\ payments'[i].status = IF i \in Pending(inv) THEN "paid" ELSE payments[i].status
    BY <1>5, OrderRows, MarkPaidRows
  <2>2. DOMAIN payments = Ids /\ DOMAIN payments' = Ids
    BY <2>1, OrderRows
  <2>3. Pending(inv) \subseteq {inv}
    BY OrderRows
  <2>4. Delivered' = Delivered
    BY <2>1, <2>2 DEF Delivered
  <2>5. Due' = Due \/ Due' = Due \cup {inv}
    BY <2>1, <2>2, <2>3 DEF Due
  <2>6. PaidOrders \subseteq PaidOrders'
    BY <2>1 DEF PaidOrders
  <2>7. StoreTypeOK'
    BY <1>2, <2>1, OrderRows DEF StoreTypeOK
  <2> QED
    BY <1>2, <2>1, <2>4, <2>5, <2>6, <2>7 DEF TableEffect
<1>6. CASE payments' = AgedRows
  BY <1>2, <1>6, OrderRows, AgedRowsRows, NothingDue
<1>7. ASSUME NEW inv \in Due \cap received, payments' = MarkWebhookDelivered(inv)
      PROVE  TableEffect
  <2>1. inv \in Ids /\ RowsOf(inv) = {inv}
    BY DueAreIds, OrderRows
  <2>2. /\ payments' \in [Ids -> Row]
        /\ \A i \in Ids :
             /\ payments'[i].link = payments[i].link
             /\ payments'[i].invId = payments[i].invId
             /\ payments'[i].delivered = (payments[i].delivered \/ i \in RowsOf(inv))
             /\ payments'[i].status = payments[i].status
    BY <1>7, OrderRows, MarkWebhookDeliveredRows
  <2>3. DOMAIN payments = Ids /\ DOMAIN payments' = Ids
    BY <2>2, OrderRows
  <2>4. Due' = Due
    BY <2>2, <2>3 DEF Due
  <2>5. \A i \in Ids : payments'[i].delivered = (payments[i].delivered \/ i = inv)
    BY <2>1, <2>2
  <2>6. Delivered' = Delivered \cup {inv}
    BY <2>1, <2>3, <2>5, Zenon DEF Delivered
  <2>7. PaidOrders' = PaidOrders
    BY <2>2 DEF PaidOrders
  <2>8. StoreTypeOK'
    BY <1>2, <2>2, OrderRows DEF StoreTypeOK
  <2> QED
    BY <1>2, <2>2, <2>4, <2>6, <2>7, <2>8 DEF TableEffect
<1>8. ASSUME NEW inv \in Due, payments' = MarkWebhookFailed(inv)
      PROVE  TableEffect
  BY <1>2, <1>8, OrderRows, MarkWebhookFailedRows, NothingDue
<1> QED
  BY <1>1, <1>3, <1>4, <1>5, <1>6, <1>7, <1>8 DEF DeliveryForms

\* What is due, recorded, paid or numbered stays so.
LEMMA TableKeeps ==
  ASSUME DeliveryInv, TableEffect
  PROVE  /\ Due \subseteq Due'
         /\ Due' \subseteq Ids
         /\ PaidOrders \subseteq PaidOrders'
         /\ AllNumbered'
         /\ Delivered' \subseteq received
<1>1. AllNumbered'
  BY DEF DeliveryInv, AllNumbered, TableEffect
<1>2. Due \subseteq Due' /\ Due' \subseteq Ids
  BY DueAreIds DEF TableEffect
<1>3. Delivered' \subseteq received
  BY DEF DeliveryInv, RecordsAreTrue, TableEffect
<1> QED
  BY <1>1, <1>2, <1>3 DEF TableEffect

-----------------------------------------------------------------------------
(* The senders *)

SendersType ==
  /\ send \in [Senders -> Sending \cup {NotSending}]
  /\ batch \subseteq Ids

SendersInv == SendersType /\ AttemptsLeft /\ SendersCarryDueOrders

\* Senders that do not move keep carrying due orders.
LEMMA SendersRest ==
  ASSUME DeliveryInv, Due \subseteq Due', Due' \subseteq Ids, received \subseteq received',
         send' = send, batch' \subseteq Due'
  PROVE  SendersInv'
<1>1. send \in [Senders -> Sending \cup {NotSending}]
  BY DEF DeliveryInv, WebhooksTypeOK
<1>2. SendersCarryDueOrders /\ AttemptsLeft
  BY DEF DeliveryInv
<1>3. SendersCarryDueOrders'
  BY <1>2 DEF SendersCarryDueOrders
<1>4. AttemptsLeft'
  BY <1>2 DEF AttemptsLeft
<1> QED
  BY <1>1, <1>3, <1>4 DEF SendersInv, SendersType

\* One sender moves: it stops, or it carries a due order.
LEMMA SenderMoves ==
  ASSUME DeliveryInv, Due \subseteq Due', Due' \subseteq Ids, received \subseteq received',
         batch' \subseteq Due',
         NEW s \in Senders, NEW c \in Sending \cup {NotSending},
         send' = [send EXCEPT ![s] = c],
         c # NotSending => /\ c.inv \in Due'
                           /\ c.pc = "ok" => c.inv \in received'
                           /\ c.pc = "sending" => c.tries < Attempts
  PROVE  SendersInv'
<1>1. send \in [Senders -> Sending \cup {NotSending}]
  BY DEF DeliveryInv, WebhooksTypeOK
<1>2. send' \in [Senders -> Sending \cup {NotSending}]
  BY <1>1
<1>3. send'[s] = c /\ \A r \in Senders \ {s} : send'[r] = send[r]
  BY <1>1
<1>4. SendersCarryDueOrders /\ AttemptsLeft
  BY DEF DeliveryInv
<1>5. ASSUME NEW r \in Senders, send'[r] # NotSending
      PROVE  send'[r].inv \in Due' /\ (send'[r].pc = "ok" => send'[r].inv \in received')
  <2>1. CASE r = s
    BY <1>3, <1>5, <2>1
  <2>2. CASE r # s
    BY <1>3, <1>4, <1>5, <2>2 DEF SendersCarryDueOrders
  <2> QED
    BY <2>1, <2>2
<1>6. ASSUME NEW r \in Senders, send'[r].pc = "sending"
      PROVE  send'[r].tries < Attempts
  <2>1. CASE r = s
    BY <1>3, <1>6, <2>1, IdleSends
  <2>2. CASE r # s
    BY <1>3, <1>4, <1>6, <2>2 DEF AttemptsLeft
  <2> QED
    BY <2>1, <2>2
<1> QED
  BY <1>2, <1>5, <1>6 DEF SendersInv, SendersType, SendersCarryDueOrders, AttemptsLeft

\* A call of Send for a due order may begin.
LEMMA CallSends ==
  ASSUME NEW inv \in Ids
  PROVE  /\ Call(inv) \in Sending
         /\ Call(inv).inv = inv
         /\ Call(inv).pc = "sending"
         /\ Call(inv).tries < Attempts
BY WebhooksAssumption DEF Call, Sending

\* The senders keep carrying due orders, whatever they and the others do.
LEMMA SendersStep ==
  ASSUME DeliveryInv, [WebhooksNext]_vars, Due \subseteq Due', Due' \subseteq Ids
  PROVE  SendersInv' /\ received \subseteq received' /\ received' \subseteq Due'
<1>1. received \subseteq Due /\ batch \subseteq Due
  BY DEF DeliveryInv, RecordsAreTrue, SendersCarryDueOrders
<1>2. CASE UNCHANGED <<send, batch, received>>
  BY <1>1, <1>2, SendersRest
<1>3. ASSUME NEW s \in Senders, RequestSucceeds(s) \/ RequestFails(s)
      PROVE  SendersInv' /\ received \subseteq received' /\ received' \subseteq Due'
  <2>1. send[s].pc = "sending" /\ send[s] # NotSending /\ batch' = batch
    BY <1>3, IdleSends DEF RequestSucceeds, RequestFails
  <2>2. send[s] \in Sending /\ send[s].inv \in Due /\ send[s].tries < Attempts
    BY <2>1, BusyIsSending DEF DeliveryInv, AttemptsLeft
  <2>3. received' \in {received, received \cup {send[s].inv}}
    BY <1>3 DEF RequestSucceeds, RequestFails
  <2>4. received \subseteq received' /\ received' \subseteq Due'
    BY <1>1, <2>2, <2>3
  <2>5. CASE RequestSucceeds(s)
    <3> DEFINE c == [send[s] EXCEPT !.pc = "ok"]
    <3>1. c \in Sending /\ c.inv = send[s].inv /\ c.pc = "ok" /\ c # NotSending
      BY <2>2, IdleSends DEF Sending
    <3>2. send' = [send EXCEPT ![s] = c] /\ send[s].inv \in received'
      BY <2>5 DEF RequestSucceeds
    <3> HIDE DEF c
    <3> QED
      BY <1>1, <2>1, <2>2, <2>4, <3>1, <3>2, SenderMoves
  <2>6. CASE RequestFails(s)
    <3> DEFINE c == [send[s] EXCEPT !.tries = @ + 1,
                       !.pc = IF send[s].tries + 1 = Attempts THEN "failed" ELSE "sending"]
    <3>1. send[s].tries \in 0..Attempts /\ Attempts \in Nat
      BY <2>2, WebhooksAssumption DEF Sending
    <3>2. send[s].tries + 1 \in 0..Attempts
      BY <2>2, <3>1
    <3>3. c \in Sending /\ c.inv = send[s].inv
      BY <2>2, <3>2 DEF Sending
    <3>4. c.pc # "ok" /\ (c.pc = "sending" => c.tries < Attempts)
      BY <2>2, <3>1 DEF Sending
    <3>5. send' = [send EXCEPT ![s] = c]
      BY <2>6 DEF RequestFails
    <3> HIDE DEF c
    <3> QED
      BY <1>1, <2>1, <2>2, <2>4, <3>3, <3>4, <3>5, SenderMoves
  <2> QED
    BY <1>3, <2>4, <2>5, <2>6
<1>4. ASSUME NEW s \in Senders, Mark(s)
      PROVE  SendersInv' /\ received \subseteq received' /\ received' \subseteq Due'
  <2>1. send' = [send EXCEPT ![s] = NotSending] /\ batch' = batch /\ received' = received
    BY <1>4 DEF Mark, panelVars
  <2> QED
    BY <1>1, <2>1, SenderMoves
<1>5. ASSUME NEW s \in Senders, NEW inv \in Due, send' = [send EXCEPT ![s] = Call(inv)],
             batch' \subseteq batch, received' = received
      PROVE  SendersInv' /\ received \subseteq received' /\ received' \subseteq Due'
  BY <1>1, <1>5, CallSends, DueAreIds, SenderMoves
<1>6. ASSUME NEW inv \in Ids, SendWebhook(inv)
      PROVE  SendersInv' /\ received \subseteq received' /\ received' \subseteq Due'
  <2>1. inv \in Due /\ inv \in Senders
    BY <1>6 DEF SendWebhook, DeliveryInv, JobsAreDue, Senders
  <2> QED
    BY <1>5, <1>6, <2>1 DEF SendWebhook, panelVars
<1>7. ASSUME NEW a \in Admins, NEW inv \in Ids, RetryWebhook(a, inv)
      PROVE  SendersInv' /\ received \subseteq received' /\ received' \subseteq Due'
  <2>1. inv \in Due /\ a \in Senders
    BY <1>7, OrderRows DEF RetryWebhook, Senders
  <2> QED
    BY <1>5, <1>7, <2>1 DEF RetryWebhook, panelVars
<1>8. CASE Tick
  <2>1. ASSUME NEW n, NEW S \in OldestPendingWebhooks(n) PROVE S \subseteq Due
    BY <2>1 DEF OldestPendingWebhooks, PendingWebhooks
  <2>2. batch' \subseteq Due /\ send' = send /\ received' = received
    BY <1>8, <2>1 DEF Tick, ListPendingWebhooks, panelVars
  <2> QED
    BY <1>1, <2>2, SendersRest
<1>9. CASE RetryNext
  <2>1. PICK i \in batch : send' = [send EXCEPT ![Rec] = Call(i)] /\ batch' = batch \ {i}
    BY <1>9 DEF RetryNext
  <2>2. i \in Due /\ Rec \in Senders /\ received' = received
    BY <1>1, <1>9 DEF RetryNext, panelVars, Senders
  <2> QED
    BY <1>5, <2>1, <2>2
<1>10. CASE Restart
  <2>1. send' = [s \in Senders |-> NotSending] /\ batch' = {} /\ received' = received
    BY <1>10 DEF Restart, panelVars
  <2>2. SendersType' /\ SendersCarryDueOrders'
    BY <2>1 DEF SendersType, SendersCarryDueOrders
  <2>3. AttemptsLeft'
    BY <2>1, IdleSends DEF AttemptsLeft
  <2> QED
    BY <1>1, <2>1, <2>2, <2>3 DEF SendersInv
<1>11. CASE \E inv \in Ids : Pay(inv) \/ GiveUp(inv) \/ Result(inv)
  BY <1>2, <1>11 DEF Pay, GiveUp, Result, webhookVars, sendVars, panelVars
<1>12. CASE FinishTick \/ TimePasses \/ (\E c \in Callbacks : PanelChanges(c)) \/ UNCHANGED vars
  BY <1>2, <1>12 DEF FinishTick, TimePasses, PanelChanges, vars, webhookVars, sendVars, panelVars
<1> QED
  BY <1>3, <1>4, <1>6, <1>7, <1>8, <1>9, <1>10, <1>11, <1>12 DEF WebhooksNext, Step, Reconcile

-----------------------------------------------------------------------------
(* Results and goroutines *)

\* Only a paid order is about to be answered, only a due one gets a goroutine.
LEMMA JobsAreDueStep ==
  ASSUME DeliveryInv, [WebhooksNext]_vars, TableEffect
  PROVE  JobsAreDue'
<1>1. Due \subseteq Due' /\ PaidOrders \subseteq PaidOrders'
  BY TableKeeps
<1>2. settling \subseteq PaidOrders /\ jobs \subseteq Due
  BY DEF DeliveryInv, JobsAreDue
<1>3. CASE settling' \subseteq settling /\ jobs' \subseteq jobs
  BY <1>1, <1>2, <1>3 DEF JobsAreDue
<1>4. ASSUME NEW inv \in Ids, Result(inv)
      PROVE  JobsAreDue'
  <2>1. CASE ResultMarksPaid(inv)
    <3>1. inv \in Pending(inv)
      BY <2>1, OrderRows DEF ResultMarksPaid
    <3>2. payments'[inv].status = "paid"
      BY <2>1, <3>1, OrderRows, MarkPaidRows DEF ResultMarksPaid
    <3>3. inv \in PaidOrders'
      BY <3>2 DEF PaidOrders
    <3> QED
      BY <1>1, <1>2, <2>1, <3>3 DEF ResultMarksPaid, JobsAreDue
  <2>2. CASE ResultMarkPaidError(inv)
    BY <1>3, <2>2 DEF ResultMarkPaidError
  <2>3. CASE ResultAnswers(inv)
    <3>1. /\ inv \in PaidOrders
          /\ settling' \subseteq settling
          /\ jobs' = jobs \cup {i \in {inv} : CallbackOf[payments[i].link] # NoCallback}
      BY <1>2, <2>3 DEF ResultAnswers
    <3>2. {i \in {inv} : CallbackOf[payments[i].link] # NoCallback} \subseteq Due
      BY <3>1, OrderRows DEF PaidOrders, Due
    <3> QED
      BY <1>1, <1>2, <3>1, <3>2 DEF JobsAreDue
  <2> QED
    BY <1>4, <2>1, <2>2, <2>3 DEF Result, ResultURL
<1>5. CASE \E s \in Senders : Step(s)
  BY <1>3, <1>5 DEF Step, RequestSucceeds, RequestFails, Mark, robokassaVars
<1>6. CASE \E inv \in Ids : Pay(inv) \/ GiveUp(inv) \/ SendWebhook(inv)
  BY <1>3, <1>6 DEF Pay, Charge, GiveUp, SendWebhook, robokassaVars
<1>7. CASE \E a \in Admins, inv \in Ids : RetryWebhook(a, inv)
  BY <1>3, <1>7 DEF RetryWebhook, robokassaVars
<1>8. CASE Reconcile \/ TimePasses \/ UNCHANGED vars
  BY <1>3, <1>8 DEF Reconcile, Tick, RetryNext, FinishTick, TimePasses, vars, robokassaVars
<1>9. CASE (\E c \in Callbacks : PanelChanges(c)) \/ Restart
  BY <1>3, <1>9 DEF PanelChanges, Restart, LoseHandlers, robokassaVars
<1> QED
  BY <1>4, <1>5, <1>6, <1>7, <1>8, <1>9 DEF WebhooksNext

\* The variables that only need their types.
LEMMA OtherTypesStep ==
  ASSUME DeliveryInv, [WebhooksNext]_vars
  PROVE  /\ charged' \subseteq Ids /\ acked' \subseteq Ids
         /\ ticking' \in BOOLEAN
         /\ up' \subseteq Callbacks
<1>1. /\ charged \subseteq Ids /\ acked \subseteq Ids /\ settling \subseteq Ids
      /\ ticking \in BOOLEAN
      /\ up \subseteq Callbacks
  BY OrderRows DEF DeliveryInv, WebhooksTypeOK, RobokassaTypeOK
<1>2. /\ charged' \subseteq Ids /\ acked' \subseteq Ids
  <2>1. CASE \E inv \in Ids : Pay(inv) \/ GiveUp(inv) \/ Result(inv) \/ SendWebhook(inv)
    BY <1>1, <2>1 DEF Pay, Charge, GiveUp, Result, ResultURL, ResultMarksPaid, ResultMarkPaidError,
                      ResultAnswers, SendWebhook, robokassaVars
  <2>2. CASE UNCHANGED robokassaVars
    BY <1>1, <2>2 DEF robokassaVars
  <2>3. CASE (\E s \in Senders : Step(s)) \/ (\E a \in Admins, inv \in Ids : RetryWebhook(a, inv))
    BY <2>2, <2>3 DEF Step, RequestSucceeds, RequestFails, Mark, RetryWebhook
  <2>4. CASE Reconcile \/ TimePasses \/ (\E c \in Callbacks : PanelChanges(c)) \/ UNCHANGED vars
    BY <2>2, <2>4 DEF Reconcile, Tick, RetryNext, FinishTick, TimePasses, PanelChanges, vars
  <2>5. CASE Restart
    BY <1>1, <2>5 DEF Restart, LoseHandlers
  <2> QED
    BY <2>1, <2>3, <2>4, <2>5 DEF WebhooksNext
<1>3. ticking' \in BOOLEAN /\ up' \subseteq Callbacks
  <2>1. CASE \E s \in Senders : Step(s)
    BY <1>1, <2>1 DEF Step, RequestSucceeds, RequestFails, Mark, panelVars
  <2>2. CASE \E inv \in Ids : Pay(inv) \/ GiveUp(inv) \/ Result(inv) \/ SendWebhook(inv)
    BY <1>1, <2>2 DEF Pay, GiveUp, Result, SendWebhook, webhookVars, sendVars, panelVars
  <2>3. CASE \E a \in Admins, inv \in Ids : RetryWebhook(a, inv)
    BY <1>1, <2>3 DEF RetryWebhook, panelVars
  <2>4. CASE Reconcile
    BY <1>1, <2>4 DEF Reconcile, Tick, RetryNext, FinishTick, panelVars
  <2>5. CASE \E c \in Callbacks : PanelChanges(c)
    BY <1>1, <2>5 DEF PanelChanges, PanelGoesDown, PanelComesUp, sendVars
  <2>6. CASE Restart
    BY <1>1, <2>6 DEF Restart, panelVars
  <2>7. CASE TimePasses \/ UNCHANGED vars
    BY <1>1, <2>7 DEF TimePasses, vars, webhookVars, sendVars, panelVars
  <2> QED
    BY <2>1, <2>2, <2>3, <2>4, <2>5, <2>6, <2>7 DEF WebhooksNext
<1> QED
  BY <1>2, <1>3

-----------------------------------------------------------------------------
(* The inductive invariant *)

\* Orders as Checkout leaves them: all pending, numbered, none delivered.
LEMMA InitRows ==
  ASSUME WebhooksInit
  PROVE  /\ payments \in [Ids -> Row]
         /\ AllNumbered
         /\ Due = {}
         /\ Delivered = {}
<1> PICK link \in [Ids -> Links] :
         payments = [i \in Ids |-> [NewRow(link[i]) EXCEPT !.invId = i]]
  BY DEF WebhooksInit
<1>1. lastId = MaxId /\ payments = [i \in Ids |-> [NewRow(link[i]) EXCEPT !.invId = i]]
  BY DEF WebhooksInit
<1>2. ASSUME NEW i \in Ids
      PROVE  /\ payments[i] \in Row
             /\ payments[i].invId = i
             /\ payments[i].status = "pending"
             /\ ~payments[i].delivered
  <2>1. link[i] \in Links
    OBVIOUS
  <2>2. 0 \in Age
    BY StoreAssumption DEF Age
  <2>3. payments[i] = [NewRow(link[i]) EXCEPT !.invId = i]
    BY <1>1
  <2> QED
    BY <2>1, <2>2, <2>3 DEF NewRow, Row, Status
<1>3. DOMAIN payments = Ids
  BY <1>1
<1>4. payments \in [Ids -> Row]
  BY <1>1, <1>2
<1>5. AllNumbered
  BY <1>1, <1>2 DEF AllNumbered
<1>6. Due = {}
  BY <1>2, <1>3 DEF Due
<1>7. Delivered = {}
  BY <1>2, <1>3 DEF Delivered
<1> QED
  BY <1>4, <1>5, <1>6, <1>7

\* The invariant holds before the first payment.
LEMMA InitDeliveryInv ==
  ASSUME WebhooksInit
  PROVE  DeliveryInv
<1>1. /\ payments \in [Ids -> Row] /\ AllNumbered /\ Due = {} /\ Delivered = {}
  BY InitRows
<1>2. 1..lastId = Ids /\ lastId \in 0..MaxId
  BY <1>1, StoreAssumption DEF AllNumbered, Ids
<1>3. StoreTypeOK
  BY <1>1, <1>2 DEF StoreTypeOK
<1>4. send = [s \in Senders |-> NotSending]
  BY DEF WebhooksInit
<1>5. /\ charged = {} /\ acked = {} /\ settling = {} /\ jobs = {} /\ batch = {}
      /\ ticking = FALSE /\ up = Callbacks /\ received = {}
  BY DEF WebhooksInit, RobokassaInit
<1>6. WebhooksTypeOK
  <2>1. send \in [Senders -> Sending \cup {NotSending}]
    BY <1>4
  <2> QED
    BY <1>3, <1>5, <2>1 DEF WebhooksTypeOK, RobokassaTypeOK
<1>7. JobsAreDue /\ RecordsAreTrue
  BY <1>1, <1>5 DEF JobsAreDue, RecordsAreTrue
<1>8. AttemptsLeft
  BY <1>4, IdleSends DEF AttemptsLeft
<1>9. SendersCarryDueOrders
  BY <1>4, <1>5 DEF SendersCarryDueOrders
<1> QED
  BY <1>1, <1>6, <1>7, <1>8, <1>9 DEF DeliveryInv

\* Every step preserves the invariant.
LEMMA StepDeliveryInv ==
  ASSUME DeliveryInv, [WebhooksNext]_vars
  PROVE  DeliveryInv'
<1>1. TableEffect
  BY TableSteps
<1>2. /\ Due' \subseteq Ids /\ Due \subseteq Due' /\ AllNumbered' /\ Delivered' \subseteq received
  BY <1>1, TableKeeps
<1>3. SendersInv' /\ received \subseteq received' /\ received' \subseteq Due'
  BY <1>2, SendersStep
<1>4. JobsAreDue'
  BY <1>1, JobsAreDueStep
<1>5. RecordsAreTrue'
  BY <1>2, <1>3 DEF RecordsAreTrue
<1>6. RobokassaTypeOK'
  <2>1. 1..lastId' = Ids
    BY <1>2 DEF AllNumbered, Ids
  <2>2. settling' \subseteq Ids /\ jobs' \subseteq Ids
    BY <1>2, <1>4 DEF JobsAreDue, PaidOrders
  <2> QED
    BY <2>1, <2>2, OtherTypesStep DEF RobokassaTypeOK
<1>7. WebhooksTypeOK'
  <2>1. StoreTypeOK'
    BY <1>1 DEF TableEffect
  <2>2. received' \subseteq Ids
    BY <1>2, <1>3
  <2>3. send' \in [Senders -> Sending \cup {NotSending}] /\ batch' \subseteq Ids
    BY <1>3 DEF SendersInv, SendersType
  <2> QED
    BY <1>6, <2>1, <2>2, <2>3, OtherTypesStep DEF WebhooksTypeOK
<1> QED
  BY <1>2, <1>3, <1>4, <1>5, <1>7 DEF DeliveryInv, SendersInv

\* DeliveryInv holds in every state of the delivery machinery (the three callers
\* of Send, crashes and failing statements included).
THEOREM WebhooksIInvHolds == WebhooksSpec => []DeliveryInv
BY InitDeliveryInv, StepDeliveryInv, PTL DEF WebhooksSpec

\* Table, senders, reconciler and panel stay within their types.
THEOREM WebhooksTypeCorrect == WebhooksSpec => []WebhooksTypeOK
<1>1. DeliveryInv => WebhooksTypeOK
  BY DEF DeliveryInv
<1> QED
  BY <1>1, WebhooksIInvHolds, PTL

\* No sender announces an order that is not paid or has no callback, however old
\* the row it read; what it will record as delivered the panel knows.
THEOREM SendersSafe == WebhooksSpec => []SendersCarryDueOrders
<1>1. DeliveryInv => SendersCarryDueOrders
  BY DEF DeliveryInv
<1> QED
  BY <1>1, WebhooksIInvHolds, PTL

-----------------------------------------------------------------------------
(* The outbox *)

\* The panel hears of one order at a time, and the table does not change then.
LEMMA ReceivedSteps ==
  ASSUME DeliveryInv, [WebhooksNext]_vars
  PROVE  \/ received' = received
         \/ \E i \in Due : received' = received \cup {i} /\ payments' = payments
<1>1. ASSUME NEW s \in Senders, Step(s)
      PROVE  \/ received' = received
             \/ \E i \in Due : received' = received \cup {i} /\ payments' = payments
  <2>1. CASE RequestSucceeds(s) \/ RequestFails(s)
    <3>1. send[s].pc = "sending" /\ send[s] # NotSending
      BY <2>1, IdleSends DEF RequestSucceeds, RequestFails
    <3>2. send[s].inv \in Due
      BY <3>1, BusyIsSending
    <3>3. received' \in {received, received \cup {send[s].inv}} /\ payments' = payments
      BY <2>1 DEF RequestSucceeds, RequestFails, storeVars
    <3> QED
      BY <3>2, <3>3
  <2>2. CASE Mark(s)
    BY <2>2 DEF Mark, panelVars
  <2> QED
    BY <1>1, <2>1, <2>2 DEF Step
<1>2. CASE \E inv \in Ids : Pay(inv) \/ GiveUp(inv) \/ Result(inv) \/ SendWebhook(inv)
  BY <1>2 DEF Pay, GiveUp, Result, SendWebhook, webhookVars, panelVars
<1>3. CASE \E a \in Admins, inv \in Ids : RetryWebhook(a, inv)
  BY <1>3 DEF RetryWebhook, panelVars
<1>4. CASE Reconcile
  BY <1>4 DEF Reconcile, Tick, RetryNext, FinishTick, panelVars
<1>5. CASE TimePasses \/ Restart \/ (\E c \in Callbacks : PanelChanges(c)) \/ UNCHANGED vars
  BY <1>5 DEF TimePasses, Restart, PanelChanges, vars, webhookVars, panelVars
<1> QED
  BY <1>1, <1>2, <1>3, <1>4, <1>5 DEF WebhooksNext

\* Every step is a step of the outbox, or none.
LEMMA OutboxStep ==
  ASSUME DeliveryInv, [WebhooksNext]_vars
  PROVE  [Promise!OutboxNext]_(Promise!outboxVars)
<1>1. TableEffect
  BY TableSteps
<1>2. received \subseteq Ids /\ Due \subseteq Ids
  BY DueAreIds DEF DeliveryInv, RecordsAreTrue
<1>3. CASE received' = received
  <2>1. CASE Due' = Due /\ Delivered' = Delivered
    BY <1>3, <2>1 DEF Promise!outboxVars
  <2>2. ASSUME NEW i \in Ids, Due' = Due \cup {i}, Delivered' = Delivered
        PROVE  Promise!OutboxNext
    BY <1>3, <2>2 DEF Promise!OutboxNext, Promise!Become
  <2>3. ASSUME NEW i \in received, Due' = Due, Delivered' = Delivered \cup {i}
        PROVE  Promise!OutboxNext
    BY <1>2, <1>3, <2>3 DEF Promise!OutboxNext, Promise!Record
  <2> QED
    BY <1>1, <2>1, <2>2, <2>3 DEF TableEffect
<1>4. ASSUME NEW i \in Due, received' = received \cup {i}, payments' = payments
      PROVE  Promise!OutboxNext
  <2>1. Due' = Due /\ Delivered' = Delivered
    BY <1>4 DEF Due, Delivered
  <2> QED
    BY <1>2, <1>4, <2>1 DEF Promise!OutboxNext, Promise!Announce
<1> QED
  BY <1>3, <1>4, ReceivedSteps

\* Goroutines, reconciler and admins together implement the outbox: only due
\* orders are announced, only announced orders recorded, no record is lost.
THEOREM ImplementsOutbox == WebhooksSpec => KeepsPromise
<1>1. WebhooksInit => Promise!OutboxInit
  BY InitRows DEF WebhooksInit, Promise!OutboxInit
<1>2. DeliveryInv /\ [WebhooksNext]_vars => [Promise!OutboxNext]_(Promise!outboxVars)
  BY OutboxStep
<1> QED
  BY <1>1, <1>2, WebhooksIInvHolds, PTL DEF WebhooksSpec, KeepsPromise, Promise!OutboxSpec
=============================================================================
