-------------------------- MODULE PayServiceProofs --------------------------
(***************************************************************************)
(* Safety of the whole service.                                            *)
(*                                                                         *)
(* A step of the service is a step of Orders, or it changes of the table   *)
(* only what Orders never looks at: when a webhook was tried and whether   *)
(* it was delivered (StepKinds).  So the invariant of Orders holds in the  *)
(* service too, and with it whatever a sender carries stays a paid order.  *)
(***************************************************************************)
EXTENDS PayService, NumberingProofs

-----------------------------------------------------------------------------
(* The inductive invariant *)

\* What a sender that is not idle carries.
Carried == [pc : {"sending", "ok", "failed"}, inv : Ids, tries : 0..Attempts]

\* Every sender, and the batch, carries due orders; what is about to be recorded
\* was announced; a request is only made while attempts are left.
SendersInv ==
  /\ send \in [W!Senders -> Carried \cup {W!NotSending}]
  /\ batch \subseteq W!Due
  /\ \A s \in W!Senders : send[s] # W!NotSending =>
       /\ send[s].inv \in W!Due
       /\ send[s].pc = "ok" => send[s].inv \in received
       /\ send[s].pc = "sending" => send[s].tries < Attempts

\* Recorded as delivered, known to the panel, due: each implies the next.
RecordsAreTrue ==
  /\ W!Delivered \subseteq received
  /\ received \subseteq W!Due

ServiceInv ==
  /\ IInv
  /\ SendersInv
  /\ RecordsAreTrue

\* The statements of the senders are those of the store.
LEMMA SameStatements ==
  /\ \A inv : W!RowsOf(inv) = RowsOf(inv)
  /\ \A inv : W!MarkWebhookDelivered(inv) = MarkWebhookDelivered(inv)
  /\ \A inv : W!MarkWebhookFailed(inv) = MarkWebhookFailed(inv)
  /\ W!CleanupExpiredPending = CleanupExpiredPending
<1>1. \A inv : W!RowsOf(inv) = RowsOf(inv)
  BY DEF W!RowsOf, RowsOf
<1>2. \A inv : W!MarkWebhookDelivered(inv) = MarkWebhookDelivered(inv)
  BY <1>1 DEF W!MarkWebhookDelivered, MarkWebhookDelivered
<1>3. \A inv : W!MarkWebhookFailed(inv) = MarkWebhookFailed(inv)
  BY <1>1 DEF W!MarkWebhookFailed, MarkWebhookFailed
<1>4. W!CleanupExpiredPending = CleanupExpiredPending
  BY DEF W!CleanupExpiredPending, CleanupExpiredPending, W!Failed, Failed, W!Expired, Expired
<1> QED
  BY <1>1, <1>2, <1>3, <1>4

\* An idle sender is at none of Send's steps.
LEMMA IdleSends == W!NotSending.pc = "idle"
BY DEF W!NotSending

\* Due orders are paid rows, and their money was collected.
LEMMA DueArePaid ==
  ASSUME IInv
  PROVE  /\ W!Due \subseteq 1..lastId
         /\ W!Due \subseteq Ids
         /\ W!Due \subseteq Paid
         /\ W!Due \subseteq charged
         /\ jobs \subseteq W!Due
<1>1. W!Due \subseteq Paid
  BY DEF W!Due, Paid
<1>2. Paid \subseteq 1..lastId /\ 1..lastId \subseteq Ids
  BY StoreAssumption DEF Paid, IInv, OrdersTypeOK, StoreTypeOK, Ids
<1>3. Paid \subseteq charged
  BY DEF IInv, PaidWasCharged
<1>4. jobs \subseteq W!Due
  BY DEF IInv, JobsArePaid, Paid, W!Due
<1> QED
  BY <1>1, <1>2, <1>3, <1>4

-----------------------------------------------------------------------------
(* The kinds of steps *)

\* A statement that Orders does not see: it keeps every row's link, number, status and age.
Unseen ==
  /\ lastId' = lastId
  /\ payments' \in [1..lastId -> Row]
  /\ \A i \in 1..lastId : /\ payments'[i].link = payments[i].link
                          /\ payments'[i].invId = payments[i].invId
                          /\ payments'[i].status = payments[i].status
                          /\ payments'[i].age = payments[i].age
  /\ jobs' \subseteq jobs
  /\ UNCHANGED <<charged, acked, settling, orderVars>>

\* What an unseen step may change of the records.
RecordsStep ==
  \/ W!Delivered' = W!Delivered
  \/ \E i \in received : W!Delivered' = W!Delivered \cup {i}

\* A step that leaves the table alone and at most takes a goroutine is unseen.
LEMMA TableAlone ==
  ASSUME IInv, UNCHANGED <<storeVars, charged, acked, settling, orderVars>>, jobs' \subseteq jobs
  PROVE  Unseen /\ RecordsStep
<1>1. payments \in [1..lastId -> Row]
  BY DEF IInv, OrdersTypeOK, StoreTypeOK
<1>2. W!Delivered' = W!Delivered
  BY DEF W!Delivered, storeVars
<1> QED
  BY <1>1, <1>2 DEF Unseen, RecordsStep, storeVars

\* Recording the result of Send is unseen, and records only what was announced.
LEMMA MarkIsUnseen ==
  ASSUME ServiceInv, NEW s \in W!Senders, W!Mark(s), UNCHANGED orderVars
  PROVE  Unseen /\ RecordsStep
<1> DEFINE inv == send[s].inv
<1>1. StoreTypeOK /\ payments \in [1..lastId -> Row]
  BY DEF ServiceInv, IInv, OrdersTypeOK, StoreTypeOK
<1>2. send[s] # W!NotSending
  BY IdleSends DEF W!Mark
<1>3. inv \in Ids /\ (send[s].pc = "ok" => inv \in received)
  BY <1>2, DueArePaid DEF ServiceInv, SendersInv
<1>4. RowsOf(inv) \subseteq {inv}
  BY <1>3, RowsOfNumber DEF ServiceInv, IInv
<1>5. /\ lastId' = lastId
      /\ UNCHANGED <<charged, acked, settling, jobs>>
  BY DEF W!Mark, W!robokassaVars
<1>6. \/ payments' = payments
      \/ send[s].pc = "ok" /\ payments' = MarkWebhookDelivered(inv)
      \/ payments' = MarkWebhookFailed(inv)
  BY SameStatements DEF W!Mark, W!Faulty
<1> HIDE DEF inv
<1>7. CASE payments' = payments
  BY <1>5, <1>7, TableAlone DEF storeVars, ServiceInv
<1>8. CASE payments' = MarkWebhookFailed(inv)
  <2>1. /\ payments' \in [1..lastId -> Row]
        /\ \A i \in 1..lastId : /\ payments'[i].link = payments[i].link
                                /\ payments'[i].invId = payments[i].invId
                                /\ payments'[i].status = payments[i].status
                                /\ payments'[i].age = payments[i].age
                                /\ payments'[i].delivered = payments[i].delivered
    BY <1>1, <1>8, MarkWebhookFailedRows
  <2>2. W!Delivered' = W!Delivered
    BY <1>1, <2>1 DEF W!Delivered
  <2> QED
    BY <1>5, <2>1, <2>2 DEF Unseen, RecordsStep
<1>9. CASE send[s].pc = "ok" /\ payments' = MarkWebhookDelivered(inv)
  <2>1. /\ payments' \in [1..lastId -> Row]
        /\ \A i \in 1..lastId : /\ payments'[i].link = payments[i].link
                                /\ payments'[i].invId = payments[i].invId
                                /\ payments'[i].status = payments[i].status
                                /\ payments'[i].age = payments[i].age
                                /\ payments'[i].delivered = (payments[i].delivered \/ i \in RowsOf(inv))
    BY <1>1, <1>9, MarkWebhookDeliveredRows
  <2>2. DOMAIN payments = 1..lastId /\ DOMAIN payments' = 1..lastId
    BY <1>1, <2>1
  <2>3. RowsOf(inv) \subseteq 1..lastId
    BY <2>2 DEF RowsOf
  <2>4. W!Delivered' = W!Delivered \cup RowsOf(inv)
    BY <2>1, <2>2, <2>3, Zenon DEF W!Delivered
  <2>5. RecordsStep
    <3>1. CASE RowsOf(inv) = {}
      BY <2>4, <3>1 DEF RecordsStep
    <3>2. CASE RowsOf(inv) = {inv}
      BY <1>3, <1>9, <2>4, <3>2 DEF RecordsStep, inv
    <3> QED
      BY <1>4, <3>1, <3>2
  <2> QED
    BY <1>5, <2>1, <2>5 DEF Unseen
<1> QED
  BY <1>6, <1>7, <1>8, <1>9

\* Every step of the service is a step of Orders, or unseen by it.
LEMMA StepKinds ==
  ASSUME ServiceInv, [ServiceNext]_serviceVars
  PROVE  [OrdersNext]_vars \/ (Unseen /\ RecordsStep)
<1>1. CASE \E h \in Handlers : Checkout(h)
  BY <1>1 DEF Checkout, OrdersNext
<1>2. CASE \E b \in Browsers, inv \in Ids : Browse(b, inv)
  BY <1>2 DEF Browse, OrdersNext
<1>3. CASE \E inv \in Ids : PayOnline(inv) \/ Answer(inv)
  BY <1>3 DEF PayOnline, Answer, OrdersNext
<1>4. CASE Later \/ Reboot
  BY <1>4 DEF Later, Reboot, OrdersNext
<1>5. ASSUME NEW inv \in Ids, SendWebhook(inv)
      PROVE  Unseen /\ RecordsStep
  BY <1>5, TableAlone DEF SendWebhook, W!SendWebhook, W!storeVars, storeVars, ServiceInv
<1>6. ASSUME NEW s \in W!Senders, Send(s)
      PROVE  Unseen /\ RecordsStep
  <2>1. CASE W!RequestSucceeds(s) \/ W!RequestFails(s)
    BY <1>6, <2>1, TableAlone DEF Send, W!RequestSucceeds, W!RequestFails, W!storeVars, storeVars,
                                  W!robokassaVars, ServiceInv
  <2>2. CASE W!Mark(s)
    BY <1>6, <2>2, MarkIsUnseen DEF Send
  <2> QED
    BY <1>6, <2>1, <2>2 DEF Send, W!Step
<1>7. ASSUME NEW a \in Admins, NEW inv \in Ids, RetryWebhook(a, inv)
      PROVE  Unseen /\ RecordsStep
  BY <1>7, TableAlone DEF RetryWebhook, W!RetryWebhook, W!storeVars, storeVars, W!robokassaVars, ServiceInv
<1>8. CASE Reconcile
  <2>1. CASE W!Tick \/ W!RetryNext
    BY <1>8, <2>1, TableAlone DEF Reconcile, W!Tick, W!RetryNext, W!storeVars, storeVars,
                                  W!robokassaVars, ServiceInv
  <2>2. CASE W!FinishTick
    <3>1. payments' = CleanupExpiredPending \/ Faulty(CleanupExpiredPending)
      BY <2>2, SameStatements DEF W!FinishTick, W!Faulty, Faulty
    <3>2. UNCHANGED <<lastId, robokassaVars, orderVars>>
      BY <1>8, <2>2 DEF Reconcile, W!FinishTick, W!robokassaVars, robokassaVars
    <3> QED
      BY <3>1, <3>2 DEF CleanupExpired, OrdersNext
  <2> QED
    BY <1>8, <2>1, <2>2 DEF Reconcile, W!Reconcile
<1>9. ASSUME NEW c \in W!Callbacks, PanelChanges(c)
      PROVE  Unseen /\ RecordsStep
  BY <1>9, TableAlone DEF PanelChanges, W!PanelChanges, W!storeVars, storeVars, W!robokassaVars, ServiceInv
<1>10. CASE UNCHANGED serviceVars
  BY <1>10 DEF serviceVars
<1> QED
  BY <1>1, <1>2, <1>3, <1>4, <1>5, <1>6, <1>7, <1>8, <1>9, <1>10 DEF ServiceNext

-----------------------------------------------------------------------------
(* The invariant of Orders *)

\* Unseen steps keep the invariant of Orders.
LEMMA UnseenKeepsIInv ==
  ASSUME IInv, Unseen
  PROVE  IInv' /\ HistoryStep
<1>1. StoreTypeOK /\ lastId \in 0..MaxId /\ DOMAIN payments = 1..lastId
  BY DEF IInv, OrdersTypeOK, StoreTypeOK
<1>2. DOMAIN payments' = 1..lastId
  BY DEF Unseen
<1>3. /\ lastId' = lastId
      /\ \A i \in 1..lastId : /\ payments'[i].link = payments[i].link
                              /\ payments'[i].invId = payments[i].invId
                              /\ payments'[i].status = payments[i].status
  BY DEF Unseen
<1>4. checkout' = checkout /\ cookieLeft' = cookieLeft /\ payUrl' = payUrl /\ told' = told
  BY DEF Unseen, orderVars
<1>5. charged' = charged /\ acked' = acked /\ settling' = settling /\ jobs' \subseteq jobs
  BY DEF Unseen
<1>6. OrdersTypeOK'
  <2>1. StoreTypeOK'
    BY <1>1 DEF Unseen, StoreTypeOK
  <2> QED
    BY <1>3, <1>4, <1>5, <2>1 DEF IInv, OrdersTypeOK, RobokassaTypeOK
<1>7. Paid' = Paid
  BY <1>1, <1>2, <1>3 DEF Paid
<1>8. \A i : RowsOf(i)' = RowsOf(i)
  BY <1>1, <1>2, <1>3 DEF RowsOf
<1>9. RequestsOwnRows'
  <2>1. ASSUME NEW h \in Handlers, checkout[h] # Idle
        PROVE  RequestOwnsRow(checkout[h])'
    <3>1. checkout[h] \in Request /\ RequestOwnsRow(checkout[h])
      BY <2>1, BusyIsRequest DEF IInv, RequestsOwnRows
    <3> QED
      BY <1>3, <1>4, <3>1 DEF RequestOwnsRow, Request
  <2> QED
    BY <1>4, <2>1 DEF RequestsOwnRows
<1>10. NumberIsId'
  BY <1>3 DEF IInv, NumberIsId
<1>11. ShownWereNumbered'
  BY <1>3, <1>4, <1>5 DEF IInv, ShownWereNumbered, OrdersTypeOK
<1>12. PaidWasCharged'
  BY <1>5, <1>7 DEF IInv, PaidWasCharged
<1>13. CookieOpensOwnOrder'
  <2>1. ASSUME NEW b \in Browsers, NEW i \in Ids, cookieLeft[b][i] > 0
        PROVE  /\ RowsOf(i)' = {i}
               /\ \E l \in LinksOf[b] : KeyOf[l] = KeyOf[payments'[i].link]
    <3>1. RowsOf(i) = {i} /\ \E l \in LinksOf[b] : KeyOf[l] = KeyOf[payments[i].link]
      BY <2>1 DEF IInv, CookieOpensOwnOrder
    <3>2. i \in 1..lastId
      BY <1>1, <3>1 DEF RowsOf
    <3> QED
      BY <1>3, <1>8, <3>1, <3>2
  <2> QED
    BY <1>4, <2>1 DEF CookieOpensOwnOrder
<1>14. JobsArePaid'
  BY <1>3, <1>5, <1>7 DEF IInv, JobsArePaid, OrdersTypeOK, RobokassaTypeOK
<1>15. HistoryStep
  BY <1>1, <1>2, <1>3 DEF HistoryStep
<1> QED
  BY <1>6, <1>9, <1>10, <1>11, <1>12, <1>13, <1>14, <1>15 DEF IInv

\* Every step of the service keeps the invariant of Orders, and the rows' history.
LEMMA ServiceKeepsIInv ==
  ASSUME ServiceInv, [ServiceNext]_serviceVars
  PROVE  IInv' /\ HistoryStep
<1>1. CASE [OrdersNext]_vars
  BY <1>1, StepIInv DEF ServiceInv, TableStep
<1>2. CASE Unseen
  BY <1>2, UnseenKeepsIInv DEF ServiceInv
<1> QED
  BY <1>1, <1>2, StepKinds

-----------------------------------------------------------------------------
(* What is due and what is recorded *)

\* At most one order becomes due, or one that the panel knows becomes recorded,
\* and none ceases to be either.
RecordsEffect ==
  \/ W!Due' = W!Due /\ W!Delivered' = W!Delivered
  \/ \E i \in Ids : W!Due' = W!Due \cup {i} /\ W!Delivered' = W!Delivered
  \/ \E i \in received : W!Due' = W!Due /\ W!Delivered' = W!Delivered \cup {i}

\* Statements that keep the links, the delivery and which rows are paid leave both alone.
LEMMA NothingDue ==
  ASSUME DOMAIN payments' = DOMAIN payments,
         \A i \in DOMAIN payments :
           /\ payments'[i].link = payments[i].link
           /\ payments'[i].delivered = payments[i].delivered
           /\ (payments'[i].status = "paid") <=> (payments[i].status = "paid")
  PROVE  RecordsEffect
<1>1. W!Due' = W!Due
  BY DEF W!Due
<1>2. W!Delivered' = W!Delivered
  BY DEF W!Delivered
<1> QED
  BY <1>1, <1>2 DEF RecordsEffect

\* The effect of the statements of Orders.
LEMMA OrdersEffect ==
  ASSUME IInv, [OrdersNext]_vars
  PROVE  RecordsEffect
<1>1. TableForms
  BY StepForms
<1>2. StoreTypeOK /\ lastId \in 0..MaxId /\ MaxId \in Nat /\ payments \in [1..lastId -> Row]
  BY StoreAssumption DEF IInv, OrdersTypeOK, StoreTypeOK
<1>3. CASE UNCHANGED storeVars
  BY <1>3 DEF storeVars, RecordsEffect, W!Due, W!Delivered
<1>4. ASSUME NEW S \in SUBSET PendingRows, payments' = Failed(S)
      PROVE  RecordsEffect
  <2>1. /\ payments' \in [1..lastId -> Row]
        /\ \A i \in 1..lastId :
             /\ payments'[i].link = payments[i].link
             /\ payments'[i].delivered = payments[i].delivered
             /\ payments'[i].status = IF i \in S THEN "failed" ELSE payments[i].status
    BY <1>2, <1>4, FailedRows
  <2>2. \A i \in S : payments[i].status = "pending"
    BY DEF PendingRows
  <2>3. \A i \in 1..lastId : payments'[i].status = "paid" <=> payments[i].status = "paid"
    BY <2>1, <2>2
  <2> QED
    BY <1>2, <2>1, <2>3, NothingDue
<1>5. ASSUME NEW inv \in charged, payments' = MarkPaid(inv)
      PROVE  RecordsEffect
  <2>1. /\ payments' \in [1..lastId -> Row]
        /\ \A i \in 1..lastId :
             /\ payments'[i].link = payments[i].link
             /\ payments'[i].delivered = payments[i].delivered
             /\ payments'[i].status = IF i \in Pending(inv) THEN "paid" ELSE payments[i].status
    BY <1>2, <1>5, MarkPaidRows
  <2>2. inv \in Ids
    BY DEF IInv, OrdersTypeOK, RobokassaTypeOK
  <2>3. Pending(inv) \subseteq {inv} /\ \A i \in Pending(inv) : payments[i].status = "pending"
    BY <2>2, RowsOfNumber DEF IInv, Pending
  <2>4. DOMAIN payments = 1..lastId /\ DOMAIN payments' = 1..lastId
    BY <1>2, <2>1
  <2>5. W!Delivered' = W!Delivered
    BY <2>1, <2>4 DEF W!Delivered
  <2>6. W!Due' = W!Due \/ W!Due' = W!Due \cup {inv}
    BY <2>1, <2>3, <2>4 DEF W!Due
  <2> QED
    BY <2>2, <2>5, <2>6 DEF RecordsEffect
<1>6. ASSUME NEW id \in 1..lastId, payments' = SetInvId(id)
      PROVE  RecordsEffect
  BY <1>2, <1>6, SetInvIdRows, NothingDue
<1>7. ASSUME NEW l \in Links, lastId < MaxId, lastId' = lastId + 1, payments' = Insert(l)
      PROVE  RecordsEffect
  <2>1. /\ payments' \in [1..(lastId + 1) -> Row]
        /\ \A i \in 1..lastId : payments'[i] = payments[i]
        /\ payments'[lastId + 1] = NewRow(l)
    BY <1>2, <1>7, InsertRows
  <2>2. NewRow(l).status = "pending" /\ NewRow(l).delivered = FALSE
    BY DEF NewRow
  <2>3. DOMAIN payments = 1..lastId /\ DOMAIN payments' = 1..lastId \cup {lastId + 1}
    BY <1>2, <2>1
  <2>4. W!Due' = W!Due
    BY <2>1, <2>2, <2>3 DEF W!Due
  <2>5. W!Delivered' = W!Delivered
    BY <2>1, <2>2, <2>3 DEF W!Delivered
  <2> QED
    BY <2>4, <2>5 DEF RecordsEffect
<1>8. CASE payments' = AgedRows
  BY <1>2, <1>8, AgedRowsRows, NothingDue
<1> QED
  BY <1>1, <1>3, <1>4, <1>5, <1>6, <1>7, <1>8 DEF TableForms

\* The effect of every step of the service.
LEMMA ServiceEffect ==
  ASSUME ServiceInv, [ServiceNext]_serviceVars
  PROVE  /\ RecordsEffect
         /\ W!Due \subseteq W!Due'
         /\ W!Due' \subseteq Ids
         /\ W!Delivered' \subseteq received
<1>1. RecordsEffect
  <2>1. CASE [OrdersNext]_vars
    BY <2>1, OrdersEffect DEF ServiceInv
  <2>2. CASE Unseen /\ RecordsStep
    <3>1. DOMAIN payments = 1..lastId /\ DOMAIN payments' = 1..lastId
      BY <2>2 DEF ServiceInv, IInv, OrdersTypeOK, StoreTypeOK, Unseen
    <3>2. W!Due' = W!Due
      BY <2>2, <3>1 DEF Unseen, W!Due
    <3> QED
      BY <2>2, <3>2 DEF RecordsStep, RecordsEffect
  <2> QED
    BY <2>1, <2>2, StepKinds
<1> QED
  BY <1>1, DueArePaid DEF ServiceInv, RecordsAreTrue, RecordsEffect

-----------------------------------------------------------------------------
(* The senders *)

\* Senders that do not move keep carrying due orders.
LEMMA SendersRest ==
  ASSUME ServiceInv, W!Due \subseteq W!Due', received \subseteq received',
         send' = send, batch' \subseteq W!Due'
  PROVE  SendersInv'
BY DEF ServiceInv, SendersInv, W!Senders, W!NotSending, Carried

\* One sender moves: it stops, or it carries a due order.
LEMMA SenderMoves ==
  ASSUME ServiceInv, W!Due \subseteq W!Due', received \subseteq received', batch' \subseteq W!Due',
         NEW s \in W!Senders, NEW c \in Carried \cup {W!NotSending},
         send' = [send EXCEPT ![s] = c],
         c # W!NotSending => /\ c.inv \in W!Due'
                             /\ c.pc = "ok" => c.inv \in received'
                             /\ c.pc = "sending" => c.tries < Attempts
  PROVE  SendersInv'
<1>1. send \in [W!Senders -> Carried \cup {W!NotSending}]
  BY DEF ServiceInv, SendersInv
<1>2. send' \in [W!Senders -> Carried \cup {W!NotSending}]
  BY <1>1
<1>3. send'[s] = c /\ \A r \in W!Senders \ {s} : send'[r] = send[r]
  BY <1>1
<1>4. \A r \in W!Senders : send[r] # W!NotSending =>
        /\ send[r].inv \in W!Due /\ (send[r].pc = "ok" => send[r].inv \in received)
        /\ send[r].pc = "sending" => send[r].tries < Attempts
  BY DEF ServiceInv, SendersInv
<1>5. ASSUME NEW r \in W!Senders, send'[r] # W!NotSending
      PROVE  /\ send'[r].inv \in W!Due' /\ (send'[r].pc = "ok" => send'[r].inv \in received')
             /\ send'[r].pc = "sending" => send'[r].tries < Attempts
  <2>1. CASE r = s
    BY <1>3, <1>5, <2>1
  <2>2. CASE r # s
    BY <1>3, <1>4, <1>5, <2>2
  <2> QED
    BY <2>1, <2>2
<1>6. W!NotSending' = W!NotSending /\ W!Senders' = W!Senders /\ Carried' = Carried
  BY DEF W!NotSending, W!Senders, W!Ids, Carried, Ids
<1> QED
  BY <1>2, <1>5, <1>6 DEF SendersInv

\* Send begins with a call for the order.
LEMMA CallCarries ==
  ASSUME NEW inv \in Ids
  PROVE  /\ W!Call(inv) \in Carried
         /\ W!Call(inv).inv = inv
         /\ W!Call(inv).pc = "sending"
         /\ W!Call(inv).tries < Attempts
BY ServiceAssumption DEF W!Call, Carried

\* The goroutine of an order is a sender, like the reconciler and the admins.
LEMMA WhoSends == Ids \subseteq W!Senders /\ Rec \in W!Senders /\ Admins \subseteq W!Senders
BY DEF W!Senders, W!Ids, Ids

\* What the senders know, and what the panel knows.
SendersKeep ==
  /\ SendersInv'
  /\ \/ received' = received
     \/ \E i \in W!Due : received' = received \cup {i} /\ payments' = payments

\* The senders keep carrying due orders, and the panel hears of these only.
LEMMA SendersStep ==
  ASSUME ServiceInv, [ServiceNext]_serviceVars
  PROVE  SendersKeep
<1>1. W!Due \subseteq W!Due' /\ batch \subseteq W!Due /\ batch \subseteq W!Due'
  BY ServiceEffect DEF ServiceInv, SendersInv
<1>2. CASE UNCHANGED <<send, batch, received>>
  BY <1>1, <1>2, SendersRest DEF SendersKeep
<1>3. ASSUME NEW s \in W!Senders, W!RequestSucceeds(s) \/ W!RequestFails(s)
      PROVE  SendersKeep
  <2>1. send[s].pc = "sending" /\ send[s] # W!NotSending /\ batch' = batch /\ payments' = payments
    BY <1>3, IdleSends DEF W!RequestSucceeds, W!RequestFails, W!storeVars
  <2>2. send[s] \in Carried /\ send[s].inv \in W!Due /\ send[s].inv \in W!Due'
    BY <1>1, <2>1 DEF ServiceInv, SendersInv
  <2>3. received' \in {received, received \cup {send[s].inv}}
    BY <1>3 DEF W!RequestSucceeds, W!RequestFails
  <2>4. CASE W!RequestSucceeds(s)
    <3> DEFINE c == [send[s] EXCEPT !.pc = "ok"]
    <3>1. c \in Carried /\ c.inv = send[s].inv /\ c.pc = "ok"
      BY <2>2 DEF Carried
    <3>2. send' = [send EXCEPT ![s] = c] /\ send[s].inv \in received'
      BY <2>4 DEF W!RequestSucceeds
    <3> HIDE DEF c
    <3> QED
      BY <1>1, <2>1, <2>2, <2>3, <3>1, <3>2, SenderMoves DEF SendersKeep
  <2>5. CASE W!RequestFails(s)
    <3> DEFINE c == [send[s] EXCEPT !.tries = @ + 1,
                       !.pc = IF send[s].tries + 1 = Attempts THEN "failed" ELSE "sending"]
    <3>1. send[s].tries + 1 \in 0..Attempts
      BY <2>1, <2>2, ServiceAssumption DEF Carried, ServiceInv, SendersInv
    <3>2. c \in Carried /\ c.inv = send[s].inv
      BY <2>2, <3>1 DEF Carried
    <3>3. c.pc # "ok" /\ (c.pc = "sending" => c.tries < Attempts)
      BY <2>2, <3>1, ServiceAssumption DEF Carried
    <3>4. send' = [send EXCEPT ![s] = c]
      BY <2>5 DEF W!RequestFails
    <3> HIDE DEF c
    <3> QED
      BY <1>1, <2>1, <2>2, <2>3, <3>2, <3>3, <3>4, SenderMoves DEF SendersKeep
  <2> QED
    BY <1>3, <2>4, <2>5
<1>4. ASSUME NEW s \in W!Senders, W!Mark(s)
      PROVE  SendersKeep
  <2>1. send' = [send EXCEPT ![s] = W!NotSending] /\ batch' = batch /\ received' = received
    BY <1>4 DEF W!Mark, W!panelVars
  <2> QED
    BY <1>1, <2>1, SenderMoves DEF SendersKeep
<1>5. ASSUME NEW s \in W!Senders, NEW inv \in W!Due, send' = [send EXCEPT ![s] = W!Call(inv)],
             batch' \subseteq batch, received' = received
      PROVE  SendersKeep
  <2>1. inv \in Ids /\ inv \in W!Due'
    BY <1>1, DueArePaid DEF ServiceInv
  <2>2. /\ W!Call(inv) \in Carried /\ W!Call(inv).inv = inv /\ W!Call(inv).pc # "ok"
        /\ W!Call(inv).tries < Attempts
    BY <2>1, CallCarries
  <2> QED
    BY <1>1, <1>5, <2>1, <2>2, SenderMoves DEF SendersKeep
<1>6. ASSUME NEW inv \in Ids, SendWebhook(inv)
      PROVE  SendersKeep
  <2>1. inv \in W!Due /\ inv \in W!Senders
    BY <1>6, DueArePaid, WhoSends DEF SendWebhook, W!SendWebhook, ServiceInv
  <2> QED
    BY <1>5, <1>6, <2>1 DEF SendWebhook, W!SendWebhook, W!panelVars
<1>7. ASSUME NEW a \in Admins, NEW inv \in Ids, RetryWebhook(a, inv)
      PROVE  SendersKeep
  <2>1. inv \in W!Due
    BY <1>7, RowsOfNumber, SameStatements DEF RetryWebhook, W!RetryWebhook, ServiceInv, IInv
  <2> QED
    BY <1>5, <1>7, <2>1, WhoSends DEF RetryWebhook, W!RetryWebhook, W!panelVars
<1>8. CASE W!Tick
  <2>1. ASSUME NEW n, NEW S \in W!OldestPendingWebhooks(n) PROVE S \subseteq W!Due
    BY <2>1 DEF W!OldestPendingWebhooks, W!PendingWebhooks
  <2>2. batch' \subseteq W!Due /\ send' = send /\ received' = received
    BY <1>8, <2>1 DEF W!Tick, W!ListPendingWebhooks, W!panelVars
  <2> QED
    BY <1>1, <2>2, SendersRest DEF SendersKeep
<1>9. CASE W!RetryNext
  <2>1. PICK i \in batch : send' = [send EXCEPT ![Rec] = W!Call(i)] /\ batch' = batch \ {i}
    BY <1>9 DEF W!RetryNext
  <2>2. i \in W!Due /\ received' = received
    BY <1>1, <1>9 DEF W!RetryNext, W!panelVars
  <2> QED
    BY <1>5, <2>1, <2>2, WhoSends
<1>10. CASE Reboot
  <2>1. send' = [s \in W!Senders |-> W!NotSending] /\ batch' = {} /\ received' = received
    BY <1>10 DEF Reboot, W!Restart, W!panelVars
  <2>2. W!NotSending' = W!NotSending /\ W!Senders' = W!Senders
    BY DEF W!NotSending, W!Senders, W!Ids
  <2>3. SendersInv'
    BY <2>1, <2>2 DEF SendersInv
  <2> QED
    BY <2>1, <2>3 DEF SendersKeep
<1>11. CASE (\E h \in Handlers : Checkout(h)) \/ (\E b \in Browsers, inv \in Ids : Browse(b, inv))
  BY <1>2, <1>11 DEF Checkout, Browse, webhookVars
<1>12. CASE (\E inv \in Ids : PayOnline(inv) \/ Answer(inv)) \/ Later \/ UNCHANGED serviceVars
  BY <1>2, <1>12 DEF PayOnline, Answer, Later, serviceVars, webhookVars
<1>13. CASE W!FinishTick \/ (\E c \in W!Callbacks : PanelChanges(c))
  BY <1>2, <1>13 DEF W!FinishTick, PanelChanges, W!PanelChanges, W!sendVars, W!panelVars
<1> QED
  BY <1>3, <1>4, <1>6, <1>7, <1>8, <1>9, <1>10, <1>11, <1>12, <1>13
     DEF ServiceNext, Send, W!Step, Reconcile, W!Reconcile

-----------------------------------------------------------------------------
(* The invariant is inductive *)

\* The service starts with nothing due, recorded or announced.
LEMMA InitServiceInv ==
  ASSUME ServiceInit
  PROVE  /\ ServiceInv
         /\ W!Due = {} /\ W!Delivered = {} /\ received = {}
<1>1. IInv
  BY InitIInv DEF ServiceInit
<1>2. DOMAIN payments = {}
  BY DEF ServiceInit, OrdersInit, StoreInit
<1>3. W!Due = {} /\ W!Delivered = {}
  BY <1>2 DEF W!Due, W!Delivered
<1>4. SendersInv
  BY DEF ServiceInit, SendersInv
<1> QED
  BY <1>1, <1>3, <1>4 DEF ServiceInit, ServiceInv, RecordsAreTrue

\* Every step of the service keeps the invariant.
LEMMA StepServiceInv ==
  ASSUME ServiceInv, [ServiceNext]_serviceVars
  PROVE  ServiceInv'
<1>1. W!Due \subseteq W!Due' /\ W!Delivered' \subseteq received
  BY ServiceEffect
<1>2. SendersKeep
  BY SendersStep
<1>3. received \subseteq received' /\ received' \subseteq W!Due'
  BY <1>1, <1>2 DEF SendersKeep, ServiceInv, RecordsAreTrue
<1>4. RecordsAreTrue'
  BY <1>1, <1>3 DEF RecordsAreTrue
<1> QED
  BY <1>2, <1>4, ServiceKeepsIInv DEF ServiceInv, SendersKeep

\* In every reachable state of the service, with every handler, sender, fault and
\* crash: the invariant of Orders, and senders that carry due orders only.
THEOREM ServiceInvHolds == ServiceSpec => []ServiceInv
BY InitServiceInv, StepServiceInv, PTL DEF ServiceSpec

\* The panel hears only of orders that are paid with the customer's own money
\* (Checkout, ResultURL, retryPendingWebhooks, RetryWebhook together).
THEOREM AnnouncedSafe == ServiceSpec => []AnnouncedIsPaidFor
<1>1. ServiceInv => AnnouncedIsPaidFor
  BY DueArePaid DEF ServiceInv, RecordsAreTrue, AnnouncedIsPaidFor
<1> QED
  BY <1>1, ServiceInvHolds, PTL

-----------------------------------------------------------------------------
(* The abstract specifications *)

\* Every step of the service is a step of the ledger or none.
LEMMA ServiceLedgerStep ==
  ASSUME ServiceInv, [ServiceNext]_serviceVars
  PROVE  [Ledger!LedgerNext]_(Ledger!ledgerVars)
<1>1. CASE [OrdersNext]_vars
  BY <1>1, LedgerStep DEF ServiceInv
<1>2. CASE Unseen
  <2>1. DOMAIN payments = 1..lastId /\ DOMAIN payments' = 1..lastId
    BY <1>2 DEF ServiceInv, IInv, OrdersTypeOK, StoreTypeOK, Unseen
  <2>2. OrderStatus' = OrderStatus
    BY <1>2, <2>1 DEF Unseen, OrderStatus
  <2> QED
    BY <1>2, <2>2 DEF Unseen, Ledger!ledgerVars
<1> QED
  BY <1>1, <1>2, StepKinds

\* The whole service implements the ledger: orders are opened once, paid only with
\* their own money and settled once, whatever senders and reconciler do (main).
THEOREM ServiceImplementsLedger == ServiceSpec => ServiceKeepsLedger
<1>1. ServiceInit => Ledger!LedgerInit
  <2> SUFFICES ASSUME ServiceInit PROVE Ledger!LedgerInit
    OBVIOUS
  <2>1. DOMAIN payments = {} /\ charged = {}
    BY DEF ServiceInit, OrdersInit, StoreInit, RobokassaInit
  <2>2. OrderStatus = [i \in Ids |-> "none"]
    BY <2>1 DEF OrderStatus
  <2> QED
    BY <2>1, <2>2 DEF Ledger!LedgerInit
<1>2. ServiceInv /\ [ServiceNext]_serviceVars => [Ledger!LedgerNext]_(Ledger!ledgerVars)
  BY ServiceLedgerStep
<1> QED
  BY <1>1, <1>2, ServiceInvHolds, PTL DEF ServiceSpec, ServiceKeepsLedger, KeepsLedger, Ledger!LedgerSpec

\* Every step of the service is a step of the outbox or none.
LEMMA ServiceOutboxStep ==
  ASSUME ServiceInv, [ServiceNext]_serviceVars
  PROVE  [Promise!OutboxNext]_(Promise!outboxVars)
<1>1. RecordsEffect /\ SendersKeep
  BY ServiceEffect, SendersStep
<1>2. received \subseteq Ids /\ W!Due \subseteq Ids
  BY DueArePaid DEF ServiceInv, RecordsAreTrue
<1>3. CASE received' = received
  <2>1. CASE W!Due' = W!Due /\ W!Delivered' = W!Delivered
    BY <1>3, <2>1 DEF Promise!outboxVars
  <2>2. ASSUME NEW i \in Ids, W!Due' = W!Due \cup {i}, W!Delivered' = W!Delivered
        PROVE  Promise!OutboxNext
    BY <1>3, <2>2 DEF Promise!OutboxNext, Promise!Become
  <2>3. ASSUME NEW i \in received, W!Due' = W!Due, W!Delivered' = W!Delivered \cup {i}
        PROVE  Promise!OutboxNext
    BY <1>2, <1>3, <2>3 DEF Promise!OutboxNext, Promise!Record
  <2> QED
    BY <1>1, <2>1, <2>2, <2>3 DEF RecordsEffect
<1>4. ASSUME NEW i \in W!Due, received' = received \cup {i}, payments' = payments
      PROVE  Promise!OutboxNext
  <2>1. W!Due' = W!Due /\ W!Delivered' = W!Delivered
    BY <1>4 DEF W!Due, W!Delivered
  <2> QED
    BY <1>2, <1>4, <2>1 DEF Promise!OutboxNext, Promise!Announce
<1> QED
  BY <1>1, <1>3, <1>4 DEF SendersKeep

\* The whole service implements the outbox: due orders are announced, announced
\* ones recorded, next to Checkouts, cancellations and clean-ups (main).
THEOREM ServiceImplementsOutbox == ServiceSpec => ServiceKeepsPromise
<1>1. ServiceInit => Promise!OutboxInit
  BY InitServiceInv DEF Promise!OutboxInit
<1>2. ServiceInv /\ [ServiceNext]_serviceVars => [Promise!OutboxNext]_(Promise!outboxVars)
  BY ServiceOutboxStep
<1> QED
  BY <1>1, <1>2, ServiceInvHolds, PTL DEF ServiceSpec, ServiceKeepsPromise, Promise!OutboxSpec

-----------------------------------------------------------------------------
(* What the parts promise on their own, in the whole service *)

\* What is left to say of types: the ticks and the panel.
PanelInv == ticking \in BOOLEAN /\ up \subseteq W!Callbacks

LEMMA PanelStep ==
  ASSUME PanelInv, [ServiceNext]_serviceVars
  PROVE  PanelInv'
<1>1. W!Callbacks' = W!Callbacks
  BY DEF W!Callbacks
<1>2. CASE UNCHANGED <<ticking, up>>
  BY <1>1, <1>2 DEF PanelInv
<1>3. CASE (\E h \in Handlers : Checkout(h)) \/ (\E b \in Browsers, inv \in Ids : Browse(b, inv))
  BY <1>2, <1>3 DEF Checkout, Browse, webhookVars
<1>4. CASE (\E inv \in Ids : PayOnline(inv) \/ Answer(inv)) \/ Later \/ UNCHANGED serviceVars
  BY <1>2, <1>4 DEF PayOnline, Answer, Later, serviceVars, webhookVars
<1>5. CASE \E s \in W!Senders : Send(s)
  BY <1>2, <1>5 DEF Send, W!Step, W!RequestSucceeds, W!RequestFails, W!Mark, W!panelVars
<1>6. CASE (\E inv \in Ids : SendWebhook(inv)) \/ (\E a \in Admins, inv \in Ids : RetryWebhook(a, inv))
  BY <1>2, <1>6 DEF SendWebhook, RetryWebhook, W!SendWebhook, W!RetryWebhook, W!panelVars
<1>7. CASE Reconcile
  <2>1. ticking' \in BOOLEAN /\ up' = up
    BY <1>7 DEF PanelInv, Reconcile, W!Reconcile, W!Tick, W!RetryNext, W!FinishTick, W!panelVars
  <2> QED
    BY <1>1, <2>1 DEF PanelInv
<1>8. ASSUME NEW c \in W!Callbacks, PanelChanges(c) PROVE PanelInv'
  <2>1. ticking' = ticking /\ up' \in {up \ {c}, up \cup {c}}
    BY <1>8 DEF PanelChanges, W!PanelChanges, W!PanelGoesDown, W!PanelComesUp, W!sendVars
  <2> QED
    BY <1>1, <2>1 DEF PanelInv
<1>9. CASE Reboot
  <2>1. ticking' = FALSE /\ up' = up
    BY <1>9 DEF Reboot, W!Restart, W!panelVars
  <2> QED
    BY <1>1, <2>1 DEF PanelInv
<1> QED
  BY <1>3, <1>4, <1>5, <1>6, <1>7, <1>8, <1>9 DEF ServiceNext

\* Type correctness of the whole service; that no sender makes more requests than
\* Attempts is part of it (Send).
THEOREM ServiceTypeCorrect == ServiceSpec => [](OrdersTypeOK /\ W!WebhooksTypeOK)
<1>1. ServiceInit => PanelInv
  BY DEF ServiceInit, PanelInv
<1>2. PanelInv /\ [ServiceNext]_serviceVars => PanelInv'
  BY PanelStep
<1>3. ServiceInv /\ PanelInv => OrdersTypeOK /\ W!WebhooksTypeOK
  <2> SUFFICES ASSUME ServiceInv, PanelInv
               PROVE  OrdersTypeOK /\ W!WebhooksTypeOK
    OBVIOUS
  <2>1. OrdersTypeOK /\ StoreTypeOK /\ RobokassaTypeOK
    BY DEF ServiceInv, IInv, OrdersTypeOK
  <2>2. W!StoreTypeOK
    BY <2>1 DEF W!StoreTypeOK, StoreTypeOK, W!Row, Row, W!Ids, Ids, W!Status, Status,
                W!Age, Age, W!NULL, NULL
  <2>3. W!RobokassaTypeOK
    BY <2>1 DEF W!RobokassaTypeOK, RobokassaTypeOK, W!Ids, Ids
  <2>4. W!Sending = Carried /\ W!Ids = Ids
    BY DEF W!Sending, Carried, W!Ids, Ids
  <2>5. send \in [W!Senders -> W!Sending \cup {W!NotSending}]
    BY <2>4 DEF ServiceInv, SendersInv
  <2>6. batch \subseteq W!Ids /\ received \subseteq W!Ids
    BY <2>4, DueArePaid DEF ServiceInv, SendersInv, RecordsAreTrue
  <2> QED
    BY <2>1, <2>2, <2>3, <2>5, <2>6 DEF W!WebhooksTypeOK, PanelInv
<1> QED
  BY <1>1, <1>2, <1>3, ServiceInvHolds, PTL DEF ServiceSpec

\* The senders of the service carry due orders only, although Checkouts, cancellations
\* and clean-ups run between ListPendingWebhooks, Send and the mark.
THEOREM ServiceSendersSafe == ServiceSpec => []W!SendersCarryDueOrders
<1>1. ServiceInv => W!SendersCarryDueOrders
  BY DEF ServiceInv, SendersInv, W!SendersCarryDueOrders
<1> QED
  BY <1>1, ServiceInvHolds, PTL

\* What Orders keeps with every fault is kept in the service: paid orders were
\* charged, cookies open their own orders, webhooks are under way for paid ones.
THEOREM ServiceOrdersSafe ==
  ServiceSpec => [](PaidWasCharged /\ CookieOpensOwnOrder /\ JobsArePaid)
<1>1. ServiceInv => PaidWasCharged /\ CookieOpensOwnOrder /\ JobsArePaid
  BY DEF ServiceInv, IInv
<1> QED
  BY <1>1, ServiceInvHolds, PTL

\* No step of any part loses a row, changes what it was placed for or its number, or
\* takes back a final status.
THEOREM ServiceHistorySafe == ServiceSpec => HistoryKept
<1>1. ServiceInv /\ [ServiceNext]_serviceVars => [HistoryStep]_vars
  BY ServiceKeepsIInv
<1> QED
  BY <1>1, ServiceInvHolds, PTL DEF ServiceSpec, HistoryKept

\* Unseen steps pay no order and fail none, and tell nobody anything.
LEMMA UnseenKeepsSettled ==
  ASSUME IInv, SettledInv, Unseen
  PROVE  SettledInv'
<1>1. DOMAIN payments = 1..lastId /\ DOMAIN payments' = 1..lastId
  BY DEF IInv, OrdersTypeOK, StoreTypeOK, Unseen
<1>2. PendingRows' = PendingRows
  BY <1>1 DEF PendingRows, Unseen
<1>3. acked' = acked /\ told' = told /\ lastId' = lastId
  BY DEF Unseen, orderVars
<1> QED
  BY <1>2, <1>3 DEF SettledInv, AnsweredIsSettled, ToldIsSettled

\* Without database errors, neither an order whose result was answered OK nor one the
\* customer was told to be failed or cancelled is still pending, next to senders and
\* crashes.  What it is then, paid or failed, is for good (ServiceHistorySafe): whoever
\* was told of a cancellation that came too late has a paid order (ResultURL, FailURL,
\* CancelOrder).
THEOREM ServiceSettledSafe ==
  ASSUME ~DbFaults
  PROVE  ServiceSpec => [](AnsweredIsSettled /\ ToldIsSettled)
<1>1. ServiceInit => SettledInv
  BY InitSettled DEF ServiceInit
<1>2. ServiceInv /\ SettledInv /\ [ServiceNext]_serviceVars => SettledInv'
  <2> SUFFICES ASSUME ServiceInv, SettledInv, [ServiceNext]_serviceVars
               PROVE  SettledInv'
    OBVIOUS
  <2>1. CASE [OrdersNext]_vars
    BY <2>1, SettledStep DEF ServiceInv
  <2>2. CASE Unseen
    BY <2>2, UnseenKeepsSettled DEF ServiceInv
  <2> QED
    BY <2>1, <2>2, StepKinds
<1>3. SettledInv => AnsweredIsSettled /\ ToldIsSettled
  BY DEF SettledInv
<1> QED
  BY <1>1, <1>2, <1>3, ServiceInvHolds, PTL DEF ServiceSpec

\* Unseen steps number nothing, make no row pending and change no age.
LEMMA UnseenIsQuiet ==
  ASSUME Unseen
  PROVE  QuietRows
BY DEF Unseen, QuietRows, orderVars

\* Without database errors and crashes, overlapping Checkouts number their own rows,
\* although the senders' marks go by the number (Create).
THEOREM ServiceNumberingSafe ==
  ASSUME ~DbFaults, ~Crashes
  PROVE  ServiceSpec => []NumberedByOne
<1>1. ServiceInit => Numbering
  BY InitNumbering DEF ServiceInit
<1>2. ServiceInv /\ Numbering /\ [ServiceNext]_serviceVars => Numbering'
  <2> SUFFICES ASSUME ServiceInv, Numbering, [ServiceNext]_serviceVars
               PROVE  Numbering'
    OBVIOUS
  <2>1. CASE [OrdersNext]_vars
    BY <2>1, NumberingStep DEF ServiceInv
  <2>2. CASE Unseen
    BY <2>2, UnseenIsQuiet, QuietKeepsNumbering DEF ServiceInv
  <2> QED
    BY <2>1, <2>2, StepKinds
<1>3. ServiceInv /\ Numbering => NumberedByOne
  BY NumberingMeans DEF ServiceInv
<1> QED
  BY <1>1, <1>2, <1>3, ServiceInvHolds, PTL DEF ServiceSpec

\* Without database errors, Checkouts that do not overlap place a second order of a key,
\* while the first can still be paid, only after the first's 30 minutes, whatever
\* crashes, reconciler and senders do meanwhile (FindPending, Create).
THEOREM ServiceApart ==
  ASSUME ~DbFaults, \A g, h \in Handlers : g = h
  PROVE  ServiceSpec => []NoEarlyDuplicate
<1>1. ServiceInit => Apart
  BY InitApart DEF ServiceInit
<1>2. ServiceInv /\ Apart /\ [ServiceNext]_serviceVars => Apart'
  <2> SUFFICES ASSUME ServiceInv, Apart, [ServiceNext]_serviceVars
               PROVE  Apart'
    OBVIOUS
  <2>1. CASE [OrdersNext]_vars
    BY <2>1, ApartStep DEF ServiceInv
  <2>2. CASE Unseen
    BY <2>2, UnseenIsQuiet, QuietKeepsApart DEF ServiceInv
  <2> QED
    BY <2>1, <2>2, StepKinds
<1>3. ServiceInv /\ Apart => NoEarlyDuplicate
  BY ApartMeans DEF ServiceInv
<1> QED
  BY <1>1, <1>2, <1>3, ServiceInvHolds, PTL DEF ServiceSpec
=============================================================================
