------------------------- MODULE PaymentStoreProofs -------------------------
(***************************************************************************)
(* What each statement of PaymentStore leaves of a row.                    *)
(***************************************************************************)
EXTENDS PaymentStore, TLAPS

\* An inv_id that is not set is no order's number.
LEMMA NullIsNoId == NULL \notin Ids
BY StoreAssumption DEF NULL, Ids

\* MarkPaid sets status of the pending rows with this number, and nothing else
\* that identifies an order.
LEMMA MarkPaidRows ==
  ASSUME StoreTypeOK, NEW inv
  PROVE  /\ MarkPaid(inv) \in [1..lastId -> Row]
         /\ \A i \in 1..lastId :
              /\ MarkPaid(inv)[i].link = payments[i].link
              /\ MarkPaid(inv)[i].delivered = payments[i].delivered
              /\ MarkPaid(inv)[i].invId = payments[i].invId
              /\ MarkPaid(inv)[i].status =
                   IF i \in Pending(inv) THEN "paid" ELSE payments[i].status
<1>1. DOMAIN payments = 1..lastId
  BY DEF StoreTypeOK
<1>2. SUFFICES ASSUME NEW i \in 1..lastId
               PROVE  /\ MarkPaid(inv)[i] \in Row
                      /\ MarkPaid(inv)[i].link = payments[i].link
                      /\ MarkPaid(inv)[i].delivered = payments[i].delivered
                      /\ MarkPaid(inv)[i].invId = payments[i].invId
                      /\ MarkPaid(inv)[i].status =
                           IF i \in Pending(inv) THEN "paid" ELSE payments[i].status
  BY <1>1 DEF MarkPaid
<1>3. payments[i] \in Row
  BY DEF StoreTypeOK
<1>4. 0 \in Age /\ "paid" \in Status
  BY StoreAssumption DEF Age, Status
<1>5. DEFINE paid == [payments[i] EXCEPT !.status = "paid", !.paidAge = 0]
<1>6. /\ paid \in Row
      /\ paid.link = payments[i].link
      /\ paid.delivered = payments[i].delivered
      /\ paid.invId = payments[i].invId
      /\ paid.status = "paid"
  BY <1>3, <1>4 DEF Row
<1>7. MarkPaid(inv)[i] = IF i \in Pending(inv) THEN paid ELSE payments[i]
  BY <1>1 DEF MarkPaid
<1> QED
  BY <1>3, <1>6, <1>7

\* MarkFailed, CancelPending and CleanupExpiredPending fail the rows they select
\* and leave the others alone.
LEMMA FailedRows ==
  ASSUME StoreTypeOK, NEW S
  PROVE  /\ Failed(S) \in [1..lastId -> Row]
         /\ \A i \in 1..lastId :
              /\ Failed(S)[i].link = payments[i].link
              /\ Failed(S)[i].delivered = payments[i].delivered
              /\ Failed(S)[i].invId = payments[i].invId
              /\ Failed(S)[i].status =
                   IF i \in S THEN "failed" ELSE payments[i].status
<1>1. \A i \in 1..lastId : payments[i] \in Row
  BY DEF StoreTypeOK
<1>2. DOMAIN payments = 1..lastId
  BY DEF StoreTypeOK
<1>3. \A i \in 1..lastId : Failed(S)[i] \in Row
  BY <1>1, <1>2 DEF Failed, Row, Status
<1> QED
  BY <1>1, <1>2, <1>3 DEF Failed, Row

\* The passing of time changes no column but the ages.
LEMMA AgedRowsRows ==
  ASSUME StoreTypeOK
  PROVE  /\ AgedRows \in [1..lastId -> Row]
         /\ \A i \in 1..lastId :
              /\ AgedRows[i].link = payments[i].link
              /\ AgedRows[i].delivered = payments[i].delivered
              /\ AgedRows[i].invId = payments[i].invId
              /\ AgedRows[i].status = payments[i].status
<1>1. \A i \in 1..lastId : payments[i] \in Row
  BY DEF StoreTypeOK
<1>2. DOMAIN payments = 1..lastId
  BY DEF StoreTypeOK
<1>3. \A a \in Age \cup {NULL} : Older(a) \in Age \cup {NULL}
  BY StoreAssumption DEF Older, Age, NULL
<1>4. \A a \in Age : Older(a) \in Age
  BY StoreAssumption DEF Older, Age, NULL
<1>5. \A i \in 1..lastId : AgedRows[i] \in Row
  BY <1>1, <1>2, <1>3, <1>4 DEF AgedRows, Row
<1> QED
  BY <1>1, <1>2, <1>5 DEF AgedRows, Row

\* Create's UPDATE numbers one row and changes nothing else.
LEMMA SetInvIdRows ==
  ASSUME StoreTypeOK, NEW id \in 1..lastId
  PROVE  /\ SetInvId(id) \in [1..lastId -> Row]
         /\ \A i \in 1..lastId :
              /\ SetInvId(id)[i].link = payments[i].link
              /\ SetInvId(id)[i].delivered = payments[i].delivered
              /\ SetInvId(id)[i].invId = IF i = id THEN id ELSE payments[i].invId
              /\ SetInvId(id)[i].status = payments[i].status
<1>1. \A i \in 1..lastId : payments[i] \in Row
  BY DEF StoreTypeOK
<1>2. lastId \in 0..MaxId /\ payments \in [1..lastId -> Row]
  BY DEF StoreTypeOK
<1>3. id \in Ids
  BY <1>2, StoreAssumption DEF Ids
<1>4. \A i \in 1..lastId : SetInvId(id)[i] \in Row
  BY <1>1, <1>2, <1>3 DEF SetInvId, Row
<1> QED
  BY <1>1, <1>2, <1>4 DEF SetInvId, Row

\* Create's INSERT adds one row behind the others.
LEMMA InsertRows ==
  ASSUME StoreTypeOK, lastId < MaxId, NEW link \in Links
  PROVE  /\ Insert(link) \in [1..(lastId + 1) -> Row]
         /\ \A i \in 1..lastId : Insert(link)[i] = payments[i]
         /\ Insert(link)[lastId + 1] = NewRow(link)
         /\ NewRow(link) \in Row
<1>1. \A i \in 1..lastId : payments[i] \in Row
  BY DEF StoreTypeOK
<1>2. lastId \in 0..MaxId
  BY DEF StoreTypeOK
<1>3. NewRow(link) \in Row
  BY StoreAssumption DEF NewRow, Row, Age, Status
<1> QED
  BY <1>1, <1>2, <1>3, StoreAssumption DEF Insert

\* MarkWebhookDelivered records the rows with this number as delivered.
LEMMA MarkWebhookDeliveredRows ==
  ASSUME StoreTypeOK, NEW inv
  PROVE  /\ MarkWebhookDelivered(inv) \in [1..lastId -> Row]
         /\ \A i \in 1..lastId :
              /\ MarkWebhookDelivered(inv)[i].link = payments[i].link
              /\ MarkWebhookDelivered(inv)[i].delivered = (payments[i].delivered \/ i \in RowsOf(inv))
              /\ MarkWebhookDelivered(inv)[i].invId = payments[i].invId
              /\ MarkWebhookDelivered(inv)[i].status = payments[i].status
              /\ MarkWebhookDelivered(inv)[i].age = payments[i].age
<1>1. DOMAIN payments = 1..lastId
  BY DEF StoreTypeOK
<1>2. SUFFICES ASSUME NEW i \in 1..lastId
      PROVE  /\ MarkWebhookDelivered(inv)[i] \in Row
             /\ MarkWebhookDelivered(inv)[i].link = payments[i].link
             /\ MarkWebhookDelivered(inv)[i].delivered = (payments[i].delivered \/ i \in RowsOf(inv))
             /\ MarkWebhookDelivered(inv)[i].invId = payments[i].invId
             /\ MarkWebhookDelivered(inv)[i].status = payments[i].status
             /\ MarkWebhookDelivered(inv)[i].age = payments[i].age
  BY <1>1 DEF MarkWebhookDelivered
<1>3. payments[i] \in Row /\ 0 \in Age
  BY StoreAssumption DEF StoreTypeOK, Age
<1> DEFINE marked == [payments[i] EXCEPT !.delivered = TRUE, !.tryAge = 0]
<1>4. /\ marked \in Row
      /\ marked.link = payments[i].link
      /\ marked.invId = payments[i].invId
      /\ marked.status = payments[i].status
      /\ marked.age = payments[i].age
  BY <1>3 DEF Row
<1>5. marked.delivered = TRUE
  BY <1>3 DEF Row
<1>6. payments[i].delivered \in BOOLEAN
  BY <1>3 DEF Row
<1>7. MarkWebhookDelivered(inv)[i] = IF i \in RowsOf(inv) THEN marked ELSE payments[i]
  BY <1>1 DEF MarkWebhookDelivered
<1>8. CASE i \in RowsOf(inv)
  <2>1. MarkWebhookDelivered(inv)[i] = marked
    BY <1>7, <1>8
  <2>2. MarkWebhookDelivered(inv)[i].delivered = TRUE
    BY <1>5, <2>1
  <2> HIDE DEF marked
  <2> QED
    BY <1>4, <1>8, <2>1, <2>2
<1>9. CASE i \notin RowsOf(inv)
  <2>1. MarkWebhookDelivered(inv)[i] = payments[i]
    BY <1>7, <1>9
  <2> QED
    BY <1>3, <1>6, <1>9, <2>1
<1> QED
  BY <1>8, <1>9

\* MarkWebhookFailed changes the time of the last attempt only.
LEMMA MarkWebhookFailedRows ==
  ASSUME StoreTypeOK, NEW inv
  PROVE  /\ MarkWebhookFailed(inv) \in [1..lastId -> Row]
         /\ \A i \in 1..lastId :
              /\ MarkWebhookFailed(inv)[i].link = payments[i].link
              /\ MarkWebhookFailed(inv)[i].delivered = payments[i].delivered
              /\ MarkWebhookFailed(inv)[i].invId = payments[i].invId
              /\ MarkWebhookFailed(inv)[i].status = payments[i].status
              /\ MarkWebhookFailed(inv)[i].age = payments[i].age
<1>1. \A i \in 1..lastId : payments[i] \in Row
  BY DEF StoreTypeOK
<1>2. DOMAIN payments = 1..lastId /\ 0 \in Age
  BY StoreAssumption DEF StoreTypeOK, Age
<1>3. \A i \in 1..lastId : MarkWebhookFailed(inv)[i] \in Row
  BY <1>1, <1>2 DEF MarkWebhookFailed, Row
<1> QED
  BY <1>1, <1>2, <1>3 DEF MarkWebhookFailed, Row
=============================================================================
