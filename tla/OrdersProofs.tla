---------------------------- MODULE OrdersProofs ----------------------------
(***************************************************************************)
(* Safety of Orders for any number of browsers, requests and orders.       *)
(*                                                                         *)
(* PaidWasCharged, CookieOpensOwnOrder and JobsArePaid are not inductive:  *)
(* they need that inv_id is the id (NumberIsId), that only orders with a   *)
(* number have been shown to customers (ShownWereNumbered) and that a      *)
(* Checkout about to answer holds a numbered row of its own key            *)
(* (RequestsOwnRows).  The proof first reduces the steps to the statements *)
(* they execute (StepForms), shows once what those do to the table         *)
(* (FormsStep), and then treats the other variables action by action.      *)
(***************************************************************************)
EXTENDS Orders, PaymentStoreProofs

-----------------------------------------------------------------------------
(* The inductive invariant *)

\* What a Checkout in progress knows of its row.
RequestOwnsRow(r) ==
  /\ r.link \in LinksOf[r.browser]
  /\ r.pc # "insert" => /\ r.id \in 1..lastId
                        /\ KeyOf[payments[r.id].link] = KeyOf[r.link]
  /\ r.pc = "respond" => payments[r.id].invId = r.id

RequestsOwnRows == \A h \in Handlers : checkout[h] # Idle => RequestOwnsRow(checkout[h])

\* A row's inv_id is its id or NULL.
NumberIsId == \A i \in 1..lastId : payments[i].invId \in {NULL, i}

\* Only an order whose link was shown is ever paid for, and it has a number.
ShownWereNumbered ==
  /\ charged \subseteq payUrl
  /\ \A i \in payUrl : payments[i].invId = i

IInv ==
  /\ OrdersTypeOK
  /\ RequestsOwnRows
  /\ NumberIsId
  /\ ShownWereNumbered
  /\ PaidWasCharged
  /\ CookieOpensOwnOrder
  /\ JobsArePaid

\* A Checkout that is not idle has a request's fields.
LEMMA BusyIsRequest ==
  ASSUME OrdersTypeOK, NEW h \in Handlers, checkout[h] # Idle
  PROVE  checkout[h] \in Request
BY DEF OrdersTypeOK

\* An idle handler is at none of Checkout's steps.
LEMMA IdleHasNoStep ==
  Idle.pc = "idle"
BY DEF Idle

\* The rows that a query on a number can find.
LEMMA RowsOfNumber ==
  ASSUME OrdersTypeOK, NumberIsId, NEW inv \in Ids
  PROVE  /\ RowsOf(inv) \subseteq {inv}
         /\ Pending(inv) \subseteq {inv}
         /\ RowsOf(inv) # {} => inv \in 1..lastId /\ payments[inv].invId = inv
<1>1. \A i \in RowsOf(inv) : i \in 1..lastId /\ payments[i].invId = inv
  BY DEF RowsOf, OrdersTypeOK, StoreTypeOK
<1>2. \A i \in RowsOf(inv) : i = inv
  BY <1>1, NullIsNoId DEF NumberIsId
<1> QED
  BY <1>1, <1>2 DEF Pending

-----------------------------------------------------------------------------
(* What a step does to the table *)

\* The statement a step executes.
TableForms ==
  \/ UNCHANGED storeVars
  \/ lastId' = lastId /\ \E S \in SUBSET PendingRows : payments' = Failed(S)
  \/ lastId' = lastId /\ \E inv \in charged : payments' = MarkPaid(inv)
  \/ lastId' = lastId /\ \E id \in 1..lastId : payments' = SetInvId(id)
  \/ /\ lastId < MaxId
     /\ lastId' = lastId + 1
     /\ \E l \in Links : payments' = Insert(l)
  \/ lastId' = lastId /\ payments' = AgedRows

\* What the invariants need to know of it.
TableStep ==
  /\ StoreTypeOK'
  /\ lastId <= lastId'
  /\ HistoryStep
  /\ NumberIsId'
  /\ Paid' \subseteq charged
  /\ \A i \in 1..lastId' : i \notin 1..lastId => payments'[i].status = "pending"

\* Every step executes at most one statement on the table: TableForms lists them.
LEMMA StepForms ==
  ASSUME IInv, [OrdersNext]_vars
  PROVE  TableForms
<1>1. ASSUME NEW inv PROVE Pending(inv) \in SUBSET PendingRows
  BY DEF Pending, PendingRows, RowsOf
<1>2. Expired \in SUBSET PendingRows
  BY DEF Expired, PendingRows
<1>3. CASE UNCHANGED vars
  BY <1>3 DEF vars, TableForms
<1>4. CASE \E h \in Handlers, b \in Browsers : \E l \in LinksOf[b] : BeginCheckout(h, b, l)
  BY <1>4 DEF BeginCheckout, TableForms
<1>5. ASSUME NEW h \in Handlers, checkout[h] # Idle
      PROVE  /\ checkout[h].link \in Links
             /\ checkout[h].pc = "setInvId" => checkout[h].id \in 1..lastId
  BY <1>5, BusyIsRequest DEF IInv, RequestsOwnRows, RequestOwnsRow, Request
<1>6. CASE \E h \in Handlers : CheckoutStep(h)
  <2> PICK h \in Handlers : CheckoutStep(h)
    BY <1>6
  <2>1. CASE InsertPayment(h)
    BY <2>1, <1>5, IdleHasNoStep DEF InsertPayment, TableForms
  <2>2. CASE InsertFails(h)
    BY <2>2, <1>5, IdleHasNoStep DEF InsertFails, TableForms
  <2>3. CASE NumberPayment(h)
    BY <2>3, <1>5, IdleHasNoStep DEF NumberPayment, Faulty, TableForms, storeVars
  <2>4. CASE RespondCheckout(h)
    BY <2>4 DEF RespondCheckout, TableForms
  <2> QED
    BY <2>1, <2>2, <2>3, <2>4 DEF CheckoutStep
<1>7. ASSUME NEW b \in Browsers, NEW inv \in Ids,
             OrderPage(b, inv) \/ FailURL(b, inv) \/ CancelOrder(b, inv)
      PROVE  TableForms
  <2>1. CASE OrderPage(b, inv)
    BY <2>1 DEF OrderPage, TableForms
  <2>2. CASE FailURL(b, inv)
    BY <2>2, <1>1 DEF FailURL, MarkFailed, Faulty, TableForms, storeVars
  <2>3. CASE CancelOrder(b, inv)
    BY <2>3, <1>1 DEF CancelOrder, CancelPending, Faulty, TableForms, storeVars
  <2> QED
    BY <1>7, <2>1, <2>2, <2>3
<1>8. ASSUME NEW inv \in Ids, Pay(inv) \/ Result(inv)
      PROVE  TableForms
  <2>1. CASE Pay(inv)
    BY <2>1 DEF Pay, Charge, TableForms
  <2>2. CASE ResultMarksPaid(inv)
    BY <2>2 DEF ResultMarksPaid, TableForms
  <2>3. CASE ResultMarkPaidError(inv)
    BY <2>3 DEF ResultMarkPaidError, Faulty, TableForms, storeVars
  <2>4. CASE ResultAnswers(inv)
    BY <2>4 DEF ResultAnswers, TableForms
  <2> QED
    BY <1>8, <2>1, <2>2, <2>3, <2>4 DEF Result, ResultURL
<1>9. CASE CleanupExpired
  BY <1>9, <1>2 DEF CleanupExpired, CleanupExpiredPending, Faulty, TableForms, storeVars
<1>10. CASE TimePasses
  BY <1>10 DEF TimePasses, TableForms
<1>11. CASE Restart
  BY <1>11 DEF Restart, LoseHandlers, TableForms
<1> QED
  BY <1>3, <1>4, <1>6, <1>7, <1>8, <1>9, <1>10, <1>11 DEF OrdersNext

\* Each of these statements keeps the rows' types and history, and pays only for
\* what was charged.
LEMMA FormsStep ==
  ASSUME IInv, TableForms
  PROVE  TableStep
<1>1. StoreTypeOK /\ NumberIsId /\ Paid \subseteq charged
  BY DEF IInv, OrdersTypeOK, PaidWasCharged
<1>2. lastId \in 0..MaxId /\ MaxId \in Nat /\ DOMAIN payments = 1..lastId
  BY <1>1, StoreAssumption DEF StoreTypeOK
<1>3. \A i \in 1..lastId : payments[i].status = "paid" => i \in charged
  BY <1>1, <1>2 DEF Paid
<1> DEFINE Kept(table) ==
      /\ table \in [1..lastId -> Row]
      /\ \A i \in 1..lastId :
           /\ table[i].link = payments[i].link
           /\ table[i].invId \in {payments[i].invId, i}
           /\ payments[i].status # "pending" => table[i].status = payments[i].status
           /\ table[i].status = "paid" => i \in charged
<1>4. ASSUME lastId' = lastId, Kept(payments')
      PROVE  TableStep
  <2>1. StoreTypeOK' /\ lastId <= lastId'
    BY <1>4, <1>2 DEF StoreTypeOK
  <2>2. DOMAIN payments' = 1..lastId
    BY <1>4
  <2>3. \A i \in 1..lastId : payments[i].invId \in {NULL, i}
    BY <1>1 DEF NumberIsId
  <2>4. HistoryStep
    BY <1>4, <1>2, <2>2, <2>3 DEF HistoryStep
  <2>5. NumberIsId'
    BY <1>4, <2>3 DEF NumberIsId
  <2>6. Paid' \subseteq charged
    BY <1>4, <2>2 DEF Paid
  <2>7. 1..lastId' = 1..lastId
    BY <1>4
  <2> QED
    BY <2>1, <2>4, <2>5, <2>6, <2>7 DEF TableStep
<1>5. CASE UNCHANGED storeVars
  BY <1>5, <1>1, <1>2, <1>3, <1>4 DEF storeVars, StoreTypeOK
<1>6. ASSUME NEW S \in SUBSET PendingRows PROVE Kept(Failed(S))
  BY <1>1, <1>2, <1>3, FailedRows DEF PendingRows
<1>7. ASSUME NEW inv \in charged PROVE Kept(MarkPaid(inv))
  <2>1. \A i \in Pending(inv) : i \in 1..lastId /\ payments[i].status = "pending"
                                /\ payments[i].invId = inv
    BY <1>2 DEF Pending, RowsOf
  <2>2. inv \in Ids
    BY DEF IInv, OrdersTypeOK, RobokassaTypeOK
  <2>3. \A i \in Pending(inv) : i = inv
    BY <2>1, <2>2, <1>1, NullIsNoId DEF NumberIsId
  <2> QED
    BY <1>1, <1>2, <1>3, <2>1, <2>3, MarkPaidRows
<1>8. ASSUME NEW id \in 1..lastId PROVE Kept(SetInvId(id))
  BY <1>1, <1>2, <1>3, SetInvIdRows
<1>9. Kept(AgedRows)
  BY <1>1, <1>2, <1>3, AgedRowsRows
<1>10. CASE lastId < MaxId /\ lastId' = lastId + 1 /\ \E l \in Links : payments' = Insert(l)
  <2>1. PICK l \in Links : payments' = Insert(l)
    BY <1>10
  <2>2. /\ payments' \in [1..lastId' -> Row]
        /\ \A i \in 1..lastId : payments'[i] = payments[i]
        /\ payments'[lastId'] = NewRow(l)
    BY <1>1, <1>10, <2>1, InsertRows
  <2>3. StoreTypeOK' /\ lastId <= lastId'
    BY <1>2, <1>10, <2>2 DEF StoreTypeOK
  <2>4. \A i \in 1..lastId' : i \in 1..lastId \/ i = lastId'
    BY <1>2, <1>10
  <2>5. /\ payments'[lastId'].invId = NULL
        /\ payments'[lastId'].status = "pending"
    BY <2>2 DEF NewRow
  <2>6. HistoryStep
    BY <1>2, <1>10, <2>2 DEF HistoryStep
  <2>7. NumberIsId'
    BY <1>1, <2>2, <2>4, <2>5 DEF NumberIsId
  <2>8. Paid' \subseteq charged
    BY <1>3, <2>2, <2>4, <2>5 DEF Paid
  <2> QED
    BY <2>3, <2>4, <2>5, <2>6, <2>7, <2>8 DEF TableStep
<1>11. CASE lastId' = lastId /\ \E S \in SUBSET PendingRows : payments' = Failed(S)
  <2>1. Kept(payments')
    <3> PICK S \in SUBSET PendingRows : payments' = Failed(S)
      BY <1>11
    <3> HIDE DEF Kept
    <3> QED
      BY <1>6
  <2> QED
    BY <1>4, <1>11, <2>1
<1>12. CASE lastId' = lastId /\ \E inv \in charged : payments' = MarkPaid(inv)
  <2>1. Kept(payments')
    <3> PICK inv \in charged : payments' = MarkPaid(inv)
      BY <1>12
    <3> HIDE DEF Kept
    <3> QED
      BY <1>7
  <2> QED
    BY <1>4, <1>12, <2>1
<1>13. CASE lastId' = lastId /\ \E id \in 1..lastId : payments' = SetInvId(id)
  <2>1. Kept(payments')
    <3> PICK id \in 1..lastId : payments' = SetInvId(id)
      BY <1>13
    <3> HIDE DEF Kept
    <3> QED
      BY <1>8
  <2> QED
    BY <1>4, <1>13, <2>1
<1>14. CASE lastId' = lastId /\ payments' = AgedRows
  <2> HIDE DEF Kept
  <2> QED
    BY <1>4, <1>9, <1>14
<1> QED
  BY <1>5, <1>10, <1>11, <1>12, <1>13, <1>14 DEF TableForms

\* TableStep as the other variables' invariants use it.
LEMMA RowsLast ==
  ASSUME IInv, TableStep
  PROVE  /\ 1..lastId \subseteq 1..lastId'
         /\ DOMAIN payments = 1..lastId /\ DOMAIN payments' = 1..lastId'
         /\ \A i \in 1..lastId :
              /\ payments'[i].link = payments[i].link
              /\ payments[i].invId = i => payments'[i].invId = i
              /\ payments[i].status # "pending" => payments'[i].status = payments[i].status
<1>1. lastId \in Nat /\ lastId' \in Nat /\ lastId <= lastId'
  BY StoreAssumption DEF IInv, OrdersTypeOK, TableStep, StoreTypeOK
<1>2. DOMAIN payments = 1..lastId /\ DOMAIN payments' = 1..lastId'
  BY DEF IInv, OrdersTypeOK, TableStep, StoreTypeOK
<1>3. \A i \in 1..lastId : i # NULL
  BY <1>1 DEF NULL
<1> QED
  BY <1>1, <1>2, <1>3 DEF TableStep, HistoryStep

-----------------------------------------------------------------------------
(* The requests in progress *)

\* What FindPending finds is a numbered row with the key that was asked for.
LEMMA FoundOrder ==
  ASSUME IInv, NEW l \in Links, NEW i \in FindPending(KeyOf[l])
  PROVE  /\ i \in 1..lastId
         /\ payments[i].invId = i
         /\ KeyOf[payments[i].link] = KeyOf[l]
BY DEF IInv, OrdersTypeOK, StoreTypeOK, NumberIsId, FindPending, FreshPending

\* BusyIsRequest and what the request knows, for a request about to take a step.
LEMMA RequestAt ==
  ASSUME IInv, NEW h \in Handlers, checkout[h].pc \in {"insert", "setInvId", "respond"}
  PROVE  checkout[h] \in Request /\ RequestOwnsRow(checkout[h])
<1>1. checkout[h] # Idle
  BY IdleHasNoStep
<1> QED
  BY <1>1, BusyIsRequest DEF IInv, RequestsOwnRows

\* A Checkout keeps knowing its row, whatever it and the others do (Checkout).
LEMMA RequestsStep ==
  ASSUME IInv, TableStep, [OrdersNext]_vars
  PROVE  /\ checkout' \in [Handlers -> Request \cup {Idle}]
         /\ RequestsOwnRows'
<1>1. checkout \in [Handlers -> Request \cup {Idle}]
  BY DEF IInv, OrdersTypeOK
<1> DEFINE Owns(r) ==
      /\ r.link \in LinksOf[r.browser]
      /\ r.pc # "insert" => /\ r.id \in 1..lastId'
                            /\ KeyOf[payments'[r.id].link] = KeyOf[r.link]
      /\ r.pc = "respond" => payments'[r.id].invId = r.id
<1>2. ASSUME NEW r \in Request, RequestOwnsRow(r)
      PROVE  Owns(r)
  BY <1>2, RowsLast DEF RequestOwnsRow, Request
<1>12. RequestsOwnRows' <=> \A g \in Handlers : checkout'[g] # Idle => Owns(checkout'[g])
  BY DEF RequestsOwnRows, RequestOwnsRow
<1> HIDE DEF Owns
<1>3. ASSUME NEW h \in Handlers, NEW r \in Request \cup {Idle},
             r # Idle => Owns(r),
             checkout' = [checkout EXCEPT ![h] = r]
      PROVE  /\ checkout' \in [Handlers -> Request \cup {Idle}]
             /\ \A g \in Handlers : checkout'[g] # Idle => Owns(checkout'[g])
  <2>1. checkout' \in [Handlers -> Request \cup {Idle}]
    BY <1>1, <1>3
  <2>2. ASSUME NEW g \in Handlers, g # h, checkout'[g] # Idle
        PROVE  Owns(checkout'[g])
    <3>1. checkout'[g] = checkout[g]
      BY <1>1, <1>3, <2>2
    <3>2. checkout[g] \in Request /\ RequestOwnsRow(checkout[g])
      BY <2>2, <3>1, BusyIsRequest DEF IInv, RequestsOwnRows
    <3> QED
      BY <1>2, <3>1, <3>2
  <2>3. checkout'[h] = r
    BY <1>1, <1>3
  <2> QED
    BY <1>3, <2>1, <2>2, <2>3
<1>4. SUFFICES /\ checkout' \in [Handlers -> Request \cup {Idle}]
               /\ \A g \in Handlers : checkout'[g] # Idle => Owns(checkout'[g])
  BY <1>12
<1>5. ASSUME UNCHANGED checkout
      PROVE  /\ checkout' \in [Handlers -> Request \cup {Idle}]
             /\ \A g \in Handlers : checkout'[g] # Idle => Owns(checkout'[g])
  BY <1>1, <1>2, <1>5, BusyIsRequest DEF IInv, RequestsOwnRows
<1>6. ASSUME NEW h \in Handlers, NEW b \in Browsers, NEW l \in LinksOf[b], BeginCheckout(h, b, l)
      PROVE  /\ checkout' \in [Handlers -> Request \cup {Idle}]
             /\ \A g \in Handlers : checkout'[g] # Idle => Owns(checkout'[g])
  <2>1. l \in Links
    BY OrdersAssumption
  <2> DEFINE begun == [pc |-> "insert", browser |-> b, link |-> l, id |-> 0]
             found(i) == [pc |-> "respond", browser |-> b, link |-> l, id |-> i]
  <2>2. begun \in Request /\ RequestOwnsRow(begun)
    BY <2>1, StoreAssumption DEF Request, RequestOwnsRow
  <2>3. ASSUME NEW i \in FindPending(KeyOf[l])
        PROVE  found(i) \in Request /\ RequestOwnsRow(found(i))
    <3>1. /\ i \in 1..lastId
          /\ payments[i].invId = i
          /\ KeyOf[payments[i].link] = KeyOf[l]
      BY <2>1, FoundOrder
    <3>2. lastId \in 0..MaxId /\ MaxId \in Nat
      BY StoreAssumption DEF IInv, OrdersTypeOK, StoreTypeOK
    <3> QED
      BY <2>1, <3>1, <3>2 DEF Request, RequestOwnsRow
  <2>4. CASE \E i \in FindPending(KeyOf[l]) : checkout' = [checkout EXCEPT ![h] = found(i)]
    BY <1>2, <1>3, <2>3, <2>4
  <2>5. CASE checkout' = [checkout EXCEPT ![h] = begun]
    BY <1>2, <1>3, <2>2, <2>5
  <2> QED
    BY <1>6, <2>4, <2>5 DEF BeginCheckout
<1>7. ASSUME NEW h \in Handlers, CheckoutStep(h)
      PROVE  /\ checkout' \in [Handlers -> Request \cup {Idle}]
             /\ \A g \in Handlers : checkout'[g] # Idle => Owns(checkout'[g])
  <2>1. CASE checkout' = [checkout EXCEPT ![h] = Idle]
    BY <1>3, <2>1
  <2>2. CASE InsertPayment(h)
    <3> DEFINE r == [checkout[h] EXCEPT !.pc = "setInvId", !.id = lastId + 1]
    <3>1. checkout[h] \in Request /\ RequestOwnsRow(checkout[h])
      BY <2>2, RequestAt DEF InsertPayment
    <3>2. lastId \in 0..MaxId /\ lastId < MaxId /\ lastId' = lastId + 1
      BY <2>2 DEF InsertPayment, IInv, OrdersTypeOK, StoreTypeOK
    <3>3. lastId + 1 \in 0..MaxId
      BY <3>2, StoreAssumption
    <3>4. r \in Request
      BY <3>1, <3>3 DEF Request
    <3>5. /\ r.link = checkout[h].link /\ r.browser = checkout[h].browser
          /\ r.pc = "setInvId" /\ r.id = lastId'
      BY <3>1, <3>2 DEF Request
    <3>6. payments'[lastId'].link = checkout[h].link
      <4>1. checkout[h].link \in Links
        BY <3>1 DEF Request
      <4>2. payments' = Insert(checkout[h].link)
        BY <2>2 DEF InsertPayment
      <4>3. payments'[lastId + 1] = NewRow(checkout[h].link)
        BY <3>2, <4>1, <4>2, InsertRows DEF IInv, OrdersTypeOK
      <4> QED
        BY <3>2, <4>3 DEF NewRow
    <3>7. Owns(r)
      BY <3>1, <3>2, <3>5, <3>6, StoreAssumption DEF RequestOwnsRow, Owns
    <3>8. checkout' = [checkout EXCEPT ![h] = r]
      BY <2>2 DEF InsertPayment
    <3> QED
      BY <1>3, <3>4, <3>7, <3>8
  <2>3. CASE InsertFails(h)
    BY <2>1, <2>3 DEF InsertFails
  <2>4. CASE /\ checkout[h].pc = "setInvId"
             /\ payments' = SetInvId(checkout[h].id)
             /\ checkout' = [checkout EXCEPT ![h] = [@ EXCEPT !.pc = "respond"]]
    <3> DEFINE r == [checkout[h] EXCEPT !.pc = "respond"]
    <3>1. checkout[h] \in Request /\ RequestOwnsRow(checkout[h])
      BY <2>4, RequestAt
    <3>2. r \in Request
      BY <3>1 DEF Request
    <3>3. /\ r.link = checkout[h].link /\ r.browser = checkout[h].browser
          /\ r.pc = "respond" /\ r.id = checkout[h].id
      BY <3>1 DEF Request
    <3>4. checkout[h].id \in 1..lastId
      BY <2>4, <3>1 DEF RequestOwnsRow
    <3>5. payments'[r.id].invId = r.id
      BY <2>4, <3>3, <3>4, SetInvIdRows DEF IInv, OrdersTypeOK
    <3>6. Owns(r)
      BY <2>4, <3>1, <3>3, <3>4, <3>5, RowsLast DEF RequestOwnsRow, Owns
    <3>7. checkout' = [checkout EXCEPT ![h] = r]
      BY <2>4
    <3> QED
      BY <1>3, <3>2, <3>6, <3>7
  <2>5. CASE NumberPayment(h)
    BY <2>1, <2>4, <2>5 DEF NumberPayment
  <2>6. CASE RespondCheckout(h)
    BY <2>1, <2>6 DEF RespondCheckout
  <2> QED
    BY <1>7, <2>2, <2>3, <2>5, <2>6 DEF CheckoutStep
<1>8. CASE Restart
  BY <1>8 DEF Restart
<1>9. CASE \E b \in Browsers, inv \in Ids :
             OrderPage(b, inv) \/ FailURL(b, inv) \/ CancelOrder(b, inv)
  BY <1>5, <1>9 DEF OrderPage, FailURL, CancelOrder
<1>10. CASE \E inv \in Ids : Pay(inv) \/ Result(inv)
  BY <1>5, <1>10 DEF Pay, Result, orderVars
<1>11. CASE CleanupExpired \/ TimePasses \/ UNCHANGED vars
  BY <1>5, <1>11 DEF CleanupExpired, TimePasses, vars, orderVars
<1> QED
  BY <1>6, <1>7, <1>8, <1>9, <1>10, <1>11 DEF OrdersNext

-----------------------------------------------------------------------------
(* Cookies, shown links, payments and jobs *)

\* A cookie is only set by RespondCheckout and only shortened by time.
LEMMA CookiesStep ==
  ASSUME IInv, TableStep, [OrdersNext]_vars
  PROVE  /\ cookieLeft' \in [Browsers -> [Ids -> 0..CookieTTL]]
         /\ CookieOpensOwnOrder'
<1> DEFINE Opens(b, i) == /\ i \in 1..lastId
                          /\ payments[i].invId = i
                          /\ \E l \in LinksOf[b] : KeyOf[l] = KeyOf[payments[i].link]
           OpensNow(b, i) == /\ i \in 1..lastId'
                             /\ payments'[i].invId = i
                             /\ \E l \in LinksOf[b] : KeyOf[l] = KeyOf[payments'[i].link]
<1>1. cookieLeft \in [Browsers -> [Ids -> 0..CookieTTL]] /\ CookieTTL \in Nat
  BY OrdersAssumption DEF IInv, OrdersTypeOK
<1>2. ASSUME NEW b \in Browsers, NEW i \in Ids, cookieLeft[b][i] > 0
      PROVE  Opens(b, i)
  <2>1. RowsOf(i) = {i} /\ \E l \in LinksOf[b] : KeyOf[l] = KeyOf[payments[i].link]
    BY <1>2 DEF IInv, CookieOpensOwnOrder
  <2> QED
    BY <2>1 DEF RowsOf, IInv, OrdersTypeOK, StoreTypeOK
<1>3. ASSUME NEW b \in Browsers, NEW i \in Ids, Opens(b, i)
      PROVE  OpensNow(b, i)
  BY <1>3, RowsLast
<1>4. ASSUME NEW b \in Browsers, NEW i \in Ids, OpensNow(b, i)
      PROVE  RowsOf(i)' = {i}
  <2>1. DOMAIN payments' = 1..lastId'
    BY RowsLast
  <2>2. \A j \in 1..lastId' : payments'[j].invId = i => j = i
    BY NullIsNoId DEF TableStep, NumberIsId
  <2> QED
    BY <1>4, <2>1, <2>2 DEF RowsOf
<1>5. ASSUME \A b \in Browsers, i \in Ids : cookieLeft'[b][i] > 0 => OpensNow(b, i)
      PROVE  CookieOpensOwnOrder'
  BY <1>4, <1>5 DEF CookieOpensOwnOrder
<1>6. ASSUME UNCHANGED cookieLeft
      PROVE  /\ cookieLeft' \in [Browsers -> [Ids -> 0..CookieTTL]]
             /\ CookieOpensOwnOrder'
  <2>1. \A b \in Browsers, i \in Ids : cookieLeft'[b][i] > 0 => OpensNow(b, i)
    <3> HIDE DEF Opens, OpensNow
    <3> QED
      BY <1>2, <1>3, <1>6
  <2> QED
    BY <1>1, <1>5, <1>6, <2>1
<1>7. ASSUME NEW h \in Handlers, RespondCheckout(h)
      PROVE  /\ cookieLeft' \in [Browsers -> [Ids -> 0..CookieTTL]]
             /\ CookieOpensOwnOrder'
  <2>1. checkout[h] \in Request /\ RequestOwnsRow(checkout[h]) /\ checkout[h].pc = "respond"
    BY <1>7, RequestAt DEF RespondCheckout
  <2>2. checkout[h].browser \in Browsers /\ Opens(checkout[h].browser, checkout[h].id)
    BY <2>1 DEF Request, RequestOwnsRow
  <2>3. checkout[h].id \in Ids
    BY <2>2, StoreAssumption DEF IInv, OrdersTypeOK, StoreTypeOK, Ids
  <2>4. CASE cookieLeft' = [cookieLeft EXCEPT ![checkout[h].browser][checkout[h].id] = CookieTTL]
    <3>1. cookieLeft' \in [Browsers -> [Ids -> 0..CookieTTL]]
      BY <1>1, <2>4, <2>2, <2>3
    <3>2. ASSUME NEW b \in Browsers, NEW i \in Ids
          PROVE  \/ b = checkout[h].browser /\ i = checkout[h].id
                 \/ cookieLeft'[b][i] = cookieLeft[b][i]
      BY <1>1, <2>4, <2>2, <2>3
    <3>3. \A b \in Browsers, i \in Ids : cookieLeft'[b][i] > 0 => OpensNow(b, i)
      <4> HIDE DEF Opens, OpensNow
      <4> QED
        BY <1>2, <1>3, <2>2, <2>3, <3>2
    <3> QED
      BY <1>5, <3>1, <3>3
  <2> QED
    BY <1>6, <1>7, <2>4 DEF RespondCheckout, SetOrderAccessCookie
<1>8. CASE TimePasses
  <2>1. cookieLeft' = [b \in Browsers |-> [i \in Ids |->
                        IF cookieLeft[b][i] = 0 THEN 0 ELSE cookieLeft[b][i] - 1]]
    BY <1>8 DEF TimePasses
  <2>2. \A b \in Browsers, i \in Ids : cookieLeft[b][i] \in 0..CookieTTL
    BY <1>1
  <2>3. \A b \in Browsers, i \in Ids :
          /\ cookieLeft'[b][i] \in 0..CookieTTL
          /\ cookieLeft'[b][i] > 0 => cookieLeft[b][i] > 0
    <3> TAKE b \in Browsers, i \in Ids
    <3>1. cookieLeft'[b][i] = IF cookieLeft[b][i] = 0 THEN 0 ELSE cookieLeft[b][i] - 1
      BY <2>1
    <3>2. cookieLeft[b][i] \in 0..CookieTTL /\ CookieTTL \in Nat
      BY <1>1, <2>2
    <3> QED
      BY <3>1, <3>2
  <2>4. cookieLeft' \in [Browsers -> [Ids -> 0..CookieTTL]]
    BY <2>1, <2>3
  <2>5. \A b \in Browsers, i \in Ids : cookieLeft'[b][i] > 0 => OpensNow(b, i)
    <3> HIDE DEF Opens, OpensNow
    <3> QED
      BY <1>2, <1>3, <2>3
  <2> QED
    BY <1>5, <2>4, <2>5
<1>9. CASE \E h \in Handlers, b \in Browsers : \E l \in LinksOf[b] : BeginCheckout(h, b, l)
  BY <1>6, <1>9 DEF BeginCheckout
<1>10. CASE \E h \in Handlers : CheckoutStep(h)
  BY <1>6, <1>7, <1>10 DEF CheckoutStep, InsertPayment, InsertFails, NumberPayment
<1>11. CASE \E b \in Browsers, inv \in Ids :
              OrderPage(b, inv) \/ FailURL(b, inv) \/ CancelOrder(b, inv)
  BY <1>6, <1>11 DEF OrderPage, FailURL, CancelOrder
<1>12. CASE \E inv \in Ids : Pay(inv) \/ Result(inv)
  BY <1>6, <1>12 DEF Pay, Result, orderVars
<1>13. CASE CleanupExpired \/ Restart \/ UNCHANGED vars
  BY <1>6, <1>13 DEF CleanupExpired, Restart, vars, orderVars
<1> QED
  BY <1>8, <1>9, <1>10, <1>11, <1>12, <1>13 DEF OrdersNext

\* Only OrderPage shows a link, only a shown order is charged, and its number stays.
LEMMA ShownStep ==
  ASSUME IInv, TableStep, [OrdersNext]_vars
  PROVE  /\ payUrl' \subseteq 1..lastId'
         /\ told' \subseteq 1..lastId'
         /\ charged' \subseteq Ids
         /\ acked' \subseteq Ids
         /\ charged \subseteq charged'
         /\ ShownWereNumbered'
<1>1. /\ payUrl \subseteq 1..lastId /\ told \subseteq 1..lastId
      /\ charged \subseteq Ids /\ acked \subseteq Ids
  BY DEF IInv, OrdersTypeOK, RobokassaTypeOK
<1>2. charged \subseteq payUrl /\ \A i \in payUrl : payments[i].invId = i
  BY DEF IInv, ShownWereNumbered
<1>3. 1..lastId \subseteq Ids
  BY StoreAssumption DEF IInv, OrdersTypeOK, StoreTypeOK, Ids
<1>4. SUFFICES /\ payUrl' \subseteq {i \in 1..lastId : payments[i].invId = i}
               /\ told' \subseteq 1..lastId
               /\ charged \subseteq charged' /\ charged' \subseteq payUrl'
               /\ acked' \subseteq Ids
  BY <1>3, RowsLast DEF ShownWereNumbered
<1>5. ASSUME NEW inv \in Ids, NEW b, Access(b, inv)
      PROVE  inv \in 1..lastId /\ payments[inv].invId = inv
  BY <1>5, RowsOfNumber DEF Access, IInv
<1>6. CASE \E h \in Handlers, b \in Browsers : \E l \in LinksOf[b] : BeginCheckout(h, b, l)
  BY <1>1, <1>2, <1>6 DEF BeginCheckout, robokassaVars
<1>7. CASE \E h \in Handlers : CheckoutStep(h)
  BY <1>1, <1>2, <1>7
     DEF CheckoutStep, InsertPayment, InsertFails, NumberPayment, RespondCheckout, robokassaVars
<1>8. CASE \E b \in Browsers, inv \in Ids :
             OrderPage(b, inv) \/ FailURL(b, inv) \/ CancelOrder(b, inv)
  BY <1>1, <1>2, <1>5, <1>8 DEF OrderPage, FailURL, CancelOrder, robokassaVars
<1>9. CASE \E inv \in Ids : Pay(inv)
  BY <1>1, <1>2, <1>9 DEF Pay, Charge, orderVars
<1>10. CASE \E inv \in Ids : Result(inv)
  BY <1>1, <1>2, <1>10 DEF Result, ResultURL, ResultMarksPaid, ResultMarkPaidError,
                           ResultAnswers, orderVars
<1>11. CASE CleanupExpired \/ TimePasses \/ UNCHANGED vars
  BY <1>1, <1>2, <1>11 DEF CleanupExpired, TimePasses, vars, robokassaVars, orderVars
<1>12. CASE Restart
  BY <1>1, <1>2, <1>12 DEF Restart, LoseHandlers
<1> QED
  BY <1>6, <1>7, <1>8, <1>9, <1>10, <1>11, <1>12 DEF OrdersNext

\* The rows that handlers and goroutines are busy with stay paid.
LEMMA JobsStep ==
  ASSUME IInv, TableStep, [OrdersNext]_vars
  PROVE  /\ settling' \subseteq 1..lastId' /\ jobs' \subseteq 1..lastId'
         /\ JobsArePaid'
<1>1. /\ settling \cup jobs \subseteq Paid
      /\ \A i \in jobs : CallbackOf[payments[i].link] # NoCallback
  BY DEF IInv, JobsArePaid
<1>2. Paid \subseteq 1..lastId
  BY DEF Paid, IInv, OrdersTypeOK, StoreTypeOK
<1>3. Paid \subseteq Paid'
  BY RowsLast DEF Paid
<1>4. Paid' \subseteq 1..lastId'
  BY RowsLast DEF Paid
<1>5. ASSUME jobs' \subseteq {i \in Paid : CallbackOf[payments[i].link] # NoCallback},
             settling' \subseteq Paid'
      PROVE  /\ settling' \subseteq 1..lastId' /\ jobs' \subseteq 1..lastId'
             /\ JobsArePaid'
  <2>1. jobs' \subseteq Paid'
    BY <1>3, <1>5
  <2>2. \A i \in jobs' : CallbackOf[payments'[i].link] # NoCallback
    BY <1>2, <1>5, RowsLast
  <2> QED
    BY <1>4, <1>5, <2>1, <2>2 DEF JobsArePaid
<1>6. CASE UNCHANGED <<settling, jobs>>
  BY <1>1, <1>3, <1>5, <1>6
<1>7. CASE \E inv \in Ids : Result(inv)
  <2> PICK inv \in Ids : Result(inv)
    BY <1>7
  <2>1. CASE ResultMarksPaid(inv)
    <3>1. inv \in Pending(inv) /\ inv \in 1..lastId
      BY <2>1, RowsOfNumber DEF ResultMarksPaid, IInv, Pending
    <3>2. payments'[inv].status = "paid"
      BY <2>1, <3>1, MarkPaidRows DEF ResultMarksPaid, IInv, OrdersTypeOK
    <3>3. inv \in Paid'
      BY <3>1, <3>2, RowsLast DEF Paid
    <3> QED
      BY <1>1, <1>3, <1>5, <2>1, <3>3 DEF ResultMarksPaid
  <2>2. CASE ResultMarkPaidError(inv)
    BY <1>6, <2>2 DEF ResultMarkPaidError
  <2>3. CASE ResultAnswers(inv)
    BY <1>1, <1>3, <1>5, <2>3 DEF ResultAnswers
  <2> QED
    BY <2>1, <2>2, <2>3 DEF Result, ResultURL
<1>8. CASE Restart
  BY <1>5, <1>8 DEF Restart, LoseHandlers
<1>9. CASE \E h \in Handlers, b \in Browsers : \E l \in LinksOf[b] : BeginCheckout(h, b, l)
  BY <1>6, <1>9 DEF BeginCheckout, robokassaVars
<1>10. CASE \E h \in Handlers : CheckoutStep(h)
  BY <1>6, <1>10
     DEF CheckoutStep, InsertPayment, InsertFails, NumberPayment, RespondCheckout, robokassaVars
<1>11. CASE \E b \in Browsers, inv \in Ids :
              OrderPage(b, inv) \/ FailURL(b, inv) \/ CancelOrder(b, inv)
  BY <1>6, <1>11 DEF OrderPage, FailURL, CancelOrder, robokassaVars
<1>12. CASE \E inv \in Ids : Pay(inv)
  BY <1>6, <1>12 DEF Pay, Charge
<1>13. CASE CleanupExpired \/ TimePasses \/ UNCHANGED vars
  BY <1>6, <1>13 DEF CleanupExpired, TimePasses, vars, robokassaVars
<1> QED
  BY <1>7, <1>8, <1>9, <1>10, <1>11, <1>12, <1>13 DEF OrdersNext

-----------------------------------------------------------------------------
(* The invariant is inductive *)

\* The empty table satisfies the invariant.
LEMMA InitIInv ==
  ASSUME OrdersInit
  PROVE  IInv
<1>1. lastId = 0 /\ payments = [i \in 1..0 |-> NULL]
  BY DEF OrdersInit, StoreInit
<1>2. 1..0 = {}
  OBVIOUS
<1>3. StoreTypeOK
  BY <1>1, <1>2, StoreAssumption DEF StoreTypeOK
<1>4. RobokassaTypeOK /\ charged = {} /\ settling = {} /\ jobs = {}
  BY DEF OrdersInit, RobokassaInit, RobokassaTypeOK
<1>5. OrdersTypeOK
  BY <1>3, <1>4, OrdersAssumption DEF OrdersInit, OrdersTypeOK
<1>6. Paid = {} /\ DOMAIN payments = {}
  BY <1>1, <1>2 DEF Paid
<1>7. RequestsOwnRows
  BY DEF OrdersInit, RequestsOwnRows
<1>8. CookieOpensOwnOrder
  BY DEF OrdersInit, CookieOpensOwnOrder
<1>9. ShownWereNumbered
  BY <1>4 DEF OrdersInit, ShownWereNumbered
<1>10. NumberIsId
  BY <1>1, <1>2 DEF NumberIsId
<1> QED
  BY <1>4, <1>5, <1>6, <1>7, <1>8, <1>9, <1>10
     DEF IInv, PaidWasCharged, JobsArePaid

\* Every step keeps the invariant.
LEMMA StepIInv ==
  ASSUME IInv, [OrdersNext]_vars
  PROVE  IInv' /\ TableStep
<1>1. TableStep
  BY StepForms, FormsStep
<1>2. PaidWasCharged'
  BY <1>1, ShownStep DEF TableStep, PaidWasCharged
<1>3. OrdersTypeOK'
  BY <1>1, RequestsStep, CookiesStep, ShownStep, JobsStep
     DEF OrdersTypeOK, RobokassaTypeOK, TableStep
<1> QED
  BY <1>1, <1>2, <1>3, RequestsStep, CookiesStep, ShownStep, JobsStep DEF IInv, TableStep

\* In every reachable state, for any number of browsers, requests and orders and
\* with every fault: the inductive invariant.
THEOREM IInvHolds == OrdersSpec => []IInv
BY InitIInv, StepIInv, PTL DEF OrdersSpec

\* The variables have their types (payments, Robokassa's view and the requests).
THEOREM TypeCorrect == OrdersSpec => []OrdersTypeOK
BY IInvHolds, PTL DEF IInv

\* An order is paid only if its own money was collected (ResultURL, MarkPaid).
THEOREM PaidOnlyIfCharged == OrdersSpec => []PaidWasCharged
BY IInvHolds, PTL DEF IInv

\* A cookie opens only an order placed with the browser's own link (Checkout).
THEOREM CookieSafe == OrdersSpec => []CookieOpensOwnOrder
BY IInvHolds, PTL DEF IInv

\* A webhook is under way only for a paid order with a callback (ResultURL).
THEOREM JobsSafe == OrdersSpec => []JobsArePaid
BY IInvHolds, PTL DEF IInv

\* Statuses are final, rows and their numbers are permanent (models/payment.go).
THEOREM HistorySafe == OrdersSpec => HistoryKept
<1>1. IInv /\ [OrdersNext]_vars => [HistoryStep]_vars
  BY StepIInv DEF TableStep
<1>2. OrdersSpec => [][HistoryStep]_vars
  BY <1>1, IInvHolds, PTL DEF OrdersSpec
<1> QED
  BY <1>2 DEF HistoryKept, HistoryStep

-----------------------------------------------------------------------------
(* The ledger *)

\* A step charges an order or touches the table, never both.
LEMMA ChargedOrTable ==
  ASSUME [OrdersNext]_vars
  PROVE  \/ charged' = charged
         \/ UNCHANGED storeVars /\ \E inv \in payUrl : charged' = charged \cup {inv}
<1>1. CASE \E h \in Handlers, b \in Browsers : \E l \in LinksOf[b] : BeginCheckout(h, b, l)
  BY <1>1 DEF BeginCheckout, robokassaVars
<1>2. CASE \E h \in Handlers : CheckoutStep(h)
  BY <1>2
     DEF CheckoutStep, InsertPayment, InsertFails, NumberPayment, RespondCheckout, robokassaVars
<1>3. CASE \E b \in Browsers, inv \in Ids :
             OrderPage(b, inv) \/ FailURL(b, inv) \/ CancelOrder(b, inv)
  BY <1>3 DEF OrderPage, FailURL, CancelOrder, robokassaVars
<1>4. CASE \E inv \in Ids : Pay(inv)
  BY <1>4 DEF Pay, Charge
<1>5. CASE \E inv \in Ids : Result(inv)
  BY <1>5 DEF Result, ResultURL, ResultMarksPaid, ResultMarkPaidError, ResultAnswers
<1>6. CASE CleanupExpired \/ TimePasses \/ Restart \/ UNCHANGED vars
  BY <1>6 DEF CleanupExpired, TimePasses, Restart, LoseHandlers, vars, robokassaVars
<1> QED
  BY <1>1, <1>2, <1>3, <1>4, <1>5, <1>6 DEF OrdersNext

\* Every step of the service is a step of the ledger or none.
LEMMA LedgerStep ==
  ASSUME IInv, [OrdersNext]_vars
  PROVE  [Ledger!LedgerNext]_(Ledger!ledgerVars)
<1>1. TableForms /\ TableStep
  BY StepForms, StepIInv
<1>2. StoreTypeOK /\ NumberIsId /\ lastId \in 0..MaxId /\ MaxId \in Nat
  BY StoreAssumption DEF IInv, OrdersTypeOK, StoreTypeOK
<1>3. 1..lastId \subseteq Ids /\ DOMAIN payments = 1..lastId /\ DOMAIN payments' = 1..lastId'
  BY <1>1, <1>2, RowsLast DEF Ids
<1>4. OrderStatus = [i \in Ids |-> IF i \in 1..lastId THEN payments[i].status ELSE "none"]
  BY <1>3 DEF OrderStatus
<1>5. OrderStatus' = [i \in Ids |-> IF i \in 1..lastId' THEN payments'[i].status ELSE "none"]
  BY <1>3 DEF OrderStatus
<1>6. \A i \in 1..lastId : payments[i].status # "none"
  BY <1>2 DEF StoreTypeOK, Row, Status
<1>7. CASE charged' # charged
  <2>1. UNCHANGED storeVars /\ OrderStatus' = OrderStatus
    BY <1>4, <1>5, <1>7, ChargedOrTable DEF storeVars
  <2>2. PICK inv \in payUrl : charged' = charged \cup {inv}
    BY <1>7, ChargedOrTable
  <2>3. inv \in 1..lastId
    BY DEF IInv, OrdersTypeOK
  <2>4. inv \in Ids /\ OrderStatus[inv] # "none"
    BY <1>3, <1>4, <1>6, <2>3
  <2>5. Ledger!Collect(inv)
    BY <2>1, <2>2, <2>4 DEF Ledger!Collect
  <2> QED
    BY <2>4, <2>5 DEF Ledger!LedgerNext
<1>8. ASSUME charged' = charged, lastId' = lastId,
             \A i \in 1..lastId : payments'[i].status = payments[i].status
      PROVE  UNCHANGED Ledger!ledgerVars
  <2>1. OrderStatus' = OrderStatus
    BY <1>4, <1>5, <1>8
  <2> QED
    BY <1>8, <2>1 DEF Ledger!ledgerVars
<1>9. CASE charged' = charged
  <2>1. CASE UNCHANGED storeVars
    BY <1>8, <1>9, <2>1 DEF storeVars
  <2>2. ASSUME NEW S \in SUBSET PendingRows, lastId' = lastId, payments' = Failed(S)
        PROVE  Ledger!LedgerNext
    <3>1. S \in SUBSET Ids /\ \A i \in S : OrderStatus[i] = "pending"
      BY <1>3, <1>4 DEF PendingRows
    <3>2. S \subseteq 1..lastId
      BY <1>3 DEF PendingRows
    <3>3. \A i \in 1..lastId :
            payments'[i].status = IF i \in S THEN "failed" ELSE payments[i].status
      BY <1>2, <2>2, FailedRows
    <3>4. OrderStatus' = [i \in Ids |-> IF i \in S THEN "failed" ELSE OrderStatus[i]]
      BY <1>4, <1>5, <2>2, <3>2, <3>3
    <3> QED
      BY <1>9, <3>1, <3>4 DEF Ledger!LedgerNext, Ledger!Void
  <2>3. ASSUME NEW inv \in charged, lastId' = lastId, payments' = MarkPaid(inv)
        PROVE  [Ledger!LedgerNext]_(Ledger!ledgerVars)
    <3>1. inv \in Ids
      BY DEF IInv, OrdersTypeOK, RobokassaTypeOK
    <3>2. Pending(inv) \subseteq {inv} /\ (Pending(inv) # {} => inv \in 1..lastId)
      BY <3>1, RowsOfNumber DEF IInv, Pending
    <3>3. \A i \in 1..lastId :
            payments'[i].status = IF i \in Pending(inv) THEN "paid" ELSE payments[i].status
      BY <1>2, <2>3, MarkPaidRows
    <3>4. CASE Pending(inv) = {}
      BY <1>8, <1>9, <2>3, <3>3, <3>4
    <3>5. CASE Pending(inv) # {}
      <4>1. Pending(inv) = {inv} /\ inv \in 1..lastId
        BY <3>2, <3>5
      <4>2. payments[inv].status = "pending"
        BY <4>1 DEF Pending
      <4>3. OrderStatus[inv] = "pending"
        BY <1>4, <3>1, <4>1, <4>2
      <4>4. OrderStatus' = [OrderStatus EXCEPT ![inv] = "paid"]
        BY <1>4, <1>5, <2>3, <3>3, <4>1
      <4> QED
        BY <1>9, <3>1, <4>3, <4>4 DEF Ledger!LedgerNext, Ledger!Settle
    <3> QED
      BY <3>4, <3>5
  <2>4. ASSUME NEW id \in 1..lastId, lastId' = lastId, payments' = SetInvId(id)
        PROVE  UNCHANGED Ledger!ledgerVars
    BY <1>2, <1>8, <1>9, <2>4, SetInvIdRows
  <2>5. CASE lastId' = lastId /\ payments' = AgedRows
    BY <1>2, <1>8, <1>9, <2>5, AgedRowsRows
  <2>6. ASSUME NEW l \in Links, lastId < MaxId, lastId' = lastId + 1, payments' = Insert(l)
        PROVE  Ledger!LedgerNext
    <3>1. lastId' \in Ids /\ lastId' \notin 1..lastId
      BY <1>2, <2>6 DEF Ids
    <3>2. /\ \A i \in 1..lastId : payments'[i].status = payments[i].status
          /\ payments'[lastId'].status = "pending"
      <4>1. /\ \A i \in 1..lastId : payments'[i] = payments[i]
            /\ payments'[lastId + 1] = NewRow(l)
        BY <1>2, <2>6, InsertRows
      <4>2. NewRow(l).status = "pending"
        BY DEF NewRow
      <4> QED
        BY <2>6, <4>1, <4>2
    <3>3. \A i \in Ids : i \in 1..lastId' <=> i \in 1..lastId \/ i = lastId'
      BY <1>2, <2>6
    <3>4. OrderStatus[lastId'] = "none"
      BY <1>4, <3>1
    <3>5. OrderStatus' = [OrderStatus EXCEPT ![lastId'] = "pending"]
      BY <1>4, <1>5, <3>1, <3>2, <3>3
    <3> QED
      BY <1>9, <3>1, <3>4, <3>5 DEF Ledger!LedgerNext, Ledger!Open
  <2> QED
    BY <1>1, <2>1, <2>2, <2>3, <2>4, <2>5, <2>6 DEF TableForms
<1> QED
  BY <1>7, <1>9

\* The orders service implements the ledger: an order is opened once, paid only
\* with its own money, and settled once (all handlers, the clean-up, crashes).
THEOREM ImplementsLedger == OrdersSpec => KeepsLedger
<1>1. OrdersInit => Ledger!LedgerInit
  <2> SUFFICES ASSUME OrdersInit PROVE Ledger!LedgerInit
    OBVIOUS
  <2>1. DOMAIN payments = {}
    BY DEF OrdersInit, StoreInit
  <2>2. charged = {}
    BY DEF OrdersInit, RobokassaInit
  <2> QED
    BY <2>1, <2>2 DEF Ledger!LedgerInit, OrderStatus
<1>2. IInv /\ [OrdersNext]_vars => [Ledger!LedgerNext]_(Ledger!ledgerVars)
  BY LedgerStep
<1> QED
  BY <1>1, <1>2, IInvHolds, PTL DEF OrdersSpec, KeepsLedger, Ledger!LedgerSpec

-----------------------------------------------------------------------------
(* While every statement tells the truth *)

\* What AnsweredIsSettled and ToldIsSettled need to be inductive: the orders in
\* question have rows.
SettledInv ==
  /\ acked \subseteq 1..lastId /\ AnsweredIsSettled
  /\ told \subseteq 1..lastId /\ ToldIsSettled

\* While statements tell the truth, every step keeps what was answered and told settled.
LEMMA SettledStep ==
  ASSUME ~DbFaults, IInv, SettledInv, [OrdersNext]_vars
  PROVE  SettledInv'
<1>1. TableStep
  BY StepIInv
<1> DEFINE Closed == {i \in 1..lastId : payments[i].status # "pending"}
           ClosedNow == {i \in 1..lastId' : payments'[i].status # "pending"}
<1>2. Closed \subseteq ClosedNow
  BY <1>1, RowsLast
<1>3. acked \subseteq Closed /\ told \subseteq Closed
  BY DEF SettledInv, AnsweredIsSettled, ToldIsSettled, PendingRows, IInv, OrdersTypeOK, StoreTypeOK
<1>4. ASSUME acked' \subseteq ClosedNow, told' \subseteq ClosedNow
      PROVE  SettledInv'
  BY <1>4 DEF SettledInv, AnsweredIsSettled, ToldIsSettled, PendingRows
<1>5. CASE UNCHANGED <<acked, told>>
  BY <1>2, <1>3, <1>4, <1>5
<1>6. ASSUME NEW inv \in 1..lastId, payments[inv].invId = inv, Pending(inv) = {}
      PROVE  inv \in Closed
  BY <1>6 DEF Pending, RowsOf, IInv, OrdersTypeOK, StoreTypeOK
<1>7. ASSUME NEW b \in Browsers, NEW inv \in Ids, FailURL(b, inv) \/ CancelOrder(b, inv)
      PROVE  SettledInv'
  <2>1. /\ Access(b, inv) /\ payments' = Failed(Pending(inv))
        /\ told' = told \cup {inv} /\ acked' = acked /\ lastId' = lastId
    BY <1>7 DEF FailURL, CancelOrder, MarkFailed, CancelPending, Faulty, robokassaVars
  <2>2. inv \in 1..lastId /\ payments[inv].invId = inv
    BY <2>1, RowsOfNumber DEF Access, IInv
  <2>3. inv \in ClosedNow
    <3>1. CASE Pending(inv) = {}
      BY <1>2, <1>6, <2>2, <3>1
    <3>2. CASE Pending(inv) # {}
      <4>1. inv \in Pending(inv)
        BY <3>2, RowsOfNumber DEF IInv
      <4>2. payments'[inv].status = "failed"
        BY <2>1, <2>2, <4>1, FailedRows DEF IInv, OrdersTypeOK
      <4> QED
        BY <2>1, <2>2, <4>2
    <3> QED
      BY <3>1, <3>2
  <2> QED
    BY <1>2, <1>3, <1>4, <2>1, <2>3
<1>8. ASSUME NEW inv \in Ids, Result(inv)
      PROVE  SettledInv'
  <2>1. told' = told
    BY <1>8 DEF Result, orderVars
  <2>2. CASE ResultMarksPaid(inv)
    BY <1>5, <2>1, <2>2 DEF ResultMarksPaid
  <2>3. CASE ResultMarkPaidError(inv)
    <3>1. inv \in charged /\ Pending(inv) = {} /\ acked' = acked \cup {inv}
      BY <2>3 DEF ResultMarkPaidError, Faulty
    <3>2. inv \in 1..lastId /\ payments[inv].invId = inv
      BY <3>1 DEF IInv, ShownWereNumbered, OrdersTypeOK
    <3> QED
      BY <1>2, <1>3, <1>4, <1>6, <2>1, <3>1, <3>2
  <2>4. CASE ResultAnswers(inv)
    <3>1. inv \in settling /\ acked' = acked \cup {inv}
      BY <2>4 DEF ResultAnswers
    <3>2. inv \in Paid
      BY <3>1 DEF IInv, JobsArePaid
    <3>3. inv \in Closed
      BY <3>2 DEF Paid, IInv, OrdersTypeOK, StoreTypeOK
    <3> QED
      BY <1>2, <1>3, <1>4, <2>1, <3>1, <3>3
  <2> QED
    BY <1>8, <2>2, <2>3, <2>4 DEF Result, ResultURL
<1>9. CASE \E h \in Handlers, b \in Browsers : \E l \in LinksOf[b] : BeginCheckout(h, b, l)
  BY <1>5, <1>9 DEF BeginCheckout, robokassaVars
<1>10. CASE \E h \in Handlers : CheckoutStep(h)
  BY <1>5, <1>10
     DEF CheckoutStep, InsertPayment, InsertFails, NumberPayment, RespondCheckout, robokassaVars
<1>11. CASE \E b \in Browsers, inv \in Ids : OrderPage(b, inv)
  BY <1>5, <1>11 DEF OrderPage, robokassaVars
<1>12. CASE \E inv \in Ids : Pay(inv)
  BY <1>5, <1>12 DEF Pay, Charge, orderVars
<1>13. CASE CleanupExpired \/ TimePasses \/ UNCHANGED vars
  BY <1>5, <1>13 DEF CleanupExpired, TimePasses, vars, robokassaVars, orderVars
<1>14. CASE Restart
  BY <1>5, <1>14 DEF Restart, LoseHandlers
<1> QED
  BY <1>7, <1>8, <1>9, <1>10, <1>11, <1>12, <1>13, <1>14 DEF OrdersNext

\* Nothing is answered or told at first.
LEMMA InitSettled ==
  ASSUME OrdersInit
  PROVE  SettledInv
BY DEF OrdersInit, RobokassaInit, SettledInv, AnsweredIsSettled, ToldIsSettled

\* The same for every reachable state.
LEMMA SettledHolds ==
  ASSUME ~DbFaults
  PROVE  OrdersSpec => []SettledInv
<1>1. OrdersInit => SettledInv
  BY InitSettled
<1>2. IInv /\ SettledInv /\ [OrdersNext]_vars => SettledInv'
  BY SettledStep
<1> QED
  BY <1>1, <1>2, IInvHolds, PTL DEF OrdersSpec

\* Without database errors, an answered payment belongs to an order that is no
\* longer pending, crashes and late results included (ResultURL).
THEOREM AnswersSafe ==
  ASSUME ~DbFaults
  PROVE  OrdersSpec => []AnsweredIsSettled
BY SettledHolds, PTL DEF SettledInv

\* Without database errors, an order reported as failed or cancelled never turns
\* paid afterwards (FailURL, CancelOrder).
THEOREM TellsSafe ==
  ASSUME ~DbFaults
  PROVE  OrdersSpec => []ToldIsSettled
BY SettledHolds, PTL DEF SettledInv
=============================================================================
