-------------------------- MODULE NumberingProofs --------------------------
(***************************************************************************)
(* How Create numbers its rows, and what FindPending makes of it, while    *)
(* statements tell the truth.                                              *)
(*                                                                         *)
(* NumberedByOne holds for any number of Checkouts at a time, because a    *)
(* row without number has exactly one Checkout that will number it         *)
(* (Numbering).  NoEarlyDuplicate holds for Checkouts that follow each     *)
(* other, also after crashes, because whatever is pending and newer than   *)
(* an order that can be paid was placed after its 30 minutes (Apart).      *)
(***************************************************************************)
EXTENDS OrdersProofs

\* What every step but Checkout's and a crash leaves of the table: no row becomes
\* pending, and time passes for all rows alike.
QuietRows ==
  /\ lastId' = lastId
  /\ checkout' = checkout
  /\ \A i \in 1..lastId :
       /\ payments'[i].link = payments[i].link
       /\ payments'[i].invId = payments[i].invId
       /\ payments'[i].status = "pending" => payments[i].status = "pending"
  /\ \/ \A i \in 1..lastId : payments'[i].age = payments[i].age
     \/ \A i \in 1..lastId : payments'[i].age = Older(payments[i].age)

\* Failing rows makes none younger or pending.
LEMMA FailedQuiet ==
  ASSUME StoreTypeOK, NEW S, payments' = Failed(S), UNCHANGED <<lastId, checkout>>
  PROVE  QuietRows
<1>1. \A i \in 1..lastId : payments[i] \in Row
  BY DEF StoreTypeOK
<1>2. DOMAIN payments = 1..lastId
  BY DEF StoreTypeOK
<1>3. \A i \in 1..lastId : /\ payments'[i].link = payments[i].link
                           /\ payments'[i].invId = payments[i].invId
                           /\ payments'[i].age = payments[i].age
                           /\ payments'[i].status \in {payments[i].status, "failed"}
  BY <1>1, <1>2 DEF Failed, Row
<1> QED
  BY <1>3 DEF QuietRows

\* So does marking rows paid.
LEMMA PaidQuiet ==
  ASSUME StoreTypeOK, NEW inv, payments' = MarkPaid(inv), UNCHANGED <<lastId, checkout>>
  PROVE  QuietRows
<1>1. \A i \in 1..lastId : payments[i] \in Row
  BY DEF StoreTypeOK
<1>2. DOMAIN payments = 1..lastId
  BY DEF StoreTypeOK
<1>3. \A i \in 1..lastId : /\ payments'[i].link = payments[i].link
                           /\ payments'[i].invId = payments[i].invId
                           /\ payments'[i].age = payments[i].age
                           /\ payments'[i].status \in {payments[i].status, "paid"}
  BY <1>1, <1>2 DEF MarkPaid, Row
<1> QED
  BY <1>3 DEF QuietRows

\* And the passing of time.
LEMMA AgedQuiet ==
  ASSUME StoreTypeOK, payments' = AgedRows, UNCHANGED <<lastId, checkout>>
  PROVE  QuietRows
<1>1. \A i \in 1..lastId : payments[i] \in Row
  BY DEF StoreTypeOK
<1>2. DOMAIN payments = 1..lastId
  BY DEF StoreTypeOK
<1>3. \A i \in 1..lastId : /\ payments'[i].link = payments[i].link
                           /\ payments'[i].invId = payments[i].invId
                           /\ payments'[i].age = Older(payments[i].age)
                           /\ payments'[i].status = payments[i].status
  BY <1>1, <1>2 DEF AgedRows, Row
<1> QED
  BY <1>3 DEF QuietRows

\* Only Checkout's steps and a crash are not quiet.
LEMMA QuietSteps ==
  ASSUME ~DbFaults, IInv, [OrdersNext]_vars
  PROVE  \/ QuietRows
         \/ \E h \in Handlers, b \in Browsers : \E l \in LinksOf[b] : BeginCheckout(h, b, l)
         \/ \E h \in Handlers :
              InsertPayment(h) \/ (NumberPayment(h) /\ payments' = SetInvId(checkout[h].id))
                \/ RespondCheckout(h)
         \/ Restart
<1>1. StoreTypeOK
  BY DEF IInv, OrdersTypeOK
<1>2. ASSUME UNCHANGED <<storeVars, checkout>> PROVE QuietRows
  BY <1>2 DEF QuietRows, storeVars
<1>3. ASSUME NEW b \in Browsers, NEW inv \in Ids,
             OrderPage(b, inv) \/ FailURL(b, inv) \/ CancelOrder(b, inv)
      PROVE  QuietRows
  <2>1. CASE OrderPage(b, inv)
    BY <1>2, <2>1 DEF OrderPage
  <2>2. CASE FailURL(b, inv) \/ CancelOrder(b, inv)
    BY <1>1, <2>2, FailedQuiet DEF FailURL, CancelOrder, MarkFailed, CancelPending, Faulty
  <2> QED
    BY <1>3, <2>1, <2>2
<1>4. CASE CleanupExpired
  BY <1>1, <1>4, FailedQuiet DEF CleanupExpired, CleanupExpiredPending, Faulty, orderVars
<1>5. ASSUME NEW inv \in Ids, Pay(inv) \/ Result(inv)
      PROVE  QuietRows
  <2>1. CASE Pay(inv)
    BY <1>2, <2>1 DEF Pay, Charge, orderVars
  <2>2. CASE Result(inv) /\ ResultMarksPaid(inv)
    BY <1>1, <2>2, PaidQuiet DEF Result, ResultMarksPaid, orderVars
  <2>3. CASE Result(inv) /\ (ResultMarkPaidError(inv) \/ ResultAnswers(inv))
    BY <1>2, <2>3 DEF Result, ResultMarkPaidError, ResultAnswers, Faulty, orderVars, storeVars
  <2> QED
    BY <1>5, <2>1, <2>2, <2>3 DEF Result, ResultURL
<1>6. CASE TimePasses
  BY <1>1, <1>6, AgedQuiet DEF TimePasses
<1>7. CASE UNCHANGED vars
  BY <1>2, <1>7 DEF vars, orderVars
<1>8. ASSUME NEW h \in Handlers, CheckoutStep(h)
      PROVE  \/ InsertPayment(h)
             \/ NumberPayment(h) /\ payments' = SetInvId(checkout[h].id)
             \/ RespondCheckout(h)
  BY <1>8 DEF CheckoutStep, InsertFails, NumberPayment, Faulty
<1> QED
  BY <1>3, <1>4, <1>5, <1>6, <1>7, <1>8 DEF OrdersNext

\* One Checkout moves, the others stay where they are.
LEMMA OneMoves ==
  ASSUME IInv, NEW h \in Handlers, NEW r, checkout' = [checkout EXCEPT ![h] = r]
  PROVE  checkout'[h] = r /\ \A g \in Handlers \ {h} : checkout'[g] = checkout[g]
BY DEF IInv, OrdersTypeOK

\* A Checkout begins with the order FindPending returned, or without one.
LEMMA Begins ==
  ASSUME ~DbFaults, NEW h \in Handlers, NEW b \in Browsers, NEW l \in LinksOf[b],
         BeginCheckout(h, b, l)
  PROVE  \E r : /\ checkout' = [checkout EXCEPT ![h] = r]
                /\ \/ r.pc = "respond"
                   \/ r.pc = "insert" /\ r.id = 0 /\ r.link = l /\ FindPending(KeyOf[l]) = {}
<1> DEFINE found(i) == [pc |-> "respond", browser |-> b, link |-> l, id |-> i]
           none == [pc |-> "insert", browser |-> b, link |-> l, id |-> 0]
<1>1. \/ \E i \in FindPending(KeyOf[l]) : checkout' = [checkout EXCEPT ![h] = found(i)]
      \/ FindPending(KeyOf[l]) = {} /\ checkout' = [checkout EXCEPT ![h] = none]
  BY DEF BeginCheckout
<1>2. \A i : found(i).pc = "respond"
  OBVIOUS
<1>3. none.pc = "insert" /\ none.id = 0 /\ none.link = l
  OBVIOUS
<1> HIDE DEF found, none
<1> QED
  BY <1>1, <1>2, <1>3

-----------------------------------------------------------------------------
(* Every row without number is numbered by one Checkout *)

\* NumberedByOne as an invariant on its own: the Checkout at its UPDATE and the row
\* without number belong to each other.
Numbering ==
  /\ \A h \in Handlers : checkout[h].pc = "setInvId" => payments[checkout[h].id].invId = NULL
  /\ \A g, h \in Handlers :
       /\ checkout[g].pc = "setInvId" /\ checkout[h].pc = "setInvId"
       /\ checkout[g].id = checkout[h].id
       => g = h
  /\ \A i \in 1..lastId : payments[i].invId = NULL =>
       \E h \in Handlers : checkout[h].pc = "setInvId" /\ checkout[h].id = i
  /\ \A h \in Handlers : checkout[h].pc = "insert" => checkout[h].id = 0

\* Where a Checkout with a row stands.
LEMMA NumberingMeans ==
  ASSUME IInv, Numbering
  PROVE  NumberedByOne
<1>1. DOMAIN payments = 1..lastId
  BY DEF IInv, OrdersTypeOK, StoreTypeOK
<1>2. SUFFICES ASSUME NEW i \in 1..lastId
      PROVE  IF \E h \in Handlers : checkout[h].pc = "setInvId" /\ checkout[h].id = i
               THEN /\ payments[i].invId = NULL
                    /\ \A h1, h2 \in Handlers :
                         checkout[h1] # Idle /\ checkout[h2] # Idle
                           /\ checkout[h1].id = i /\ checkout[h2].id = i => h1 = h2
               ELSE payments[i].invId = i
  BY <1>1 DEF NumberedByOne
<1>3. i # 0 /\ i # NULL
  BY StoreAssumption DEF IInv, OrdersTypeOK, StoreTypeOK, NULL
<1>4. CASE \E h \in Handlers : checkout[h].pc = "setInvId" /\ checkout[h].id = i
  <2>1. payments[i].invId = NULL
    BY <1>4 DEF Numbering
  <2>2. ASSUME NEW g \in Handlers, checkout[g] # Idle, checkout[g].id = i
        PROVE  checkout[g].pc = "setInvId"
    <3>1. checkout[g].pc \in {"insert", "setInvId", "respond"}
      BY <2>2, BusyIsRequest DEF IInv, Request
    <3>2. checkout[g].pc # "insert"
      BY <1>3, <2>2 DEF Numbering
    <3>3. checkout[g].pc # "respond"
      BY <1>3, <2>1, <2>2 DEF IInv, RequestsOwnRows, RequestOwnsRow
    <3> QED
      BY <3>1, <3>2, <3>3
  <2> QED
    BY <1>4, <2>1, <2>2 DEF Numbering
<1>5. CASE ~\E h \in Handlers : checkout[h].pc = "setInvId" /\ checkout[h].id = i
  BY <1>5 DEF Numbering, IInv, NumberIsId
<1> QED
  BY <1>4, <1>5

\* A quiet step numbers nothing and needs no number.
LEMMA QuietKeepsNumbering ==
  ASSUME IInv, Numbering, QuietRows
  PROVE  Numbering'
<1>1. \A h \in Handlers : checkout[h].pc = "setInvId" => checkout[h].id \in 1..lastId
  BY RequestAt DEF RequestOwnsRow
<1> QED
  BY <1>1 DEF QuietRows, Numbering

\* Every step keeps rows and Checkouts paired.
LEMMA NumberingStep ==
  ASSUME ~DbFaults, ~Crashes, IInv, Numbering, [OrdersNext]_vars
  PROVE  Numbering'
<1>1. lastId \in Nat
  BY DEF IInv, OrdersTypeOK, StoreTypeOK
<1>2. \A h \in Handlers : checkout[h].pc = "setInvId" => checkout[h].id \in 1..lastId
  BY RequestAt DEF RequestOwnsRow
<1>3. CASE QuietRows
  BY <1>3, QuietKeepsNumbering
<1>4. ASSUME NEW h \in Handlers, NEW b \in Browsers, NEW l \in LinksOf[b], BeginCheckout(h, b, l)
      PROVE  Numbering'
  <2>1. payments' = payments /\ lastId' = lastId
    BY <1>4 DEF BeginCheckout, storeVars
  <2>2. PICK r : /\ checkout' = [checkout EXCEPT ![h] = r]
                 /\ r.pc = "respond" \/ (r.pc = "insert" /\ r.id = 0)
    BY <1>4, Begins
  <2>3. checkout[h].pc # "setInvId"
    BY <1>4, IdleHasNoStep DEF BeginCheckout
  <2>4. checkout'[h] = r /\ \A g \in Handlers \ {h} : checkout'[g] = checkout[g]
    BY <2>2, OneMoves
  <2> QED
    BY <2>1, <2>2, <2>3, <2>4 DEF Numbering
<1>5. ASSUME NEW h \in Handlers, InsertPayment(h)
      PROVE  Numbering'
  <2> DEFINE r == [checkout[h] EXCEPT !.pc = "setInvId", !.id = lastId + 1]
  <2>1. checkout[h] \in Request /\ checkout[h].pc = "insert"
    BY <1>5, RequestAt DEF InsertPayment
  <2>2. r.pc = "setInvId" /\ r.id = lastId + 1
    BY <2>1 DEF Request
  <2>3. checkout' = [checkout EXCEPT ![h] = r] /\ lastId' = lastId + 1
    BY <1>5 DEF InsertPayment
  <2> HIDE DEF r
  <2>4. checkout'[h] = r /\ \A g \in Handlers \ {h} : checkout'[g] = checkout[g]
    BY <2>3, OneMoves
  <2>5. checkout[h].link \in Links /\ StoreTypeOK /\ lastId < MaxId
    BY <1>5, <2>1 DEF Request, InsertPayment, IInv, OrdersTypeOK
  <2>6. /\ \A i \in 1..lastId : payments'[i] = payments[i]
        /\ payments'[lastId + 1].invId = NULL
    <3>1. /\ \A i \in 1..lastId : payments'[i] = payments[i]
          /\ payments'[lastId + 1] = NewRow(checkout[h].link)
      BY <1>5, <2>5, InsertRows DEF InsertPayment
    <3>2. NewRow(checkout[h].link).invId = NULL
      BY DEF NewRow
    <3> QED
      BY <3>1, <3>2
  <2>7. \A i \in 1..lastId' : i \in 1..lastId \/ i = lastId + 1
    BY <1>1, <2>3
  <2>8. lastId + 1 \notin 1..lastId
    BY <1>1
  <2> QED
    BY <1>2, <2>1, <2>2, <2>4, <2>6, <2>7, <2>8 DEF Numbering
<1>6. ASSUME NEW h \in Handlers, NumberPayment(h), payments' = SetInvId(checkout[h].id)
      PROVE  Numbering'
  <2> DEFINE id == checkout[h].id
  <2>1. checkout[h] \in Request /\ checkout[h].pc = "setInvId" /\ id \in 1..lastId
    BY <1>2, <1>6, RequestAt DEF NumberPayment
  <2>2. PICK r : checkout' = [checkout EXCEPT ![h] = r] /\ r.pc \in {"respond", "idle"}
    <3>1. [checkout[h] EXCEPT !.pc = "respond"].pc = "respond"
      BY <2>1 DEF Request
    <3> QED
      BY <1>6, <3>1, IdleHasNoStep DEF NumberPayment
  <2>3. checkout'[h] = r /\ \A g \in Handlers \ {h} : checkout'[g] = checkout[g]
    BY <2>2, OneMoves
  <2>4. lastId' = lastId /\ StoreTypeOK
    BY <1>6 DEF NumberPayment, IInv, OrdersTypeOK
  <2>5. \A i \in 1..lastId : payments'[i].invId = IF i = id THEN id ELSE payments[i].invId
    BY <1>6, <2>1, <2>4, SetInvIdRows
  <2>6. id # NULL
    BY <1>1, <2>1 DEF NULL
  <2>7. \A g \in Handlers \ {h} : checkout[g].pc = "setInvId" => checkout[g].id # id
    BY <2>1 DEF Numbering
  <2> HIDE DEF id
  <2>8. \A g \in Handlers : checkout'[g].pc = "setInvId" =>
          /\ g # h /\ checkout'[g] = checkout[g]
          /\ payments'[checkout'[g].id].invId = NULL
    BY <1>2, <2>2, <2>3, <2>5, <2>7 DEF Numbering
  <2>9. \A i \in 1..lastId : payments'[i].invId = NULL =>
          \E g \in Handlers : checkout'[g].pc = "setInvId" /\ checkout'[g].id = i
    <3>1. SUFFICES ASSUME NEW i \in 1..lastId, payments'[i].invId = NULL
                   PROVE  \E g \in Handlers : checkout'[g].pc = "setInvId" /\ checkout'[g].id = i
      OBVIOUS
    <3>2. i # id /\ payments[i].invId = NULL
      BY <2>5, <2>6, <3>1
    <3>3. PICK g \in Handlers : checkout[g].pc = "setInvId" /\ checkout[g].id = i
      BY <3>2 DEF Numbering
    <3>4. g # h
      BY <3>2, <3>3 DEF id
    <3> QED
      BY <2>3, <3>3, <3>4
  <2>10. \A g \in Handlers : checkout'[g].pc = "insert" => checkout'[g].id = 0
    BY <2>2, <2>3 DEF Numbering
  <2> QED
    BY <2>4, <2>8, <2>9, <2>10 DEF Numbering
<1>7. ASSUME NEW h \in Handlers, RespondCheckout(h)
      PROVE  Numbering'
  <2>1. /\ payments' = payments /\ lastId' = lastId
        /\ checkout[h].pc = "respond"
        /\ checkout' = [checkout EXCEPT ![h] = Idle]
    BY <1>7 DEF RespondCheckout, storeVars
  <2>2. checkout'[h] = Idle /\ \A g \in Handlers \ {h} : checkout'[g] = checkout[g]
    BY <2>1, OneMoves
  <2> QED
    BY <2>1, <2>2, IdleHasNoStep DEF Numbering
<1>8. ~Restart
  BY DEF Restart
<1> QED
  BY <1>3, <1>4, <1>5, <1>6, <1>7, <1>8, QuietSteps

\* Nothing is there to be numbered at first.
LEMMA InitNumbering ==
  ASSUME OrdersInit
  PROVE  Numbering
<1>1. lastId = 0 /\ \A h \in Handlers : checkout[h].pc = "idle"
  BY IdleHasNoStep DEF OrdersInit, StoreInit
<1>2. 1..lastId = {}
  BY <1>1
<1> QED
  BY <1>1, <1>2 DEF Numbering

\* Without failing statements and crashes, a row without number has exactly one
\* Checkout that will number it, however many Checkouts overlap (Create).
THEOREM NumberingSafe ==
  ASSUME ~DbFaults, ~Crashes
  PROVE  OrdersSpec => []NumberedByOne
<1>1. OrdersInit => Numbering
  BY InitNumbering
<1>2. IInv /\ Numbering /\ [OrdersNext]_vars => Numbering'
  BY NumberingStep
<1>3. IInv /\ Numbering => NumberedByOne
  BY NumberingMeans
<1> QED
  BY <1>1, <1>2, <1>3, IInvHolds, PTL DEF OrdersSpec

-----------------------------------------------------------------------------
(* Two orders of one key *)

SameKey(i, j) == KeyOf[payments[i].link] = KeyOf[payments[j].link]

\* What is pending and newer than an order of its key that can be paid, numbered or
\* not yet, is PendingTTL younger; a Checkout about to create an order has only
\* orders before it that have left FindPending's 30 minutes, and its row is the last.
Apart ==
  /\ \A i, j \in 1..lastId :
       i < j /\ Payable(i) /\ payments[j].status = "pending" /\ SameKey(i, j) => FarBefore(i, j)
  /\ \A h \in Handlers : checkout[h].pc = "insert" =>
       \A i \in 1..lastId :
         Payable(i) /\ KeyOf[payments[i].link] = KeyOf[checkout[h].link] => payments[i].age >= PendingTTL
  /\ \A h \in Handlers : checkout[h].pc = "setInvId" => checkout[h].id = lastId

\* Payable orders are pending.
LEMMA ApartMeans ==
  ASSUME IInv, Apart
  PROVE  NoEarlyDuplicate
<1>1. DOMAIN payments = 1..lastId
  BY DEF IInv, OrdersTypeOK, StoreTypeOK
<1> QED
  BY <1>1 DEF NoEarlyDuplicate, Apart, Payable, SameKey

\* Ages are numbers up to AgeCap.
LEMMA AgesAreNumbers ==
  ASSUME IInv
  PROVE  /\ lastId \in Nat /\ PendingTTL \in Nat /\ AgeCap \in Nat /\ PendingTTL < AgeCap
         /\ \A i \in 1..lastId : payments[i].age \in 0..AgeCap
BY StoreAssumption DEF IInv, OrdersTypeOK, StoreTypeOK, Row, Age

\* When FindPending returns nothing, also because the newest order of the key has
\* no number, every order that can be paid has left the 30 minutes.
LEMMA NothingFound ==
  ASSUME IInv, Apart, NEW key, FindPending(key) = {},
         NEW i \in 1..lastId, Payable(i), KeyOf[payments[i].link] = key
  PROVE  payments[i].age >= PendingTTL
<1>1. SUFFICES ASSUME payments[i].age < PendingTTL PROVE FALSE
  BY AgesAreNumbers
<1>2. DOMAIN payments = 1..lastId
  BY DEF IInv, OrdersTypeOK, StoreTypeOK
<1>3. i \in FreshPending(key)
  BY <1>1, <1>2 DEF FreshPending, Payable
<1>4. PICK j \in FreshPending(key) : ~(j <= i)
  BY <1>3 DEF FindPending, Payable
<1>5. /\ j \in 1..lastId /\ i < j /\ SameKey(i, j)
      /\ payments[j].status = "pending"
  BY <1>2, <1>4, AgesAreNumbers DEF FreshPending, SameKey
<1>6. FarBefore(i, j)
  BY <1>5 DEF Apart
<1> QED
  BY <1>1, <1>5, <1>6, AgesAreNumbers DEF FarBefore

\* A quiet step makes nothing payable and keeps the distance of ages.
LEMMA QuietKeepsApart ==
  ASSUME IInv, Apart, QuietRows
  PROVE  Apart'
<1>1. \A i \in 1..lastId : /\ Payable(i)' => Payable(i)
                           /\ payments'[i].status = "pending" => payments[i].status = "pending"
                           /\ payments'[i].link = payments[i].link
  BY DEF QuietRows, Payable
<1>2. \A i, j \in 1..lastId : SameKey(i, j)' <=> SameKey(i, j)
  BY <1>1 DEF SameKey
<1>3. \A i \in 1..lastId : payments[i].age >= PendingTTL => payments'[i].age >= PendingTTL
  BY AgesAreNumbers DEF QuietRows, Older, NULL
<1>4. \A i, j \in 1..lastId : FarBefore(i, j) => FarBefore(i, j)'
  <2>1. CASE \A i \in 1..lastId : payments'[i].age = payments[i].age
    BY <2>1 DEF FarBefore
  <2>2. CASE \A i \in 1..lastId : payments'[i].age = Older(payments[i].age)
    BY <2>2, AgesAreNumbers DEF FarBefore, Older, NULL
  <2> QED
    BY <2>1, <2>2 DEF QuietRows
<1>5. lastId' = lastId /\ checkout' = checkout
  BY DEF QuietRows
<1> QED
  BY <1>1, <1>2, <1>3, <1>4, <1>5 DEF Apart

\* Every step of Checkouts that follow each other keeps orders of one key apart.
LEMMA ApartStep ==
  ASSUME ~DbFaults, \A g, h \in Handlers : g = h, IInv, Apart, [OrdersNext]_vars
  PROVE  Apart'
<1>1. lastId \in Nat /\ StoreTypeOK
  BY DEF IInv, OrdersTypeOK, StoreTypeOK
<1>2. CASE QuietRows
  BY <1>2, QuietKeepsApart
<1>3. ASSUME payments' = payments, lastId' = lastId,
             \A h \in Handlers :
               /\ checkout'[h].pc = "insert" =>
                    \A i \in 1..lastId :
                      Payable(i) /\ KeyOf[payments[i].link] = KeyOf[checkout'[h].link]
                        => payments[i].age >= PendingTTL
               /\ checkout'[h].pc = "setInvId" => checkout'[h].id = lastId
      PROVE  Apart'
  BY <1>3 DEF Apart, Payable, FarBefore, SameKey
<1>4. ASSUME NEW h \in Handlers, NEW b \in Browsers, NEW l \in LinksOf[b], BeginCheckout(h, b, l)
      PROVE  Apart'
  <2>1. payments' = payments /\ lastId' = lastId
    BY <1>4 DEF BeginCheckout, storeVars
  <2>2. PICK r : /\ checkout' = [checkout EXCEPT ![h] = r]
                 /\ \/ r.pc = "respond"
                    \/ r.pc = "insert" /\ r.link = l /\ FindPending(KeyOf[l]) = {}
    BY <1>4, Begins
  <2>3. \A g \in Handlers : checkout'[g] = r
    BY <2>2, OneMoves
  <2> QED
    BY <1>3, <2>1, <2>2, <2>3, NothingFound
<1>5. ASSUME NEW h \in Handlers, InsertPayment(h)
      PROVE  Apart'
  <2> DEFINE r == [checkout[h] EXCEPT !.pc = "setInvId", !.id = lastId + 1]
  <2>1. checkout[h] \in Request /\ checkout[h].pc = "insert"
    BY <1>5, RequestAt DEF InsertPayment
  <2>2. r.pc = "setInvId" /\ r.id = lastId + 1
    BY <2>1 DEF Request
  <2>3. checkout' = [checkout EXCEPT ![h] = r] /\ lastId' = lastId + 1
    BY <1>5 DEF InsertPayment
  <2> HIDE DEF r
  <2>4. \A g \in Handlers : checkout'[g] = r
    BY <2>3, OneMoves
  <2>5. checkout[h].link \in Links /\ lastId < MaxId
    BY <1>5, <2>1 DEF Request, InsertPayment
  <2>6. /\ \A i \in 1..lastId : payments'[i] = payments[i]
        /\ payments'[lastId + 1] = NewRow(checkout[h].link)
    BY <1>1, <1>5, <2>5, InsertRows DEF InsertPayment
  <2>7. /\ payments'[lastId + 1].invId = NULL
        /\ payments'[lastId + 1].link = checkout[h].link
        /\ payments'[lastId + 1].age = 0
    BY <2>6 DEF NewRow
  <2>8. ASSUME NEW i \in 1..lastId', NEW j \in 1..lastId', i < j, Payable(i)',
               payments'[j].status = "pending", SameKey(i, j)'
        PROVE  FarBefore(i, j)'
    <3>1. i \in 1..lastId /\ payments'[i] = payments[i] /\ Payable(i)
      BY <1>1, <2>3, <2>6, <2>8 DEF Payable
    <3>2. CASE j \in 1..lastId
      <4>1. payments'[j] = payments[j]
        BY <2>6, <3>2
      <4>2. FarBefore(i, j)
        BY <2>8, <3>1, <3>2, <4>1 DEF Apart, SameKey
      <4> QED
        BY <3>1, <4>1, <4>2 DEF FarBefore
    <3>3. CASE j = lastId + 1
      <4>1. payments[i].age >= PendingTTL
        BY <2>1, <2>7, <2>8, <3>1, <3>3 DEF Apart, SameKey
      <4> QED
        BY <2>7, <3>1, <3>3, <4>1, AgesAreNumbers DEF FarBefore
    <3> QED
      BY <1>1, <2>3, <3>2, <3>3
  <2> QED
    BY <2>2, <2>3, <2>4, <2>8 DEF Apart
<1>6. ASSUME NEW h \in Handlers, NumberPayment(h), payments' = SetInvId(checkout[h].id)
      PROVE  Apart'
  <2> DEFINE id == checkout[h].id
  <2>1. /\ checkout[h] \in Request /\ checkout[h].pc = "setInvId"
        /\ id \in 1..lastId /\ id = lastId /\ lastId' = lastId
    BY <1>6, RequestAt DEF NumberPayment, RequestOwnsRow, Apart
  <2>2. PICK r : checkout' = [checkout EXCEPT ![h] = r] /\ r.pc \in {"respond", "idle"}
    <3>1. [checkout[h] EXCEPT !.pc = "respond"].pc = "respond"
      BY <2>1 DEF Request
    <3> QED
      BY <1>6, <3>1, IdleHasNoStep DEF NumberPayment
  <2>3. \A g \in Handlers : checkout'[g] = r
    BY <2>2, OneMoves
  <2> HIDE DEF id
  <2>4. \A i \in 1..lastId : /\ payments[i] \in Row
                             /\ payments'[i] = IF i = id THEN [payments[i] EXCEPT !.invId = id]
                                                         ELSE payments[i]
    BY <1>1, <1>6, <2>1 DEF SetInvId, StoreTypeOK, id
  <2>5. \A i \in 1..lastId : /\ payments'[i].status = payments[i].status
                             /\ payments'[i].age = payments[i].age
                             /\ payments'[i].link = payments[i].link
                             /\ i # id => payments'[i] = payments[i]
    BY <2>4 DEF Row
  <2>6. \A i, j \in 1..lastId : /\ SameKey(i, j)' <=> SameKey(i, j)
                                /\ FarBefore(i, j)' <=> FarBefore(i, j)
    BY <2>5 DEF SameKey, FarBefore
  <2>7. \A i, j \in 1..lastId : i < j => i # id
    BY <1>1, <2>1
  <2>8. \A i, j \in 1..lastId : i < j /\ Payable(i)' => Payable(i)
    BY <2>5, <2>7 DEF Payable
  <2> QED
    BY <2>1, <2>2, <2>3, <2>5, <2>6, <2>8 DEF Apart
<1>7. ASSUME NEW h \in Handlers, RespondCheckout(h)
      PROVE  Apart'
  <2>1. /\ payments' = payments /\ lastId' = lastId
        /\ checkout' = [checkout EXCEPT ![h] = Idle]
    BY <1>7 DEF RespondCheckout, storeVars
  <2>2. \A g \in Handlers : checkout'[g] = Idle
    BY <2>1, OneMoves
  <2> QED
    BY <1>3, <2>1, <2>2, IdleHasNoStep
<1>8. CASE Restart
  <2>1. payments' = payments /\ lastId' = lastId /\ \A g \in Handlers : checkout'[g] = Idle
    BY <1>8 DEF Restart, LoseHandlers, storeVars
  <2> QED
    BY <1>3, <2>1, IdleHasNoStep
<1> QED
  BY <1>2, <1>4, <1>5, <1>6, <1>7, <1>8, QuietSteps

\* Nothing is there to be paid at first.
LEMMA InitApart ==
  ASSUME OrdersInit
  PROVE  Apart
<1>1. lastId = 0 /\ \A h \in Handlers : checkout[h].pc = "idle"
  BY IdleHasNoStep DEF OrdersInit, StoreInit
<1>2. 1..lastId = {}
  BY <1>1
<1> QED
  BY <1>1, <1>2 DEF Apart

\* Without failing statements, Checkouts that do not overlap place a second order of
\* a key, while the first can still be paid, only after the first's 30 minutes,
\* crashes between INSERT and UPDATE included (FindPending, Create).
THEOREM OrdersApart ==
  ASSUME ~DbFaults, \A g, h \in Handlers : g = h
  PROVE  OrdersSpec => []NoEarlyDuplicate
<1>1. OrdersInit => Apart
  BY InitApart
<1>2. IInv /\ Apart /\ [OrdersNext]_vars => Apart'
  BY ApartStep
<1>3. IInv /\ Apart => NoEarlyDuplicate
  BY ApartMeans
<1> QED
  BY <1>1, <1>2, <1>3, IInvHolds, PTL DEF OrdersSpec
=============================================================================
