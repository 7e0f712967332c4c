------------------------------- MODULE Orders -------------------------------
(***************************************************************************)
(* The life of an order: the HTTP handlers of internal/handlers/payment.go *)
(* that the customer's browser reaches, Robokassa's callback (module       *)
(* Robokassa), the reconciler's clean-up of abandoned orders, and the      *)
(* death and restart of the process.                                       *)
(*                                                                         *)
(* Checkout is the only browser handler of several steps: it reads with    *)
(* FindPending, inserts, numbers the row, and answers with a cookie, and   *)
(* every other handler can run in between.  FailURL and CancelOrder read   *)
(* the row first, but of what they read they use only columns that never   *)
(* change, so each is one step.                                            *)
(***************************************************************************)
EXTENDS Robokassa

CONSTANTS
  Browsers,
  LinksOf,       \* [Browsers -> SUBSET Links]: the links the panel signs for a browser
  Handlers,      \* the Checkout requests that can be in progress at a time
  CookieTTL,     \* orderAccessTTL, 1 hour
  Crashes        \* may the process die?

ASSUME OrdersAssumption ==
  /\ LinksOf \in [Browsers -> SUBSET Links]
  /\ CookieTTL \in Nat
  /\ Crashes \in BOOLEAN

VARIABLES
  checkout,      \* the Checkout requests in progress
  cookieLeft,    \* [Browsers -> [Ids -> time left of the cookie pay_token_<inv>]]
  payUrl,        \* the InvIds whose Robokassa link an order page has shown
  told           \* the InvIds the customer was told to be failed or cancelled

orderVars == <<checkout, cookieLeft, payUrl, told>>
vars == <<storeVars, robokassaVars, orderVars>>

Idle == [pc |-> "idle"]

\* id: 0 until the row is inserted or found.
Request == [pc : {"insert", "setInvId", "respond"}, browser : Browsers,
            link : Links, id : 0..MaxId]

OrdersTypeOK ==
  /\ StoreTypeOK
  /\ RobokassaTypeOK
  /\ checkout \in [Handlers -> Request \cup {Idle}]
  /\ cookieLeft \in [Browsers -> [Ids -> 0..CookieTTL]]
  /\ payUrl \subseteq 1..lastId
  /\ told \subseteq 1..lastId

OrdersInit ==
  /\ StoreInit
  /\ RobokassaInit
  /\ checkout = [h \in Handlers |-> Idle]
  /\ cookieLeft = [b \in Browsers |-> [i \in Ids |-> 0]]
  /\ payUrl = {}
  /\ told = {}

\* checkOrderAccess: the browser still has the cookie of the row inv.
Access(b, inv) == RowsOf(inv) # {} /\ cookieLeft[b][inv] > 0

-----------------------------------------------------------------------------
(* Checkout *)

\* Mutant of BeginCheckout: the order that FindPending found is not used.
BeginCheckoutAlwaysCreates(h, b, l) ==
  /\ checkout[h] = Idle
  /\ checkout' = [checkout EXCEPT ![h] =
       [pc |-> "insert", browser |-> b, link |-> l, id |-> 0]]
  /\ UNCHANGED <<storeVars, robokassaVars, cookieLeft, payUrl, told>>

\* The signed link is accepted and FindPending returns.  Its error is dropped:
\* an error, like no row, leads to Create.
BeginCheckout(h, b, l) ==
  /\ checkout[h] = Idle
  /\ \/ \E i \in FindPending(KeyOf[l]) :
          checkout' = [checkout EXCEPT ![h] =
            [pc |-> "respond", browser |-> b, link |-> l, id |-> i]]
     \/ /\ FindPending(KeyOf[l]) = {} \/ DbFaults
        /\ checkout' = [checkout EXCEPT ![h] =
             [pc |-> "insert", browser |-> b, link |-> l, id |-> 0]]
  /\ UNCHANGED <<storeVars, robokassaVars, cookieLeft, payUrl, told>>

\* Mutant of InsertPayment: the new row's id is read from the table before the
\* INSERT instead of from RETURNING.
InsertPaymentReadsLastId(h) ==
  /\ checkout[h].pc = "insert"
  /\ lastId < MaxId
  /\ payments' = Insert(checkout[h].link)
  /\ lastId' = lastId + 1
  /\ checkout' = [checkout EXCEPT ![h] = [@ EXCEPT !.pc = "setInvId", !.id = lastId]]
  /\ UNCHANGED <<robokassaVars, cookieLeft, payUrl, told>>

\* Create, the INSERT.
InsertPayment(h) ==
  /\ checkout[h].pc = "insert"
  /\ lastId < MaxId
  /\ payments' = Insert(checkout[h].link)
  /\ lastId' = lastId + 1
  /\ checkout' = [checkout EXCEPT ![h] = [@ EXCEPT !.pc = "setInvId", !.id = lastId + 1]]
  /\ UNCHANGED <<robokassaVars, cookieLeft, payUrl, told>>

\* The INSERT reports an error, after or before its commit: 500.
InsertFails(h) ==
  /\ DbFaults
  /\ checkout[h].pc = "insert"
  /\ checkout' = [checkout EXCEPT ![h] = Idle]
  /\ \/ /\ lastId < MaxId
        /\ payments' = Insert(checkout[h].link)
        /\ lastId' = lastId + 1
     \/ UNCHANGED storeVars
  /\ UNCHANGED <<robokassaVars, cookieLeft, payUrl, told>>

\* Create, the UPDATE that numbers the row; on an error the answer is 500.
NumberPayment(h) ==
  /\ checkout[h].pc = "setInvId"
  /\ \/ /\ payments' = SetInvId(checkout[h].id)
        /\ checkout' = [checkout EXCEPT ![h] = [@ EXCEPT !.pc = "respond"]]
     \/ /\ Faulty(SetInvId(checkout[h].id))
        /\ checkout' = [checkout EXCEPT ![h] = Idle]
  /\ UNCHANGED <<lastId, robokassaVars, cookieLeft, payUrl, told>>

SetOrderAccessCookie(b, inv) == cookieLeft' = [cookieLeft EXCEPT ![b][inv] = CookieTTL]

\* 303 to the order page with the cookie, which the browser may never get.
RespondCheckout(h) ==
  /\ checkout[h].pc = "respond"
  /\ \/ SetOrderAccessCookie(checkout[h].browser, checkout[h].id)
     \/ UNCHANGED cookieLeft
  /\ checkout' = [checkout EXCEPT ![h] = Idle]
  /\ UNCHANGED <<storeVars, robokassaVars, payUrl, told>>

-----------------------------------------------------------------------------
(* The other requests of the browser *)

\* OrderPage shows a pending order with its link to Robokassa.
OrderPage(b, inv) ==
  /\ Access(b, inv)
  /\ Pending(inv) # {}
  /\ payUrl' = payUrl \cup {inv}
  /\ UNCHANGED <<storeVars, robokassaVars, checkout, cookieLeft, told>>

\* The customer follows the link and pays; the order page may be long open.
Pay(inv) ==
  /\ inv \in payUrl
  /\ Charge(inv)
  /\ UNCHANGED orderVars

\* Mutant of FailURL: only the redirect.
FailURLOnlyRedirects(b, inv) ==
  /\ Access(b, inv)
  /\ told' = told \cup {inv}
  /\ UNCHANGED <<storeVars, robokassaVars, checkout, cookieLeft, payUrl>>

\* FailURL ignores the result of MarkFailed and reports payment=failed.
FailURL(b, inv) ==
  /\ Access(b, inv)
  /\ payments' = MarkFailed(inv) \/ Faulty(MarkFailed(inv))
  /\ told' = told \cup {inv}
  /\ UNCHANGED <<lastId, robokassaVars, checkout, cookieLeft, payUrl>>

\* CancelOrder reports payment=cancelled whether or not CancelPending found the
\* row pending.
CancelOrder(b, inv) ==
  /\ Access(b, inv)
  /\ payments' = CancelPending(inv) \/ Faulty(CancelPending(inv))
  /\ told' = told \cup {inv}
  /\ UNCHANGED <<lastId, robokassaVars, checkout, cookieLeft, payUrl>>

-----------------------------------------------------------------------------
(* The rest of the system *)

Result(inv) == ResultURL(inv) /\ UNCHANGED orderVars

\* reconciler.cleanupExpiredPending; an error is logged and the next tick tries again.
CleanupExpired ==
  /\ payments' = CleanupExpiredPending \/ Faulty(CleanupExpiredPending)
  /\ UNCHANGED <<lastId, robokassaVars, orderVars>>

TimePasses ==
  /\ payments' = AgedRows
  /\ cookieLeft' = [b \in Browsers |-> [i \in Ids |->
                     IF cookieLeft[b][i] = 0 THEN 0 ELSE cookieLeft[b][i] - 1]]
  /\ UNCHANGED <<lastId, robokassaVars, checkout, payUrl, told>>

\* The process dies and is started again; Migrate changes nothing.
Restart ==
  /\ Crashes
  /\ LoseHandlers
  /\ checkout' = [h \in Handlers |-> Idle]
  /\ UNCHANGED <<cookieLeft, payUrl, told>>

CheckoutStep(h) ==
  \/ InsertPayment(h)
  \/ InsertFails(h)
  \/ NumberPayment(h)
  \/ RespondCheckout(h)

OrdersNext ==
  \/ \E h \in Handlers, b \in Browsers : \E l \in LinksOf[b] : BeginCheckout(h, b, l)
  \/ \E h \in Handlers : CheckoutStep(h)
  \/ \E b \in Browsers, inv \in Ids :
       OrderPage(b, inv) \/ FailURL(b, inv) \/ CancelOrder(b, inv)
  \/ \E inv \in Ids : Pay(inv) \/ Result(inv)
  \/ CleanupExpired
  \/ TimePasses
  \/ Restart

OrdersSpec == OrdersInit /\ [][OrdersNext]_vars

-----------------------------------------------------------------------------
(* Safety, with every fault *)

Paid == {i \in DOMAIN payments : payments[i].status = "paid"}

\* An order is paid only if Robokassa collected the money for this very order,
\* whatever handlers, clean-ups and repeated results run in between (ResultURL).
PaidWasCharged == Paid \subseteq charged

\* A browser's cookie opens a numbered order, and one that was placed with the
\* same user_ref, plan_id and amount as a link the panel signed for this browser,
\* also when Checkout reuses an order of another request (Checkout, FindPending).
CookieOpensOwnOrder ==
  \A b \in Browsers, i \in Ids : cookieLeft[b][i] > 0 =>
    /\ RowsOf(i) = {i}
    /\ \E l \in LinksOf[b] : KeyOf[l] = KeyOf[payments[i].link]

\* A webhook is under way only for an order that is paid, still so when a
\* cancellation, a FailURL or a clean-up races the result (ResultURL).
JobsArePaid ==
  /\ settling \cup jobs \subseteq Paid
  /\ \A i \in jobs : CallbackOf[payments[i].link] # NoCallback

\* A step keeps every row, what it was placed for, its number and its final status.
HistoryStep ==
  \A i \in DOMAIN payments :
    /\ i \in DOMAIN payments'
    /\ payments'[i].link = payments[i].link
    /\ payments[i].invId # NULL => payments'[i].invId = payments[i].invId
    /\ payments[i].status # "pending" => payments'[i].status = payments[i].status

\* Once paid or failed an order stays so; a row is never lost, never re-priced,
\* and its number never changes (every UPDATE of models/payment.go).
HistoryKept == [][HistoryStep]_vars

OrderStatus == [i \in Ids |-> IF i \in DOMAIN payments THEN payments[i].status ELSE "none"]

Ledger == INSTANCE PaymentLedger WITH Orders <- Ids, order <- OrderStatus

\* The handlers, the reconciler and the crashes together do no more to the
\* orders than the ledger allows.
KeepsLedger == Ledger!LedgerSpec

-----------------------------------------------------------------------------
(* Safety while every statement tells the truth (DbFaults = FALSE) *)

PendingRows == {i \in DOMAIN payments : payments[i].status = "pending"}

\* When Robokassa has its OK the order is settled: no result is swallowed that
\* could still have made the order paid (ResultURL answers OK on an error).
AnsweredIsSettled == acked \cap PendingRows = {}

\* Whoever was told that the order is failed or cancelled cannot see it become
\* paid later (FailURL and CancelOrder ignore what the UPDATE did).
ToldIsSettled == told \cap PendingRows = {}

\* Between its INSERT and its UPDATE a row is in the hands of exactly one
\* Checkout; every other row has its own id for inv_id (Create).  Needs Crashes
\* = FALSE too.
NumberedByOne ==
  \A i \in DOMAIN payments :
    IF \E h \in Handlers : checkout[h].pc = "setInvId" /\ checkout[h].id = i
      THEN /\ payments[i].invId = NULL
           /\ \A h1, h2 \in Handlers :
                checkout[h1] # Idle /\ checkout[h2] # Idle
                  /\ checkout[h1].id = i /\ checkout[h2].id = i => h1 = h2
      ELSE payments[i].invId = i

\* An order OrderPage would show with a link to Robokassa, however old it is: the
\* 30 minutes end only what FindPending sees, until the clean-up has come.
Payable(i) == payments[i].status = "pending" /\ payments[i].invId # NULL

\* Row i was placed at least PendingTTL before row j, as far as ages are told apart.
FarBefore(i, j) ==
  payments[i].age = AgeCap \/ payments[i].age >= payments[j].age + PendingTTL

\* A second order of one key is placed, while the first can still be paid, only
\* when the first has left FindPending's 30 minutes: following the link again never
\* doubles an order sooner, also after a crash has left a row without number.  Two
\* orders that far apart can both be paid until the clean-up fails the older one.
\* True while Checkouts do not overlap.
NoEarlyDuplicate ==
  \A i, j \in DOMAIN payments :
    /\ i < j
    /\ Payable(i) /\ Payable(j)
    /\ KeyOf[payments[i].link] = KeyOf[payments[j].link]
    => FarBefore(i, j)

\* Reusing an order does not change what is bought: the order a browser gets for
\* a link carries that link's parameters.
ReuseHasSameParameters ==
  \A h \in Handlers : checkout[h].pc = "respond" =>
    payments[checkout[h].id].link = checkout[h].link

\* Robokassa's OK means that the customer's order is paid.
AnsweredIsPaid == acked \subseteq Paid

-----------------------------------------------------------------------------
(* Liveness, under the fairness of module PayService *)

\* No order stays pending: it is paid or the clean-up fails it, also a row that
\* a crash left without a number (CleanupExpiredPending).
PendingSettles ==
  \A i \in Ids : OrderStatus[i] = "pending" ~> OrderStatus[i] \in {"paid", "failed"}

\* Robokassa gets its answer for every payment it collected, also when the
\* process dies between MarkPaid and the answer, and the order is settled.
ChargeIsAnswered ==
  \A i \in Ids : i \in charged ~> i \in acked /\ OrderStatus[i] \in {"paid", "failed"}
=============================================================================
