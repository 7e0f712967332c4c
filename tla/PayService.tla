----------------------------- MODULE PayService -----------------------------
(***************************************************************************)
(* The whole service over one table: the handlers of the browser (module   *)
(* Orders), Robokassa's callback (module Robokassa) and the three senders  *)
(* of webhooks with the reconciler (module Webhooks), as main wires them   *)
(* up (cmd/server/main.go).  A step is a step of one of them, with three   *)
(* they take together: the callback, the clock and the death of the        *)
(* process.  The clean-up of Orders is the end of the reconciler's tick.   *)
(***************************************************************************)
EXTENDS Orders

CONSTANTS
  Attempts, RetryAfter, MaxAge, BatchLimit, Rec, Admins,   \* of Webhooks
  MaxCrashes     \* bound on the number of crashes

ASSUME ServiceAssumption == Attempts \in Nat \ {0} /\ MaxCrashes \in Nat

VARIABLES
  send, batch, ticking, up, received,                      \* of Webhooks
  crashes        \* how often the process has died

W == INSTANCE Webhooks

webhookVars == <<send, batch, ticking, up, received>>
serviceVars == <<vars, webhookVars, crashes>>

\* The service starts with an empty table.
ServiceInit ==
  /\ OrdersInit
  /\ send = [s \in W!Senders |-> W!NotSending]
  /\ batch = {}
  /\ ticking = FALSE
  /\ up = W!Callbacks
  /\ received = {}
  /\ crashes = 0

-----------------------------------------------------------------------------
(* Steps of one part *)

Checkout(h) ==
  /\ \/ \E b \in Browsers : \E l \in LinksOf[b] : BeginCheckout(h, b, l)
     \/ CheckoutStep(h)
  /\ UNCHANGED <<webhookVars, crashes>>

Browse(b, inv) ==
  /\ OrderPage(b, inv) \/ FailURL(b, inv) \/ CancelOrder(b, inv)
  /\ UNCHANGED <<webhookVars, crashes>>

PayOnline(inv) == Pay(inv) /\ UNCHANGED <<webhookVars, crashes>>

Send(s) == W!Step(s) /\ UNCHANGED <<orderVars, crashes>>

SendWebhook(inv) == W!SendWebhook(inv) /\ UNCHANGED <<orderVars, crashes>>

RetryWebhook(a, inv) == W!RetryWebhook(a, inv) /\ UNCHANGED <<orderVars, crashes>>

Reconcile == W!Reconcile /\ UNCHANGED <<orderVars, crashes>>

PanelChanges(c) == W!PanelChanges(c) /\ UNCHANGED <<orderVars, crashes>>

(* Steps the parts take together *)

Answer(inv) == Result(inv) /\ UNCHANGED <<webhookVars, crashes>>

Later == TimePasses /\ UNCHANGED <<webhookVars, crashes>>

Reboot ==
  /\ crashes < MaxCrashes
  /\ crashes' = crashes + 1
  /\ Restart
  /\ W!Restart

ServiceNext ==
  \/ \E h \in Handlers : Checkout(h)
  \/ \E b \in Browsers, inv \in Ids : Browse(b, inv)
  \/ \E inv \in Ids : PayOnline(inv) \/ Answer(inv) \/ SendWebhook(inv)
  \/ \E s \in W!Senders : Send(s)
  \/ \E a \in Admins, inv \in Ids : RetryWebhook(a, inv)
  \/ Reconcile
  \/ \E c \in W!Callbacks : PanelChanges(c)
  \/ Later
  \/ Reboot

ServiceSpec == ServiceInit /\ [][ServiceNext]_serviceVars

\* What runs goes on, the reconciler ticks, Robokassa repeats its results, time
\* passes.  Nothing is assumed of browsers, admins or the panel.
ServiceFairness ==
  /\ \A inv \in Ids : WF_serviceVars(Answer(inv)) /\ WF_serviceVars(SendWebhook(inv))
  /\ \A s \in W!Senders : WF_serviceVars(Send(s))
  /\ WF_serviceVars(Reconcile)
  /\ WF_serviceVars(Later)

FairServiceSpec == ServiceSpec /\ ServiceFairness

-----------------------------------------------------------------------------
(* What the service as a whole promises *)

\* Handlers, callback, senders, reconciler and crashes together do no more to the
\* orders than the ledger allows (every handler, Send's marks, tick).
ServiceKeepsLedger == KeepsLedger

Promise == INSTANCE Outbox WITH Orders <- Ids, due <- W!Due, recorded <- W!Delivered

\* The senders keep the outbox's promise next to Checkouts, cookies and clean-ups
\* too: only due orders are announced, only announced orders are recorded (Send,
\* sendWebhook, retryPendingWebhooks, RetryWebhook).
ServiceKeepsPromise == Promise!OutboxSpec

\* The panel is told to activate only what the customer's money was collected
\* for, in an order that stays paid: no cancellation, clean-up, reused order or
\* repeated result gets in between Checkout and the webhook (Checkout, ResultURL,
\* retryPendingWebhooks, RetryWebhook).
AnnouncedIsPaidFor == received \subseteq charged \cap Paid

\* No order stays pending, also one that a crash left without its number, although
\* the clean-up has to wait for the reconciler's sends (tick).
ServiceSettlesOrders == PendingSettles

\* Robokassa gets its answer for every payment (ResultURL).
ServiceAnswersCharges == ChargeIsAnswered

\* From the money to the service: a customer whose payment was collected gets the
\* order announced to its panel and recorded, once the panel can be reached from some
\* time on, unless the order had been given up before the result came, and whatever
\* died in between (ResultURL to MarkWebhookDelivered).
ChargedIsServed ==
  \A i \in Ids, c \in W!Callbacks :
    <>[](c \in up) =>
      (i \in charged /\ CallbackOf[payments[i].link] = c
         ~> i \in W!Delivered \/ OrderStatus[i] = "failed")
=============================================================================
