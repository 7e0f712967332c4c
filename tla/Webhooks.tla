------------------------------ MODULE Webhooks ------------------------------
(***************************************************************************)
(* Delivery of the webhook of a paid order to its callback_url.  Three     *)
(* kinds of senders work on the same rows without knowing of each other:   *)
(* the goroutine sendWebhook that ResultURL starts, the reconciler, and    *)
(* the admin's RetryWebhook.  Each calls WebhookSender.Send, up to         *)
(* Attempts requests one after the other, and then marks the row.          *)
(*                                                                         *)
(* The orders are there from the start, pending and numbered, as Checkout  *)
(* leaves them; customers pay and give up as they like.  Module PayService *)
(* puts these senders next to the handlers of module Orders.               *)
(***************************************************************************)
EXTENDS Robokassa

CONSTANTS
  Attempts,      \* len(delays) in Send, 4
  RetryAfter,    \* reconciler.Config, 5 minutes
  MaxAge,        \* reconciler.Config, 7 days
  BatchLimit,    \* reconciler.Config, 50
  Rec,           \* the reconciler as a sender
  Admins,        \* the RetryWebhook requests that can be in progress at a time
  Crashes        \* may the process die?

ASSUME WebhooksAssumption ==
  /\ Attempts \in Nat \ {0}
  /\ RetryAfter \in Nat /\ RetryAfter < AgeCap
  /\ MaxAge \in Nat
  /\ BatchLimit \in Nat \ {0}
  /\ Crashes \in BOOLEAN

VARIABLES
  send,          \* [Senders -> the call of Send and the marking that follows it]
  batch,         \* the rows the reconciler's tick still has to send
  ticking,       \* is a tick in progress?
  up,            \* the callback addresses that answer 200
  received       \* the InvIds whose webhook reached the panel

sendVars == <<send, batch, ticking>>
panelVars == <<up, received>>
webhookVars == <<sendVars, panelVars>>
vars == <<storeVars, robokassaVars, webhookVars>>

\* The goroutine of order i is the sender i.
Senders == Ids \cup {Rec} \cup Admins

Callbacks == {CallbackOf[l] : l \in Links} \ {NoCallback}

NotSending == [pc |-> "idle"]

\* pc: requests are being made, or Send has returned nil or an error.
Sending == [pc : {"sending", "ok", "failed"}, inv : Ids, tries : 0..Attempts]

Call(inv) == [pc |-> "sending", inv |-> inv, tries |-> 0]

WebhooksTypeOK ==
  /\ StoreTypeOK
  /\ RobokassaTypeOK
  /\ send \in [Senders -> Sending \cup {NotSending}]
  /\ batch \subseteq Ids
  /\ ticking \in BOOLEAN
  /\ up \subseteq Callbacks
  /\ received \subseteq Ids

WebhooksInit ==
  /\ lastId = MaxId
  /\ \E link \in [Ids -> Links] :
       payments = [i \in Ids |-> [NewRow(link[i]) EXCEPT !.invId = i]]
  /\ RobokassaInit
  /\ send = [s \in Senders |-> NotSending]
  /\ batch = {}
  /\ ticking = FALSE
  /\ up = Callbacks
  /\ received = {}

\* Paid orders that have a callback.
Due == {i \in DOMAIN payments : /\ payments[i].status = "paid"
                                /\ CallbackOf[payments[i].link] # NoCallback}

Delivered == {i \in DOMAIN payments : payments[i].delivered}

-----------------------------------------------------------------------------
(* Send *)

\* The panel answers 200.
RequestSucceeds(s) ==
  /\ send[s].pc = "sending"
  /\ CallbackOf[payments[send[s].inv].link] \in up
  /\ received' = received \cup {send[s].inv}
  /\ send' = [send EXCEPT ![s].pc = "ok"]
  /\ UNCHANGED <<storeVars, robokassaVars, batch, ticking, up>>

\* Mutant of RequestFails: one attempt too many.
RequestFailsOneMore(s) ==
  /\ send[s].pc = "sending"
  /\ CallbackOf[payments[send[s].inv].link] \notin up
  /\ received' \in {received, received \cup {send[s].inv}}
  /\ send' = [send EXCEPT ![s] =
       [send[s] EXCEPT !.tries = @ + 1,
                       !.pc = IF send[s].tries + 1 > Attempts THEN "failed" ELSE "sending"]]
  /\ UNCHANGED <<storeVars, robokassaVars, batch, ticking, up>>

\* No answer, or not 200; the panel may have acted on the request nevertheless.
RequestFails(s) ==
  /\ send[s].pc = "sending"
  /\ CallbackOf[payments[send[s].inv].link] \notin up
  /\ received' \in {received, received \cup {send[s].inv}}
  /\ send' = [send EXCEPT ![s] =
       [send[s] EXCEPT !.tries = @ + 1,
                       !.pc = IF send[s].tries + 1 = Attempts THEN "failed" ELSE "sending"]]
  /\ UNCHANGED <<storeVars, robokassaVars, batch, ticking, up>>

\* What the caller of Send does with its result; an error of the statement is
\* logged or dropped by every caller.  Two statements may not be executed at all:
\* RetryWebhook's, which has what is left of the request's 30 seconds, and
\* MarkWebhookFailed, which cuts the error at 500 bytes, perhaps within a character
\* of the panel's answer, and PostgreSQL refuses such a text.
Mark(s) ==
  /\ send[s].pc \in {"ok", "failed"}
  /\ LET table == IF send[s].pc = "ok" THEN MarkWebhookDelivered(send[s].inv)
                                       ELSE MarkWebhookFailed(send[s].inv)
     IN \/ payments' = table
        \/ Faulty(table)
        \/ (s \in Admins \/ send[s].pc = "failed") /\ UNCHANGED payments
  /\ send' = [send EXCEPT ![s] = NotSending]
  /\ UNCHANGED <<lastId, robokassaVars, batch, ticking, panelVars>>

-----------------------------------------------------------------------------
(* The three callers *)

\* The goroutine sendWebhook starts to run.
SendWebhook(inv) ==
  /\ inv \in jobs
  /\ send[inv] = NotSending
  /\ jobs' = jobs \ {inv}
  /\ send' = [send EXCEPT ![inv] = Call(inv)]
  /\ UNCHANGED <<storeVars, charged, acked, settling, batch, ticking, panelVars>>

\* RetryWebhook, once the row is found to be paid and to have a callback.
RetryWebhook(a, inv) ==
  /\ send[a] = NotSending
  /\ RowsOf(inv) \cap Due # {}
  /\ send' = [send EXCEPT ![a] = Call(inv)]
  /\ UNCHANGED <<storeVars, robokassaVars, batch, ticking, panelVars>>

\* Mutants of PendingWebhooks: status = 'paid' is lost; only rows never tried.
PendingWebhooksAnyStatus == {i \in DOMAIN payments \ Delivered :
                               CallbackOf[payments[i].link] # NoCallback}

PendingWebhooksUntried == {i \in Due \ Delivered :
                             /\ payments[i].paidAge < MaxAge
                             /\ payments[i].tryAge = NULL}

\* The rows ListPendingWebhooks selects before its LIMIT.
PendingWebhooks == {i \in Due \ Delivered :
                      /\ payments[i].paidAge < MaxAge
                      /\ \/ payments[i].tryAge = NULL
                         \/ payments[i].tryAge > RetryAfter}

\* ORDER BY paid_at: the n oldest; rows of the same age come in any order.
OldestPendingWebhooks(n) ==
  {S \in SUBSET PendingWebhooks :
     /\ Cardinality(S) = n
     /\ \A i \in S, j \in PendingWebhooks \ S : payments[i].paidAge >= payments[j].paidAge}

\* LIMIT.  ListPendingWebhooks does not look at rows.Err(), so a lost connection cuts
\* the list short; on an error of the query itself the tick goes on without a list.
ListPendingWebhooks ==
  \E n \in 0..BatchLimit :
    /\ batch' \in OldestPendingWebhooks(n)
    /\ n \in {BatchLimit, Cardinality(PendingWebhooks)} \/ DbFaults

\* tick: the list is read once.
Tick ==
  /\ ~ticking
  /\ ticking' = TRUE
  /\ ListPendingWebhooks
  /\ UNCHANGED <<storeVars, robokassaVars, send, panelVars>>

\* The next payment of the list, oldest first.
RetryNext ==
  /\ ticking
  /\ send[Rec] = NotSending
  /\ \E i \in batch :
       /\ \A j \in batch : payments[j].paidAge <= payments[i].paidAge
       /\ send' = [send EXCEPT ![Rec] = Call(i)]
       /\ batch' = batch \ {i}
  /\ UNCHANGED <<storeVars, robokassaVars, ticking, panelVars>>

\* cleanupExpiredPending ends the tick.
FinishTick ==
  /\ ticking
  /\ batch = {}
  /\ send[Rec] = NotSending
  /\ ticking' = FALSE
  /\ payments' = CleanupExpiredPending \/ Faulty(CleanupExpiredPending)
  /\ UNCHANGED <<lastId, robokassaVars, send, batch, panelVars>>

-----------------------------------------------------------------------------
(* Customers, the panel, time and crashes *)

Pay(inv) == Charge(inv) /\ UNCHANGED webhookVars

\* The customer cancels, or Robokassa sends the browser to FailURL.
GiveUp(inv) ==
  /\ payments' = CancelPending(inv)
  /\ UNCHANGED <<lastId, robokassaVars, webhookVars>>

Result(inv) == ResultURL(inv) /\ UNCHANGED webhookVars

PanelGoesDown(c) == c \in up /\ up' = up \ {c}
PanelComesUp(c) == c \notin up /\ up' = up \cup {c}

PanelChanges(c) ==
  /\ PanelGoesDown(c) \/ PanelComesUp(c)
  /\ UNCHANGED <<storeVars, robokassaVars, sendVars, received>>

TimePasses ==
  /\ payments' = AgedRows
  /\ UNCHANGED <<lastId, robokassaVars, webhookVars>>

\* The process dies, with the goroutines that nothing waits for.
Restart ==
  /\ Crashes
  /\ LoseHandlers
  /\ send' = [s \in Senders |-> NotSending]
  /\ batch' = {}
  /\ ticking' = FALSE
  /\ UNCHANGED panelVars

Step(s) == RequestSucceeds(s) \/ RequestFails(s) \/ Mark(s)

Reconcile == Tick \/ RetryNext \/ FinishTick

WebhooksNext ==
  \/ \E s \in Senders : Step(s)
  \/ \E inv \in Ids : Pay(inv) \/ GiveUp(inv) \/ Result(inv) \/ SendWebhook(inv)
  \/ \E a \in Admins, inv \in Ids : RetryWebhook(a, inv)
  \/ Reconcile
  \/ \E c \in Callbacks : PanelChanges(c)
  \/ TimePasses
  \/ Restart

WebhooksSpec == WebhooksInit /\ [][WebhooksNext]_vars

-----------------------------------------------------------------------------
(* Safety *)

\* Every sender carries an order that is paid and has a callback, even when it
\* read the row long ago (a batch of the reconciler, a RetryWebhook), and what
\* it is about to record as delivered has reached the panel.
SendersCarryDueOrders ==
  /\ batch \subseteq Due
  /\ \A s \in Senders : send[s] # NotSending =>
       /\ send[s].inv \in Due
       /\ send[s].pc = "ok" => send[s].inv \in received

Promise == INSTANCE Outbox WITH Orders <- Ids, due <- Due, recorded <- Delivered

\* The senders together, with faults, crashes and lost statements, keep the
\* outbox's promise: only due orders are announced, only announced orders are
\* recorded, and no later failure un-records one (MarkWebhookFailed).
KeepsPromise == Promise!OutboxSpec

\* RetryAfter: a delivery is not repeated more often; in particular the
\* reconciler does not send what the goroutine of the same order is sending.
NotSentTwiceAtOnce ==
  \A i \in Ids : ~ /\ send[i] # NotSending
                   /\ send[Rec] # NotSending
                   /\ send[Rec].inv = i
=============================================================================
