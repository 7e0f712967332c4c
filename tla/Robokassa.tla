------------------------------ MODULE Robokassa ------------------------------
(***************************************************************************)
(* The payment provider and the handler of its server-to-server callback,  *)
(* ResultURL (internal/handlers/payment.go).  Robokassa is external: it    *)
(* collects the money for an InvId and then posts the signed result until  *)
(* it has read the answer OK<InvId>; a result may arrive more than once.   *)
(*                                                                         *)
(* ResultURL is two steps.  MarkPaid commits first; then the handler       *)
(* starts the goroutine sendWebhook and answers.  A crash can fall in      *)
(* between.  At most one callback per InvId can have marked the row, so    *)
(* the callbacks in between are the set "settling".                        *)
(***************************************************************************)
EXTENDS PaymentStore

VARIABLES
  charged,       \* the InvIds Robokassa has collected the money for
  acked,         \* the InvIds ResultURL has answered OK for
  settling,      \* ResultURL handlers after MarkPaid, before go sendWebhook
  jobs           \* goroutines sendWebhook that have been started

robokassaVars == <<charged, acked, settling, jobs>>

RobokassaTypeOK ==
  /\ charged \subseteq Ids
  /\ acked \subseteq Ids
  /\ settling \subseteq 1..lastId
  /\ jobs \subseteq 1..lastId

RobokassaInit ==
  /\ charged = {}
  /\ acked = {}
  /\ settling = {}
  /\ jobs = {}

\* The customer pays the invoice inv at Robokassa.
Charge(inv) ==
  /\ inv \notin charged
  /\ charged' = charged \cup {inv}
  /\ UNCHANGED <<storeVars, acked, settling, jobs>>

\* ResultURL, the pending row is now paid.
ResultMarksPaid(inv) ==
  /\ inv \in charged
  /\ Pending(inv) # {}
  /\ payments' = MarkPaid(inv)
  /\ settling' = settling \cup {inv}
  /\ UNCHANGED <<lastId, charged, acked, jobs>>

\* Mutant of ResultMarkPaidError: a result for an order that is not pending is an
\* error for Robokassa.
ResultErrorUnanswered(inv) ==
  /\ inv \in charged
  /\ \/ Pending(inv) = {} /\ UNCHANGED payments
     \/ Faulty(MarkPaid(inv))
  /\ UNCHANGED <<lastId, charged, acked, settling, jobs>>

\* Mutant of ResultMarkPaidError: OK is answered before MarkPaid is tried.
ResultOkAtOnce(inv) ==
  /\ inv \in charged
  /\ acked' = acked \cup {inv}
  /\ UNCHANGED <<storeVars, charged, settling, jobs>>

\* ResultURL, MarkPaid returned an error: no pending row has this inv_id, or the
\* statement failed.  The answer is OK all the same.
ResultMarkPaidError(inv) ==
  /\ inv \in charged
  /\ \/ Pending(inv) = {} /\ UNCHANGED payments
     \/ Faulty(MarkPaid(inv))
  /\ acked' = acked \cup {inv}
  /\ UNCHANGED <<lastId, charged, settling, jobs>>

\* ResultURL after MarkPaid: go h.sendWebhook(pmt) if there is a callback, then OK.
ResultAnswers(inv) ==
  /\ inv \in settling
  /\ settling' = settling \ {inv}
  /\ jobs' = jobs \cup {i \in {inv} : CallbackOf[payments[i].link] # NoCallback}
  /\ acked' = acked \cup {inv}
  /\ UNCHANGED <<storeVars, charged>>

ResultURL(inv) == ResultMarksPaid(inv) \/ ResultMarkPaidError(inv) \/ ResultAnswers(inv)

\* The process dies: handlers and goroutines are gone, the table stays.
LoseHandlers ==
  /\ settling' = {}
  /\ jobs' = {}
  /\ UNCHANGED <<storeVars, charged, acked>>
=============================================================================
