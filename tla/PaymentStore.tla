---------------------------- MODULE PaymentStore ----------------------------
(***************************************************************************)
(* The table "payments" and the SQL statements of PaymentStore             *)
(* (internal/models/payment.go).  Every method of PaymentStore is one SQL  *)
(* statement (Create is two), so a statement is atomic and is given here   *)
(* as the table it leaves behind: a caller writes payments' = MarkPaid(n). *)
(*                                                                         *)
(* Time.  The code only ever compares a timestamp column with NOW() minus  *)
(* a limit, so a column holds the AGE of its timestamp, which TimePasses   *)
(* increases up to AgeCap, a bound above every limit: time never stops and *)
(* the state space stays finite.                                           *)
(***************************************************************************)
EXTENDS Integers, FiniteSets

CONSTANTS
  MaxId,         \* bound on the number of rows ever inserted
  Links,         \* what a signed checkout link orders (its query parameters)
  KeyOf,         \* [Links -> keys]: the user_ref, plan_id and amount of a link
  CallbackOf,    \* [Links -> callback addresses]
  NoCallback,    \* the empty callback_url
  PendingTTL,    \* 30 minutes, in FindPending and in reconciler.PendingMaxAge
  AgeCap,        \* bound: ages are not told apart from here on
  DbFaults       \* may a statement report an error (connection lost, context cancelled)?

ASSUME StoreAssumption ==
  /\ MaxId \in Nat
  /\ PendingTTL \in Nat
  /\ AgeCap \in Nat
  /\ PendingTTL < AgeCap
  /\ DbFaults \in BOOLEAN

VARIABLES
  payments,      \* the rows, by id
  lastId         \* the last value of the SERIAL sequence of payments.id

storeVars == <<payments, lastId>>

NULL == -1

Ids == 1..MaxId
Age == 0..AgeCap
Status == {"pending", "paid", "failed"}

\* link: every column the INSERT copies from the link and nothing changes later.
\* invId: inv_id.  age, paidAge, tryAge: the ages of created_at, paid_at and
\* webhook_last_attempt_at.  delivered: webhook_delivered_at IS NOT NULL.
Row == [link : Links, invId : Ids \cup {NULL}, status : Status, age : Age,
        paidAge : Age \cup {NULL}, tryAge : Age \cup {NULL}, delivered : BOOLEAN]

StoreTypeOK ==
  /\ lastId \in 0..MaxId
  /\ payments \in [1..lastId -> Row]

StoreInit ==
  /\ lastId = 0
  /\ payments = [i \in 1..0 |-> NULL]

-----------------------------------------------------------------------------
(* Queries *)

\* The rows WHERE inv_id = inv.
RowsOf(inv) == {i \in DOMAIN payments : payments[i].invId = inv}

\* The rows WHERE inv_id = inv AND status = 'pending'.
Pending(inv) == {i \in RowsOf(inv) : payments[i].status = "pending"}

\* Mutant of Expired: AND inv_id IS NOT NULL.
ExpiredNumbered == {i \in DOMAIN payments :
                      /\ payments[i].status = "pending"
                      /\ payments[i].age > PendingTTL
                      /\ payments[i].invId # NULL}

\* created_at < NOW() - 30 minutes, of the pending rows.
Expired == {i \in DOMAIN payments :
              payments[i].status = "pending" /\ payments[i].age > PendingTTL}

\* Mutant of FreshPending: the WHERE has lost user_ref and plan_id.
FreshPendingOfAnyone(key) == {i \in DOMAIN payments :
                                /\ payments[i].status = "pending"
                                /\ payments[i].age < PendingTTL}

\* The pending rows younger than 30 minutes that were ordered with these
\* user_ref, plan_id and amount.
FreshPending(key) == {i \in DOMAIN payments :
                        /\ KeyOf[payments[i].link] = key
                        /\ payments[i].status = "pending"
                        /\ payments[i].age < PendingTTL}

\* FindPending: ORDER BY id DESC LIMIT 1, then Scan.  Scan cannot put a NULL
\* inv_id into an int, so a newest row that is not numbered yet is an error,
\* which the caller takes for "nothing found": the result has at most one row.
FindPending(key) == {i \in FreshPending(key) :
                       /\ \A j \in FreshPending(key) : j <= i
                       /\ payments[i].invId # NULL}

-----------------------------------------------------------------------------
(* Statements *)

\* The row Create inserts; inv_id is still NULL.
NewRow(link) == [link |-> link, invId |-> NULL, status |-> "pending", age |-> 0,
                 paidAge |-> NULL, tryAge |-> NULL, delivered |-> FALSE]

\* Create, first statement: INSERT ... RETURNING id.
Insert(link) == [i \in 1..(lastId + 1) |->
                   IF i = lastId + 1 THEN NewRow(link) ELSE payments[i]]

\* Mutant of SetInvId: the number comes from a sequence that is one ahead.
SetInvIdNext(id) == [payments EXCEPT ![id].invId = id + 1]

\* Create, second statement: UPDATE payments SET inv_id = id WHERE id = $1.
SetInvId(id) == [payments EXCEPT ![id].invId = id]

\* Mutant of MarkPaid: the WHERE has lost inv_id.
MarkPaidEveryPending(inv) == [i \in DOMAIN payments |->
    IF payments[i].status = "pending"
      THEN [payments[i] EXCEPT !.status = "paid", !.paidAge = 0]
      ELSE payments[i]]

\* UPDATE ... SET status = 'paid', paid_at = NOW() WHERE inv_id = $2 AND status = 'pending'.
MarkPaid(inv) == [i \in DOMAIN payments |->
                    IF i \in Pending(inv)
                      THEN [payments[i] EXCEPT !.status = "paid", !.paidAge = 0]
                      ELSE payments[i]]

\* The table with the rows S failed.
Failed(S) == [i \in DOMAIN payments |->
                IF i \in S THEN [payments[i] EXCEPT !.status = "failed"]
                           ELSE payments[i]]

\* Mutant of MarkFailed and CancelPending: the WHERE has lost status = 'pending'.
FailAnyStatus(inv) == Failed(RowsOf(inv))

MarkFailed(inv) == Failed(Pending(inv))

CancelPending(inv) == Failed(Pending(inv))

\* Mutant of CleanupExpiredPending: the WHERE has lost status = 'pending'.
CleanupAnyStatus == Failed({i \in DOMAIN payments : payments[i].age > PendingTTL})

CleanupExpiredPending == Failed(Expired)

\* SET webhook_delivered_at = NOW(), webhook_last_attempt_at = NOW() WHERE inv_id = $1.
MarkWebhookDelivered(inv) == [i \in DOMAIN payments |->
    IF i \in RowsOf(inv) THEN [payments[i] EXCEPT !.delivered = TRUE, !.tryAge = 0]
                         ELSE payments[i]]

\* Mutant of MarkWebhookFailed: SET webhook_delivered_at = NULL too.
MarkWebhookFailedResets(inv) == [i \in DOMAIN payments |->
    IF i \in RowsOf(inv) THEN [payments[i] EXCEPT !.delivered = FALSE, !.tryAge = 0]
                         ELSE payments[i]]

\* SET webhook_last_attempt_at = NOW(), webhook_last_error = $1 WHERE inv_id = $2.
MarkWebhookFailed(inv) == [i \in DOMAIN payments |->
    IF i \in RowsOf(inv) THEN [payments[i] EXCEPT !.tryAge = 0]
                         ELSE payments[i]]

\* A statement that reports an error may have been executed or not: the
\* connection can be lost before or after the commit.
Faulty(table) == DbFaults /\ payments' \in {payments, table}

-----------------------------------------------------------------------------
(* NOW() moves on. *)

Older(a) == IF a \in {NULL, AgeCap} THEN a ELSE a + 1

AgedRows == [i \in DOMAIN payments |->
               [payments[i] EXCEPT !.age = Older(@), !.paidAge = Older(@),
                                   !.tryAge = Older(@)]]
=============================================================================
