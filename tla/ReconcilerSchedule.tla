------------------------- MODULE ReconcilerSchedule -------------------------
(***************************************************************************)
(* When the reconciler does its work (internal/reconciler/reconciler.go):  *)
(* the warm-up, the ticker whose channel holds one tick, the sends of a    *)
(* tick one after the other, each as slow as its panel, and the clean-up   *)
(* that has to wait for them.  Module Webhooks says what the same steps do *)
(* to the table, without durations.                                        *)
(*                                                                         *)
(* Time is discrete and passes only in TimePasses, which is not allowed to *)
(* pass a deadline: what is ready to run runs at once, and statements take *)
(* no time and do not fail.  Of an order the model knows whether it is     *)
(* pending, due (paid, with a callback, not recorded as delivered) or      *)
(* closed; one age: since it was placed, and when it is due since it was   *)
(* paid or last tried; and of a due order also how long ago it was paid:   *)
(* after MaxAge the reconciler leaves it alone.                            *)
(***************************************************************************)
EXTENDS Integers, FiniteSets

CONSTANTS
  Orders,
  WarmUp,        \* 30 seconds, the Sleep before the first tick
  Interval,      \* reconciler.Config, 5 minutes
  RetryAfter,    \* reconciler.Config, 5 minutes
  MaxAge,        \* reconciler.Config, 7 days
  PendingMaxAge, \* reconciler.Config, 30 minutes
  BatchLimit,    \* reconciler.Config, 50
  SendMax,       \* the longest Send: delays of 17 seconds, four requests of 10 seconds
  Pause,         \* 200 ms after a delivery
  Horizon        \* bound: times are not told apart from here on

ASSUME ScheduleAssumption ==
  /\ IsFiniteSet(Orders)
  /\ WarmUp \in Nat
  /\ Interval \in Nat \ {0}
  /\ RetryAfter \in Nat
  /\ MaxAge \in Nat
  /\ PendingMaxAge \in Nat
  /\ BatchLimit \in Nat
  /\ SendMax \in Nat
  /\ Pause \in Nat
  /\ Horizon \in Nat
  /\ WarmUp <= Interval

VARIABLES
  status,        \* [Orders -> "new", "pending", "due" or "closed"]
  age,           \* [Orders -> age], 0 for an order that is new or closed
  paidAge,       \* [Orders -> age of paid_at], 0 for an order that is not due
  tried,         \* the orders with a webhook_last_attempt_at
  pc,            \* where Run is
  timer,         \* how long it has been there
  sinceTick,     \* time since the ticker fired or started, NoTicker before NewTicker
  ticks,         \* the ticks waiting in ticker.C
  batch,         \* the orders of the list that have not been sent yet
  current,       \* the order being sent, {} if there is none
  uptime,        \* time since the process started
  calm           \* time since the start or since more than BatchLimit orders were owed

orderVars == <<status, age, paidAge, tried>>
runVars == <<pc, timer, sinceTick, ticks, batch, current>>
clockVars == <<uptime, calm>>
vars == <<orderVars, runVars, clockVars>>

NoTicker == -1

Time == 0..Horizon

ScheduleTypeOK ==
  /\ status \in [Orders -> {"new", "pending", "due", "closed"}]
  /\ age \in [Orders -> Time]
  /\ paidAge \in [Orders -> Time]
  /\ tried \subseteq Orders
  /\ pc \in {"warmup", "waiting", "next", "sending", "pausing"}
  /\ timer \in Nat
  /\ sinceTick \in 0..Interval \cup {NoTicker}
  /\ ticks \in 0..1
  /\ batch \subseteq Orders
  /\ current \subseteq Orders
  /\ uptime \in Time
  /\ calm \in Time

\* Run sleeps, and there is no ticker yet.
ScheduleInit ==
  /\ status = [i \in Orders |-> "new"]
  /\ age = [i \in Orders |-> 0]
  /\ paidAge = [i \in Orders |-> 0]
  /\ tried = {}
  /\ pc = "warmup"
  /\ timer = 0
  /\ sinceTick = NoTicker
  /\ ticks = 0
  /\ batch = {}
  /\ current = {}
  /\ uptime = 0
  /\ calm = 0

\* Paid, with a callback, not delivered, AND paid_at > NOW() - MaxAge: the orders the
\* reconciler still owes a delivery.
Owed == {i \in Orders : status[i] = "due" /\ paidAge[i] < MaxAge}

-----------------------------------------------------------------------------
(* Orders, as the handlers move them *)

Place(i) ==
  /\ status[i] = "new"
  /\ status' = [status EXCEPT ![i] = "pending"]
  /\ age' = [age EXCEPT ![i] = 0]
  /\ UNCHANGED <<paidAge, tried, runVars, clockVars>>

\* ResultURL marks an order with a callback.
Pay(i) ==
  /\ status[i] = "pending"
  /\ status' = [status EXCEPT ![i] = "due"]
  /\ age' = [age EXCEPT ![i] = 0]
  /\ paidAge' = [paidAge EXCEPT ![i] = 0]
  /\ calm' = IF Cardinality(Owed \cup {i}) > BatchLimit THEN 0 ELSE calm
  /\ UNCHANGED <<tried, runVars, uptime>>

\* The order is recorded as delivered, is failed, or is paid and has no callback.
Close(i) ==
  /\ status' = [status EXCEPT ![i] = "closed"]
  /\ age' = [age EXCEPT ![i] = 0]
  /\ paidAge' = [paidAge EXCEPT ![i] = 0]
  /\ UNCHANGED tried

GiveUp(i) ==
  /\ status[i] = "pending"
  /\ Close(i)
  /\ UNCHANGED <<runVars, clockVars>>

\* MarkWebhookFailed.
MarkTried(i) ==
  /\ age' = [age EXCEPT ![i] = 0]
  /\ tried' = tried \cup {i}
  /\ UNCHANGED <<status, paidAge>>

\* The goroutine sendWebhook or an admin's RetryWebhook marks the order.
MarkedElsewhere(i) ==
  /\ status[i] = "due"
  /\ Close(i) \/ MarkTried(i)
  /\ UNCHANGED <<runVars, clockVars>>

-----------------------------------------------------------------------------
(* Run *)

\* Mutant of Retriable: the NULL of an order never tried fails the comparison.
RetriableTried == {i \in Owed : i \in tried /\ age[i] > RetryAfter}

\* webhook_last_attempt_at IS NULL OR it is older than RetryAfter.
Retriable == {i \in Owed : i \notin tried \/ age[i] > RetryAfter}

\* LIMIT BatchLimit.  Which orders ORDER BY paid_at puts first makes no difference
\* to the times here: it may be any of them.
ListPendingWebhooks ==
  {S \in SUBSET Retriable : IF Cardinality(Retriable) <= BatchLimit
                              THEN S = Retriable
                              ELSE Cardinality(S) = BatchLimit}

\* The Sleep is over, or the loop receives a tick from ticker.C.
TickReceived ==
  \/ /\ pc = "warmup"
     /\ timer = WarmUp
     /\ UNCHANGED ticks
  \/ /\ pc = "waiting"
     /\ ticks > 0
     /\ ticks' = ticks - 1

\* Mutant of BeginTick: a tick with nothing to retry returns before the clean-up.
BeginTickReturnsEarly ==
  /\ TickReceived
  /\ batch' \in ListPendingWebhooks
  /\ pc' = IF batch' = {} THEN "waiting" ELSE "next"
  /\ timer' = 0
  /\ sinceTick' = IF pc = "warmup" /\ batch' = {} THEN 0 ELSE sinceTick
  /\ UNCHANGED <<orderVars, current, clockVars>>

\* tick: the list is read once.
BeginTick ==
  /\ TickReceived
  /\ batch' \in ListPendingWebhooks
  /\ pc' = "next"
  /\ timer' = 0
  /\ UNCHANGED <<orderVars, sinceTick, current, clockVars>>

\* The next payment of the list; it is not read again.
BeginSend ==
  /\ pc = "next"
  /\ \E i \in batch : current' = {i} /\ batch' = batch \ {i}
  /\ pc' = "sending"
  /\ timer' = 0
  /\ UNCHANGED <<orderVars, sinceTick, ticks, clockVars>>

\* Send returns, after at most SendMax; then the marking and, after a delivery, the Pause.
SendReturns ==
  /\ pc = "sending"
  /\ \E i \in current : \/ Close(i) /\ pc' = "pausing"
                        \/ MarkTried(i) /\ pc' = "next"
  /\ timer' = 0
  /\ current' = {}
  /\ UNCHANGED <<sinceTick, ticks, batch, clockVars>>

PauseEnds ==
  /\ pc = "pausing"
  /\ timer = Pause
  /\ pc' = "next"
  /\ timer' = 0
  /\ UNCHANGED <<orderVars, sinceTick, ticks, batch, current, clockVars>>

Expired == {i \in Orders : status[i] = "pending" /\ age[i] > PendingMaxAge}

\* cleanupExpiredPending ends the tick; after the first one the ticker is created.
EndTick ==
  /\ pc = "next"
  /\ batch = {}
  /\ status' = [i \in Orders |-> IF i \in Expired THEN "closed" ELSE status[i]]
  /\ age' = [i \in Orders |-> IF i \in Expired THEN 0 ELSE age[i]]
  /\ pc' = "waiting"
  /\ timer' = 0
  /\ sinceTick' = IF sinceTick = NoTicker THEN 0 ELSE sinceTick
  /\ UNCHANGED <<paidAge, tried, ticks, batch, current, clockVars>>

\* Mutant of TickerFires: every tick waits for Run.
TickerFiresUndropped ==
  /\ sinceTick = Interval
  /\ sinceTick' = 0
  /\ ticks' = ticks + 1
  /\ UNCHANGED <<orderVars, pc, timer, batch, current, clockVars>>

\* The ticker fires, whatever Run is doing; a second tick waiting is dropped.
TickerFires ==
  /\ sinceTick = Interval
  /\ sinceTick' = 0
  /\ ticks' = 1
  /\ UNCHANGED <<orderVars, pc, timer, batch, current, clockVars>>

-----------------------------------------------------------------------------
(* Time and the death of the process *)

Later(t) == IF t < Horizon THEN t + 1 ELSE t

\* How long Run may stay where it is.
Deadline ==
  CASE pc = "warmup"  -> WarmUp
    [] pc = "sending" -> SendMax
    [] pc = "pausing" -> Pause
    [] OTHER          -> 0

TimePasses ==
  /\ \/ pc = "waiting" /\ ticks = 0 /\ timer' = timer
     \/ timer < Deadline /\ timer' = timer + 1
  /\ \/ sinceTick = NoTicker /\ UNCHANGED sinceTick
     \/ sinceTick \in 0..(Interval - 1) /\ sinceTick' = sinceTick + 1
  /\ age' = [i \in Orders |-> IF status[i] \in {"pending", "due"} THEN Later(age[i]) ELSE 0]
  /\ paidAge' = [i \in Orders |-> IF status[i] = "due" THEN Later(paidAge[i]) ELSE 0]
  /\ uptime' = Later(uptime)
  /\ calm' = IF Cardinality(Owed) > BatchLimit THEN 0 ELSE Later(calm)
  /\ UNCHANGED <<status, tried, pc, ticks, batch, current>>

Restart ==
  /\ pc' = "warmup"
  /\ timer' = 0
  /\ sinceTick' = NoTicker
  /\ ticks' = 0
  /\ batch' = {}
  /\ current' = {}
  /\ uptime' = 0
  /\ calm' = 0
  /\ UNCHANGED orderVars

ScheduleNext ==
  \/ \E i \in Orders : Place(i) \/ Pay(i) \/ GiveUp(i) \/ MarkedElsewhere(i)
  \/ BeginTick
  \/ BeginSend
  \/ SendReturns
  \/ PauseEnds
  \/ EndTick
  \/ TickerFires
  \/ TimePasses
  \/ Restart

ScheduleSpec == ScheduleInit /\ [][ScheduleNext]_vars

-----------------------------------------------------------------------------
(* What the schedule guarantees *)

\* What one payment of the list, and a whole list, can take.
ItemMax == SendMax + Pause
TickMax == BatchLimit * ItemMax

\* An order stays pending, and payable, for at most PendingMaxAge + Interval +
\* TickMax while the process is up: the clean-up waits for the sends of its tick
\* and a tick for the one before it (tick).  With the constants of the program
\* that is 83 minutes, more than the hour a customer's cookie lives.
PendingAgeBounded ==
  \A i \in Orders : status[i] = "pending" =>
    age[i] <= PendingMaxAge + Interval + TickMax \/ uptime <= PendingMaxAge + Interval + TickMax

\* No order younger than MaxAge is left out: while at most BatchLimit such orders are
\* due, each is tried again within RetryAfter + Interval + 2 * TickMax, also when
\* every panel is slow, ticks are dropped and other senders reset its age
\* (ListPendingWebhooks, LIMIT).  Of an order paid MaxAge ago or earlier it promises
\* nothing: the reconciler has given it up.
AttemptedInTime ==
  \A i \in Owed :
    age[i] <= RetryAfter + Interval + 2 * TickMax \/ calm <= RetryAfter + Interval + 2 * TickMax
=============================================================================
