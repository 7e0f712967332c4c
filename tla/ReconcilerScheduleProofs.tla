---------------------- MODULE ReconcilerScheduleProofs ----------------------
(***************************************************************************)
(* The two bounds of ReconcilerSchedule for any number of orders and any   *)
(* durations.                                                              *)
(*                                                                         *)
(* A tick has a budget: what is left of its list can take ToGo.  An order  *)
(* that waits for the clean-up, or for its turn, has a limit for its age   *)
(* that depends on where Run is: while Run waits the limit grows with the  *)
(* time since the last tick, and in a tick with the budget that is spent.  *)
(* Time never lets an age grow faster than its limit.                      *)
(***************************************************************************)
EXTENDS ReconcilerSchedule, FiniteSetTheorems, TLAPS

-----------------------------------------------------------------------------
(* The inductive invariant *)

\* The sends that are not over: those of the list and the current one.
SendsLeft == Cardinality(batch) + (IF pc \in {"sending", "pausing"} THEN 1 ELSE 0)

\* What the rest of the list can take, and the rest of the tick.
ListToGo == Cardinality(batch) * ItemMax

ToGo == ListToGo + (CASE pc = "sending" -> ItemMax - timer
                      [] pc = "pausing" -> Pause - timer
                      [] OTHER          -> 0)

RunInv ==
  /\ ScheduleTypeOK
  /\ SendsLeft <= BatchLimit
  /\ timer <= Deadline
  /\ pc \in {"warmup", "waiting"} => batch = {}
  /\ pc # "sending" => current = {}
  /\ \A i, j \in current : i = j
  /\ pc = "warmup" => sinceTick = NoTicker /\ ticks = 0 /\ uptime <= timer
  /\ pc = "waiting" => sinceTick # NoTicker

CalmInv ==
  /\ calm <= uptime
  /\ Cardinality(Owed) > BatchLimit => calm = 0

\* How long Run has been waiting for the tick, at most.
Waited == IF ticks = 1 THEN Interval ELSE sinceTick

PendingLimit ==
  CASE pc = "warmup"  -> timer
    [] pc = "waiting" -> PendingMaxAge + Waited
    [] OTHER          -> PendingMaxAge + Interval + TickMax - ToGo

PendingInv ==
  \A i \in Orders : status[i] = "pending" => age[i] <= PendingLimit \/ uptime <= PendingLimit

\* An order of the list has waited since the list before; any other order that is
\* still owed was not to be tried yet when the list was read, or has been tried since.
DueLimit(i) ==
  CASE pc = "warmup"  -> timer
    [] pc = "waiting" -> RetryAfter + TickMax + Waited
    [] OTHER          -> RetryAfter + TickMax - ToGo
                           + (IF i \in batch \cup current THEN Interval + TickMax ELSE 0)

DueInv ==
  \A i \in Owed : age[i] <= DueLimit(i) \/ calm <= DueLimit(i)

ScheduleInv == RunInv /\ CalmInv /\ PendingInv /\ DueInv

-----------------------------------------------------------------------------
(* The budget of a tick *)

\* What k sends can take.
LEMMA Products ==
  ASSUME NEW k \in Nat
  PROVE  /\ ItemMax \in Nat
         /\ TickMax \in Nat
         /\ k * ItemMax \in Nat
         /\ (k + 1) * ItemMax = k * ItemMax + ItemMax
         /\ k <= BatchLimit => k * ItemMax <= TickMax
<1>1. ItemMax \in Nat /\ BatchLimit \in Nat
  BY ScheduleAssumption DEF ItemMax
<1>2. TickMax \in Nat /\ k * ItemMax \in Nat
  BY <1>1 DEF TickMax
<1>3. \A m \in Nat : (k + 1) * m = k * m + m
  OBVIOUS
<1>4. ASSUME k <= BatchLimit PROVE k * ItemMax <= TickMax
  <2>1. PICK d \in Nat : BatchLimit = k + d
    <3>1. BatchLimit - k \in Nat /\ BatchLimit = k + (BatchLimit - k)
      BY <1>1, <1>4
    <3> QED
      BY <3>1
  <2>2. \A m \in Nat : (k + d) * m = k * m + d * m /\ d * m \in Nat
    OBVIOUS
  <2>3. TickMax = k * ItemMax + d * ItemMax /\ d * ItemMax \in Nat
    BY <1>1, <2>1, <2>2 DEF TickMax
  <2> QED
    BY <1>2, <2>3
<1> QED
  BY <1>1, <1>2, <1>3, <1>4

\* Subsets of Orders are finite.
LEMMA Finite ==
  ASSUME NEW S, S \subseteq Orders
  PROVE  IsFiniteSet(S) /\ Cardinality(S) \in Nat
BY ScheduleAssumption, FS_Subset, FS_CardinalityType

\* The budget is never overdrawn, and never more than a whole list takes.
LEMMA Budget ==
  ASSUME RunInv
  PROVE  /\ ListToGo \in Nat
         /\ ToGo \in Nat
         /\ ToGo <= TickMax
         /\ TickMax \in Nat
         /\ ItemMax \in Nat
<1> DEFINE k == Cardinality(batch)
<1>1. k \in Nat
  BY Finite DEF RunInv, ScheduleTypeOK
<1>2. /\ ItemMax \in Nat
      /\ TickMax \in Nat
      /\ ListToGo \in Nat
      /\ (k + 1) * ItemMax = ListToGo + ItemMax
      /\ k <= BatchLimit => ListToGo <= TickMax
  BY <1>1, Products DEF ListToGo
<1>3. k + 1 <= BatchLimit => ListToGo + ItemMax <= TickMax
  BY <1>1, <1>2, Products
<1>4. SendMax \in Nat /\ Pause \in Nat /\ ItemMax = SendMax + Pause /\ timer \in Nat
  BY ScheduleAssumption DEF ItemMax, RunInv, ScheduleTypeOK
<1>5. CASE pc = "sending"
  <2>1. k + 1 <= BatchLimit /\ timer <= SendMax /\ ToGo = ListToGo + (ItemMax - timer)
    BY <1>5 DEF RunInv, SendsLeft, Deadline, ToGo
  <2> QED
    BY <1>2, <1>3, <1>4, <2>1
<1>6. CASE pc = "pausing"
  <2>1. k + 1 <= BatchLimit /\ timer <= Pause /\ ToGo = ListToGo + (Pause - timer)
    BY <1>6 DEF RunInv, SendsLeft, Deadline, ToGo
  <2> QED
    BY <1>2, <1>3, <1>4, <2>1
<1>7. CASE pc \notin {"sending", "pausing"}
  <2>1. k + 0 <= BatchLimit /\ ToGo = ListToGo + 0
    BY <1>7 DEF RunInv, SendsLeft, ToGo
  <2> QED
    BY <1>1, <1>2, <2>1
<1> QED
  BY <1>5, <1>6, <1>7

-----------------------------------------------------------------------------
(* How the steps use it *)

LEMMA InitSchedule == ScheduleInit => ScheduleInv
<1> SUFFICES ASSUME ScheduleInit PROVE ScheduleInv
  OBVIOUS
<1>1. Owed = {}
  BY DEF ScheduleInit, Owed
<1>2. Cardinality(Owed) = 0 /\ Cardinality(batch) = 0
  BY <1>1, FS_EmptySet DEF ScheduleInit
<1>3. ScheduleTypeOK
  <2>1. 0 \in Time /\ 0 \in Nat
    BY ScheduleAssumption DEF Time
  <2>2. /\ status \in [Orders -> {"new", "pending", "due", "closed"}]
        /\ age \in [Orders -> Time] /\ paidAge \in [Orders -> Time]
    BY <2>1 DEF ScheduleInit
  <2>3. /\ tried \subseteq Orders
        /\ pc \in {"warmup", "waiting", "next", "sending", "pausing"}
        /\ sinceTick \in 0..Interval \cup {NoTicker}
    BY DEF ScheduleInit
  <2>4. ticks \in 0..1 /\ batch \subseteq Orders /\ current \subseteq Orders
    BY DEF ScheduleInit
  <2>5. timer \in Nat /\ uptime \in Time /\ calm \in Time
    BY <2>1 DEF ScheduleInit
  <2> QED
    BY <2>2, <2>3, <2>4, <2>5 DEF ScheduleTypeOK
<1>4. RunInv
  BY <1>2, <1>3, ScheduleAssumption DEF RunInv, ScheduleInit, SendsLeft, Deadline
<1>5. CalmInv
  BY <1>2, ScheduleAssumption DEF CalmInv, ScheduleInit
<1>6. \A i \in Orders : status[i] = "new"
  BY DEF ScheduleInit
<1>7. PendingInv /\ DueInv
  BY <1>6 DEF PendingInv, DueInv, Owed
<1> QED
  BY <1>4, <1>5, <1>7 DEF ScheduleInv

\* The marking of a send, or an order closed: no order becomes due.
LEMMA Closing ==
  ASSUME ScheduleTypeOK, NEW i \in Orders, Close(i) \/ MarkTried(i)
  PROVE  /\ status' \in [Orders -> {"new", "pending", "due", "closed"}]
         /\ age' \in [Orders -> Time]
         /\ paidAge' \in [Orders -> Time]
         /\ tried' \subseteq Orders
         /\ \A j \in Orders : status'[j] \in {status[j], "closed"}
         /\ \A j \in Orders : age'[j] \in {age[j], 0}
         /\ age'[i] = 0
         /\ Owed' \subseteq Owed
         /\ UNCHANGED uptime /\ UNCHANGED calm => (CalmInv => CalmInv')
<1>1. /\ status' \in [Orders -> {"new", "pending", "due", "closed"}]
      /\ \A j \in Orders : status'[j] \in {status[j], "closed"}
  BY DEF Close, MarkTried, ScheduleTypeOK
<1>2. /\ age' \in [Orders -> Time]
      /\ \A j \in Orders : age'[j] \in {age[j], 0}
      /\ age'[i] = 0
  BY ScheduleAssumption DEF Close, MarkTried, ScheduleTypeOK, Time
<1>3. tried' \subseteq Orders
  BY DEF Close, MarkTried, ScheduleTypeOK
<1>p. /\ paidAge' \in [Orders -> Time]
      /\ \A j \in Orders : status'[j] = "due" => paidAge'[j] = paidAge[j]
  BY ScheduleAssumption DEF Close, MarkTried, ScheduleTypeOK, Time
<1>4. Owed' \subseteq Owed
  BY <1>1, <1>p DEF Owed
<1>5. Cardinality(Owed') <= Cardinality(Owed) /\ Cardinality(Owed') \in Nat
      /\ Cardinality(Owed) \in Nat
  BY <1>4, Finite, FS_Subset DEF Owed
<1>6. UNCHANGED uptime /\ UNCHANGED calm => (CalmInv => CalmInv')
  BY <1>5, ScheduleAssumption DEF CalmInv
<1> QED
  BY <1>1, <1>2, <1>3, <1>p, <1>4, <1>6

\* The list is a part of the orders owed and no longer than BatchLimit; it leaves out
\* no order that may be tried unless more than BatchLimit are owed.
LEMMA Listing ==
  ASSUME ScheduleTypeOK, NEW S \in ListPendingWebhooks
  PROVE  /\ S \subseteq Orders
         /\ Cardinality(S) <= BatchLimit
         /\ Cardinality(Owed) <= BatchLimit =>
              \A i \in Owed \ S : age[i] <= RetryAfter
<1>1. S \subseteq Retriable /\ Retriable \subseteq Owed /\ Owed \subseteq Orders
  BY DEF ListPendingWebhooks, Retriable, Owed
<1>2. /\ Cardinality(Retriable) \in Nat
      /\ Cardinality(Owed) \in Nat
      /\ Cardinality(Retriable) <= Cardinality(Owed)
  BY <1>1, Finite, FS_Subset
<1>3. IF Cardinality(Retriable) <= BatchLimit THEN S = Retriable
                                              ELSE Cardinality(S) = BatchLimit
  BY DEF ListPendingWebhooks
<1>4. Cardinality(S) <= BatchLimit
  BY <1>3, ScheduleAssumption
<1>5. ASSUME Cardinality(Owed) <= BatchLimit, NEW i \in Owed \ S
      PROVE  age[i] <= RetryAfter
  <2>1. S = Retriable
    BY <1>2, <1>3, <1>5, ScheduleAssumption
  <2>2. ~ (age[i] > RetryAfter)
    BY <2>1, <1>5 DEF Retriable
  <2>3. age[i] \in Nat /\ RetryAfter \in Nat
    BY <1>1, <1>5, ScheduleAssumption DEF ScheduleTypeOK, Time
  <2> QED
    BY <2>2, <2>3
<1> QED
  BY <1>1, <1>4, <1>5

-----------------------------------------------------------------------------
(* Run and the clocks *)

LEMMA StepRun ==
  ASSUME RunInv, CalmInv, [ScheduleNext]_vars
  PROVE  RunInv' /\ CalmInv'
<1> USE ScheduleAssumption
<1>t. ScheduleTypeOK
  BY DEF RunInv
<1>c. Cardinality(batch) \in Nat
  BY <1>t, Finite DEF ScheduleTypeOK
<1>1. ASSUME NEW i \in Orders, Place(i)
      PROVE  RunInv' /\ CalmInv'
  <2>1. Owed' = Owed
    BY <1>1, <1>t DEF Place, Owed, ScheduleTypeOK
  <2>2. ScheduleTypeOK'
    BY <1>1, <1>t DEF Place, ScheduleTypeOK, Time, runVars, clockVars
  <2>3. UNCHANGED <<runVars, clockVars>>
    BY <1>1 DEF Place
  <2>4. RunInv'
    BY <2>2, <2>3 DEF RunInv, runVars, clockVars, SendsLeft, Deadline
  <2> QED
    BY <2>1, <2>3, <2>4 DEF CalmInv, clockVars
<1>2. ASSUME NEW i \in Orders, Pay(i)
      PROVE  RunInv' /\ CalmInv'
  <2>1. Owed' \subseteq Owed \cup {i}
    BY <1>2, <1>t DEF Pay, Owed, ScheduleTypeOK
  <2>2. UNCHANGED <<runVars, uptime>> /\ calm' \in {0, calm}
    BY <1>2 DEF Pay
  <2>3. ScheduleTypeOK'
    BY <1>2, <1>t, <2>2 DEF Pay, ScheduleTypeOK, Time, runVars
  <2>4. RunInv'
    BY <2>2, <2>3 DEF RunInv, runVars, SendsLeft, Deadline
  <2>5. calm' <= uptime'
    BY <1>t, <2>2 DEF CalmInv, ScheduleTypeOK, Time
  <2>6. Cardinality(Owed') > BatchLimit => calm' = 0
    <3>1. /\ IsFiniteSet(Owed \cup {i})
          /\ Cardinality(Owed \cup {i}) \in Nat
      BY Finite DEF Owed
    <3>2. Cardinality(Owed') \in Nat /\ Cardinality(Owed') <= Cardinality(Owed \cup {i})
      BY <2>1, <3>1, FS_Subset, FS_CardinalityType
    <3> QED
      BY <1>2, <3>1, <3>2 DEF Pay
  <2> QED
    BY <2>4, <2>5, <2>6 DEF CalmInv
<1>3. ASSUME NEW i \in Orders, GiveUp(i) \/ MarkedElsewhere(i)
      PROVE  RunInv' /\ CalmInv'
  <2>1. (Close(i) \/ MarkTried(i)) /\ UNCHANGED <<runVars, clockVars>>
    BY <1>3 DEF GiveUp, MarkedElsewhere
  <2>2. CalmInv'
    BY <1>t, <2>1, Closing DEF clockVars
  <2>3. ScheduleTypeOK'
    BY <1>t, <2>1, Closing DEF ScheduleTypeOK, Time, runVars, clockVars
  <2>4. RunInv'
    BY <2>1, <2>3 DEF RunInv, runVars, clockVars, SendsLeft, Deadline
  <2> QED
    BY <2>2, <2>4
<1>4. CASE BeginTick
  <2>1. /\ batch' \subseteq Orders
        /\ Cardinality(batch') <= BatchLimit
    BY <1>4, <1>t, Listing DEF BeginTick
  <2>2. UNCHANGED <<orderVars, sinceTick, current, clockVars>> /\ pc' = "next" /\ timer' = 0
    BY <1>4 DEF BeginTick
  <2>3. ticks' \in 0..1 /\ pc \in {"warmup", "waiting"}
    BY <1>4, <1>t DEF BeginTick, TickReceived, ScheduleTypeOK
  <2>4. ScheduleTypeOK'
    BY <1>t, <2>1, <2>2, <2>3 DEF ScheduleTypeOK, orderVars, clockVars
  <2>5. SendsLeft' <= BatchLimit
    <3>1. Cardinality(batch') \in Nat
      BY <2>1, Finite
    <3>2. SendsLeft' = Cardinality(batch') + 0
      BY <2>2 DEF SendsLeft
    <3> QED
      BY <2>1, <3>1, <3>2
  <2>6. RunInv'
    BY <2>2, <2>3, <2>4, <2>5 DEF RunInv, Deadline
  <2> QED
    BY <2>2, <2>6 DEF CalmInv, clockVars, orderVars, Owed
<1>5. CASE BeginSend
  <2>1. PICK i \in batch : current' = {i} /\ batch' = batch \ {i}
    BY <1>5 DEF BeginSend
  <2>2. /\ UNCHANGED <<orderVars, sinceTick, ticks, clockVars>>
        /\ pc = "next" /\ pc' = "sending" /\ timer' = 0
    BY <1>5 DEF BeginSend
  <2>3. ScheduleTypeOK'
    BY <1>t, <2>1, <2>2 DEF ScheduleTypeOK, orderVars, clockVars
  <2>4. SendsLeft' <= BatchLimit
    <3>1. IsFiniteSet(batch)
      BY <1>t, Finite DEF ScheduleTypeOK
    <3>2. Cardinality(batch') = Cardinality(batch) - 1
      BY <2>1, <3>1, FS_RemoveElement
    <3>3. SendsLeft' = Cardinality(batch') + 1 /\ SendsLeft = Cardinality(batch) + 0
      BY <2>2 DEF SendsLeft
    <3> QED
      BY <1>c, <3>2, <3>3 DEF RunInv
  <2>5. RunInv'
    BY <2>1, <2>2, <2>3, <2>4 DEF RunInv, Deadline
  <2> QED
    BY <2>2, <2>5 DEF CalmInv, clockVars, orderVars, Owed
<1>6. CASE SendReturns
  <2>1. PICK i \in current : Close(i) \/ MarkTried(i)
    BY <1>6 DEF SendReturns
  <2>2. /\ UNCHANGED <<sinceTick, ticks, batch, clockVars>>
        /\ pc = "sending" /\ pc' \in {"pausing", "next"} /\ timer' = 0 /\ current' = {}
    BY <1>6 DEF SendReturns
  <2>i. i \in Orders
    BY <1>t DEF ScheduleTypeOK
  <2>3. CalmInv'
    BY <1>t, <2>1, <2>2, <2>i, Closing DEF clockVars
  <2>4. ScheduleTypeOK'
    BY <1>t, <2>1, <2>2, <2>i, Closing DEF ScheduleTypeOK, clockVars
  <2>5. SendsLeft' <= BatchLimit
    <3>1. SendsLeft = Cardinality(batch) + 1 /\ batch' = batch
      BY <2>2 DEF SendsLeft
    <3>2. SendsLeft' \in {Cardinality(batch) + 1, Cardinality(batch) + 0}
      BY <2>2 DEF SendsLeft
    <3> QED
      BY <1>c, <3>1, <3>2 DEF RunInv
  <2>6. RunInv'
    BY <2>2, <2>4, <2>5 DEF RunInv, Deadline
  <2> QED
    BY <2>3, <2>6
<1>7. CASE PauseEnds
  <2>1. /\ UNCHANGED <<orderVars, sinceTick, ticks, batch, current, clockVars>>
        /\ pc = "pausing" /\ pc' = "next" /\ timer' = 0
    BY <1>7 DEF PauseEnds
  <2>2. ScheduleTypeOK'
    BY <1>t, <2>1 DEF ScheduleTypeOK, orderVars, clockVars
  <2>3. SendsLeft = Cardinality(batch) + 1 /\ SendsLeft' = Cardinality(batch) + 0
    BY <2>1 DEF SendsLeft
  <2>4. SendsLeft' <= BatchLimit
    BY <1>c, <2>3 DEF RunInv
  <2>5. RunInv'
    BY <2>1, <2>2, <2>4 DEF RunInv, Deadline
  <2> QED
    BY <2>1, <2>5 DEF CalmInv, clockVars, orderVars, Owed
<1>8. CASE EndTick
  <2>1. /\ UNCHANGED <<tried, ticks, batch, current, clockVars>>
        /\ pc = "next" /\ pc' = "waiting" /\ timer' = 0 /\ batch = {}
        /\ sinceTick' = IF sinceTick = NoTicker THEN 0 ELSE sinceTick
    BY <1>8 DEF EndTick
  <2>2. /\ status' \in [Orders -> {"new", "pending", "due", "closed"}]
        /\ age' \in [Orders -> Time]
        /\ paidAge' = paidAge
    BY <1>8, <1>t DEF EndTick, ScheduleTypeOK, Time
  <2>3. ScheduleTypeOK'
    BY <1>t, <2>1, <2>2 DEF ScheduleTypeOK, clockVars
  <2>4. SendsLeft = Cardinality(batch) + 0 /\ SendsLeft' = Cardinality(batch) + 0
    BY <2>1 DEF SendsLeft
  <2>5. sinceTick' # NoTicker
    BY <2>1 DEF NoTicker
  <2>6. RunInv'
    BY <2>1, <2>3, <2>4, <2>5 DEF RunInv, Deadline
  <2>7. Owed' = Owed
    BY <1>8, <1>t DEF EndTick, Owed, Expired, ScheduleTypeOK
  <2> QED
    BY <2>1, <2>6, <2>7 DEF CalmInv, clockVars
<1>9. CASE TickerFires
  <2>1. /\ UNCHANGED <<orderVars, pc, timer, batch, current, clockVars>>
        /\ sinceTick = Interval /\ sinceTick' = 0 /\ ticks' = 1
    BY <1>9 DEF TickerFires
  <2>2. ScheduleTypeOK'
    BY <1>t, <2>1 DEF ScheduleTypeOK, orderVars, clockVars
  <2>3. pc # "warmup" /\ sinceTick' # NoTicker
    BY <2>1 DEF RunInv, NoTicker
  <2>4. RunInv'
    BY <2>1, <2>2, <2>3 DEF RunInv, Deadline, SendsLeft
  <2> QED
    BY <2>1, <2>4 DEF CalmInv, clockVars, orderVars, Owed
<1>10. CASE TimePasses
  <2>1. /\ UNCHANGED <<status, tried, pc, ticks, batch, current>>
        /\ uptime' = Later(uptime)
        /\ calm' = IF Cardinality(Owed) > BatchLimit THEN 0 ELSE Later(calm)
        /\ age' = [i \in Orders |-> IF status[i] \in {"pending", "due"} THEN Later(age[i]) ELSE 0]
        /\ paidAge' = [i \in Orders |-> IF status[i] = "due" THEN Later(paidAge[i]) ELSE 0]
    BY <1>10 DEF TimePasses
  <2>2. \A t \in Time : Later(t) \in Time /\ Later(t) <= t + 1 /\ t <= Later(t)
    BY DEF Later, Time
  <2>3. age' \in [Orders -> Time] /\ paidAge' \in [Orders -> Time]
    BY <1>t, <2>1, <2>2 DEF ScheduleTypeOK, Time
  <2>4. uptime' \in Time /\ calm' \in Time
    BY <1>t, <2>1, <2>2 DEF ScheduleTypeOK, Time
  <2>5. sinceTick' \in 0..Interval \cup {NoTicker}
        /\ (sinceTick = NoTicker <=> sinceTick' = NoTicker)
    BY <1>10, <1>t DEF TimePasses, ScheduleTypeOK, NoTicker
  <2>6. timer' \in Nat /\ timer' <= Deadline'
    <3>1. Deadline' = Deadline /\ Deadline \in Nat
      BY <2>1 DEF Deadline
    <3> QED
      BY <1>10, <1>t, <3>1 DEF TimePasses, ScheduleTypeOK, RunInv
  <2>7. ScheduleTypeOK'
    BY <1>t, <2>1, <2>3, <2>4, <2>5, <2>6 DEF ScheduleTypeOK
  <2>8. pc = "warmup" => uptime' <= timer'
    <3>1. pc = "warmup" => timer' = timer + 1 /\ uptime <= timer /\ uptime' <= uptime + 1
      BY <1>10, <1>t, <2>1, <2>2 DEF TimePasses, RunInv, ScheduleTypeOK
    <3> QED
      BY <1>t, <2>4, <2>6, <3>1 DEF ScheduleTypeOK, Time
  <2>9. RunInv'
    BY <2>1, <2>5, <2>6, <2>7, <2>8 DEF RunInv, SendsLeft
  <2>10. Owed' \subseteq Owed
    BY <1>t, <2>1 DEF Owed, Later, ScheduleTypeOK, Time
  <2>12. Cardinality(Owed') > BatchLimit => Cardinality(Owed) > BatchLimit
    <3>1. IsFiniteSet(Owed) /\ Cardinality(Owed) \in Nat
      BY Finite DEF Owed
    <3>2. Cardinality(Owed') \in Nat /\ Cardinality(Owed') <= Cardinality(Owed)
      BY <2>10, <3>1, FS_Subset, FS_CardinalityType
    <3> QED
      BY <3>1, <3>2
  <2>11. calm' <= uptime'
    BY <1>t, <2>1 DEF CalmInv, ScheduleTypeOK, Time, Later
  <2> QED
    BY <2>1, <2>9, <2>11, <2>12 DEF CalmInv
<1>11. CASE Restart
  <2>1. /\ pc' = "warmup" /\ timer' = 0 /\ sinceTick' = NoTicker /\ ticks' = 0
        /\ batch' = {} /\ current' = {} /\ uptime' = 0 /\ calm' = 0
        /\ UNCHANGED orderVars
    BY <1>11 DEF Restart
  <2>2. ScheduleTypeOK'
    <3>1. 0 \in Time /\ 0 \in Nat
      BY DEF Time
    <3>2. sinceTick' \in 0..Interval \cup {NoTicker} /\ ticks' \in 0..1
      BY <2>1
    <3>3. batch' \subseteq Orders /\ current' \subseteq Orders
      BY <2>1
    <3>4. status' = status /\ age' = age /\ paidAge' = paidAge /\ tried' = tried
      BY <2>1 DEF orderVars
    <3> QED
      BY <1>t, <2>1, <3>1, <3>2, <3>3, <3>4 DEF ScheduleTypeOK
  <2>3. SendsLeft' <= BatchLimit
    BY <2>1, FS_EmptySet DEF SendsLeft
  <2>4. RunInv'
    BY <2>1, <2>2, <2>3 DEF RunInv, Deadline
  <2> QED
    BY <2>1, <2>4 DEF CalmInv
<1>12. CASE UNCHANGED vars
  <2>1. RunInv'
    BY <1>12, <1>t DEF vars, orderVars, runVars, clockVars, RunInv, ScheduleTypeOK, SendsLeft, Deadline
  <2> QED
    BY <1>12, <2>1 DEF vars, orderVars, runVars, clockVars, CalmInv, Owed
<1> QED
  BY <1>1, <1>2, <1>3, <1>4, <1>5, <1>6, <1>7, <1>8, <1>9, <1>10, <1>11, <1>12 DEF ScheduleNext

-----------------------------------------------------------------------------
(* The limits *)

InTick == pc \in {"next", "sending", "pausing"}

\* The limits phase by phase; they stay below the bounds of the properties.
LimitFacts ==
  /\ pc = "warmup" => PendingLimit = timer /\ \A i : DueLimit(i) = timer
  /\ pc = "waiting" => /\ Waited \in 0..Interval
                       /\ PendingLimit = PendingMaxAge + Waited
                       /\ \A i : DueLimit(i) = RetryAfter + TickMax + Waited
  /\ InTick => /\ PendingLimit = PendingMaxAge + Interval + TickMax - ToGo
               /\ \A i : i \notin batch \cup current => DueLimit(i) = RetryAfter + TickMax - ToGo
               /\ \A i \in batch \cup current :
                    DueLimit(i) = RetryAfter + TickMax - ToGo + (Interval + TickMax)
  /\ ToGo \in 0..TickMax
  /\ TickMax \in Nat
  /\ ItemMax \in Nat
  /\ pc = "warmup" \/ pc = "waiting" \/ InTick
  /\ PendingLimit \in 0..(PendingMaxAge + Interval + TickMax)
  /\ \A i : DueLimit(i) \in 0..(RetryAfter + Interval + 2 * TickMax)

LEMMA Limits ==
  ASSUME RunInv
  PROVE  LimitFacts
<1> USE ScheduleAssumption
<1>t. /\ timer \in Nat /\ sinceTick \in 0..Interval \cup {NoTicker} /\ ticks \in 0..1
      /\ pc \in {"warmup", "waiting", "next", "sending", "pausing"}
  BY DEF RunInv, ScheduleTypeOK
<1>b. ToGo \in Nat /\ TickMax \in Nat /\ ToGo <= TickMax /\ ItemMax \in Nat
  BY Budget
<1>1. ASSUME pc = "warmup"
      PROVE  PendingLimit = timer /\ \A i : DueLimit(i) = timer
  BY <1>1 DEF PendingLimit, DueLimit
<1>2. ASSUME pc = "warmup" PROVE timer <= Interval
  <2>1. timer <= WarmUp
    BY <1>2 DEF RunInv, Deadline
  <2> QED
    BY <1>t, <2>1
<1>3. ASSUME pc = "waiting"
      PROVE  /\ PendingLimit = PendingMaxAge + Waited
             /\ \A i : DueLimit(i) = RetryAfter + TickMax + Waited
  BY <1>3 DEF PendingLimit, DueLimit
<1>4. ASSUME pc = "waiting" PROVE Waited \in 0..Interval
  <2>1. sinceTick \in 0..Interval
    BY <1>t, <1>4 DEF RunInv
  <2>2. Waited \in {Interval, sinceTick}
    BY DEF Waited
  <2> QED
    BY <2>1, <2>2
<1>5. ASSUME InTick
      PROVE  PendingLimit = PendingMaxAge + Interval + TickMax - ToGo
  <2>1. pc # "warmup" /\ pc # "waiting"
    BY <1>5 DEF InTick
  <2> QED
    BY <2>1 DEF PendingLimit
<1>6. ASSUME InTick, NEW i
      PROVE  DueLimit(i) = RetryAfter + TickMax - ToGo
                 + (IF i \in batch \cup current THEN Interval + TickMax ELSE 0)
  <2>1. pc # "warmup" /\ pc # "waiting"
    BY <1>6 DEF InTick
  <2> QED
    BY <2>1 DEF DueLimit
<1>7. ASSUME InTick, NEW i, i \notin batch \cup current
      PROVE  DueLimit(i) = RetryAfter + TickMax - ToGo
  <2>1. DueLimit(i) = RetryAfter + TickMax - ToGo + 0
    BY <1>6, <1>7
  <2> QED
    BY <1>b, <2>1
<1>8. ASSUME InTick, NEW i \in batch \cup current
      PROVE  DueLimit(i) = RetryAfter + TickMax - ToGo + (Interval + TickMax)
  BY <1>6, <1>8
<1>9. pc = "warmup" \/ pc = "waiting" \/ InTick
  BY <1>t DEF InTick
<1>10. PendingLimit \in 0..(PendingMaxAge + Interval + TickMax)
  BY <1>t, <1>b, <1>1, <1>2, <1>3, <1>4, <1>5, <1>9
<1>11. ASSUME NEW i PROVE DueLimit(i) \in 0..(RetryAfter + Interval + 2 * TickMax)
  <2>1. CASE pc = "warmup"
    <3>1. DueLimit(i) = timer
      BY <1>1, <2>1
    <3> QED
      BY <1>t, <1>b, <1>2, <2>1, <3>1
  <2>2. CASE pc = "waiting"
    <3>1. DueLimit(i) = RetryAfter + TickMax + Waited
      BY <1>3, <2>2
    <3> QED
      BY <1>b, <1>4, <2>2, <3>1
  <2>3. CASE InTick /\ i \notin batch \cup current
    <3>1. DueLimit(i) = RetryAfter + TickMax - ToGo
      BY <1>7, <2>3
    <3> QED
      BY <1>b, <3>1
  <2>4. CASE InTick /\ i \in batch \cup current
    <3>1. DueLimit(i) = RetryAfter + TickMax - ToGo + (Interval + TickMax)
      BY <1>8, <2>4
    <3> QED
      BY <1>b, <3>1
  <2> QED
    BY <1>9, <2>1, <2>2, <2>3, <2>4
<1>12. ToGo \in 0..TickMax
  BY <1>b
<1> QED
  BY <1>1, <1>3, <1>4, <1>5, <1>7, <1>8, <1>9, <1>10, <1>11, <1>12, <1>b DEF LimitFacts

\* The steps that neither begin nor end a tick, while the clocks stand still.
QuietStep ==
  \/ UNCHANGED runVars
  \/ BeginSend
  \/ SendReturns
  \/ PauseEnds
  \/ TickerFires

\* The budget after a step of a tick.
LEMMA ToGoStep ==
  ASSUME RunInv, RunInv'
  PROVE  /\ BeginSend => ToGo' = ToGo
         /\ SendReturns => ToGo' <= ToGo
         /\ PauseEnds => ToGo' = ToGo
         /\ TimePasses /\ InTick => ToGo' = ToGo - 1
<1> USE ScheduleAssumption
<1>t. timer \in Nat /\ batch \subseteq Orders
  BY DEF RunInv, ScheduleTypeOK
<1>b. ListToGo \in Nat /\ ItemMax \in Nat /\ ItemMax = SendMax + Pause
  BY Budget DEF ItemMax
<1>1. ASSUME BeginSend PROVE ToGo' = ToGo
  <2>1. PICK i \in batch : batch' = batch \ {i}
    BY <1>1 DEF BeginSend
  <2>2. IsFiniteSet(batch) /\ Cardinality(batch) \in Nat /\ Cardinality(batch') \in Nat
    BY <1>t, <2>1, Finite
  <2>3. Cardinality(batch) = Cardinality(batch') + 1
    <3>1. Cardinality(batch \ {i}) = Cardinality(batch) - 1
      BY <2>2, FS_RemoveElement
    <3> QED
      BY <2>1, <2>2, <3>1
  <2>4. ListToGo = Cardinality(batch') * ItemMax + ItemMax
    BY <2>2, <2>3, Products DEF ListToGo
  <2>5. ListToGo' = Cardinality(batch') * ItemMax
    BY DEF ListToGo, ItemMax
  <2>6. ListToGo' \in Nat
    BY <2>2, <2>5, Products
  <2>7. ToGo = ListToGo + 0 /\ ToGo' = ListToGo' + (ItemMax - timer') /\ timer' = 0
    BY <1>1 DEF BeginSend, ToGo, ItemMax
  <2> QED
    BY <1>b, <2>4, <2>5, <2>6, <2>7
<1>2. ASSUME SendReturns PROVE ToGo' <= ToGo
  <2>1. ListToGo' = ListToGo
    BY <1>2 DEF SendReturns, ListToGo, ItemMax
  <2>2. ToGo = ListToGo + (ItemMax - timer) /\ timer <= SendMax
    BY <1>2 DEF SendReturns, ToGo, RunInv, Deadline
  <2>3. \/ ToGo' = ListToGo' + (Pause - timer') /\ timer' = 0
        \/ ToGo' = ListToGo' + 0
    BY <1>2 DEF SendReturns, ToGo
  <2> QED
    BY <1>t, <1>b, <2>1, <2>2, <2>3
<1>3. ASSUME PauseEnds PROVE ToGo' = ToGo
  <2>1. ListToGo' = ListToGo
    BY <1>3 DEF PauseEnds, ListToGo, ItemMax
  <2>2. ToGo = ListToGo + (Pause - timer) /\ timer = Pause /\ ToGo' = ListToGo' + 0
    BY <1>3 DEF PauseEnds, ToGo
  <2> QED
    BY <1>t, <1>b, <2>1, <2>2
<1>4. ASSUME TimePasses, InTick PROVE ToGo' = ToGo - 1
  <2>1. ListToGo' = ListToGo /\ pc' = pc
    BY <1>4 DEF TimePasses, ListToGo, ItemMax
  <2>2. timer' = timer + 1 /\ timer < Deadline
    BY <1>4 DEF TimePasses, InTick
  <2>3. pc = "sending" \/ pc = "pausing"
    <3>1. pc = "next" => Deadline = 0
      BY DEF Deadline
    <3> QED
      BY <1>4, <1>t, <2>2, <3>1 DEF InTick
  <2>4. CASE pc = "sending"
    <3>1. ToGo = ListToGo + (ItemMax - timer) /\ ToGo' = ListToGo' + (ItemMax - timer')
      BY <2>1, <2>4 DEF ToGo, ItemMax
    <3> QED
      BY <1>t, <1>b, <2>1, <2>2, <3>1
  <2>5. CASE pc = "pausing"
    <3>1. ToGo = ListToGo + (Pause - timer) /\ ToGo' = ListToGo' + (Pause - timer')
      BY <2>1, <2>5 DEF ToGo
    <3> QED
      BY <1>t, <1>b, <2>1, <2>2, <3>1
  <2> QED
    BY <2>3, <2>4, <2>5
<1> QED
  BY <1>1, <1>2, <1>3, <1>4

\* The quiet steps take nothing from any limit but that of the order just tried.
LEMMA LimitsKept ==
  ASSUME RunInv, RunInv', QuietStep
  PROVE  /\ PendingLimit <= PendingLimit'
         /\ \A i : i \notin current \/ i \in current' => DueLimit(i) <= DueLimit(i)'
<1> USE ScheduleAssumption
<1>1. LimitFacts
  BY Limits
<1>2. (RunInv => LimitFacts)'
  BY Limits, PTL
<1>3. LimitFacts'
  BY <1>2
<1>4. CASE UNCHANGED runVars
  <2>1. PendingLimit' = PendingLimit
    BY <1>4 DEF runVars, PendingLimit, ToGo, ListToGo, Waited
  <2>2. \A i : DueLimit(i)' = DueLimit(i)
    BY <1>4 DEF runVars, DueLimit, ToGo, ListToGo, Waited
  <2> QED
    BY <1>1, <2>1, <2>2 DEF LimitFacts
<1>5. CASE BeginSend \/ SendReturns \/ PauseEnds
  <2>1. InTick /\ InTick'
    BY <1>5 DEF BeginSend, SendReturns, PauseEnds, InTick
  <2>2. ToGo' <= ToGo
    BY <1>1, <1>5, ToGoStep DEF LimitFacts
  <2>3. ASSUME NEW i, i \notin current \/ i \in current'
        PROVE  i \in batch \cup current => i \in batch' \cup current'
    BY <1>5, <2>3 DEF BeginSend, SendReturns, PauseEnds
  <2>4. TickMax' = TickMax
    BY DEF TickMax, ItemMax
  <2>5. PICK t \in Nat : t = ToGo'
    BY <1>3 DEF LimitFacts
  <2>6. ToGo \in Nat /\ TickMax \in Nat /\ t <= ToGo
    BY <1>1, <2>2, <2>5 DEF LimitFacts
  <2>7. PendingLimit <= PendingLimit'
    <3>1. PendingLimit = PendingMaxAge + Interval + TickMax - ToGo
      BY <1>1, <2>1 DEF LimitFacts
    <3>2. PendingLimit' = PendingMaxAge + Interval + TickMax - t
      BY <1>3, <2>1, <2>4, <2>5 DEF LimitFacts
    <3> QED
      BY <2>6, <3>1, <3>2
  <2>8. ASSUME NEW i, i \notin current \/ i \in current'
        PROVE  DueLimit(i) <= DueLimit(i)'
    <3>1. \/ DueLimit(i) = RetryAfter + TickMax - ToGo
          \/ /\ i \in batch \cup current
             /\ DueLimit(i) = RetryAfter + TickMax - ToGo + (Interval + TickMax)
      <4>1. i \in batch \cup current \/ i \notin batch \cup current
        OBVIOUS
      <4> QED
        BY <1>1, <2>1, <4>1 DEF LimitFacts
    <3>2. DueLimit(i)' = RetryAfter + TickMax - t
            \/ DueLimit(i)' = RetryAfter + TickMax - t + (Interval + TickMax)
      <4>1. i \in batch' \cup current' \/ i \notin batch' \cup current'
        OBVIOUS
      <4> QED
        BY <1>3, <2>1, <2>4, <2>5, <4>1 DEF LimitFacts
    <3>3. i \in batch' \cup current' =>
            DueLimit(i)' = RetryAfter + TickMax - t + (Interval + TickMax)
      BY <1>3, <2>1, <2>4, <2>5 DEF LimitFacts
    <3> QED
      BY <2>3, <2>6, <2>8, <3>1, <3>2, <3>3
  <2> QED
    BY <2>7, <2>8
<1>6. CASE TickerFires
  <2>1. /\ UNCHANGED <<pc, timer, batch, current>>
        /\ sinceTick = Interval /\ ticks' = 1
    BY <1>6 DEF TickerFires
  <2>2. Waited = Interval /\ Waited' = Interval
    BY <2>1 DEF Waited
  <2>3. PendingLimit' = PendingLimit
    BY <2>1, <2>2 DEF PendingLimit, ToGo, ListToGo
  <2>4. \A i : DueLimit(i)' = DueLimit(i)
    BY <2>1, <2>2 DEF DueLimit, ToGo, ListToGo
  <2> QED
    BY <1>1, <2>3, <2>4 DEF LimitFacts
<1> QED
  BY <1>4, <1>5, <1>6 DEF QuietStep

\* While time passes every limit grows with it.
LEMMA LimitsGrow ==
  ASSUME RunInv, RunInv', TimePasses
  PROVE  /\ PendingLimit' = PendingLimit + 1
         /\ \A i : DueLimit(i)' = DueLimit(i) + 1
<1> USE ScheduleAssumption
<1>1. LimitFacts
  BY Limits
<1>2. (RunInv => LimitFacts)'
  BY Limits, PTL
<1>3. LimitFacts' /\ TickMax' = TickMax
  BY <1>2 DEF TickMax, ItemMax
<1>4. UNCHANGED <<pc, ticks, batch, current>>
  BY DEF TimePasses
<1>5. CASE pc = "warmup"
  <2>1. timer' = timer + 1
    BY <1>5 DEF TimePasses
  <2> QED
    BY <1>1, <1>3, <1>4, <1>5, <2>1 DEF LimitFacts
<1>6. CASE pc = "waiting"
  <2>1. ticks = 0
    <3>1. Deadline = 0 /\ timer \in Nat
      BY <1>6 DEF Deadline, RunInv, ScheduleTypeOK
    <3> QED
      BY <1>6, <3>1 DEF TimePasses
  <2>2. sinceTick' = sinceTick + 1
    BY <1>6 DEF TimePasses, RunInv
  <2>3. Waited' = Waited + 1
    BY <1>4, <2>1, <2>2 DEF Waited
  <2>4. /\ PendingLimit = PendingMaxAge + Waited
        /\ PendingLimit' = PendingMaxAge + Waited'
        /\ Waited \in Nat /\ TickMax \in Nat
    BY <1>1, <1>3, <1>4, <1>6 DEF LimitFacts
  <2>5. ASSUME NEW i PROVE DueLimit(i)' = DueLimit(i) + 1
    <3>1. /\ DueLimit(i) = RetryAfter + TickMax + Waited
          /\ DueLimit(i)' = RetryAfter + TickMax + Waited'
      BY <1>1, <1>3, <1>4, <1>6 DEF LimitFacts
    <3> QED
      BY <2>3, <2>4, <3>1
  <2> QED
    BY <2>3, <2>4, <2>5
<1>7. CASE InTick
  <2>1. InTick' /\ ToGo' = ToGo - 1
    BY <1>4, <1>7, ToGoStep DEF InTick
  <2>2. ToGo \in Nat /\ TickMax \in Nat
    BY <1>1 DEF LimitFacts
  <2>3. /\ PendingLimit = PendingMaxAge + Interval + TickMax - ToGo
        /\ PendingLimit' = PendingMaxAge + Interval + TickMax - ToGo'
    BY <1>1, <1>3, <1>7, <2>1 DEF LimitFacts
  <2>4. ASSUME NEW i PROVE DueLimit(i)' = DueLimit(i) + 1
    <3>1. CASE i \notin batch \cup current
      <4>1. /\ DueLimit(i) = RetryAfter + TickMax - ToGo
            /\ DueLimit(i)' = RetryAfter + TickMax - ToGo'
        BY <1>1, <1>3, <1>4, <1>7, <2>1, <3>1 DEF LimitFacts
      <4> QED
        BY <2>1, <2>2, <4>1
    <3>2. CASE i \in batch \cup current
      <4>1. /\ DueLimit(i) = RetryAfter + TickMax - ToGo + (Interval + TickMax)
            /\ DueLimit(i)' = RetryAfter + TickMax - ToGo' + (Interval + TickMax)
        BY <1>1, <1>3, <1>4, <1>7, <2>1, <3>2 DEF LimitFacts
      <4> QED
        BY <2>1, <2>2, <4>1
    <3> QED
      BY <3>1, <3>2
  <2> QED
    BY <2>1, <2>2, <2>3, <2>4
<1> QED
  BY <1>1, <1>5, <1>6, <1>7 DEF LimitFacts

-----------------------------------------------------------------------------
(* The invariant is inductive *)

\* A quiet step that is not a placing leaves every age as it is or sets it to 0, and
\* makes no order pending or, but for a payment, owed.
LEMMA QuietOrders ==
  ASSUME RunInv,
         \/ \E i \in Orders : Pay(i) \/ GiveUp(i) \/ MarkedElsewhere(i)
         \/ BeginSend \/ SendReturns \/ PauseEnds \/ TickerFires \/ UNCHANGED vars
  PROVE  /\ QuietStep
         /\ UNCHANGED uptime
         /\ calm' \in {0, calm}
         /\ \A j \in Orders : age'[j] \in {0, age[j]}
         /\ \A j \in Orders : status'[j] = "pending" => status[j] = "pending"
         /\ \A j \in Owed' : j \in Owed \/ age'[j] = 0
         /\ \A j \in current \ current' : age'[j] = 0
<1>t. ScheduleTypeOK
  BY DEF RunInv
<1>1. ASSUME NEW i \in Orders, Pay(i)
      PROVE  /\ UNCHANGED runVars /\ UNCHANGED uptime
             /\ calm' \in {0, calm}
             /\ \A j \in Orders : age'[j] \in {0, age[j]}
             /\ \A j \in Orders : status'[j] = "pending" => status[j] = "pending"
             /\ \A j \in Owed' : j \in Owed \/ age'[j] = 0
  BY <1>1, <1>t DEF Pay, ScheduleTypeOK, Owed
<1>2. ASSUME NEW i \in Orders, GiveUp(i) \/ MarkedElsewhere(i)
      PROVE  /\ UNCHANGED runVars /\ UNCHANGED uptime /\ UNCHANGED calm
             /\ \A j \in Orders : age'[j] \in {0, age[j]}
             /\ \A j \in Orders : status'[j] \in {status[j], "closed"}
             /\ Owed' \subseteq Owed
  <2>1. (Close(i) \/ MarkTried(i)) /\ UNCHANGED <<runVars, clockVars>>
    BY <1>2 DEF GiveUp, MarkedElsewhere
  <2> QED
    BY <1>t, <2>1, Closing DEF clockVars
<1>3. ASSUME SendReturns
      PROVE  /\ UNCHANGED uptime /\ UNCHANGED calm
             /\ \A j \in Orders : age'[j] \in {0, age[j]}
             /\ \A j \in Orders : status'[j] \in {status[j], "closed"}
             /\ Owed' \subseteq Owed
             /\ \A j \in current : age'[j] = 0
  <2>1. PICK i \in current : Close(i) \/ MarkTried(i)
    BY <1>3 DEF SendReturns
  <2>2. i \in Orders /\ current = {i}
    BY <1>t, <2>1 DEF RunInv, ScheduleTypeOK
  <2>3. UNCHANGED uptime /\ UNCHANGED calm
    BY <1>3 DEF SendReturns, clockVars
  <2> QED
    BY <1>t, <2>1, <2>2, <2>3, Closing
<1>4. ASSUME BeginSend \/ PauseEnds \/ TickerFires \/ UNCHANGED vars
      PROVE  UNCHANGED <<status, age, paidAge, uptime, calm>> /\ (QuietStep)
  BY <1>4 DEF BeginSend, PauseEnds, TickerFires, vars, orderVars, clockVars, QuietStep
<1>5. ASSUME BeginSend PROVE current \subseteq current'
  BY <1>5 DEF BeginSend, RunInv
<1>6. ASSUME PauseEnds \/ TickerFires \/ UNCHANGED vars PROVE current' = current
  BY <1>6 DEF PauseEnds, TickerFires, vars, runVars
<1>7. CASE \E i \in Orders : Pay(i) \/ GiveUp(i) \/ MarkedElsewhere(i)
  <2>1. PICK i \in Orders : Pay(i) \/ GiveUp(i) \/ MarkedElsewhere(i)
    BY <1>7
  <2>2. CASE Pay(i)
    BY <1>1, <2>2 DEF QuietStep, runVars
  <2>3. CASE GiveUp(i) \/ MarkedElsewhere(i)
    BY <1>2, <2>3 DEF QuietStep, runVars
  <2> QED
    BY <2>1, <2>2, <2>3
<1>8. CASE SendReturns
  BY <1>3, <1>8 DEF QuietStep
<1>9. CASE BeginSend \/ PauseEnds \/ TickerFires \/ UNCHANGED vars
  BY <1>4, <1>5, <1>6, <1>9 DEF Owed
<1> QED
  BY <1>7, <1>8, <1>9

LEMMA StepPending ==
  ASSUME RunInv, RunInv', PendingInv, [ScheduleNext]_vars
  PROVE  PendingInv'
<1> USE ScheduleAssumption
<1>t. ScheduleTypeOK /\ ScheduleTypeOK'
  BY DEF RunInv
<1>n. /\ \A j \in Orders : age[j] \in Nat /\ age'[j] \in Nat
      /\ uptime \in Nat /\ uptime' \in Nat
  BY <1>t DEF ScheduleTypeOK, Time
<1>1. LimitFacts
  BY Limits
<1>2. (RunInv => LimitFacts)'
  BY Limits, PTL
<1>3. LimitFacts' /\ TickMax' = TickMax
  BY <1>2 DEF TickMax, ItemMax
<1>4. PendingLimit \in Nat /\ PendingLimit' \in Nat
  BY <1>1, <1>3 DEF LimitFacts
<1> SUFFICES ASSUME NEW j \in Orders, status'[j] = "pending"
             PROVE  age'[j] <= PendingLimit' \/ uptime' <= PendingLimit'
  BY DEF PendingInv
<1>5. CASE \E i \in Orders : Place(i)
  <2>1. PICK i \in Orders : Place(i)
    BY <1>5
  <2>2. QuietStep /\ UNCHANGED uptime
    BY <2>1 DEF Place, QuietStep, runVars, clockVars
  <2>3. PendingLimit <= PendingLimit'
    BY <2>2, LimitsKept
  <2>4. age'[j] = 0 \/ (status[j] = "pending" /\ age'[j] = age[j])
    BY <1>t, <2>1 DEF Place, ScheduleTypeOK
  <2> QED
    BY <1>n, <1>4, <2>2, <2>3, <2>4 DEF PendingInv
<1>6. CASE \/ \E i \in Orders : Pay(i) \/ GiveUp(i) \/ MarkedElsewhere(i)
           \/ BeginSend \/ SendReturns \/ PauseEnds \/ TickerFires \/ UNCHANGED vars
  <2>1. QuietStep /\ UNCHANGED uptime /\ age'[j] \in {0, age[j]} /\ status[j] = "pending"
    BY <1>6, QuietOrders
  <2>2. PendingLimit <= PendingLimit'
    BY <2>1, LimitsKept
  <2> QED
    BY <1>n, <1>4, <2>1, <2>2 DEF PendingInv
<1>7. CASE BeginTick
  <2>1. age' = age /\ uptime' = uptime /\ status' = status /\ InTick'
    BY <1>7 DEF BeginTick, orderVars, clockVars, InTick
  <2>2. PendingLimit <= PendingMaxAge + Interval
    <3>1. CASE pc = "warmup"
      <4>1. PendingLimit = timer /\ timer = WarmUp
        BY <1>1, <1>7, <3>1 DEF LimitFacts, BeginTick, TickReceived
      <4> QED
        BY <4>1
    <3>2. CASE pc = "waiting"
      <4>1. PendingLimit = PendingMaxAge + Waited /\ Waited \in 0..Interval
        BY <1>1, <3>2 DEF LimitFacts
      <4> QED
        BY <4>1
    <3> QED
      BY <1>7, <3>1, <3>2 DEF BeginTick, TickReceived
  <2>3. PICK t \in 0..TickMax : t = ToGo'
    BY <1>3 DEF LimitFacts
  <2>4. PendingLimit' = PendingMaxAge + Interval + TickMax - t
    BY <1>3, <2>1, <2>3 DEF LimitFacts
  <2>5. PICK m \in Nat : m = PendingLimit'
    BY <1>4
  <2>6. TickMax \in Nat
    BY <1>1 DEF LimitFacts
  <2>7. PendingMaxAge + Interval <= m
    <3>1. t \in Nat /\ t <= TickMax
      BY <2>3, <2>6
    <3>2. m = PendingMaxAge + Interval + TickMax - t
      BY <2>4, <2>5
    <3> QED
      BY <2>6, <3>1, <3>2
  <2>8. age[j] <= PendingLimit \/ uptime <= PendingLimit
    BY <2>1 DEF PendingInv
  <2> QED
    BY <1>n, <1>4, <2>1, <2>2, <2>5, <2>7, <2>8
<1>8. CASE EndTick
  <2>1. status[j] = "pending" /\ age[j] <= PendingMaxAge /\ age'[j] = age[j]
    <3>1. j \notin Expired /\ status'[j] = status[j] /\ age'[j] = age[j]
      BY <1>8 DEF EndTick
    <3> QED
      BY <1>n, <3>1 DEF Expired
  <2>2. pc' = "waiting"
    BY <1>8 DEF EndTick
  <2>3. PICK w \in 0..Interval : w = Waited'
    BY <1>3, <2>2 DEF LimitFacts
  <2>4. PendingLimit' = PendingMaxAge + w
    BY <1>3, <2>2, <2>3 DEF LimitFacts
  <2>5. w \in Nat
    BY <2>3
  <2>6. age[j] <= PendingMaxAge + w
    BY <1>n, <2>1, <2>5
  <2> QED
    BY <2>1, <2>4, <2>6
<1>9. CASE TimePasses
  <2>1. PendingLimit' = PendingLimit + 1
    BY <1>9, LimitsGrow
  <2>2. status[j] = "pending" /\ age'[j] <= age[j] + 1 /\ uptime' <= uptime + 1
    BY <1>9, <1>n DEF TimePasses, Later
  <2> QED
    BY <1>n, <1>4, <2>1, <2>2 DEF PendingInv
<1>10. CASE Restart
  <2>1. uptime' = 0
    BY <1>10 DEF Restart
  <2> QED
    BY <1>4, <2>1
<1> QED
  BY <1>5, <1>6, <1>7, <1>8, <1>9, <1>10 DEF ScheduleNext

LEMMA StepDue ==
  ASSUME RunInv, RunInv', CalmInv, DueInv, [ScheduleNext]_vars
  PROVE  DueInv'
<1> USE ScheduleAssumption
<1>t. ScheduleTypeOK /\ ScheduleTypeOK'
  BY DEF RunInv
<1>n. /\ \A j \in Orders : age[j] \in Nat /\ age'[j] \in Nat
      /\ calm \in Nat /\ calm' \in Nat /\ uptime \in Nat
  BY <1>t DEF ScheduleTypeOK, Time
<1>1. LimitFacts
  BY Limits
<1>2. (RunInv => LimitFacts)'
  BY Limits, PTL
<1>3. LimitFacts' /\ TickMax' = TickMax /\ TickMax \in Nat
  BY <1>1, <1>2 DEF TickMax, ItemMax, LimitFacts
<1> SUFFICES ASSUME NEW j \in Owed'
             PROVE  age'[j] <= DueLimit(j)' \/ calm' <= DueLimit(j)'
  BY DEF DueInv
<1>j. j \in Orders
  BY DEF Owed
<1>4. DueLimit(j) \in Nat /\ DueLimit(j)' \in Nat
  BY <1>1, <1>3 DEF LimitFacts
<1>5. CASE \E i \in Orders : Place(i)
  <2>1. PICK i \in Orders : Place(i)
    BY <1>5
  <2>2. QuietStep /\ UNCHANGED <<calm, current>>
    BY <2>1 DEF Place, QuietStep, runVars, clockVars
  <2>3. DueLimit(j) <= DueLimit(j)'
    BY <2>2, LimitsKept
  <2>4. j \in Owed /\ age'[j] = age[j]
    BY <1>t, <1>j, <2>1 DEF Place, ScheduleTypeOK, Owed
  <2> QED
    BY <1>n, <1>j, <1>4, <2>2, <2>3, <2>4 DEF DueInv
<1>6. CASE \/ \E i \in Orders : Pay(i) \/ GiveUp(i) \/ MarkedElsewhere(i)
           \/ BeginSend \/ SendReturns \/ PauseEnds \/ TickerFires \/ UNCHANGED vars
  <2>1. /\ QuietStep
        /\ calm' \in {0, calm}
        /\ age'[j] \in {0, age[j]}
        /\ j \in Owed \/ age'[j] = 0
        /\ j \in current \ current' => age'[j] = 0
    BY <1>j, <1>6, QuietOrders
  <2>2. j \notin current \ current' => DueLimit(j) <= DueLimit(j)'
    BY <2>1, LimitsKept
  <2> QED
    BY <1>n, <1>j, <1>4, <2>1, <2>2 DEF DueInv
<1>7. CASE BeginTick
  <2>1. age' = age /\ calm' = calm /\ Owed' = Owed /\ current' = current /\ InTick'
    BY <1>7 DEF BeginTick, orderVars, clockVars, InTick, Owed
  <2>2. current = {}
    BY <1>7 DEF BeginTick, TickReceived, RunInv
  <2>3. PICK t \in 0..TickMax : t = ToGo'
    BY <1>3 DEF LimitFacts
  <2>t. t \in Nat /\ t <= TickMax
    BY <1>3, <2>3
  <2>4. PICK m \in Nat : m = DueLimit(j)'
    BY <1>4
  <2>5. CASE j \in batch'
    <3>1. m = RetryAfter + TickMax - t + (Interval + TickMax)
      BY <1>3, <2>1, <2>3, <2>4, <2>5 DEF LimitFacts
    <3>2. RetryAfter + TickMax + Interval <= m
      BY <1>3, <2>t, <3>1
    <3>3. DueLimit(j) <= RetryAfter + TickMax + Interval
      <4>1. CASE pc = "warmup"
        <5>1. DueLimit(j) = timer /\ timer = WarmUp
          BY <1>1, <1>7, <4>1 DEF LimitFacts, BeginTick, TickReceived
        <5> QED
          BY <1>3, <5>1
      <4>2. CASE pc = "waiting"
        <5>1. DueLimit(j) = RetryAfter + TickMax + Waited /\ Waited \in 0..Interval
          BY <1>1, <4>2 DEF LimitFacts
        <5> QED
          BY <1>3, <5>1
      <4> QED
        BY <1>7, <4>1, <4>2 DEF BeginTick, TickReceived
    <3>4. age[j] <= DueLimit(j) \/ calm <= DueLimit(j)
      BY <2>1 DEF DueInv
    <3>5. age[j] <= m \/ calm <= m
      BY <1>3, <1>4, <1>n, <1>j, <3>2, <3>3, <3>4
    <3> QED
      BY <2>1, <2>4, <3>5
  <2>6. CASE j \notin batch'
    <3>1. m = RetryAfter + TickMax - t
      BY <1>3, <2>1, <2>2, <2>3, <2>4, <2>6 DEF LimitFacts
    <3>2. RetryAfter <= m
      BY <1>3, <2>t, <3>1
    <3>3. j \in Owed
      BY <2>1
    <3>4. Cardinality(Owed) \in Nat
      BY Finite DEF Owed
    <3>5. age[j] <= RetryAfter \/ calm = 0
      BY <1>7, <1>t, <2>6, <3>3, <3>4, Listing DEF BeginTick, CalmInv
    <3>6. age[j] <= m \/ calm <= m
      BY <1>n, <1>j, <3>2, <3>5
    <3> QED
      BY <2>1, <2>4, <3>6
  <2> QED
    BY <2>5, <2>6
<1>8. CASE EndTick
  <2>1. j \in Owed /\ age'[j] = age[j] /\ calm' = calm
    <3>1. j \notin Expired /\ status'[j] = status[j] /\ age'[j] = age[j] /\ calm' = calm
          /\ paidAge' = paidAge
      BY <1>j, <1>8 DEF EndTick, clockVars, Owed
    <3> QED
      BY <1>j, <3>1 DEF Owed
  <2>2. pc' = "waiting" /\ InTick /\ batch = {} /\ current = {}
    BY <1>8 DEF EndTick, InTick, RunInv
  <2>3. PICK w \in 0..Interval : w = Waited'
    BY <1>3, <2>2 DEF LimitFacts
  <2>4. PICK m \in Nat : m = DueLimit(j)'
    BY <1>4
  <2>5. m = RetryAfter + TickMax + w
    BY <1>3, <2>2, <2>3, <2>4 DEF LimitFacts
  <2>6. DueLimit(j) = RetryAfter + TickMax - ToGo /\ ToGo \in 0..TickMax
    BY <1>1, <2>2 DEF LimitFacts
  <2>7. DueLimit(j) <= m
    <3>1. w \in Nat /\ ToGo \in Nat /\ ToGo <= TickMax
      BY <1>3, <2>3, <2>6
    <3> QED
      BY <1>3, <2>5, <2>6, <3>1
  <2>8. age[j] <= DueLimit(j) \/ calm <= DueLimit(j)
    BY <2>1 DEF DueInv
  <2>9. age[j] <= m \/ calm <= m
    BY <1>4, <1>n, <1>j, <2>7, <2>8
  <2> QED
    BY <2>1, <2>4, <2>9
<1>9. CASE TimePasses
  <2>1. DueLimit(j)' = DueLimit(j) + 1
    BY <1>9, LimitsGrow
  <2>2. status[j] = "due" /\ age'[j] <= age[j] + 1 /\ calm' <= calm + 1
    BY <1>9, <1>j, <1>n DEF TimePasses, Later, Owed
  <2>3. j \in Owed
    BY <1>9, <1>j, <1>t, <2>2 DEF TimePasses, Later, Owed, ScheduleTypeOK, Time
  <2> QED
    BY <1>n, <1>j, <1>4, <2>1, <2>2, <2>3 DEF DueInv
<1>10. CASE Restart
  <2>1. calm' = 0
    BY <1>10 DEF Restart
  <2> QED
    BY <1>4, <2>1
<1> QED
  BY <1>5, <1>6, <1>7, <1>8, <1>9, <1>10 DEF ScheduleNext

LEMMA StepSchedule == ScheduleInv /\ [ScheduleNext]_vars => ScheduleInv'
BY StepRun, StepPending, StepDue DEF ScheduleInv

-----------------------------------------------------------------------------
(* The results *)

\* In every reachable state, for any number of orders and any durations.
THEOREM ScheduleInvHolds == ScheduleSpec => []ScheduleInv
BY InitSchedule, StepSchedule, PTL DEF ScheduleSpec

\* The variables of Run and of the orders have their types (reconciler.go).
THEOREM ScheduleTypeCorrect == ScheduleSpec => []ScheduleTypeOK
BY ScheduleInvHolds, PTL DEF ScheduleInv, RunInv

\* No order stays pending longer than PendingMaxAge + Interval + TickMax of the
\* process's life (tick, cleanupExpiredPending).
THEOREM PendingBound == ScheduleSpec => []PendingAgeBounded
<1>1. ScheduleInv => PendingAgeBounded
  <2> SUFFICES ASSUME ScheduleInv, NEW i \in Orders, status[i] = "pending"
               PROVE  \/ age[i] <= PendingMaxAge + Interval + TickMax
                      \/ uptime <= PendingMaxAge + Interval + TickMax
    BY DEF PendingAgeBounded
  <2>1. PendingLimit \in 0..(PendingMaxAge + Interval + TickMax) /\ TickMax \in Nat
    BY Limits DEF ScheduleInv, LimitFacts
  <2>2. age[i] \in Nat /\ uptime \in Nat
    BY DEF ScheduleInv, RunInv, ScheduleTypeOK, Time
  <2>3. age[i] <= PendingLimit \/ uptime <= PendingLimit
    BY DEF ScheduleInv, PendingInv
  <2> QED
    BY <2>1, <2>2, <2>3, ScheduleAssumption
<1> QED
  BY <1>1, ScheduleInvHolds, PTL

\* While no more than BatchLimit orders younger than MaxAge are due, each of them is
\* tried in time, until it is MaxAge old (ListPendingWebhooks, retryPendingWebhooks).
THEOREM AttemptBound == ScheduleSpec => []AttemptedInTime
<1>1. ScheduleInv => AttemptedInTime
  <2> SUFFICES ASSUME ScheduleInv, NEW i \in Owed
               PROVE  \/ age[i] <= RetryAfter + Interval + 2 * TickMax
                      \/ calm <= RetryAfter + Interval + 2 * TickMax
    BY DEF AttemptedInTime
  <2>1. DueLimit(i) \in 0..(RetryAfter + Interval + 2 * TickMax) /\ TickMax \in Nat
    BY Limits DEF ScheduleInv, LimitFacts
  <2>2. age[i] \in Nat /\ calm \in Nat
    BY DEF ScheduleInv, RunInv, ScheduleTypeOK, Time, Owed
  <2>3. age[i] <= DueLimit(i) \/ calm <= DueLimit(i)
    BY DEF ScheduleInv, DueInv
  <2> QED
    BY <2>1, <2>2, <2>3, ScheduleAssumption
<1> QED
  BY <1>1, ScheduleInvHolds, PTL
=============================================================================
