-------------------------- MODULE AdminQueryProofs --------------------------
(***************************************************************************)
(* What buildWhere selects, for every filter and every table: each         *)
(* placeholder stands for its own argument, so that the WHERE means what   *)
(* the filter says, and the tiles of StatsFor count the same payments.     *)
(* The pages of ListFiltered share out what was selected, and an admin who *)
(* follows the links while the table changes misses no more payments than  *)
(* have left the list or came too late for its count.                      *)
(***************************************************************************)
EXTENDS AdminQuery, PaymentStoreProofs, SequenceTheorems, FiniteSetTheorems,
        FunctionTheorems, TLAPS

-----------------------------------------------------------------------------
(* A WHERE under construction *)

\* The columns whose conditions buildWhere puts before the search.
Single == {"status", "productType", "planId", "createdAt"}

Condition == [col : Single \cup {"webhookProblem", "invId", "emailOrUserRef"}, n : Nat]

\* The next placeholder is the next argument's, and no condition refers to an
\* argument that is not there.
WellFormed(q, S) ==
  /\ q \in [conds : Seq(Condition), args : Seq(S), i : Nat]
  /\ q.i = Len(q.args) + 1
  /\ \A k \in 1..Len(q.conds) :
       \/ q.conds[k].col = "webhookProblem"
       \/ q.conds[k].col \in Single /\ q.conds[k].n \in 1..Len(q.args)

Passes(q, p) == \A k \in 1..Len(q.conds) : Holds(q.conds[k], q.args, p)

\* A condition refers to its own argument only.
LEMMA HoldsPrefix ==
  ASSUME NEW S, NEW q, WellFormed(q, S), NEW args, NEW p, NEW k \in 1..Len(q.conds),
         \A n \in 1..Len(q.args) : args[n] = q.args[n]
  PROVE  Holds(q.conds[k], args, p) <=> Holds(q.conds[k], q.args, p)
<1>1. CASE q.conds[k].col = "webhookProblem"
  BY <1>1 DEF Holds, Columns
<1>2. CASE q.conds[k].col \in Single /\ q.conds[k].n \in 1..Len(q.args)
  <2>1. args[q.conds[k].n] = q.args[q.conds[k].n]
    BY <1>2
  <2>2. q.conds[k].col # "emailOrUserRef"
    BY <1>2 DEF Single
  <2> QED
    BY <2>1, <2>2 DEF Holds
<1> QED
  BY <1>1, <1>2 DEF WellFormed

\* One more condition, with its arguments behind the others.
LEMMA OneMore ==
  ASSUME NEW S, NEW q, WellFormed(q, S), NEW r, NEW p,
         Len(r.conds) = Len(q.conds) + 1,
         \A k \in 1..Len(q.conds) : r.conds[k] = q.conds[k],
         \A n \in 1..Len(q.args) : r.args[n] = q.args[n]
  PROVE  Passes(r, p) <=> Passes(q, p) /\ Holds(r.conds[Len(q.conds) + 1], r.args, p)
<1>1. q.conds \in Seq(Condition) /\ Len(q.conds) \in Nat
  BY DEF WellFormed
<1>2. \A k \in 1..Len(q.conds) : Holds(q.conds[k], r.args, p) <=> Holds(q.conds[k], q.args, p)
  BY HoldsPrefix
<1>3. 1..Len(r.conds) = 1..Len(q.conds) \cup {Len(q.conds) + 1}
  BY <1>1
<1>4. Passes(r, p) <=> /\ \A k \in 1..Len(q.conds) : Holds(r.conds[k], r.args, p)
                       /\ Holds(r.conds[Len(q.conds) + 1], r.args, p)
  BY <1>3 DEF Passes
<1>5. \A k \in 1..Len(q.conds) : Holds(r.conds[k], r.args, p) <=> Holds(q.conds[k], q.args, p)
  BY <1>2
<1> QED
  BY <1>4, <1>5 DEF Passes

\* push.
LEMMA PushMeans ==
  ASSUME NEW S, NEW q, WellFormed(q, S), NEW col \in Single, NEW val \in S, NEW p
  PROVE  /\ WellFormed(Push(q, col, val), S)
         /\ Passes(Push(q, col, val), p)
              <=> Passes(q, p) /\ Holds([col |-> col, n |-> 1], <<val>>, p)
<1> DEFINE c == [col |-> col, n |-> q.i]
           r == Push(q, col, val)
<1>1. /\ q.conds \in Seq(Condition)
      /\ q.args \in Seq(S)
      /\ q.i \in Nat
      /\ q.i = Len(q.args) + 1
      /\ Len(q.args) \in Nat
      /\ Len(q.conds) \in Nat
  BY DEF WellFormed
<1>2. c \in Condition
  BY <1>1 DEF Condition, Single
<1>3. /\ r.conds = Append(q.conds, c)
      /\ r.args = Append(q.args, val)
      /\ r.i = q.i + 1
      /\ r = [conds |-> r.conds, args |-> r.args, i |-> r.i]
  BY DEF Push
<1>4. /\ Len(r.args) = Len(q.args) + 1
      /\ r.args \in Seq(S)
      /\ r.args[q.i] = val
      /\ \A n \in 1..Len(q.args) : r.args[n] = q.args[n]
  BY <1>1, <1>3
<1>5. /\ Len(r.conds) = Len(q.conds) + 1
      /\ r.conds \in Seq(Condition)
      /\ r.conds[Len(q.conds) + 1] = c
      /\ \A k \in 1..Len(q.conds) : r.conds[k] = q.conds[k]
  BY <1>1, <1>2, <1>3
<1>6. Passes(r, p) <=> Passes(q, p) /\ Holds(c, r.args, p)
  <2> HIDE DEF r, c
  <2> QED
    BY <1>4, <1>5, OneMore
<1>7. Holds(c, r.args, p) <=> Holds([col |-> col, n |-> 1], <<val>>, p)
  <2>1. <<val>>[1] = val
    OBVIOUS
  <2> HIDE DEF r
  <2> QED
    BY <1>4, <2>1 DEF Holds, Single
<1>8. \A k \in 1..Len(r.conds) :
        \/ r.conds[k].col = "webhookProblem"
        \/ r.conds[k].col \in Single /\ r.conds[k].n \in 1..Len(r.args)
  <2> SUFFICES ASSUME NEW k \in 1..Len(r.conds)
               PROVE  \/ r.conds[k].col = "webhookProblem"
                      \/ r.conds[k].col \in Single /\ r.conds[k].n \in 1..Len(r.args)
    OBVIOUS
  <2> HIDE DEF r
  <2>1. CASE k \in 1..Len(q.conds)
    <3>1. \/ q.conds[k].col = "webhookProblem"
          \/ q.conds[k].col \in Single /\ q.conds[k].n \in 1..Len(q.args)
      BY <2>1 DEF WellFormed
    <3>2. 1..Len(q.args) \subseteq 1..Len(r.args)
      BY <1>1, <1>4
    <3> QED
      BY <1>5, <2>1, <3>1, <3>2
  <2>2. CASE k = Len(q.conds) + 1
    <3>1. r.conds[k] = c /\ c.col \in Single /\ c.n = q.i
      BY <1>5, <2>2
    <3>2. q.i \in 1..Len(r.args)
      BY <1>1, <1>4
    <3> QED
      BY <3>1, <3>2
  <2> QED
    BY <1>1, <1>5, <2>1, <2>2
<1>9. WellFormed(r, S)
  <2> HIDE DEF r
  <2>1. r.i \in Nat /\ r.i = Len(r.args) + 1
    BY <1>1, <1>3, <1>4
  <2>2. r \in [conds : Seq(Condition), args : Seq(S), i : Nat]
    BY <1>3, <1>4, <1>5, <2>1
  <2> QED
    BY <1>8, <2>1, <2>2 DEF WellFormed
<1> QED
  BY <1>6, <1>7, <1>9

\* The condition of a column, read.
LEMMA SingleMeans ==
  ASSUME NEW val, NEW p
  PROVE  /\ Holds([col |-> "status", n |-> 1], <<val>>, p) <=> p.status = val
         /\ Holds([col |-> "productType", n |-> 1], <<val>>, p)
              <=> DetailsOf[p.link].productType = val
         /\ Holds([col |-> "planId", n |-> 1], <<val>>, p) <=> DetailsOf[p.link].planId = val
         /\ Holds([col |-> "createdAt", n |-> 1], <<val>>, p) <=> p.age <= val
BY DEF Holds, Columns

\* And that of a search for a text.
LEMMA TextMeans ==
  ASSUME NEW n \in Nat, NEW args, NEW p
  PROVE  Holds([col |-> "emailOrUserRef", n |-> n], args, p)
           <=> \/ <<DetailsOf[p.link].email, args[n]>> \in Like
               \/ <<DetailsOf[p.link].userRef, args[n + 1]>> \in Like
<1> DEFINE c == [col |-> "emailOrUserRef", n |-> n]
<1>1. c.col = "emailOrUserRef" /\ c.n = n
  OBVIOUS
<1>2. c.col \notin DOMAIN Columns(p)
  BY DEF Columns
<1> HIDE DEF c
<1>3. Holds(c, args, p) <=> \/ <<DetailsOf[p.link].email, args[c.n]>> \in Like
                            \/ <<DetailsOf[p.link].userRef, args[c.n + 1]>> \in Like
  BY <1>1, <1>2 DEF Holds
<1> QED
  BY <1>1, <1>3 DEF c

\* The condition without a placeholder.
WithWebhookProblem(given, q) ==
  IF given THEN [q EXCEPT !.conds = Append(@, [col |-> "webhookProblem", n |-> 0])] ELSE q

LEMMA WebhookProblemMeans ==
  ASSUME NEW S, NEW q, WellFormed(q, S), NEW given, NEW p
  PROVE  /\ WellFormed(WithWebhookProblem(given, q), S)
         /\ Passes(WithWebhookProblem(given, q), p) <=> Passes(q, p) /\ (given => Undelivered(p))
<1> DEFINE c == [col |-> "webhookProblem", n |-> 0]
           r == [q EXCEPT !.conds = Append(@, c)]
<1>1. /\ q.conds \in Seq(Condition)
      /\ Len(q.conds) \in Nat
      /\ q \in [conds : Seq(Condition), args : Seq(S), i : Nat]
      /\ q.i = Len(q.args) + 1
  BY DEF WellFormed
<1>2. c \in Condition
  BY DEF Condition
<1>3. r.conds = Append(q.conds, c) /\ r.args = q.args /\ r.i = q.i
  BY <1>1
<1>4. /\ Len(r.conds) = Len(q.conds) + 1
      /\ r.conds \in Seq(Condition)
      /\ r.conds[Len(q.conds) + 1] = c
      /\ \A k \in 1..Len(q.conds) : r.conds[k] = q.conds[k]
  BY <1>1, <1>2, <1>3
<1>5. Holds(c, r.args, p) <=> Undelivered(p)
  BY DEF Holds, Columns
<1>6. r \in [conds : Seq(Condition), args : Seq(S), i : Nat]
  <2> DEFINE added == Append(q.conds, c)
  <2>1. added \in Seq(Condition)
    BY <1>3, <1>4
  <2>2. r = [conds |-> added, args |-> q.args, i |-> q.i]
    BY <1>1
  <2> HIDE DEF added, r
  <2> QED
    BY <1>1, <2>1, <2>2
<1>7. \A k \in 1..Len(r.conds) :
        \/ r.conds[k].col = "webhookProblem"
        \/ r.conds[k].col \in Single /\ r.conds[k].n \in 1..Len(r.args)
  <2> SUFFICES ASSUME NEW k \in 1..Len(r.conds)
               PROVE  \/ r.conds[k].col = "webhookProblem"
                      \/ r.conds[k].col \in Single /\ r.conds[k].n \in 1..Len(r.args)
    OBVIOUS
  <2>1. c.col = "webhookProblem"
    OBVIOUS
  <2> HIDE DEF r, c
  <2>2. CASE k \in 1..Len(q.conds)
    BY <1>3, <1>4, <2>2 DEF WellFormed
  <2>3. CASE k = Len(q.conds) + 1
    BY <1>4, <2>1, <2>3
  <2> QED
    BY <1>1, <1>4, <2>2, <2>3
<1>8. WellFormed(r, S)
  <2> HIDE DEF r
  <2> QED
    BY <1>1, <1>3, <1>6, <1>7 DEF WellFormed
<1>9. Passes(r, p) <=> Passes(q, p) /\ Holds(c, r.args, p)
  <2> HIDE DEF r, c
  <2> QED
    BY <1>3, <1>4, OneMore
<1> QED
  BY <1>5, <1>8, <1>9 DEF WithWebhookProblem

\* The search comes last: a number has one placeholder, a text two.
LEMMA SearchMeans ==
  ASSUME NEW S, NEW q, WellFormed(q, S), NEW search, search.what \in S, NEW p
  PROVE  /\ PushSearch(q, search).conds \in Seq(Condition)
         /\ PushSearch(q, search).args \in Seq(S)
         /\ Passes(PushSearch(q, search), p) <=>
              /\ Passes(q, p)
              /\ search.kind = "number" => p.invId # NULL /\ p.invId = search.what
              /\ search.kind = "text" =>
                   \E t \in {DetailsOf[p.link].email, DetailsOf[p.link].userRef} :
                     <<t, search.what>> \in Like
<1> DEFINE what == search.what
           r == PushSearch(q, search)
<1>1. /\ q.conds \in Seq(Condition)
      /\ q.args \in Seq(S)
      /\ q.i = Len(q.args) + 1
      /\ Len(q.args) \in Nat
      /\ Len(q.conds) \in Nat
      /\ q.i \in Nat
  BY DEF WellFormed
<1>2. CASE search.kind = "number"
  <2> DEFINE c == [col |-> "invId", n |-> q.i]
  <2>1. r.conds = Append(q.conds, c) /\ r.args = Append(q.args, what)
    BY <1>2 DEF PushSearch, Push
  <2>2. c \in Condition
    BY <1>1 DEF Condition
  <2>3. /\ Len(r.conds) = Len(q.conds) + 1
        /\ r.conds \in Seq(Condition)
        /\ r.conds[Len(q.conds) + 1] = c
        /\ \A k \in 1..Len(q.conds) : r.conds[k] = q.conds[k]
    BY <1>1, <2>1, <2>2
  <2>4. /\ r.args[q.i] = what
        /\ \A n \in 1..Len(q.args) : r.args[n] = q.args[n]
    BY <1>1, <2>1
  <2>5. Holds(c, r.args, p) <=> p.invId # NULL /\ p.invId = what
    BY <2>4 DEF Holds, Columns
  <2>6. Passes(r, p) <=> Passes(q, p) /\ Holds(c, r.args, p)
    <3> HIDE DEF r, c
    <3> QED
      BY <2>3, <2>4, OneMore
  <2> QED
    BY <1>1, <1>2, <2>1, <2>3, <2>5, <2>6
<1>3. CASE search.kind = "text"
  <2> DEFINE c == [col |-> "emailOrUserRef", n |-> q.i]
             two == <<what, what>>
  <2>1. r.conds = Append(q.conds, c) /\ r.args = q.args \o two
    BY <1>3 DEF PushSearch
  <2>2. c \in Condition
    BY <1>1 DEF Condition
  <2>3. /\ Len(r.conds) = Len(q.conds) + 1
        /\ r.conds \in Seq(Condition)
        /\ r.conds[Len(q.conds) + 1] = c
        /\ \A k \in 1..Len(q.conds) : r.conds[k] = q.conds[k]
    BY <1>1, <2>1, <2>2
  <2>4. two \in Seq(S) /\ Len(two) = 2 /\ two[1] = what /\ two[2] = what
    OBVIOUS
  <2>5. /\ r.args[q.i] = what
        /\ r.args[q.i + 1] = what
        /\ \A n \in 1..Len(q.args) : r.args[n] = q.args[n]
    <3> DEFINE all == q.args \o two
    <3> HIDE DEF two
    <3>1. \A n \in 1..Len(q.args) : all[n] = q.args[n]
      BY <1>1, <2>4
    <3>2. all[Len(q.args) + 1] = two[1] /\ all[Len(q.args) + 2] = two[2]
      <4>1. \A i \in 1..(Len(q.args) + Len(two)) :
              all[i] = IF i <= Len(q.args) THEN q.args[i] ELSE two[i - Len(q.args)]
        BY <1>1, <2>4, ConcatProperties
      <4> HIDE DEF all
      <4> QED
        BY <1>1, <2>4, <4>1
    <3> HIDE DEF all, r
    <3>3. r.args = all
      BY <2>1 DEF all
    <3>4. all[q.i] = what /\ all[q.i + 1] = what
      BY <1>1, <2>4, <3>2
    <3> QED
      BY <3>1, <3>3, <3>4
  <2>6. Holds(c, r.args, p) <=> \E t \in {DetailsOf[p.link].email, DetailsOf[p.link].userRef} :
                                  <<t, what>> \in Like
    <3>1. Holds(c, r.args, p) <=> \/ <<DetailsOf[p.link].email, r.args[q.i]>> \in Like
                                  \/ <<DetailsOf[p.link].userRef, r.args[q.i + 1]>> \in Like
      BY <1>1, TextMeans
    <3> QED
      BY <2>5, <3>1
  <2>7. Passes(r, p) <=> Passes(q, p) /\ Holds(c, r.args, p)
    <3> HIDE DEF r, c
    <3> QED
      BY <2>3, <2>5, OneMore
  <2> QED
    BY <1>1, <1>3, <2>1, <2>3, <2>4, <2>6, <2>7
<1>4. CASE search.kind \notin {"number", "text"}
  BY <1>1, <1>4 DEF PushSearch
<1> QED
  BY <1>2, <1>3, <1>4

-----------------------------------------------------------------------------
(* The WHERE of a filter *)

\* A condition for a column that may not be given.
LEMMA PushIfMeans ==
  ASSUME NEW S, NEW q, WellFormed(q, S), NEW given, NEW col \in Single, NEW val \in S, NEW p
  PROVE  /\ WellFormed(PushIf(given, q, col, val), S)
         /\ Passes(PushIf(given, q, col, val), p)
              <=> Passes(q, p) /\ (given => Holds([col |-> col, n |-> 1], <<val>>, p))
BY PushMeans DEF PushIf

\* All conditions together, in the order of buildWhere.
LEMMA WhereMeans ==
  ASSUME NEW f, NEW p
  PROVE  /\ BuildWhere(f).conds \in Seq(Condition)
         /\ \E S : BuildWhere(f).args \in Seq(S)
         /\ Passes(BuildWhere(f), p) <=> Matches(f, p)
<1> DEFINE S == {f.status, f.productType, f.planId, f.from, f.search.what}
           q0 == [conds |-> <<>>, args |-> <<>>, i |-> 1]
           q1 == PushIf(f.status # "", q0, "status", f.status)
           q2 == PushIf(f.productType # "", q1, "productType", f.productType)
           q3 == PushIf(f.planId # "", q2, "planId", f.planId)
           q4 == PushIf(f.from # NULL, q3, "createdAt", f.from)
           q5 == WithWebhookProblem(f.webhookProblem, q4)
<1>1. WellFormed(q0, S) /\ Passes(q0, p)
  <2>1. /\ q0.conds = <<>> /\ q0.args = <<>> /\ q0.i = 1
        /\ Len(q0.conds) = 0 /\ Len(q0.args) = 0
    OBVIOUS
  <2>2. q0 \in [conds : Seq(Condition), args : Seq(S), i : Nat]
    OBVIOUS
  <2> HIDE DEF q0, S
  <2> QED
    BY <2>1, <2>2 DEF WellFormed, Passes
<1>2. /\ f.status \in S /\ f.productType \in S /\ f.planId \in S /\ f.from \in S
      /\ f.search.what \in S
      /\ {"status", "productType", "planId", "createdAt"} = Single
  BY DEF Single
<1> HIDE DEF q0, S
<1>3. WellFormed(q1, S) /\ (Passes(q1, p) <=> f.status \in {"", p.status})
  <2>1. /\ WellFormed(q1, S)
        /\ Passes(q1, p) <=> /\ Passes(q0, p)
                             /\ f.status # "" => Holds([col |-> "status", n |-> 1], <<f.status>>, p)
    BY <1>1, <1>2, PushIfMeans
  <2> HIDE DEF q1
  <2> QED
    BY <1>1, <2>1, SingleMeans
<1> HIDE DEF q1
<1>4. WellFormed(q2, S) /\ (Passes(q2, p) <=>
        Passes(q1, p) /\ f.productType \in {"", DetailsOf[p.link].productType})
  <2>1. /\ WellFormed(q2, S)
        /\ Passes(q2, p) <=> /\ Passes(q1, p)
                             /\ f.productType # "" =>
                                  Holds([col |-> "productType", n |-> 1], <<f.productType>>, p)
    BY <1>2, <1>3, PushIfMeans
  <2> HIDE DEF q2
  <2> QED
    BY <2>1, SingleMeans
<1> HIDE DEF q2
<1>5. WellFormed(q3, S) /\ (Passes(q3, p) <=>
        Passes(q2, p) /\ f.planId \in {"", DetailsOf[p.link].planId})
  <2>1. /\ WellFormed(q3, S)
        /\ Passes(q3, p) <=> /\ Passes(q2, p)
                             /\ f.planId # "" => Holds([col |-> "planId", n |-> 1], <<f.planId>>, p)
    BY <1>2, <1>4, PushIfMeans
  <2> HIDE DEF q3
  <2> QED
    BY <2>1, SingleMeans
<1> HIDE DEF q3
<1>6. WellFormed(q4, S) /\ (Passes(q4, p) <=> Passes(q3, p) /\ (f.from # NULL => p.age <= f.from))
  <2>1. /\ WellFormed(q4, S)
        /\ Passes(q4, p) <=> /\ Passes(q3, p)
                             /\ f.from # NULL => Holds([col |-> "createdAt", n |-> 1], <<f.from>>, p)
    BY <1>2, <1>5, PushIfMeans
  <2> HIDE DEF q4
  <2> QED
    BY <2>1, SingleMeans
<1> HIDE DEF q4
<1>7. WellFormed(q5, S) /\ (Passes(q5, p) <=>
        Passes(q4, p) /\ (f.webhookProblem => Undelivered(p)))
  BY <1>6, WebhookProblemMeans
<1>8. BuildWhere(f) = PushSearch(q5, f.search)
  BY DEF BuildWhere, WithWebhookProblem, q0, q1, q2, q3, q4
<1> HIDE DEF q5
<1>9. /\ PushSearch(q5, f.search).conds \in Seq(Condition)
      /\ PushSearch(q5, f.search).args \in Seq(S)
      /\ Passes(PushSearch(q5, f.search), p) <=>
           /\ Passes(q5, p)
           /\ f.search.kind = "number" => p.invId # NULL /\ p.invId = f.search.what
           /\ f.search.kind = "text" =>
                \E t \in {DetailsOf[p.link].email, DetailsOf[p.link].userRef} :
                  <<t, f.search.what>> \in Like
  BY <1>2, <1>7, SearchMeans
<1> QED
  BY <1>3, <1>4, <1>5, <1>6, <1>7, <1>8, <1>9 DEF Matches

\* The WHERE that buildWhere puts together selects the payments the filter means,
\* for every filter and every table: no placeholder stands for another's argument.
THEOREM SelectsMatches ==
  ASSUME NEW f
  PROVE  Selected(f) = {i \in DOMAIN payments : Matches(f, payments[i])}
<1>1. \A p : /\ BuildWhere(f).conds \in Seq(Condition)
             /\ Passes(BuildWhere(f), p) <=> Matches(f, p)
  BY WhereMeans
<1>2. DOMAIN BuildWhere(f).conds = 1..Len(BuildWhere(f).conds)
  BY <1>1
<1>3. \A p : Matches(f, p) <=> \A k \in DOMAIN BuildWhere(f).conds :
                                 Holds(BuildWhere(f).conds[k], BuildWhere(f).args, p)
  BY <1>1, <1>2 DEF Passes
<1> QED
  BY <1>3 DEF Selected

-----------------------------------------------------------------------------
(* The tiles *)

\* Whatever the period and the table, each tile counts the payments of its list:
\* StatsFor and buildWhere mean the same.
THEOREM TilesAgree == AdminSpec => []TilesMatchLists
<1>1. TilesMatchLists
  <2> SUFFICES ASSUME NEW from
               PROVE  /\ StatsFor(from).webhookPending =
                           Cardinality(Selected(TileFilter(from, "", TRUE)))
                      /\ \A st \in Status :
                           StatsFor(from).count[st] =
                             Cardinality(Selected(TileFilter(from, st, FALSE)))
    BY DEF TilesMatchLists
  <2>1. \A p : Matches(TileFilter(from, "", TRUE), p)
                 <=> (from = NULL \/ p.age <= from) /\ Undelivered(p)
    BY DEF Matches, TileFilter, NoSearch
  <2>2. \A st \in Status : \A p :
          Matches(TileFilter(from, st, FALSE), p)
            <=> (from = NULL \/ p.age <= from) /\ p.status = st
    BY DEF Matches, TileFilter, NoSearch, Status
  <2>3. Selected(TileFilter(from, "", TRUE)) = {i \in InPeriod(from) : Undelivered(payments[i])}
    BY <2>1, SelectsMatches DEF InPeriod
  <2>4. \A st \in Status : Selected(TileFilter(from, st, FALSE)) = InPeriodWith(from, st)
    BY <2>2, SelectsMatches DEF InPeriod, InPeriodWith
  <2> QED
    BY <2>3, <2>4 DEF StatsFor
<1> QED
  BY <1>1, PTL
-----------------------------------------------------------------------------
(* ORDER BY id DESC *)

\* The elements of S that come before i in ORDER BY id DESC.
Above(S, i) == {j \in S : j > i}

\* A finite number of them, and fewer than there are elements.
LEMMA AboveFinite ==
  ASSUME NEW S \in SUBSET Int, IsFiniteSet(S), NEW i \in Int
  PROVE  /\ IsFiniteSet(Above(S, i))
         /\ Cardinality(Above(S, i)) \in Nat
         /\ Cardinality(S) \in Nat
         /\ i \in S => Cardinality(Above(S, i)) < Cardinality(S)
<1>1. Above(S, i) \in SUBSET S
  BY DEF Above
<1>2. i \notin Above(S, i)
  BY DEF Above
<1>3. /\ IsFiniteSet(Above(S, i))
      /\ Cardinality(Above(S, i)) <= Cardinality(S)
      /\ Cardinality(S) = Cardinality(Above(S, i)) => S = Above(S, i)
  BY <1>1, FS_Subset
<1>4. Cardinality(S) \in Nat /\ Cardinality(Above(S, i)) \in Nat
  BY <1>3, FS_CardinalityType
<1> QED
  BY <1>2, <1>3, <1>4

\* More before an older one than before a newer one.
LEMMA AboveStrict ==
  ASSUME NEW S \in SUBSET Int, IsFiniteSet(S), NEW i \in S, NEW k \in S, i < k
  PROVE  Cardinality(Above(S, k)) < Cardinality(Above(S, i))
<1>1. /\ IsFiniteSet(Above(S, i))
      /\ Cardinality(Above(S, i)) \in Nat
      /\ Cardinality(Above(S, k)) \in Nat
  BY AboveFinite
<1>2. Above(S, k) \in SUBSET Above(S, i) /\ k \in Above(S, i) /\ k \notin Above(S, k)
  <2>1. i \in Int /\ k \in Int /\ \A j \in S : j \in Int
    OBVIOUS
  <2>2. \A j \in S : j > k => j > i
    BY <2>1
  <2>3. ~(k > k)
    BY <2>1
  <2>4. \A j \in Above(S, k) : j \in Above(S, i)
    BY <2>2 DEF Above
  <2>5. k \in Above(S, i) /\ k \notin Above(S, k)
    BY <2>1, <2>3 DEF Above
  <2> QED
    BY <2>4, <2>5
<1>3. /\ Cardinality(Above(S, k)) <= Cardinality(Above(S, i))
      /\ Cardinality(Above(S, i)) = Cardinality(Above(S, k)) => Above(S, i) = Above(S, k)
  BY <1>1, <1>2, FS_Subset
<1> QED
  BY <1>1, <1>2, <1>3

\* Each place is some element's.
LEMMA AboveOnto ==
  ASSUME NEW S \in SUBSET Int, IsFiniteSet(S), NEW k \in 1..Cardinality(S)
  PROVE  \E i \in S : Cardinality(Above(S, i)) + 1 = k
<1> DEFINE rank == [i \in S |-> Cardinality(Above(S, i)) + 1]
           N == Cardinality(S)
<1>1. N \in Nat
  BY FS_CardinalityType
<1>2. rank \in [S -> 1..N]
  <2>1. ASSUME NEW i \in S
        PROVE  Cardinality(Above(S, i)) + 1 \in 1..N
    <3>1. Cardinality(Above(S, i)) \in Nat /\ Cardinality(Above(S, i)) < N
      BY AboveFinite
    <3> QED
      BY <1>1, <3>1
  <2> QED
    BY <2>1
<1>3. \A i, j \in S : rank[i] = rank[j] => i = j
  <2> SUFFICES ASSUME NEW i \in S, NEW j \in S, rank[i] = rank[j]
               PROVE  i = j
    OBVIOUS
  <2>1. Cardinality(Above(S, i)) \in Nat /\ Cardinality(Above(S, j)) \in Nat
    BY AboveFinite
  <2>2. Cardinality(Above(S, i)) = Cardinality(Above(S, j))
    BY <2>1
  <2> QED
    BY <2>1, <2>2, AboveStrict
<1> HIDE DEF rank
<1>4. rank \in Injection(S, 1..N)
  BY <1>2, <1>3, Fun_IsInj
<1>5. IsFiniteSet(1..N) /\ Cardinality(1..N) = N
  BY <1>1, FS_Interval
<1>6. rank \in Surjection(S, 1..N)
  BY <1>4, <1>5, FS_Injection
<1>7. \E i \in S : rank[i] = k
  BY <1>6 DEF Surjection
<1> QED
  BY <1>7 DEF rank

\* The rows S in descending order of their ids.
Sorted(s, S) == /\ s \in [1..Cardinality(S) -> S]
                /\ \A j, k \in DOMAIN s : j < k => s[j] > s[k]

\* The descending order exists.
LEMMA NewestFirstSorted ==
  ASSUME NEW S \in SUBSET Int, IsFiniteSet(S)
  PROVE  Sorted(NewestFirst(S), S)
<1> DEFINE N == Cardinality(S)
           s == [k \in 1..N |-> CHOOSE i \in S : Cardinality(Above(S, i)) + 1 = k]
<1>1. \A k \in 1..N : s[k] \in S /\ Cardinality(Above(S, s[k])) + 1 = k
  BY AboveOnto
<1>2. s \in [1..N -> S] /\ DOMAIN s = 1..N
  BY <1>1
<1> HIDE DEF s
<1>3. ASSUME NEW j \in 1..N, NEW k \in 1..N, j < k
      PROVE  s[j] > s[k]
  <2>1. /\ s[j] \in S /\ s[k] \in S
        /\ Cardinality(Above(S, s[j])) \in Nat
        /\ Cardinality(Above(S, s[k])) \in Nat
        /\ Cardinality(Above(S, s[j])) + 1 = j
        /\ Cardinality(Above(S, s[k])) + 1 = k
    BY <1>1, AboveFinite
  <2>2. s[j] # s[k]
    BY <2>1, <1>3
  <2>3. s[j] < s[k] => Cardinality(Above(S, s[k])) < Cardinality(Above(S, s[j]))
    BY <2>1, AboveStrict
  <2>4. ~(s[j] < s[k])
    BY <1>3, <2>1, <2>3
  <2>5. s[j] \in Int /\ s[k] \in Int
    BY <2>1
  <2> QED
    BY <2>2, <2>4, <2>5
<1>4. Sorted(s, S)
  BY <1>2, <1>3 DEF Sorted
<1> QED
  BY <1>4 DEF NewestFirst, Sorted

\* In it, the k-th row has k - 1 before it, and every row has a place.
LEMMA NewestFirstRanks ==
  ASSUME NEW S \in SUBSET Int, IsFiniteSet(S)
  PROVE  /\ Cardinality(S) \in Nat
         /\ DOMAIN NewestFirst(S) = 1..Cardinality(S)
         /\ \A k \in 1..Cardinality(S) :
              /\ NewestFirst(S)[k] \in S
              /\ Cardinality(Above(S, NewestFirst(S)[k])) = k - 1
         /\ \A i \in S : \E k \in 1..Cardinality(S) : NewestFirst(S)[k] = i
<1> DEFINE N == Cardinality(S)
           s == NewestFirst(S)
<1>1. N \in Nat
  BY FS_CardinalityType
<1>2. /\ s \in [1..N -> S]
      /\ DOMAIN s = 1..N
      /\ \A j, k \in 1..N : j < k => s[j] > s[k]
  BY NewestFirstSorted DEF Sorted
<1> HIDE DEF s
<1>3. \A j, k \in 1..N : s[j] = s[k] => j = k
  <2>1. ASSUME NEW j \in 1..N
        PROVE  s[j] \in Int /\ j \in Int
    <3>1. s[j] \in S /\ j \in Int
      BY <1>1, <1>2
    <3>2. \A x \in S : x \in Int
      OBVIOUS
    <3> QED
      BY <3>1, <3>2
  <2> QED
    BY <1>2, <2>1
<1>4. s \in Injection(1..N, S)
  BY <1>2, <1>3, Fun_IsInj
<1>5. IsFiniteSet(1..N) /\ Cardinality(1..N) = N
  BY <1>1, FS_Interval
<1>6. s \in Surjection(1..N, S)
  BY <1>4, <1>5, FS_Injection
<1>7. \A i \in S : \E k \in 1..N : s[k] = i
  BY <1>6 DEF Surjection
<1>8. ASSUME NEW k \in 1..N
      PROVE  Cardinality(Above(S, s[k])) = k - 1
  <2> DEFINE t == [j \in 1..(k - 1) |-> s[j]]
             T == Above(S, s[k])
  <2>1. t \in [1..(k - 1) -> T]
    <3> SUFFICES ASSUME NEW j \in 1..(k - 1) PROVE s[j] \in T
      OBVIOUS
    <3>1. j \in 1..N /\ j < k
      BY <1>1
    <3>2. s[j] > s[k] /\ s[j] \in S
      BY <1>2, <3>1
    <3> QED
      BY <3>2 DEF Above
  <2>2. \A a, b \in 1..(k - 1) : t[a] = t[b] => a = b
    BY <1>1, <1>3
  <2>3. \A i \in T : \E j \in 1..(k - 1) : t[j] = i
    <3> SUFFICES ASSUME NEW i \in T PROVE \E j \in 1..(k - 1) : s[j] = i
      OBVIOUS
    <3>1. i \in S /\ i > s[k]
      BY DEF Above
    <3>2. PICK j \in 1..N : s[j] = i
      BY <1>7, <3>1
    <3>3. s[j] \in Int /\ s[k] \in Int
      BY <1>2
    <3>4. j < k
      BY <1>1, <1>2, <3>1, <3>2, <3>3
    <3> QED
      BY <1>1, <3>2, <3>4
  <2> HIDE DEF t, T
  <2>4. t \in Bijection(1..(k - 1), T)
    BY <2>1, <2>2, <2>3, Fun_IsBij
  <2>5. ExistsBijection(1..(k - 1), T)
    BY <2>4 DEF ExistsBijection
  <2>6. IsFiniteSet(1..(k - 1)) /\ Cardinality(1..(k - 1)) = k - 1
    <3>1. 1 \in Int /\ k - 1 \in Int /\ k >= 1
      BY <1>1
    <3>2. /\ IsFiniteSet(1..(k - 1))
          /\ Cardinality(1..(k - 1)) = IF 1 > k - 1 THEN 0 ELSE (k - 1) - 1 + 1
      BY <3>1, FS_Interval
    <3> QED
      BY <3>1, <3>2
  <2> QED
    BY <2>5, <2>6, FS_Bijection DEF T
<1> QED
  BY <1>1, <1>2, <1>7, <1>8 DEF s

-----------------------------------------------------------------------------
(* Pages *)

LEMMA FoundFinite ==
  ASSUME StoreTypeOK, NEW f
  PROVE  /\ Found(f, payments) \in SUBSET Int
         /\ IsFiniteSet(Found(f, payments))
         /\ Cardinality(Found(f, payments)) \in 0..MaxId
         /\ Found(f, payments) = Selected(f)
<1>1. DOMAIN payments = 1..lastId /\ lastId \in 0..MaxId /\ MaxId \in Nat
  BY StoreAssumption DEF StoreTypeOK
<1>2. Found(f, payments) \in SUBSET (1..lastId)
  BY <1>1 DEF Found
<1>3. IsFiniteSet(1..lastId) /\ Cardinality(1..lastId) = lastId
  <2>1. Cardinality(1..lastId) = IF 1 > lastId THEN 0 ELSE lastId - 1 + 1
    BY <1>1, FS_Interval
  <2> QED
    BY <1>1, <2>1, FS_Interval
<1>4. /\ IsFiniteSet(Found(f, payments))
      /\ Cardinality(Found(f, payments)) <= lastId
      /\ Cardinality(Found(f, payments)) \in Nat
  BY <1>2, <1>3, FS_Subset, FS_CardinalityType
<1>5. Found(f, payments) = Selected(f)
  BY SelectsMatches DEF Found
<1>6. Found(f, payments) \in SUBSET Int
  BY <1>1, <1>2
<1> QED
  BY <1>1, <1>4, <1>5, <1>6

\* The same of the table a step leaves behind.
LEMMA FoundFiniteNext ==
  (StoreTypeOK => \A f : Found(f, payments) \in SUBSET Int /\ IsFiniteSet(Found(f, payments)))'
<1>1. StoreTypeOK => \A f : Found(f, payments) \in SUBSET Int /\ IsFiniteSet(Found(f, payments))
  BY FoundFinite
<1> QED
  BY <1>1, PTL

\* What \div gives.
LEMMA Quotient ==
  ASSUME NEW a \in Nat, NEW b \in Nat \ {0}
  PROVE  /\ a \div b \in Nat
         /\ (a \div b) * b <= a
         /\ a < (a \div b) * b + b
OBVIOUS

LEMMA Monotone ==
  ASSUME NEW a \in Nat, NEW c \in Nat, NEW b \in Nat, a <= c
  PROVE  a * b <= c * b
OBVIOUS

LEMMA QuotientIs ==
  ASSUME NEW a \in Nat, NEW b \in Nat \ {0}, NEW q \in Nat
  PROVE  a \div b = q <=> q * b <= a /\ a < q * b + b
<1> DEFINE d == a \div b
<1>1. d \in Nat /\ d * b <= a /\ a < d * b + b
  BY Quotient
<1> HIDE DEF d
<1>2. /\ d * b \in Nat
      /\ q * b \in Nat
      /\ (d + 1) * b = d * b + b
      /\ (q + 1) * b = q * b + b
  BY <1>1
<1>3. ASSUME q * b <= a, a < q * b + b
      PROVE  d = q
  <2>1. d + 1 <= q => (d + 1) * b <= q * b
    BY <1>1, Monotone
  <2>2. q + 1 <= d => (q + 1) * b <= d * b
    BY <1>1, Monotone
  <2> QED
    BY <1>1, <1>2, <1>3, <2>1, <2>2
<1> QED
  BY <1>1, <1>3 DEF d

\* Page n of ListFiltered holds the matching rows with (n-1) * PageSize to
\* n * PageSize - 1 newer ones, for every n: LIMIT and OFFSET get their own arguments.
LEMMA PageMeans ==
  ASSUME StoreTypeOK, NEW f, NEW n \in Nat \ {0}
  PROVE  Page(f, n) = {i \in Found(f, payments) :
                         Cardinality(Above(Found(f, payments), i)) \div PageSize = n - 1}
<1> DEFINE S == Found(f, payments)
           s == NewestFirst(S)
           N == Cardinality(S)
           a == BuildWhere(f).args
           offset == (n - 1) * PageSize
           args == a \o <<PageSize, offset>>
<1>1. PageSize \in Nat \ {0} /\ offset \in Nat
  BY AdminAssumption
<1>2. args[Len(args) - 1] = PageSize /\ args[Len(args)] = offset
  <2>1. PICK A : a \in Seq(A)
    BY WhereMeans
  <2> DEFINE two == <<PageSize, offset>>
  <2> HIDE DEF a, offset
  <2>2. /\ a \in Seq(A \cup Int)
        /\ two \in Seq(A \cup Int)
        /\ Len(two) = 2
        /\ two[1] = PageSize
        /\ two[2] = offset
        /\ Len(a) \in Nat
    BY <1>1, <2>1
  <2> HIDE DEF two
  <2>3. /\ Len(a \o two) = Len(a) + Len(two)
        /\ \A i \in 1..(Len(a) + Len(two)) :
             (a \o two)[i] = IF i <= Len(a) THEN a[i] ELSE two[i - Len(a)]
    BY <2>2, ConcatProperties
  <2>4. args = a \o two
    BY DEF two
  <2> HIDE DEF args
  <2>5. Len(args) = Len(a) + 2
    BY <2>2, <2>3, <2>4
  <2>6. args[Len(a) + 1] = two[1] /\ args[Len(a) + 2] = two[2]
    <3> DEFINE both == a \o two
    <3>1. \A i \in 1..(Len(a) + 2) : both[i] = IF i <= Len(a) THEN a[i] ELSE two[i - Len(a)]
      BY <2>2, <2>3
    <3> HIDE DEF both
    <3>2. both[Len(a) + 1] = two[1] /\ both[Len(a) + 2] = two[2]
      BY <2>2, <3>1
    <3> QED
      BY <2>4, <3>2 DEF both
  <2> QED
    BY <2>2, <2>5, <2>6
<1>3. Selected(f) = S
  BY FoundFinite
<1>4. Page(f, n) = {s[k] : k \in DOMAIN s \cap (offset + 1)..(offset + PageSize)}
  <2> HIDE DEF S
  <2>1. Page(f, n) = {NewestFirst(Selected(f))[k] :
                        k \in DOMAIN NewestFirst(Selected(f))
                                \cap (args[Len(args)] + 1)..(args[Len(args)] + args[Len(args) - 1])}
    BY DEF Page
  <2> HIDE DEF args, offset
  <2> QED
    BY <1>2, <1>3, <2>1
<1>5. S \in SUBSET Int /\ IsFiniteSet(S) /\ N \in Nat
  BY FoundFinite
<1> HIDE DEF S
<1>6. /\ DOMAIN s = 1..N
      /\ \A k \in 1..N : s[k] \in S /\ Cardinality(Above(S, s[k])) = k - 1
      /\ \A i \in S : \E k \in 1..N : s[k] = i
  BY <1>5, NewestFirstRanks
<1> HIDE DEF s, N, offset
<1>7. \A k \in 1..N : k \in (offset + 1)..(offset + PageSize) <=> (k - 1) \div PageSize = n - 1
  <2> SUFFICES ASSUME NEW k \in 1..N
               PROVE  k \in (offset + 1)..(offset + PageSize) <=> (k - 1) \div PageSize = n - 1
    OBVIOUS
  <2>1. (k - 1) \div PageSize = n - 1 <=> offset <= k - 1 /\ k - 1 < offset + PageSize
    <3>1. k - 1 \in Nat /\ n - 1 \in Nat
      BY <1>5
    <3> QED
      BY <1>1, <3>1, QuotientIs DEF offset
  <2> QED
    BY <1>1, <1>5, <2>1
<1>8. ASSUME NEW i
      PROVE  i \in Page(f, n) <=> i \in S /\ Cardinality(Above(S, i)) \div PageSize = n - 1
  <2>1. ASSUME i \in Page(f, n)
        PROVE  i \in S /\ Cardinality(Above(S, i)) \div PageSize = n - 1
    <3>1. PICK k \in 1..N : k \in (offset + 1)..(offset + PageSize) /\ i = s[k]
      BY <1>4, <1>6, <2>1
    <3> QED
      BY <1>6, <1>7, <3>1
  <2>2. ASSUME i \in S, Cardinality(Above(S, i)) \div PageSize = n - 1
        PROVE  i \in Page(f, n)
    <3>1. PICK k \in 1..N : s[k] = i
      BY <1>6, <2>2
    <3>2. k \in (offset + 1)..(offset + PageSize)
      BY <1>6, <1>7, <2>2, <3>1
    <3> QED
      BY <1>4, <1>6, <3>1, <3>2
  <2> QED
    BY <2>1, <2>2
<1> QED
  BY <1>8 DEF S

-----------------------------------------------------------------------------
(* What the steps of the specification leave of the table *)

LEMMA StatementTypes ==
  ASSUME StoreTypeOK, OthersStep
  PROVE  StoreTypeOK'
<1>1. lastId \in 0..MaxId /\ MaxId \in Nat
  BY StoreAssumption DEF StoreTypeOK
<1>2. CASE PlaceOrder
  <2>1. /\ lastId < MaxId /\ lastId' = lastId + 1
        /\ payments' = Insert(LinkOf[lastId + 1])
    BY <1>2 DEF PlaceOrder
  <2>2. LinkOf[lastId + 1] \in Links
    BY <1>1, <2>1, AdminAssumption DEF Ids
  <2>3. payments' \in [1..lastId' -> Row] /\ lastId' \in 0..MaxId
    BY <1>1, <2>1, <2>2, InsertRows
  <2> QED
    BY <2>3 DEF StoreTypeOK
<1>3. CASE \E id \in 1..lastId : NumberOrder(id)
  BY <1>1, <1>3, SetInvIdRows DEF NumberOrder, StoreTypeOK
<1>4. CASE \E inv \in Ids : Settle(inv)
  BY <1>1, <1>4, MarkPaidRows, FailedRows DEF Settle, CancelPending, StoreTypeOK
<1>5. CASE \E inv \in Ids : Deliver(inv)
  BY <1>1, <1>5, MarkWebhookDeliveredRows DEF Deliver, StoreTypeOK
<1>6. CASE CleanupExpired
  BY <1>1, <1>6, FailedRows DEF CleanupExpired, CleanupExpiredPending, StoreTypeOK
<1>7. CASE TimePasses
  BY <1>1, <1>7, AgedRowsRows DEF TimePasses, StoreTypeOK
<1> QED
  BY <1>2, <1>3, <1>4, <1>5, <1>6, <1>7 DEF OthersStep

-----------------------------------------------------------------------------
(* The inductive invariant *)

\* At least n pages of rows are before i, so that i is not on them.
Behind(S, i, n) == Cardinality(Above(S, i)) >= n * PageSize

\* Those of some rows that are on one of the first n pages of a list.
Before(X, S, n) == {i \in X : ~Behind(S, i, n)}

\* Of the rows the admin has not seen, at most gone are on the pages before the one asked
\* for, or on it, once it was read; the last page leaves at most late behind it.
PagingInv ==
  LET matching == Found(request.filter, payments)
      left == unseen \ request.rows
  IN /\ unseen \subseteq matching
     /\ Cardinality(Before(unseen, matching, request.page - 1)) <= gone
     /\ request.step \in {"stats", "shown"} =>
          /\ Cardinality(Before(left, matching, request.page)) <= gone
          /\ request.page >= TotalPages(request.total) => Cardinality(left) <= gone + late

\* Only the page that is being rendered has rows.
RowsWhileRendering == request.step # "stats" => request.rows = {}

AdminInv == AdminTypeOK /\ RowsWhileRendering /\ PagingInv

LEMMA TotalPagesBound ==
  ASSUME NEW total \in Nat
  PROVE  /\ TotalPages(total) \in Nat
         /\ TotalPages(total) <= total
         /\ total <= TotalPages(total) * PageSize
<1> DEFINE a == total + PageSize - 1
           d == TotalPages(total)
<1>1. PageSize \in Nat \ {0} /\ a \in Nat
  BY AdminAssumption
<1>2. d = a \div PageSize
  BY DEF TotalPages
<1>3. d \in Nat /\ d * PageSize <= a /\ a < d * PageSize + PageSize
  BY <1>1, <1>2, Quotient
<1> HIDE DEF d
<1>4. d * PageSize \in Nat /\ total * PageSize \in Nat
  BY <1>1, <1>3
<1>5. total + 1 <= d => (total + 1) * PageSize <= d * PageSize
  BY <1>1, <1>3, Monotone
<1>6. (total + 1) * PageSize = total * PageSize + PageSize /\ total <= total * PageSize
  BY <1>1
<1> QED
  BY <1>1, <1>3, <1>4, <1>5, <1>6 DEF d

LEMMA AdminInitInv ==
  ASSUME AdminInit
  PROVE  AdminInv
<1>1. AdminTypeOK
  <2>1. StoreTypeOK
    BY StoreAssumption DEF AdminInit, StoreInit, StoreTypeOK
  <2>2. (CHOOSE f \in Filters : TRUE) \in Filters
    BY AdminAssumption
  <2>3. request \in Request
    BY <2>2, StoreAssumption DEF AdminInit, Request
  <2>4. unseen = {} /\ gone = 0 /\ late = 0
    BY DEF AdminInit
  <2>5. unseen \subseteq Ids /\ gone \in Nat /\ late \in 0..MaxId
    <3>1. 0 \in 0..MaxId
      BY StoreAssumption
    <3> QED
      BY <2>4, <3>1
  <2> QED
    BY <2>1, <2>3, <2>5 DEF AdminTypeOK
<1>2. PagingInv
  <2>1. \A S, n : Before({}, S, n) = {}
    BY DEF Before
  <2> QED
    BY <2>1, FS_EmptySet DEF AdminInit, PagingInv
<1> QED
  BY <1>1, <1>2 DEF AdminInit, AdminInv, RowsWhileRendering

LEMMA AdminTypeStep ==
  ASSUME AdminTypeOK, RowsWhileRendering, [AdminNext]_vars
  PROVE  AdminTypeOK' /\ RowsWhileRendering'
<1> USE DEF RowsWhileRendering
<1>1. /\ StoreTypeOK
      /\ request \in Request
      /\ request.step \in {"closed", "count", "page", "stats", "shown", "error"}
      /\ request.filter \in Filters
      /\ request.page \in Ids \cup {1}
      /\ request.total \in 0..MaxId
      /\ request.rows \in SUBSET Ids
      /\ unseen \in SUBSET Ids
      /\ gone \in Nat
      /\ late \in 0..MaxId
  BY DEF AdminTypeOK, Request
<1>2. UNCHANGED storeVars => StoreTypeOK'
  BY <1>1 DEF StoreTypeOK, storeVars
<1>3. \A f : Selected(f) \in SUBSET Ids /\ Cardinality(Selected(f)) \in 0..MaxId
  <2> SUFFICES ASSUME NEW f
               PROVE  Selected(f) \in SUBSET Ids /\ Cardinality(Selected(f)) \in 0..MaxId
    OBVIOUS
  <2>1. DOMAIN payments \in SUBSET Ids
    BY <1>1, StoreAssumption DEF StoreTypeOK, Ids
  <2> QED
    BY <1>1, <2>1, FoundFinite DEF Selected
<1>4. MaxId \in Nat
  BY StoreAssumption
<1>5. ASSUME UNCHANGED <<storeVars, unseen, gone>>, late' \in {0, late}, request' \in Request
      PROVE  AdminTypeOK'
  BY <1>1, <1>2, <1>4, <1>5 DEF AdminTypeOK
<1>6. ASSUME NEW page \in Ids \cup {1}, GoTo(page), request.step # "stats"
      PROVE  AdminTypeOK' /\ RowsWhileRendering'
  <2>1. /\ request' = [request EXCEPT !.step = "count", !.page = page, !.total = 0]
        /\ late' = 0
        /\ UNCHANGED <<storeVars, unseen, gone>>
    BY <1>6 DEF GoTo
  <2>2. request' = [step |-> "count", filter |-> request.filter, page |-> page,
                    total |-> 0, rows |-> request.rows]
    BY <1>1, <2>1 DEF Request
  <2>3. request' \in Request
    BY <1>1, <1>4, <2>2 DEF Request
  <2> QED
    BY <1>5, <1>6, <2>1, <2>2, <2>3
<1>7. ASSUME NextPage PROVE AdminTypeOK' /\ RowsWhileRendering'
  <2>1. /\ request.step = "shown"
        /\ request.page < TotalPages(request.total)
        /\ GoTo(request.page + 1)
    BY <1>7 DEF NextPage
  <2>2. TotalPages(request.total) \in Nat /\ TotalPages(request.total) <= request.total
    BY <1>1, TotalPagesBound
  <2>3. request.page + 1 \in Ids
    BY <1>1, <1>4, <2>1, <2>2 DEF Ids
  <2> QED
    BY <1>6, <2>1, <2>3
<1>8. ASSUME PrevPage PROVE AdminTypeOK' /\ RowsWhileRendering'
  <2>1. request.step = "shown" /\ request.page > 1 /\ GoTo(request.page - 1)
    BY <1>8 DEF PrevPage
  <2>2. request.page - 1 \in Ids
    BY <1>1, <1>4, <2>1 DEF Ids
  <2> QED
    BY <1>6, <2>1, <2>2
<1>9. ASSUME Reload PROVE AdminTypeOK' /\ RowsWhileRendering'
  BY <1>1, <1>6, <1>9 DEF Reload
<1>10. ASSUME NEW f \in Filters, OpenList(f) PROVE AdminTypeOK' /\ RowsWhileRendering'
  <2>1. /\ request' = [step |-> "count", filter |-> f, page |-> 1, total |-> 0, rows |-> {}]
        /\ unseen' = Selected(f) /\ gone' = 0 /\ late' = 0
        /\ UNCHANGED storeVars
    BY <1>10 DEF OpenList
  <2>2. request' \in Request
    BY <1>4, <2>1 DEF Request
  <2> QED
    BY <1>2, <1>3, <1>4, <2>1, <2>2 DEF AdminTypeOK
<1>11. ASSUME RequestFails PROVE AdminTypeOK' /\ RowsWhileRendering'
  <2>1. /\ request' = [request EXCEPT !.step = "error", !.rows = {}]
        /\ late' = 0
        /\ UNCHANGED <<storeVars, unseen, gone>>
    BY <1>11 DEF RequestFails
  <2>2. request' = [step |-> "error", filter |-> request.filter, page |-> request.page,
                    total |-> request.total, rows |-> {}]
    BY <1>1, <2>1 DEF Request
  <2>3. request' \in Request
    BY <1>1, <2>2 DEF Request
  <2> QED
    BY <1>5, <2>1, <2>2, <2>3
<1>12. ASSUME CountPayments PROVE AdminTypeOK' /\ RowsWhileRendering'
  <2> DEFINE total == Cardinality(Selected(request.filter))
  <2>1. /\ request.step = "count"
        /\ request' = [request EXCEPT !.step = "page", !.total = total]
        /\ UNCHANGED <<storeVars, unseen, gone, late>>
    BY <1>12 DEF CountPayments
  <2>2. total \in 0..MaxId
    BY <1>3
  <2> HIDE DEF total
  <2>3. request' = [step |-> "page", filter |-> request.filter, page |-> request.page,
                    total |-> total, rows |-> request.rows]
    BY <1>1, <2>1 DEF Request
  <2>4. request' \in Request
    BY <1>1, <2>2, <2>3 DEF Request
  <2> QED
    BY <1>5, <2>1, <2>3, <2>4
<1>13. ASSUME ListPage PROVE AdminTypeOK' /\ RowsWhileRendering'
  <2> DEFINE page == Page(request.filter, request.page)
             N == Cardinality(Selected(request.filter))
  <2>1. PICK rows \in SUBSET page :
          \/ /\ request' = [request EXCEPT !.step = "stats", !.rows = rows]
             /\ late' = IF N > request.total THEN N - request.total ELSE 0
             /\ unseen' = unseen \ (page \ rows)
          \/ /\ request' = [request EXCEPT !.step = "error"]
             /\ UNCHANGED <<unseen, late>>
    BY <1>13 DEF ListPage
  <2>2. request.step = "page" /\ UNCHANGED <<storeVars, gone>>
    BY <1>13 DEF ListPage
  <2>3. rows \in SUBSET Ids
    <3>1. request.page \in Nat \ {0}
      BY <1>1, <1>4 DEF Ids
    <3>2. page \subseteq Found(request.filter, payments)
      BY <1>1, <3>1, PageMeans
    <3>3. Found(request.filter, payments) \subseteq Ids
      BY <1>1, <1>3, FoundFinite
    <3> QED
      BY <3>2, <3>3
  <2>4. N \in 0..MaxId
    BY <1>3
  <2> HIDE DEF page, N
  <2>5. /\ [request EXCEPT !.step = "stats", !.rows = rows] \in Request
        /\ [request EXCEPT !.step = "stats", !.rows = rows].step = "stats"
        /\ [request EXCEPT !.step = "error"] \in Request
        /\ [request EXCEPT !.step = "error"].rows = request.rows
    BY <1>1, <2>3 DEF Request
  <2>6. request' \in Request /\ RowsWhileRendering'
    BY <1>1, <2>1, <2>2, <2>5
  <2>7. unseen' \in SUBSET Ids /\ late' \in 0..MaxId
    BY <1>1, <1>4, <2>1, <2>4
  <2> QED
    BY <1>1, <1>2, <2>2, <2>6, <2>7 DEF AdminTypeOK
<1>14. ASSUME ShowPage PROVE AdminTypeOK' /\ RowsWhileRendering'
  <2>1. /\ request' = [request EXCEPT !.step = "shown", !.rows = {}]
        /\ unseen' = unseen \ request.rows
        /\ UNCHANGED <<storeVars, gone, late>>
    BY <1>14 DEF ShowPage
  <2>2. request' = [step |-> "shown", filter |-> request.filter, page |-> request.page,
                    total |-> request.total, rows |-> {}]
    BY <1>1, <2>1 DEF Request
  <2>3. request' \in Request
    BY <1>1, <2>2 DEF Request
  <2> QED
    BY <1>1, <1>2, <2>1, <2>2, <2>3 DEF AdminTypeOK
<1>15. ASSUME OthersStep PROVE AdminTypeOK' /\ RowsWhileRendering'
  <2> DEFINE S == Found(request.filter, payments)
             T == Found(request.filter, payments')
  <2>1. StoreTypeOK'
    BY <1>1, <1>15, StatementTypes
  <2>2. UNCHANGED <<request, late>> /\ unseen' = unseen \cap T /\ gone' = gone + Cardinality(S \ T)
    BY <1>15 DEF OthersStep, RowsLeave
  <2>3. Cardinality(S \ T) \in Nat
    <3>1. IsFiniteSet(S)
      BY <1>1, FoundFinite
    <3> QED
      BY <3>1, FS_Difference, FS_CardinalityType
  <2> HIDE DEF S, T
  <2> QED
    BY <1>1, <2>1, <2>2, <2>3 DEF AdminTypeOK
<1>16. ASSUME UNCHANGED vars PROVE AdminTypeOK' /\ RowsWhileRendering'
  BY <1>1, <1>2, <1>16 DEF AdminTypeOK, vars, adminVars
<1> QED
  BY <1>7, <1>8, <1>9, <1>10, <1>11, <1>12, <1>13, <1>14, <1>15, <1>16
    DEF AdminNext, Payments, Browse

\* What is behind n pages is behind fewer, and everything is behind none.
LEMMA BehindFewer ==
  ASSUME NEW S \in SUBSET Int, IsFiniteSet(S), NEW i \in Int, NEW n \in Nat
  PROVE  /\ Behind(S, i, 0)
         /\ \A m \in Nat : m <= n /\ Behind(S, i, n) => Behind(S, i, m)
<1>1. Cardinality(Above(S, i)) \in Nat
  BY AboveFinite
<1>2. PageSize \in Nat /\ 0 * PageSize = 0
  BY AdminAssumption
<1>3. \A m \in Nat : m <= n => m * PageSize <= n * PageSize
  BY <1>2, Monotone
<1>4. n * PageSize \in Nat /\ \A m \in Nat : m * PageSize \in Nat
  BY <1>2
<1> QED
  BY <1>1, <1>2, <1>3, <1>4 DEF Behind

\* A row on none of the pages 1 .. n - 1 is on page n or behind it.
LEMMA PageOrBehind ==
  ASSUME StoreTypeOK, NEW f, NEW n \in Nat \ {0}, NEW i \in Found(f, payments),
         Behind(Found(f, payments), i, n - 1)
  PROVE  i \in Page(f, n) \/ Behind(Found(f, payments), i, n)
<1> DEFINE S == Found(f, payments)
           rank == Cardinality(Above(S, i))
<1>1. S \in SUBSET Int /\ IsFiniteSet(S) /\ i \in S /\ i \in Int
  BY FoundFinite
<1>2. Page(f, n) = {j \in S : Cardinality(Above(S, j)) \div PageSize = n - 1}
  BY PageMeans
<1> HIDE DEF S
<1>3. rank \in Nat
  BY <1>1, AboveFinite
<1>4. (n - 1) * PageSize <= rank
  BY <1>3 DEF Behind, S
<1>5. /\ PageSize \in Nat \ {0}
      /\ n - 1 \in Nat
      /\ (n - 1) * PageSize \in Nat
      /\ n * PageSize \in Nat
      /\ n * PageSize = (n - 1) * PageSize + PageSize
  <2>1. PageSize \in Nat \ {0} /\ n - 1 \in Nat
    BY AdminAssumption
  <2>2. n * PageSize = (n - 1) * PageSize + PageSize
    BY <2>1
  <2> QED
    BY <2>1, <2>2
<1> HIDE DEF rank
<1>6. rank \div PageSize = n - 1 <=>
        (n - 1) * PageSize <= rank /\ rank < (n - 1) * PageSize + PageSize
  BY <1>3, <1>5, QuotientIs
<1>7. rank \div PageSize = n - 1 \/ rank >= n * PageSize
  BY <1>3, <1>4, <1>5, <1>6
<1> QED
  BY <1>1, <1>2, <1>7 DEF rank, Behind, S

\* Fewer elements, fewer in number.
LEMMA Fewer ==
  ASSUME NEW Y, IsFiniteSet(Y), NEW X \in SUBSET Y
  PROVE  /\ IsFiniteSet(X) /\ Cardinality(X) \in Nat
         /\ Cardinality(Y) \in Nat /\ Cardinality(X) <= Cardinality(Y)
  BY FS_Subset, FS_CardinalityType

\* The newest and the oldest of some rows.
LEMMA NewestAndOldest ==
  ASSUME NEW B \in SUBSET Int, IsFiniteSet(B), B # {}
  PROVE  /\ \E top \in B : \A j \in B : j <= top
         /\ \E m \in B : Cardinality(Above(B, m)) + 1 = Cardinality(B)
<1>1. Cardinality(B) \in Nat \ {0}
  BY FS_CardinalityType, FS_EmptySet
<1>2. PICK top \in B : Cardinality(Above(B, top)) + 1 = 1
  BY <1>1, AboveOnto
<1>3. IsFiniteSet(Above(B, top)) /\ Cardinality(Above(B, top)) = 0
  <2>1. top \in Int
    BY <1>2
  <2>2. IsFiniteSet(Above(B, top)) /\ Cardinality(Above(B, top)) \in Nat
    BY <2>1, AboveFinite
  <2> QED
    BY <1>2, <2>2
<1>4. Above(B, top) = {}
  BY <1>3, FS_EmptySet
<1>5. \A j \in B : j <= top
  BY <1>4 DEF Above
<1>6. \E m \in B : Cardinality(Above(B, m)) + 1 = Cardinality(B)
  BY <1>1, AboveOnto
<1> QED
  BY <1>5, <1>6

\* When a list S becomes T, no more rows move to the first n pages than have left S.
LEMMA MoveUp ==
  ASSUME NEW S \in SUBSET Int, IsFiniteSet(S), NEW T \in SUBSET Int, IsFiniteSet(T),
         NEW B \in SUBSET (S \cap T), NEW n \in Nat,
         \A i \in B : Behind(S, i, n) /\ ~Behind(T, i, n)
  PROVE  Cardinality(B) <= Cardinality(S \ T)
<1>1. IsFiniteSet(B) /\ Cardinality(B) \in Nat /\ B \in SUBSET Int
  BY Fewer
<1>2. IsFiniteSet(S \ T) /\ Cardinality(S \ T) \in Nat
  BY Fewer
<1>3. CASE B = {}
  BY <1>2, <1>3, FS_EmptySet
<1>4. CASE B # {}
  <2>1. PICK top \in B : \A j \in B : j <= top
    BY <1>1, <1>4, NewestAndOldest
  <2>2. PICK m \in B : Cardinality(Above(B, m)) + 1 = Cardinality(B)
    BY <1>1, <1>4, NewestAndOldest
  <2> DEFINE newer == Above(S, top)
             kept == newer \ (S \ T)
             others == Above(B, m)
             P == n * PageSize
  <2>3. top \in Int /\ m \in Int /\ m <= top /\ P \in Nat
    BY <1>1, <2>1, AdminAssumption
  <2>4. /\ IsFiniteSet(newer) /\ Cardinality(newer) \in Nat
        /\ IsFiniteSet(others) /\ Cardinality(others) \in Nat
        /\ IsFiniteSet(Above(T, m)) /\ Cardinality(Above(T, m)) \in Nat
    BY <1>1, <2>3, AboveFinite
  <2>5. Cardinality(newer) >= P /\ Cardinality(Above(T, m)) < P
    BY <2>3, <2>4 DEF Behind
  \* The rows of B after the oldest and what is left of those before B are before the oldest.
  <2>6. others \cup kept \in SUBSET Above(T, m) /\ others \cap kept = {}
    <3>1. \A j \in B : j \in Int /\ j \in T /\ j <= top
      BY <1>1, <2>1
    <3>2. \A j \in kept : j \in Int /\ j \in T /\ j > top
      BY DEF Above
    <3>3. \A j \in others : j \in B /\ j > m
      BY DEF Above
    <3>4. \A j \in kept : j > m /\ j \notin others
      BY <2>3, <3>1, <3>2, <3>3
    <3> HIDE DEF kept, others
    <3> QED
      BY <3>1, <3>2, <3>3, <3>4 DEF Above
  <2>7. /\ IsFiniteSet(kept) /\ Cardinality(kept) \in Nat
        /\ Cardinality(kept) >= Cardinality(newer) - Cardinality(S \ T)
    <3>1. /\ IsFiniteSet(kept)
          /\ Cardinality(kept) = Cardinality(newer) - Cardinality(newer \cap (S \ T))
      BY <2>4, FS_Difference
    <3>2. /\ Cardinality(newer \cap (S \ T)) \in Nat
          /\ Cardinality(newer \cap (S \ T)) <= Cardinality(S \ T)
      BY <1>2, Fewer
    <3>3. Cardinality(kept) \in Nat
      BY <3>1, FS_CardinalityType
    <3> QED
      BY <1>2, <2>4, <3>1, <3>2, <3>3
  <2>8. Cardinality(others \cup kept) = Cardinality(others) + Cardinality(kept)
    <3>1. Cardinality(others \cup kept)
            = Cardinality(others) + Cardinality(kept) - Cardinality(others \cap kept)
      BY <2>4, <2>7, FS_Union
    <3>2. Cardinality(others \cap kept) = 0
      BY <2>6, FS_EmptySet
    <3> HIDE DEF others, kept
    <3> QED
      BY <2>4, <2>7, <3>1, <3>2
  <2>9. Cardinality(others \cup kept) <= Cardinality(Above(T, m))
    BY <2>4, <2>6, Fewer
  <2> HIDE DEF newer, kept, others, P
  <2> QED
    BY <1>1, <1>2, <2>2, <2>3, <2>4, <2>5, <2>7, <2>8, <2>9 DEF others
<1> QED
  BY <1>3, <1>4

\* What the rows X that stay in the list lose to the first n pages.
LEMMA BeforeAfter ==
  ASSUME NEW S \in SUBSET Int, IsFiniteSet(S), NEW T \in SUBSET Int, IsFiniteSet(T),
         NEW X \in SUBSET S, NEW n \in Nat
  PROVE  Cardinality(Before(X \cap T, T, n)) <= Cardinality(Before(X, S, n)) + Cardinality(S \ T)
<1> DEFINE A == Before(X, S, n)
           B == {i \in X \cap T : Behind(S, i, n) /\ ~Behind(T, i, n)}
<1>1. IsFiniteSet(A) /\ Cardinality(A) \in Nat /\ IsFiniteSet(B) /\ Cardinality(B) \in Nat
  <2>1. A \in SUBSET S /\ B \in SUBSET S
    BY DEF Before
  <2> QED
    BY <2>1, Fewer
<1>2. Cardinality(B) <= Cardinality(S \ T) /\ Cardinality(S \ T) \in Nat
  <2>1. B \in SUBSET (S \cap T) /\ \A i \in B : Behind(S, i, n) /\ ~Behind(T, i, n)
    OBVIOUS
  <2> HIDE DEF B
  <2> QED
    BY <2>1, MoveUp, Fewer
<1>3. Before(X \cap T, T, n) \in SUBSET (A \cup B)
  BY DEF Before
<1> HIDE DEF A, B
<1>4. IsFiniteSet(A \cup B) /\ Cardinality(A \cup B) <= Cardinality(A) + Cardinality(B)
  <2>1. /\ IsFiniteSet(A \cup B)
        /\ Cardinality(A \cup B) = Cardinality(A) + Cardinality(B) - Cardinality(A \cap B)
    BY <1>1, FS_Union
  <2>2. Cardinality(A \cap B) \in Nat
    BY <1>1, Fewer
  <2> QED
    BY <1>1, <2>1, <2>2
<1>5. /\ Cardinality(Before(X \cap T, T, n)) \in Nat
      /\ Cardinality(Before(X \cap T, T, n)) <= Cardinality(A \cup B)
      /\ Cardinality(A \cup B) \in Nat
  BY <1>3, <1>4, Fewer
<1> QED
  BY <1>1, <1>2, <1>4, <1>5 DEF A

\* Behind the pages that a COUNT of total asks for are the rows that came after it.
LEMMA BehindLast ==
  ASSUME NEW S \in SUBSET Int, IsFiniteSet(S), NEW n \in Nat, NEW total \in Nat,
         n >= TotalPages(total)
  PROVE  LET N == Cardinality(S)
         IN Cardinality({i \in S : Behind(S, i, n)}) <= IF N > total THEN N - total ELSE 0
<1> DEFINE N == Cardinality(S)
           Q == {i \in S : Behind(S, i, n)}
<1>1. N \in Nat /\ IsFiniteSet(Q) /\ Cardinality(Q) \in Nat /\ Q \in SUBSET Int
  BY Fewer
<1>2. CASE Q = {}
  <2>1. Cardinality(Q) = 0
    BY <1>2, FS_EmptySet
  <2> QED
    BY <1>1, <2>1
<1>3. CASE Q # {}
  <2>1. PICK top \in Q : \A j \in Q : j <= top
    BY <1>1, <1>3, NewestAndOldest
  <2> DEFINE newer == Above(S, top)
  <2>2. top \in Int /\ IsFiniteSet(newer) /\ Cardinality(newer) \in Nat
    BY AboveFinite
  <2>3. Cardinality(newer) >= total
    <3>1. PageSize \in Nat /\ TotalPages(total) \in Nat /\ total <= TotalPages(total) * PageSize
      BY TotalPagesBound, AdminAssumption
    <3>2. TotalPages(total) * PageSize <= n * PageSize
          /\ TotalPages(total) * PageSize \in Nat /\ n * PageSize \in Nat
      BY <3>1, Monotone
    <3>3. Cardinality(newer) >= n * PageSize
      BY DEF Behind
    <3> QED
      BY <2>2, <3>1, <3>2, <3>3
  <2>4. Q \cup newer \in SUBSET S /\ Q \cap newer = {}
    <3>1. \A j \in Q : ~(j > top)
      BY <1>1, <2>1
    <3> QED
      BY <3>1 DEF Above
  <2>5. Cardinality(Q \cup newer) = Cardinality(Q) + Cardinality(newer)
    <3>1. Cardinality(Q \cup newer)
            = Cardinality(Q) + Cardinality(newer) - Cardinality(Q \cap newer)
      BY <1>1, <2>2, FS_Union
    <3> QED
      BY <1>1, <2>2, <2>4, <3>1, FS_EmptySet
  <2>6. Cardinality(Q \cup newer) <= N
    BY <2>4, Fewer
  <2>7. Cardinality(Q) >= 1
    BY <1>1, <1>3, FS_EmptySet
  <2> HIDE DEF Q, N, newer
  <2>8. Cardinality(Q) <= N - total /\ N > total
    BY <1>1, <2>2, <2>3, <2>5, <2>6, <2>7
  <2> QED
    BY <2>8 DEF Q, N
<1> QED
  BY <1>2, <1>3

LEMMA PagingStep ==
  ASSUME AdminInv, AdminTypeOK', [AdminNext]_vars
  PROVE  PagingInv'
<1> DEFINE S == Found(request.filter, payments)
           T == Found(request'.filter, payments')
           page == request.page
           left == unseen \ request.rows
           left2 == unseen' \ request'.rows
           Goal == /\ unseen' \subseteq T
                   /\ Cardinality(Before(unseen', T, request'.page - 1)) <= gone'
                   /\ request'.step \in {"stats", "shown"} =>
                        /\ Cardinality(Before(left2, T, request'.page)) <= gone'
                        /\ request'.page >= TotalPages(request'.total) =>
                             Cardinality(left2) <= gone' + late'
<1>1. /\ StoreTypeOK /\ StoreTypeOK'
      /\ request \in Request /\ request' \in Request
      /\ page \in Nat \ {0}
      /\ request.total \in Nat
      /\ gone \in Nat /\ late \in Nat
      /\ RowsWhileRendering
  BY StoreAssumption DEF AdminInv, AdminTypeOK, Request, Ids
<1>2. /\ S \in SUBSET Int /\ IsFiniteSet(S)
      /\ T \in SUBSET Int /\ IsFiniteSet(T)
  BY <1>1, FoundFinite, FoundFiniteNext
<1>3. /\ unseen \in SUBSET S
      /\ Cardinality(Before(unseen, S, page - 1)) <= gone
      /\ request.step \in {"stats", "shown"} =>
           /\ Cardinality(Before(left, S, page)) <= gone
           /\ page >= TotalPages(request.total) => Cardinality(left) <= gone + late
  BY DEF AdminInv, PagingInv
<1>4. SUFFICES Goal
  BY DEF PagingInv
\* The sets of rows that are counted are finite.
<1>5. \A X \in SUBSET S : \A n :
        /\ IsFiniteSet(X) /\ Cardinality(X) \in Nat
        /\ IsFiniteSet(Before(X, S, n)) /\ Cardinality(Before(X, S, n)) \in Nat
  <2>1. \A X \in SUBSET S : \A n : Before(X, S, n) \in SUBSET S
    BY DEF Before
  <2> HIDE DEF S
  <2> QED
    BY <1>2, <2>1, Fewer
\* Steps after which the page has not been read.
<1>6. ASSUME payments' = payments, request'.filter = request.filter,
             request'.step \notin {"stats", "shown"}, unseen' = unseen, gone' = gone,
             Cardinality(Before(unseen, S, request'.page - 1)) <= gone
      PROVE  Goal
  BY <1>3, <1>6
<1>7. ASSUME NextPage PROVE Goal
  <2>1. /\ request.step = "shown"
        /\ request' = [request EXCEPT !.step = "count", !.page = page + 1, !.total = 0]
        /\ UNCHANGED <<storeVars, unseen, gone>>
    BY <1>7 DEF NextPage, GoTo
  <2>2. request'.page = page + 1 /\ request'.filter = request.filter /\ request'.step = "count"
    BY <1>1, <2>1 DEF Request
  <2>3. request.rows = {} /\ (page + 1) - 1 = page
    BY <1>1, <2>1 DEF RowsWhileRendering
  <2>4. left = unseen
    BY <2>3
  <2> HIDE DEF S, T, left, Goal
  <2> QED
    BY <1>3, <1>6, <2>1, <2>2, <2>3, <2>4 DEF storeVars
<1>8. ASSUME PrevPage PROVE Goal
  <2>1. /\ page > 1
        /\ request' = [request EXCEPT !.step = "count", !.page = page - 1, !.total = 0]
        /\ UNCHANGED <<storeVars, unseen, gone>>
    BY <1>8 DEF PrevPage, GoTo
  <2>2. request'.page = page - 1 /\ request'.filter = request.filter /\ request'.step = "count"
    BY <1>1, <2>1 DEF Request
  <2>3. page - 1 \in Nat /\ (page - 1) - 1 \in Nat /\ (page - 1) - 1 <= page - 1
    BY <1>1, <2>1
  <2>4. \A i \in S : Behind(S, i, page - 1) => Behind(S, i, (page - 1) - 1)
    <3> HIDE DEF S
    <3> QED
      BY <1>2, <2>3, BehindFewer
  <2>5. Before(unseen, S, (page - 1) - 1) \in SUBSET Before(unseen, S, page - 1)
    BY <1>3, <2>4 DEF Before
  <2>6. Cardinality(Before(unseen, S, (page - 1) - 1)) <= gone
    <3> HIDE DEF S
    <3> QED
      BY <1>1, <1>3, <1>5, <2>5, Fewer
  <2> HIDE DEF S, T, left, Goal
  <2> QED
    BY <1>6, <2>1, <2>2, <2>6 DEF storeVars
<1>9. ASSUME Reload PROVE Goal
  <2>1. /\ request' = [request EXCEPT !.step = "count", !.page = page, !.total = 0]
        /\ UNCHANGED <<storeVars, unseen, gone>>
    BY <1>9 DEF Reload, GoTo
  <2>2. request'.page = page /\ request'.filter = request.filter /\ request'.step = "count"
    BY <1>1, <2>1 DEF Request
  <2> HIDE DEF S, T, left, Goal
  <2> QED
    BY <1>3, <1>6, <2>1, <2>2 DEF storeVars
<1>10. ASSUME NEW g \in Filters, OpenList(g) PROVE Goal
  <2>1. /\ request' = [step |-> "count", filter |-> g, page |-> 1, total |-> 0, rows |-> {}]
        /\ unseen' = Selected(g)
        /\ gone' = 0
        /\ payments' = payments
    BY <1>10 DEF OpenList, storeVars
  <2>2. T = Found(g, payments) /\ Selected(g) = Found(g, payments)
    BY <1>1, <2>1, FoundFinite
  <2>3. request'.page - 1 = 0 /\ request'.step = "count"
    BY <2>1
  <2>4. Before(unseen', T, 0) = {}
    <3>1. \A i \in T : Behind(T, i, 0)
      <4> HIDE DEF T
      <4> QED
        BY <1>2, BehindFewer
    <3> QED
      BY <2>1, <2>2, <3>1 DEF Before
  <2>5. Cardinality(Before(unseen', T, request'.page - 1)) = 0
    BY <2>3, <2>4, FS_EmptySet
  <2> QED
    BY <2>1, <2>2, <2>3, <2>5
<1>11. ASSUME RequestFails \/ CountPayments PROVE Goal
  <2>1. /\ \/ request' = [request EXCEPT !.step = "error", !.rows = {}]
           \/ request' = [request EXCEPT !.step = "page",
                                         !.total = Cardinality(Selected(request.filter))]
        /\ UNCHANGED <<storeVars, unseen, gone>>
    BY <1>11 DEF RequestFails, CountPayments
  <2>2. request'.page = page /\ request'.filter = request.filter /\ request'.step \in {"error", "page"}
    BY <1>1, <2>1 DEF Request
  <2> HIDE DEF S, T, left, Goal
  <2> QED
    BY <1>3, <1>6, <2>1, <2>2 DEF storeVars
<1>12. ASSUME ListPage PROVE Goal
  <2> DEFINE N == Cardinality(Selected(request.filter))
  <2>1. payments' = payments /\ gone' = gone
    BY <1>12 DEF ListPage, storeVars
  <2>2. PICK rows \in SUBSET Page(request.filter, page) :
          \/ /\ request' = [request EXCEPT !.step = "stats", !.rows = rows]
             /\ late' = IF N > request.total THEN N - request.total ELSE 0
             /\ unseen' = unseen \ (Page(request.filter, page) \ rows)
          \/ /\ request' = [request EXCEPT !.step = "error"]
             /\ UNCHANGED <<unseen, late>>
    BY <1>12 DEF ListPage
  <2>3. CASE request' = [request EXCEPT !.step = "error"] /\ unseen' = unseen
    <3>1. request'.page = page /\ request'.filter = request.filter /\ request'.step = "error"
      BY <1>1, <2>3 DEF Request
    <3> HIDE DEF S, T, left, Goal
    <3> QED
      BY <1>3, <1>6, <2>1, <2>3, <3>1
  <2>4. CASE /\ request' = [request EXCEPT !.step = "stats", !.rows = rows]
             /\ late' = IF N > request.total THEN N - request.total ELSE 0
             /\ unseen' = unseen \ (Page(request.filter, page) \ rows)
    <3>1. /\ request'.page = page /\ request'.filter = request.filter
          /\ request'.rows = rows /\ request'.total = request.total
      BY <1>1, <2>4 DEF Request
    <3>2. /\ T = S /\ N = Cardinality(S)
          /\ unseen' \in SUBSET S /\ left2 \in SUBSET S
          /\ left2 = unseen \ Page(request.filter, page) /\ unseen' \in SUBSET unseen
      BY <1>1, <1>3, <2>1, <2>4, <3>1, FoundFinite
    \* What is still unseen on this page or before it was so before it.
    <3>3. Before(left2, S, page) \in SUBSET Before(unseen, S, page - 1)
      <4>1. \A i \in S : Behind(S, i, page - 1) =>
              i \in Page(request.filter, page) \/ Behind(S, i, page)
        BY <1>1, PageOrBehind
      <4> HIDE DEF S, left2
      <4> QED
        BY <1>3, <3>2, <4>1 DEF Before
    <3>4. Before(unseen', S, page - 1) \in SUBSET Before(unseen, S, page - 1)
      BY <3>2 DEF Before
    <3> DEFINE Q == {i \in S : Behind(S, i, page)}
    <3>5. left2 \in SUBSET (Before(left2, S, page) \cup Q)
      BY <3>2 DEF Before
    <3>6. page >= TotalPages(request.total) => Cardinality(Q) <= late'
      <4> HIDE DEF S
      <4> QED
        BY <1>1, <1>2, <2>4, <3>2, BehindLast
    <3>7. /\ Cardinality(Before(left2, S, page)) <= gone
          /\ Cardinality(Before(unseen', S, page - 1)) <= gone
          /\ IsFiniteSet(Before(left2, S, page)) /\ Cardinality(Before(left2, S, page)) \in Nat
      <4> HIDE DEF S, left2
      <4> QED
        BY <1>1, <1>3, <1>5, <3>3, <3>4, Fewer
    <3>8. Cardinality(left2) <= Cardinality(Before(left2, S, page)) + Cardinality(Q)
          /\ Cardinality(Q) \in Nat /\ Cardinality(left2) \in Nat
      <4>1. IsFiniteSet(Q) /\ Cardinality(Q) \in Nat
        <5>1. Q \in SUBSET S
          OBVIOUS
        <5> HIDE DEF S, Q
        <5> QED
          BY <1>2, <5>1, Fewer
      <4> HIDE DEF S, Q, left2
      <4> DEFINE A == Before(left2, S, page)
      <4>2. /\ IsFiniteSet(A \cup Q)
            /\ Cardinality(A \cup Q) = Cardinality(A) + Cardinality(Q) - Cardinality(A \cap Q)
        BY <3>7, <4>1, FS_Union
      <4>3. Cardinality(A \cap Q) \in Nat
        BY <4>1, Fewer
      <4>4. /\ Cardinality(left2) <= Cardinality(A \cup Q)
            /\ Cardinality(left2) \in Nat /\ Cardinality(A \cup Q) \in Nat
        BY <3>5, <4>2, Fewer
      <4> QED
        BY <3>7, <4>1, <4>2, <4>3, <4>4
    <3>9. page >= TotalPages(request.total) => Cardinality(left2) <= gone + late'
      <4>1. late' \in Nat
        BY <1>1, <1>2, <2>4, <3>2, FS_CardinalityType
      <4> HIDE DEF S, Q, left2
      <4> QED
        BY <1>1, <3>6, <3>7, <3>8, <4>1
    <3> HIDE DEF S, T, left2, Q
    <3> QED
      BY <2>1, <3>1, <3>2, <3>7, <3>9
  <2> QED
    BY <2>2, <2>3, <2>4
<1>13. ASSUME ShowPage PROVE Goal
  <2>1. /\ request.step = "stats"
        /\ request' = [request EXCEPT !.step = "shown", !.rows = {}]
        /\ unseen' = unseen \ request.rows
        /\ UNCHANGED <<payments, gone, late>>
    BY <1>13 DEF ShowPage, storeVars
  <2>2. /\ request'.page = page /\ request'.filter = request.filter
        /\ request'.rows = {} /\ request'.total = request.total
    BY <1>1, <2>1 DEF Request
  <2>3. T = S /\ left2 = left /\ unseen' = left /\ unseen' \in SUBSET S
    BY <1>3, <2>1, <2>2
  <2>4. Before(left, S, page - 1) \in SUBSET Before(unseen, S, page - 1)
    BY DEF Before
  <2>5. Cardinality(Before(left, S, page - 1)) <= gone
    <3> HIDE DEF S, left
    <3> QED
      BY <1>1, <1>3, <1>5, <2>4, Fewer
  <2> HIDE DEF S, T, left, left2
  <2> QED
    BY <1>3, <2>1, <2>2, <2>3, <2>5
<1>14. ASSUME OthersStep PROVE Goal
  <2>1. /\ request' = request /\ late' = late
        /\ unseen' = unseen \cap T
        /\ gone' = gone + Cardinality(S \ T)
    BY <1>14 DEF OthersStep, RowsLeave
  <2>2. left2 = left \cap T /\ left \in SUBSET S
    BY <1>3, <2>1
  <2>3. page - 1 \in Nat /\ page \in Nat
    BY <1>1
  <2> HIDE DEF S, T, left, left2
  <2>4. Cardinality(S \ T) \in Nat
    BY <1>2, Fewer
  <2>5. /\ Cardinality(Before(unseen', T, page - 1))
             <= Cardinality(Before(unseen, S, page - 1)) + Cardinality(S \ T)
        /\ Cardinality(Before(left2, T, page)) <= Cardinality(Before(left, S, page)) + Cardinality(S \ T)
    BY <1>2, <1>3, <2>1, <2>2, <2>3, BeforeAfter
  <2>6. /\ Cardinality(Before(unseen', T, page - 1)) \in Nat
        /\ Cardinality(Before(left2, T, page)) \in Nat
    <3>1. Before(unseen', T, page - 1) \in SUBSET T /\ Before(left2, T, page) \in SUBSET T
      BY <2>1, <2>2 DEF Before
    <3> QED
      BY <1>2, <3>1, Fewer
  <2>7. Cardinality(left2) <= Cardinality(left) /\ Cardinality(left2) \in Nat
    BY <1>5, <2>2, Fewer
  <2>8. /\ Cardinality(Before(unseen, S, page - 1)) \in Nat
        /\ Cardinality(Before(left, S, page)) \in Nat
        /\ Cardinality(left) \in Nat
    BY <1>3, <1>5, <2>2
  <2>9. /\ Cardinality(Before(unseen', T, page - 1)) <= gone'
        /\ request.step \in {"stats", "shown"} =>
             /\ Cardinality(Before(left2, T, page)) <= gone'
             /\ page >= TotalPages(request.total) => Cardinality(left2) <= gone' + late
    BY <1>1, <1>3, <2>1, <2>4, <2>5, <2>6, <2>7, <2>8
  <2> QED
    BY <2>1, <2>9
<1>15. ASSUME UNCHANGED vars PROVE Goal
  <2>1. /\ request' = request /\ unseen' = unseen /\ gone' = gone /\ late' = late
        /\ payments' = payments
    BY <1>15 DEF vars, adminVars, storeVars
  <2> QED
    BY <1>3, <2>1
<1> QED
  BY <1>7, <1>8, <1>9, <1>10, <1>11, <1>12, <1>13, <1>14, <1>15
    DEF AdminNext, Payments, Browse

LEMMA AdminInvHolds == AdminSpec => []AdminInv
<1>1. AdminInit => AdminInv
  BY AdminInitInv
<1>2. AdminInv /\ [AdminNext]_vars => AdminInv'
  <2> SUFFICES ASSUME AdminInv, [AdminNext]_vars
               PROVE  AdminInv'
    OBVIOUS
  <2>1. AdminTypeOK' /\ RowsWhileRendering'
    BY AdminTypeStep DEF AdminInv
  <2>2. PagingInv'
    BY <2>1, PagingStep
  <2> QED
    BY <2>1, <2>2 DEF AdminInv
<1> QED
  BY <1>1, <1>2, PTL DEF AdminSpec

-----------------------------------------------------------------------------
(* What the list promises *)

\* Type correctness: the page asked for is one that the number of payments allows,
\* which depends on the division of TotalPages.
THEOREM AdminTypeCorrect == AdminSpec => []AdminTypeOK
<1>1. AdminInv => AdminTypeOK
  BY DEF AdminInv
<1> QED
  BY <1>1, AdminInvHolds, PTL

\* Whatever the filter, the table and PageSize, the pages share out the matching
\* payments, newest first: none is on two pages, none on no page.
THEOREM PagesShare == AdminSpec => []PagesShareOutMatches
<1>1. AdminTypeOK => PagesShareOutMatches
  <2> SUFFICES ASSUME AdminTypeOK, NEW f \in Filters,
                      NEW n \in 1..TotalPages(Cardinality(Found(f, payments)))
               PROVE  Page(f, n) = {i \in Found(f, payments) :
                        Cardinality({j \in Found(f, payments) : j > i}) \div PageSize = n - 1}
    BY DEF PagesShareOutMatches, Found
  <2>1. StoreTypeOK /\ n \in Nat \ {0}
    BY DEF AdminTypeOK
  <2> QED
    BY <2>1, PageMeans DEF Above
<1> QED
  BY <1>1, AdminTypeCorrect, PTL

\* An admin who follows the links to the last page misses at most as many of the
\* payments that stay in the list as leave it and as come between the last COUNT and its
\* SELECT, whatever the filter, the page size and the order of everybody's statements;
\* rows that a lost connection cut off a page come on top (ListFiltered, TotalPages).
THEOREM SkipsBounded == AdminSpec => []SkipsAccounted
<1>1. AdminInv => SkipsAccounted
  <2> SUFFICES ASSUME AdminInv, request.step = "shown",
                      request.page >= TotalPages(request.total)
               PROVE  Cardinality(unseen) <= gone + late
    BY DEF SkipsAccounted
  <2>1. unseen \ request.rows = unseen
    BY DEF AdminInv, RowsWhileRendering
  <2> QED
    BY <2>1 DEF AdminInv, PagingInv
<1> QED
  BY <1>1, AdminInvHolds, PTL
=============================================================================
