----------------------------- MODULE AdminQuery -----------------------------
(***************************************************************************)
(* The admin's list of payments (AdminHandler.Payments): the WHERE that    *)
(* buildWhere puts together from a filter, a page of ListFiltered, the     *)
(* tiles of StatsFor, and an admin who follows the links between pages     *)
(* while orders are placed, numbered, settled and delivered.               *)
(*                                                                         *)
(* A request executes three statements, COUNT, the page and the tiles,     *)
(* without a transaction: the table may change between any two of them.    *)
(***************************************************************************)
EXTENDS PaymentStore, Sequences

CONSTANTS
  LinkOf,        \* [Ids -> Links]: what each order is placed for
  DetailsOf,     \* [Links -> [productType, planId, userRef, email]]
  Like,          \* the pairs <<t, s>> of texts with t ILIKE '%s%'
  Filters,       \* the filters the admin uses
  PageSize       \* pageSize, 50

ASSUME AdminAssumption ==
  /\ LinkOf \in [Ids -> Links]
  /\ Filters # {}
  /\ PageSize \in Nat \ {0}

\* A filter's from is the age of the period's first moment, NULL for "all".
VARIABLES
  request,       \* the list the browser shows or asks for
  unseen,        \* history: the rows that are in the list since the admin opened it and
                 \* were neither seen since then nor cut off a page by a lost connection
  gone,          \* history: how many rows have left the list since then
  late           \* history: how many came between the COUNT and the SELECT of the page shown

adminVars == <<request, unseen, gone, late>>
vars == <<storeVars, adminVars>>

Request == [step : {"closed", "count", "page", "stats", "shown", "error"},
            filter : Filters, page : Ids \cup {1}, total : 0..MaxId, rows : SUBSET Ids]

AdminTypeOK ==
  /\ StoreTypeOK
  /\ request \in Request
  /\ unseen \subseteq Ids
  /\ gone \in Nat
  /\ late \in 0..MaxId

-----------------------------------------------------------------------------
(* buildWhere.  A condition names the placeholder $n of its argument.      *)

NoSearch == [kind |-> "none"]

Push(q, col, val) == [conds |-> Append(q.conds, [col |-> col, n |-> q.i]),
                      args  |-> Append(q.args, val),
                      i     |-> q.i + 1]

PushIf(given, q, col, val) == IF given THEN Push(q, col, val) ELSE q

\* The search text is a number, for inv_id, or a text, for email and user_ref.
PushSearch(q, search) ==
  IF search.kind = "number" THEN Push(q, "invId", search.what)
  ELSE IF search.kind = "text"
    THEN [conds |-> Append(q.conds, [col |-> "emailOrUserRef", n |-> q.i]),
          args  |-> q.args \o <<search.what, search.what>>,
          i     |-> q.i + 2]
  ELSE q

\* The filter's To is nil in every request (parsePeriod).
BuildWhere(f) ==
  LET q0 == [conds |-> <<>>, args |-> <<>>, i |-> 1]
      q1 == PushIf(f.status # "", q0, "status", f.status)
      q2 == PushIf(f.productType # "", q1, "productType", f.productType)
      q3 == PushIf(f.planId # "", q2, "planId", f.planId)
      q4 == PushIf(f.from # NULL, q3, "createdAt", f.from)
      q5 == IF f.webhookProblem
              THEN [q4 EXCEPT !.conds = Append(@, [col |-> "webhookProblem", n |-> 0])]
              ELSE q4
  IN PushSearch(q5, f.search)

\* The columns that are compared with = and are never NULL.
Columns(p) == [status |-> p.status,
               productType |-> DetailsOf[p.link].productType,
               planId |-> DetailsOf[p.link].planId]

Undelivered(p) == /\ p.status = "paid"
                  /\ CallbackOf[p.link] # NoCallback
                  /\ ~p.delivered

\* A NULL inv_id equals no number, not even the one that stands for it here.
Holds(c, args, p) ==
  \/ c.col \in DOMAIN Columns(p) /\ Columns(p)[c.col] = args[c.n]
  \/ c.col = "invId" /\ p.invId # NULL /\ p.invId = args[c.n]
  \/ c.col = "createdAt" /\ p.age <= args[c.n]
  \/ c.col = "webhookProblem" /\ Undelivered(p)
  \/ /\ c.col = "emailOrUserRef"
     /\ \/ <<DetailsOf[p.link].email, args[c.n]>> \in Like
        \/ <<DetailsOf[p.link].userRef, args[c.n + 1]>> \in Like

\* FROM payments WHERE ...
Selected(f) ==
  LET q == BuildWhere(f)
  IN {i \in DOMAIN payments : \A k \in DOMAIN q.conds : Holds(q.conds[k], q.args, payments[i])}

\* ORDER BY id DESC.
NewestFirst(S) == CHOOSE s \in [1..Cardinality(S) -> S] :
                    \A j, k \in DOMAIN s : j < k => s[j] > s[k]

\* Mutant of Page: the first page is page 0.
PageFromZero(f, page) ==
  LET args == BuildWhere(f).args \o <<PageSize, page * PageSize>>
      newestFirst == NewestFirst(Selected(f))
      limit == args[Len(args) - 1]
      offset == args[Len(args)]
  IN {newestFirst[k] : k \in DOMAIN newestFirst \cap (offset + 1)..(offset + limit)}

\* LIMIT $n-1 OFFSET $n, behind the arguments of the WHERE.
Page(f, page) ==
  LET args == BuildWhere(f).args \o <<PageSize, (page - 1) * PageSize>>
      newestFirst == NewestFirst(Selected(f))
      limit == args[Len(args) - 1]
      offset == args[Len(args)]
  IN {newestFirst[k] : k \in DOMAIN newestFirst \cap (offset + 1)..(offset + limit)}

\* Mutant of TotalPages: the division is not rounded up.
TotalPagesRoundedDown(total) == total \div PageSize

TotalPages(total) == (total + PageSize - 1) \div PageSize

InPeriod(from) == {i \in DOMAIN payments : from = NULL \/ payments[i].age <= from}

InPeriodWith(from, status) == {i \in InPeriod(from) : payments[i].status = status}

\* Mutant of StatsFor: callback_url <> '' is lost.
StatsForAnyCallback(from) ==
  [count |-> [st \in Status |-> Cardinality(InPeriodWith(from, st))],
   webhookPending |-> Cardinality({i \in InPeriodWith(from, "paid") : ~payments[i].delivered})]

\* The tiles; SumPaid is left out.
StatsFor(from) ==
  [count |-> [st \in Status |-> Cardinality(InPeriodWith(from, st))],
   webhookPending |-> Cardinality({i \in InPeriod(from) : Undelivered(payments[i])})]

-----------------------------------------------------------------------------
(* The admin *)

AdminInit ==
  /\ StoreInit
  /\ request = [step |-> "closed", filter |-> CHOOSE f \in Filters : TRUE,
                page |-> 1, total |-> 0, rows |-> {}]
  /\ unseen = {}
  /\ gone = 0
  /\ late = 0

AtRest == request.step \in {"closed", "shown", "error"}

\* The form is submitted: the first page of a filter.
OpenList(f) ==
  /\ AtRest
  /\ request' = [step |-> "count", filter |-> f, page |-> 1, total |-> 0, rows |-> {}]
  /\ unseen' = Selected(f)
  /\ gone' = 0
  /\ late' = 0
  /\ UNCHANGED storeVars

GoTo(page) ==
  /\ request' = [request EXCEPT !.step = "count", !.page = page, !.total = 0]
  /\ late' = 0
  /\ UNCHANGED <<storeVars, unseen, gone>>

\* Mutant of NextPage: the link is there on the last page too.
NextPageAlways == request.step = "shown" /\ GoTo(request.page + 1)

\* The links below the list, and the browser's reload.
NextPage == /\ request.step = "shown"
            /\ request.page < TotalPages(request.total)
            /\ GoTo(request.page + 1)

PrevPage == /\ request.step = "shown"
            /\ TotalPages(request.total) > 1
            /\ request.page > 1
            /\ GoTo(request.page - 1)

Reload == request.step \in {"shown", "error"} /\ GoTo(request.page)

\* A statement fails: the answer is "Internal error".
RequestFails ==
  /\ request.step \in {"count", "page", "stats"}
  /\ DbFaults
  /\ request' = [request EXCEPT !.step = "error", !.rows = {}]
  /\ late' = 0
  /\ UNCHANGED <<storeVars, unseen, gone>>

CountPayments ==
  /\ request.step = "count"
  /\ request' = [request EXCEPT !.step = "page", !.total = Cardinality(Selected(request.filter))]
  /\ UNCHANGED <<storeVars, unseen, gone, late>>

\* scanPayment cannot put a NULL inv_id into an int: the whole list is an error.  An
\* error of the connection is none: rows.Next() ends the list where it is.
ListPage ==
  /\ request.step = "page"
  /\ \E last \in 0..MaxId :
       LET page == Page(request.filter, request.page)
           rows == {i \in page : i > last}
       IN /\ DbFaults \/ last = 0
          /\ \/ /\ \A i \in rows : payments[i].invId # NULL
                /\ request' = [request EXCEPT !.step = "stats", !.rows = rows]
                /\ late' = LET matching == Cardinality(Selected(request.filter))
                           IN IF matching > request.total THEN matching - request.total ELSE 0
                /\ unseen' = unseen \ (page \ rows)
             \/ /\ \E i \in rows : payments[i].invId = NULL
                /\ request' = [request EXCEPT !.step = "error"]
                /\ UNCHANGED <<unseen, late>>
  /\ UNCHANGED <<storeVars, gone>>

\* StatsFor, then the page is rendered.
ShowPage ==
  /\ request.step = "stats"
  /\ request' = [request EXCEPT !.step = "shown", !.rows = {}]
  /\ unseen' = unseen \ request.rows
  /\ UNCHANGED <<storeVars, gone, late>>

Payments == CountPayments \/ ListPage \/ ShowPage \/ RequestFails

Browse == NextPage \/ PrevPage \/ Reload \/ \E f \in Filters : OpenList(f)

-----------------------------------------------------------------------------
(* What a list is: the meaning the properties hold buildWhere against *)

\* What a filter means, column by column.
Matches(f, p) ==
  /\ f.status \in {"", p.status}
  /\ f.productType \in {"", DetailsOf[p.link].productType}
  /\ f.planId \in {"", DetailsOf[p.link].planId}
  /\ f.from # NULL => p.age <= f.from
  /\ f.webhookProblem => Undelivered(p)
  /\ f.search.kind = "number" => p.invId # NULL /\ p.invId = f.search.what
  /\ f.search.kind = "text" =>
       \E t \in {DetailsOf[p.link].email, DetailsOf[p.link].userRef} : <<t, f.search.what>> \in Like

\* The payments of a table that a filter means.
Found(f, table) == {i \in DOMAIN table : Matches(f, table[i])}

-----------------------------------------------------------------------------
(* Everybody else: the statements of the handlers and of the reconciler *)

PlaceOrder ==
  /\ lastId < MaxId
  /\ payments' = Insert(LinkOf[lastId + 1])
  /\ lastId' = lastId + 1

\* Between NumberOrder and PlaceOrder, or after a crash for ever, a row has no number.
NumberOrder(id) == payments[id].invId = NULL /\ payments' = SetInvId(id) /\ UNCHANGED lastId

Settle(inv) == payments' \in {MarkPaid(inv), CancelPending(inv)} /\ UNCHANGED lastId

Deliver(inv) ==
  /\ \E i \in RowsOf(inv) : Undelivered(payments[i])
  /\ payments' = MarkWebhookDelivered(inv)
  /\ UNCHANGED lastId

\* The clean-up also ends rows without a number.
CleanupExpired == payments' = CleanupExpiredPending /\ UNCHANGED lastId

TimePasses == payments' = AgedRows /\ UNCHANGED lastId

\* Rows that no longer match leave the list.
RowsLeave ==
  LET before == Found(request.filter, payments)
      after == Found(request.filter, payments')
  IN /\ unseen' = unseen \cap after
     /\ gone' = gone + Cardinality(before \ after)

OthersStep ==
  /\ \/ PlaceOrder
     \/ \E id \in 1..lastId : NumberOrder(id)
     \/ \E inv \in Ids : Settle(inv) \/ Deliver(inv)
     \/ CleanupExpired
     \/ TimePasses
  /\ UNCHANGED <<request, late>>
  /\ RowsLeave

AdminNext == Payments \/ Browse \/ OthersStep

AdminSpec == AdminInit /\ [][AdminNext]_vars

-----------------------------------------------------------------------------
(* Properties *)

\* Whatever the filter, page n holds the matching payments with (n-1) * PageSize to
\* n * PageSize - 1 newer ones, so that the pages share out the matching payments
\* (the placeholders of buildWhere, LIMIT, OFFSET and the number of pages).
PagesShareOutMatches ==
  \A f \in Filters :
    LET matching == {i \in DOMAIN payments : Matches(f, payments[i])}
        Newer(i) == {j \in matching : j > i}
    IN \A n \in 1..TotalPages(Cardinality(matching)) :
         Page(f, n) = {i \in matching : Cardinality(Newer(i)) \div PageSize = n - 1}

\* The list behind a tile: one status, or the undelivered, of the period shown.
TileFilter(from, status, undelivered) ==
  [status |-> status, productType |-> "", planId |-> "", from |-> from,
   webhookProblem |-> undelivered, search |-> NoSearch]

\* The tiles count what the lists behind them show for the same period: "Webhook not
\* delivered" (StatsFor) links to the list of webhook_problem (buildWhere).
TilesMatchLists ==
  \A from \in {f.from : f \in Filters} :
    LET tiles == StatsFor(from)
    IN /\ tiles.webhookPending = Cardinality(Selected(TileFilter(from, "", TRUE)))
       /\ \A st \in Status :
            tiles.count[st] = Cardinality(Selected(TileFilter(from, st, FALSE)))

\* ListFiltered pages by OFFSET while rows come and go.  An admin who follows the links
\* to the last page may miss payments that were in the list all along, but no more of
\* them than have left the list meanwhile, each of which moves what is behind it up by
\* one place, and than came between the last page's COUNT and its SELECT, so that the
\* links end too early.  Besides these only such rows are missing as a lost connection
\* has cut off a page (ListFiltered, TotalPages, the links of the list).
SkipsAccounted ==
  request.step = "shown" /\ request.page >= TotalPages(request.total)
    => Cardinality(unseen) <= gone + late
=============================================================================
