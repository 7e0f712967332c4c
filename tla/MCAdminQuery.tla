---------------------------- MODULE MCAdminQuery ----------------------------
(* A small instance of AdminQuery for TLC. *)
EXTENDS AdminQuery

MCLinks == {"vpn", "tv"}
MCLinkOf == [i \in 1..3 |-> IF i = 1 THEN "vpn" ELSE "tv"]
MCKeyOf == [l \in MCLinks |-> l]
MCCallbackOf == [l \in MCLinks |-> IF l = "vpn" THEN "panel" ELSE "none"]
MCNoCallback == "none"

MCDetailsOf == [l \in MCLinks |->
  [productType |-> l, planId |-> "basic", userRef |-> IF l = "vpn" THEN "ann" ELSE "7",
   email |-> IF l = "vpn" THEN "bob@x" ELSE "ann@x"]]

\* "an" is a part of vpn's user_ref and of tv's email, "b" of vpn's email.
MCLike == {<<"ann", "an">>, <<"ann@x", "an">>, <<"bob@x", "b">>}

MCNoFilter == [status |-> "", productType |-> "", planId |-> "", from |-> -1,
               webhookProblem |-> FALSE, search |-> NoSearch]

MCFilters ==
  {[MCNoFilter EXCEPT !.status = "paid", !.planId = "basic"],
   [MCNoFilter EXCEPT !.productType = "vpn", !.webhookProblem = TRUE, !.from = 0,
                      !.search = [kind |-> "number", what |-> 1]],
   [MCNoFilter EXCEPT !.status = "pending", !.from = 0,
                      !.search = [kind |-> "text", what |-> "an"]]}
=============================================================================
