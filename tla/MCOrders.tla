------------------------------ MODULE MCOrders ------------------------------
(* Small instances of Orders for TLC. *)
EXTENDS Orders, TLC

CONSTANTS ann, bob      \* browsers
CONSTANTS h1, h2        \* Checkout requests

\* Two links of one panel user for the same plan and price but with different
\* callbacks, and one of another user.
MCLinks == {"a1", "a2", "b1"}
MCKeyOf == [l \in MCLinks |-> IF l = "b1" THEN "b" ELSE "a"]
MCCallbackOf == [l \in MCLinks |-> IF l = "a2" THEN "none" ELSE "panel"]
MCNoCallback == "none"

MCBothLinksOf == [b \in {ann, bob} |-> IF b = ann THEN {"a1", "a2"} ELSE {"b1"}]
MCLinkEachOf == [b \in {ann, bob} |-> IF b = ann THEN {"a1"} ELSE {"b1"}]
MCOneLinkOf == [b \in {ann} |-> {"a1"}]
MCTwoLinksOf == [b \in {ann} |-> {"a1", "a2"}]

HandlerSymmetry == Permutations({h1, h2})
=============================================================================
