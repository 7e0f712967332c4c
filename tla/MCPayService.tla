---------------------------- MODULE MCPayService ----------------------------
(* Small instances of PayService for TLC. *)
EXTENDS PayService

CONSTANTS ann, h1, rec, admin

MCLinks == {"a1"}
MCKeyOf == [l \in MCLinks |-> "a"]
MCCallbackOf == [l \in MCLinks |-> "panel"]
MCNoCallback == "none"
MCLinksOf == [b \in {ann} |-> MCLinks]
=============================================================================
