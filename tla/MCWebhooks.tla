----------------------------- MODULE MCWebhooks -----------------------------
(* Small instances of Webhooks for TLC. *)
EXTENDS Webhooks, TLC

CONSTANTS rec, admin

MCLinks == {"one"}
MCKeyOf == [l \in MCLinks |-> l]
MCCallbackOf == [l \in MCLinks |-> l]
MCNoCallback == "none"
=============================================================================
