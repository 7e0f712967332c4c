---------------------------- MODULE MCAdminLogin ----------------------------
(* Small instances of AdminLogin for TLC. *)
EXTENDS AdminLogin

CONSTANTS ann, left, right, office, port, none

\* Two tabs of one browser.  The proxy sends X-Real-IP; the right tab also reaches the
\* server past the proxy, where clientIP falls back on the address with its port.
MCTabs == {left, right}
MCBrowserOf == [t \in MCTabs |-> ann]
Proxied == [realIP |-> office, forwardedFor |-> office, remoteAddr |-> port]
Direct == [realIP |-> none, forwardedFor |-> none, remoteAddr |-> port]
MCRequestsOf == [t \in MCTabs |-> IF t = left THEN {Proxied} ELSE {Proxied, Direct}]
=============================================================================
