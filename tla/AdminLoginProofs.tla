-------------------------- MODULE AdminLoginProofs --------------------------
(***************************************************************************)
(* The safety properties of AdminLogin for any number of browsers, tabs    *)
(* and keys, whatever their requests' headers, for any threshold above     *)
(* one failure and any times.                                              *)
(*                                                                         *)
(* A locked key lets nobody in, and a key with Threshold failures is       *)
(* locked until its window is over; so the failures above the Threshold    *)
(* are those of the checks that were already under way, and the failures   *)
(* and these checks together stay below Threshold + Cardinality(Tabs).     *)
(***************************************************************************)
EXTENDS AdminLogin, FiniteSetTheorems, TLAPS

-----------------------------------------------------------------------------
(* The inductive invariant *)

\* The lock of a key with Threshold failures outlasts the window.
LockInv ==
  \A k \in Addresses :
    attempts[k].count >= Threshold /\ attempts[k].sinceFirst < Window
      => attempts[k].lockLeft >= Window - attempts[k].sinceFirst

CheckingInv ==
  \A k \in Addresses :
    attempts[k].count + Cardinality(Checking(k)) < Threshold + Cardinality(Tabs)

\* A check knows the key it was let in under.
KeyInv == \A t \in Tabs : tab[t].pc = "checking" => key[t] \in Addresses

\* Where a user can want to go: only with a form or a redirect that leads there.
Goals == Pages \cup {"retry"}

\* A path that is what the user went for, or the payments after another tab's login.
Aim(t, path) ==
  \/ path = tab[t].wanted /\ path \in Goals
  \/ path = "payments" /\ t \in overtaken

AtLogin(t) == tab[t].pc = "get" /\ tab[t].at = "login"

\* The login without a next, whose users want the payments.
PlainLogin(t) == AtLogin(t) /\ tab[t].next = "none" /\ tab[t].wanted = "payments"

\* A tab that still logs in although its browser has a session has been overtaken: for
\* it LoginPage would drop the next.
Returns(t) ==
  /\ tab[t].pc \in {"form", "checking"} => Aim(t, tab[t].next)
  /\ tab[t].pc = "get" =>
       Aim(t, tab[t].at) \/ PlainLogin(t) \/ (AtLogin(t) /\ Aim(t, tab[t].next))
  /\ Valid(BrowserOf[t]) /\ (tab[t].pc \in {"form", "checking"} \/ AtLogin(t)) =>
       PlainLogin(t) \/ t \in overtaken
  /\ tab[t].pc = "shown" =>
       \/ tab[t].at = IF tab[t].wanted = "retry" THEN "notFound" ELSE tab[t].wanted
       \/ tab[t].at = "payments" /\ t \in overtaken

ReturnInv == \A t \in Tabs : Returns(t)

LoginInv == LoginTypeOK /\ LockInv /\ CheckingInv /\ KeyInv /\ ReturnInv

-----------------------------------------------------------------------------
(* Sets of checks *)

\* How many checks can be under way.
LEMMA CheckingFinite ==
  ASSUME NEW k
  PROVE  /\ IsFiniteSet(Checking(k)) /\ IsFiniteSet(Checking(k)')
         /\ Cardinality(Checking(k)) \in Nat /\ Cardinality(Checking(k)') \in Nat
         /\ Cardinality(Tabs) \in Nat
         /\ Cardinality(Checking(k)) <= Cardinality(Tabs)
         /\ Cardinality(Checking(k)') <= Cardinality(Tabs)
<1>1. IsFiniteSet(Tabs)
  BY LoginAssumption
<1>2. Checking(k) \subseteq Tabs /\ Checking(k)' \subseteq Tabs
  BY DEF Checking
<1> QED
  BY <1>1, <1>2, FS_Subset, FS_CardinalityType

\* A check that ends, and nothing else of the tabs' requests.
LEMMA CheckEnds ==
  ASSUME NEW t \in Tabs, NEW k0 \in Addresses, key[t] = k0,
         tab[t].pc = "checking", tab'[t].pc # "checking",
         \A u \in Tabs \ {t} : tab'[u] = tab[u] /\ key'[u] = key[u]
  PROVE  /\ Cardinality(Checking(k0)') = Cardinality(Checking(k0)) - 1
         /\ \A k \in Addresses \ {k0} : Checking(k)' = Checking(k)
<1>1. Checking(k0)' = Checking(k0) \ {t} /\ t \in Checking(k0)
  BY DEF Checking
<1>2. \A k \in Addresses \ {k0} : Checking(k)' = Checking(k)
  BY DEF Checking
<1>3. IsFiniteSet(Checking(k0))
  BY CheckingFinite
<1>4. Cardinality(Checking(k0) \ {t}) = Cardinality(Checking(k0)) - 1
  BY <1>1, <1>3, FS_RemoveElement
<1> QED
  BY <1>1, <1>2, <1>4

-----------------------------------------------------------------------------
(* The limiter *)

\* Whatever the headers, clientIP gives one of the keys.
LEMMA KeysTypes ==
  ASSUME NEW t \in Tabs
  PROVE  KeysOf(t) \subseteq Addresses
<1>1. RequestsOf[t] \subseteq Request
  BY LoginAssumption
<1>2. \A request \in Request : ClientIP(request) \in Addresses
  BY LoginAssumption DEF Request, ClientIP
<1> QED
  BY <1>1, <1>2 DEF KeysOf

LEMMA EntryTypes ==
  ASSUME NEW k \in Addresses, attempts[k] \in Entry
  PROVE  /\ NoEntry \in Entry
         /\ Allowed(k) \in Entry
         /\ RegisterFailure(k) \in Entry
         /\ OlderEntry(attempts[k]) \in Entry
<1>1. Window \in Nat \ {0} /\ Threshold \in Nat \ {0, 1}
  BY LoginAssumption
<1>2. NoEntry \in Entry
  BY <1>1 DEF NoEntry, Entry
<1>3. Allowed(k) \in Entry
  BY <1>2 DEF Allowed
<1>4. RegisterFailure(k) \in Entry
  <2> DEFINE e == attempts[k]
             lock == IF e.count + 1 >= Threshold THEN Window ELSE e.lockLeft
  <2>1. [count |-> 1, sinceFirst |-> 0, lockLeft |-> 0] \in Entry
    BY <1>1 DEF Entry
  <2>2. e.count + 1 \in Nat /\ lock \in 0..Window
    BY <1>1 DEF Entry
  <2>3. [e EXCEPT !.count = e.count + 1, !.lockLeft = lock] \in Entry
    <3> HIDE DEF lock
    <3> QED
      BY <2>2 DEF Entry
  <2> QED
    BY <2>1, <2>3 DEF RegisterFailure
<1>5. OlderEntry(attempts[k]) \in Entry
  <2> DEFINE e == attempts[k]
             since == IF e.sinceFirst = Window THEN e.sinceFirst ELSE e.sinceFirst + 1
             left == IF e.lockLeft = 0 THEN 0 ELSE e.lockLeft - 1
  <2>1. since \in 0..Window /\ left \in 0..Window
    BY <1>1 DEF Entry
  <2>2. [e EXCEPT !.sinceFirst = since, !.lockLeft = left] \in Entry
    <3> HIDE DEF since, left
    <3> QED
      BY <2>1 DEF Entry
  <2> QED
    BY <2>2 DEF OlderEntry
<1> QED
  BY <1>2, <1>3, <1>4, <1>5

\* One more failure, of an entry that keeps its part of LockInv.
LEMMA RegisterFailureKeeps ==
  ASSUME NEW k \in Addresses, attempts[k] \in Entry
  PROVE  /\ RegisterFailure(k).count = 1 \/ RegisterFailure(k).count = attempts[k].count + 1
         /\ RegisterFailure(k).count >= Threshold => RegisterFailure(k).lockLeft = Window
         /\ RegisterFailure(k).sinceFirst \in 0..Window
  BY LoginAssumption DEF RegisterFailure, Entry

-----------------------------------------------------------------------------
(* Every step keeps the invariant *)

LEMMA InitLoginInv == LoginInit => LoginInv
<1> SUFFICES ASSUME LoginInit
             PROVE  LoginInv
  OBVIOUS
<1>1. Window \in Nat \ {0} /\ Threshold \in Nat \ {0, 1} /\ DefaultTTL \in Nat /\ RememberTTL \in Nat
  BY LoginAssumption
<1>2. LoginTypeOK
  <2>1. NoEntry \in Entry
    BY <1>1 DEF NoEntry, Entry
  <2>2. NoCookie \in NoCookie..LongestTTL
    BY <1>1 DEF NoCookie, LongestTTL
  <2>3. Getting("login", "none", "payments") \in Tab
    BY DEF Getting, Tab, NextPaths, Paths, Pages
  <2> QED
    BY <2>1, <2>2, <2>3 DEF LoginInit, LoginTypeOK
<1>3. LockInv
  BY <1>1 DEF LoginInit, LockInv, NoEntry
<1>4. CheckingInv
  <2>1. \A k \in Addresses : Checking(k) = {}
    BY DEF LoginInit, Checking, Getting
  <2>2. Cardinality({}) = 0 /\ Cardinality(Tabs) \in Nat
    BY FS_EmptySet, CheckingFinite
  <2> QED
    BY <1>1, <2>1, <2>2 DEF LoginInit, CheckingInv, NoEntry
<1>5. KeyInv
  BY DEF LoginInit, KeyInv, Getting
<1>6. ReturnInv
  BY DEF LoginInit, ReturnInv, Returns, PlainLogin, AtLogin, Getting
<1> QED
  BY <1>2, <1>3, <1>4, <1>5, <1>6 DEF LoginInv

LEMMA StepType ==
  ASSUME LoginInv, LoginNext
  PROVE  LoginTypeOK' /\ KeyInv'
<1> USE DEF LoginInv
<1>1. DefaultTTL \in Nat /\ RememberTTL \in Nat /\ BrowserOf \in [Tabs -> Browsers]
  BY LoginAssumption
<1>2. /\ attempts \in [Addresses -> Entry]
      /\ session \in [Browsers -> NoCookie..LongestTTL]
      /\ tab \in [Tabs -> Tab]
      /\ key \in [Tabs -> Addresses \cup {NoAddress}]
      /\ overtaken \subseteq Tabs
      /\ \A t \in Tabs : tab[t].pc = "checking" => key[t] \in Addresses
  BY DEF LoginTypeOK, KeyInv
<1>3. \A path \in Paths, next \in NextPaths, wanted \in Paths :
        Getting(path, next, wanted) \in Tab /\ Getting(path, next, wanted).pc = "get"
  BY DEF Getting, Tab
<1>4. /\ NoCookie \in NoCookie..LongestTTL
      /\ DefaultTTL \in NoCookie..LongestTTL
      /\ RememberTTL \in NoCookie..LongestTTL
  BY <1>1 DEF NoCookie, LongestTTL
<1>5. \A k \in Addresses : /\ NoEntry \in Entry
                           /\ Allowed(k) \in Entry
                           /\ RegisterFailure(k) \in Entry
                           /\ OlderEntry(attempts[k]) \in Entry
  BY <1>2, EntryTypes
\* A step of one tab that checks no password before or after it.
<1>6. ASSUME NEW t \in Tabs, NEW x \in Tab, x.pc # "checking",
             tab' = [tab EXCEPT ![t] = x], UNCHANGED <<attempts, key>>,
             session' \in [Browsers -> NoCookie..LongestTTL], overtaken' \subseteq Tabs
      PROVE  LoginTypeOK' /\ KeyInv'
  BY <1>2, <1>6 DEF LoginTypeOK, KeyInv
<1>7. ASSUME NEW t \in Tabs, NEW path \in Pages \cup {"login"}, Open(t, path)
      PROVE  LoginTypeOK' /\ KeyInv'
  <2> DEFINE x == Getting(path, "none", IF path = "login" THEN "payments" ELSE path)
  <2>1. x \in Tab /\ x.pc = "get"
    BY <1>3 DEF Paths, NextPaths, Pages
  <2>2. tab' = [tab EXCEPT ![t] = x] /\ UNCHANGED <<attempts, key, session>> /\ overtaken' \subseteq Tabs
    BY <1>2, <1>7 DEF Open
  <2> HIDE DEF x
  <2> QED
    BY <1>2, <1>6, <2>1, <2>2
<1>8. ASSUME NEW t \in Tabs, Reload(t)
      PROVE  LoginTypeOK' /\ KeyInv'
  <2> DEFINE x == Getting("login", tab[t].next, tab[t].wanted)
  <2>1. x \in Tab /\ x.pc = "get"
    BY <1>2, <1>3 DEF Tab, Paths, Pages
  <2>2. tab' = [tab EXCEPT ![t] = x] /\ UNCHANGED <<attempts, key, session, overtaken>>
    BY <1>8 DEF Reload
  <2> HIDE DEF x
  <2> QED
    BY <1>2, <1>6, <2>1, <2>2
<1>9. ASSUME NEW t \in Tabs, GetPage(t)
      PROVE  LoginTypeOK' /\ KeyInv'
  <2>1. PICK x : x \in {[tab[t] EXCEPT !.pc = "shown"], Getting("login", tab[t].at, tab[t].wanted)}
                 /\ tab' = [tab EXCEPT ![t] = x]
    BY <1>9 DEF GetPage, RedirectToLogin
  <2>2. x \in Tab /\ x.pc # "checking"
    <3>1. [tab[t] EXCEPT !.pc = "shown"] \in Tab /\ [tab[t] EXCEPT !.pc = "shown"].pc = "shown"
      BY <1>2 DEF Tab
    <3>2. tab[t].at \in NextPaths /\ tab[t].wanted \in Paths
      BY <1>2, <1>9 DEF GetPage, Tab, Paths, NextPaths, Pages
    <3>3. /\ Getting("login", tab[t].at, tab[t].wanted) \in Tab
          /\ Getting("login", tab[t].at, tab[t].wanted).pc = "get"
      BY <1>3, <3>2 DEF Paths
    <3> QED
      BY <2>1, <3>1, <3>3
  <2> QED
    BY <1>2, <1>6, <1>9, <2>1, <2>2 DEF GetPage
<1>10. ASSUME NEW t \in Tabs, GetRetry(t)
       PROVE  LoginTypeOK' /\ KeyInv'
  <2> DEFINE x == [tab[t] EXCEPT !.pc = "shown", !.at = "notFound"]
  <2>1. x \in Tab /\ x.pc = "shown"
    BY <1>2 DEF Tab
  <2>2. tab' = [tab EXCEPT ![t] = x] /\ UNCHANGED <<attempts, key, session, overtaken>>
    BY <1>10 DEF GetRetry
  <2> HIDE DEF x
  <2> QED
    BY <1>2, <1>6, <2>1, <2>2
<1>11. ASSUME NEW t \in Tabs, LoginPage(t)
       PROVE  LoginTypeOK' /\ KeyInv'
  <2>1. PICK x : x \in {Getting("payments", "none", tab[t].wanted),
                        [tab[t] EXCEPT !.pc = "form", !.next = SanitizeNext(tab[t].next)]}
                 /\ tab' = [tab EXCEPT ![t] = x]
    BY <1>11 DEF LoginPage
  <2>2. x \in Tab /\ x.pc # "checking"
    <3>1. Getting("payments", "none", tab[t].wanted) \in Tab
          /\ Getting("payments", "none", tab[t].wanted).pc = "get"
      BY <1>2, <1>3 DEF Tab, Paths, NextPaths, Pages
    <3>2. SanitizeNext(tab[t].next) \in NextPaths
      BY <1>2 DEF Tab, SanitizeNext, Paths, NextPaths, Pages
    <3>3. /\ [tab[t] EXCEPT !.pc = "form", !.next = SanitizeNext(tab[t].next)] \in Tab
          /\ [tab[t] EXCEPT !.pc = "form", !.next = SanitizeNext(tab[t].next)].pc = "form"
      BY <1>2, <3>2 DEF Tab
    <3> QED
      BY <2>1, <3>1, <3>3
  <2> QED
    BY <1>2, <1>6, <1>11, <2>1, <2>2 DEF LoginPage
<1>12. ASSUME NEW t \in Tabs, PostRetry(t)
       PROVE  LoginTypeOK' /\ KeyInv'
  <2>1. PICK x : x \in {Getting("detail", "none", "detail"), Getting("login", "retry", "retry")}
                 /\ tab' = [tab EXCEPT ![t] = x]
    BY <1>12 DEF PostRetry, RedirectToLogin
  <2>2. x \in Tab /\ x.pc # "checking"
    BY <1>3, <2>1 DEF Paths, NextPaths, Pages
  <2>3. overtaken' \subseteq Tabs
    BY <1>2, <1>12 DEF PostRetry
  <2> QED
    BY <1>2, <1>6, <1>12, <2>1, <2>2, <2>3 DEF PostRetry
<1>13. ASSUME NEW t \in Tabs, Logout(t)
       PROVE  LoginTypeOK' /\ KeyInv'
  <2> DEFINE x == Getting("login", "none", "payments")
  <2>1. x \in Tab /\ x.pc = "get"
    BY <1>3 DEF Paths, NextPaths, Pages
  <2>2. /\ tab' = [tab EXCEPT ![t] = x] /\ UNCHANGED <<attempts, key>> /\ overtaken' \subseteq Tabs
        /\ session' \in [Browsers -> NoCookie..LongestTTL]
    BY <1>2, <1>4, <1>13 DEF Logout, Clear
  <2> HIDE DEF x
  <2> QED
    BY <1>6, <2>1, <2>2
<1>14. ASSUME NEW t \in Tabs, NEW k \in KeysOf(t), LoginDenied(t, k)
       PROVE  LoginTypeOK' /\ KeyInv'
  BY <1>2, <1>14 DEF LoginDenied, LoginTypeOK, KeyInv, vars, tabVars
<1>15. ASSUME NEW t \in Tabs, NEW k \in KeysOf(t), LoginAllowed(t, k)
       PROVE  LoginTypeOK' /\ KeyInv'
  <2>1. k \in Addresses
    BY KeysTypes
  <2>2. [tab[t] EXCEPT !.pc = "checking"] \in Tab
    BY <1>2 DEF Tab
  <2> QED
    BY <1>2, <1>5, <1>15, <2>1, <2>2 DEF LoginAllowed, LoginTypeOK, KeyInv
\* A check that ends.
<1>16. ASSUME NEW t \in Tabs, LoginFails(t) \/ LoginSucceeds(t)
       PROVE  LoginTypeOK' /\ KeyInv'
  <2>1. key[t] \in Addresses /\ tab[t].pc = "checking"
    BY <1>2, <1>16 DEF LoginFails, LoginSucceeds
  <2>2. attempts' \in [Addresses -> Entry]
    BY <1>2, <1>5, <1>16, <2>1 DEF LoginFails, LoginSucceeds
  <2>3. session' \in [Browsers -> NoCookie..LongestTTL]
    BY <1>1, <1>2, <1>4, <1>16 DEF LoginFails, LoginSucceeds, Issue
  <2>4. PICK x : x \in {[tab[t] EXCEPT !.pc = "form"], Getting(tab[t].next, "none", tab[t].wanted)}
                 /\ tab' = [tab EXCEPT ![t] = x]
    BY <1>16 DEF LoginFails, LoginSucceeds
  <2>5. x \in Tab /\ x.pc # "checking"
    <3>1. [tab[t] EXCEPT !.pc = "form"] \in Tab /\ [tab[t] EXCEPT !.pc = "form"].pc = "form"
      BY <1>2 DEF Tab
    <3>2. tab[t].next \in Paths /\ tab[t].wanted \in Paths
      BY <1>2, <2>1 DEF ReturnInv, Returns, Aim, Goals, Paths, Pages, Tab
    <3>3. /\ Getting(tab[t].next, "none", tab[t].wanted) \in Tab
          /\ Getting(tab[t].next, "none", tab[t].wanted).pc = "get"
      BY <1>3, <3>2 DEF NextPaths
    <3> QED
      BY <2>4, <3>1, <3>3
  <2>6. key' = [key EXCEPT ![t] = NoAddress]
    BY <1>16 DEF LoginFails, LoginSucceeds
  <2>7. overtaken' \subseteq Tabs
    BY <1>2, <1>16 DEF LoginFails, LoginSucceeds, LoggingInBeside
  <2> QED
    BY <1>2, <2>2, <2>3, <2>4, <2>5, <2>6, <2>7 DEF LoginTypeOK, KeyInv
<1>17. ASSUME TimePasses
       PROVE  LoginTypeOK' /\ KeyInv'
  <2>1. attempts' \in [Addresses -> Entry]
    BY <1>5, <1>17 DEF TimePasses
  <2>2. session' \in [Browsers -> NoCookie..LongestTTL]
    <3>1. \A b \in Browsers : session[b] > 0 => session[b] - 1 \in NoCookie..LongestTTL
      BY <1>1, <1>2 DEF NoCookie, LongestTTL
    <3>2. Expired \in NoCookie..LongestTTL
      BY <1>1 DEF NoCookie, LongestTTL, Expired
    <3> QED
      BY <1>4, <1>17, <3>1, <3>2 DEF TimePasses
  <2> QED
    BY <1>2, <1>17, <2>1, <2>2 DEF TimePasses, LoginTypeOK, KeyInv, tabVars
<1>18. ASSUME Restart
       PROVE  LoginTypeOK' /\ KeyInv'
  <2>1. \A t \in Tabs : [tab[t] EXCEPT !.pc = "form"] \in Tab /\ [tab[t] EXCEPT !.pc = "form"].pc = "form"
    BY <1>2 DEF Tab
  <2>2. tab' \in [Tabs -> Tab] /\ \A t \in Tabs : tab'[t].pc # "checking"
    BY <1>2, <1>18, <2>1 DEF Restart
  <2> QED
    BY <1>2, <1>5, <1>18, <2>2 DEF Restart, LoginTypeOK, KeyInv
<1> QED
  BY <1>7, <1>8, <1>9, <1>10, <1>11, <1>12, <1>13, <1>14, <1>15, <1>16, <1>17, <1>18
  DEF LoginNext, Follow, LoginSubmit

LEMMA StepLimiter ==
  ASSUME LoginInv, LoginNext
  PROVE  LockInv' /\ CheckingInv'
<1> USE DEF LoginInv
<1>1. Window \in Nat \ {0} /\ Threshold \in Nat \ {0, 1}
  BY LoginAssumption
<1>2. /\ attempts \in [Addresses -> Entry] /\ tab \in [Tabs -> Tab]
      /\ key \in [Tabs -> Addresses \cup {NoAddress}]
      /\ \A t \in Tabs : tab[t].pc = "checking" => key[t] \in Addresses
  BY DEF LoginTypeOK, KeyInv
<1>3. \A k \in Addresses : /\ attempts[k].count \in Nat
                           /\ attempts[k].sinceFirst \in 0..Window
                           /\ attempts[k].lockLeft \in 0..Window
  BY <1>2 DEF Entry
<1>4. NoEntry.count = 0 /\ NoEntry.sinceFirst = 0 /\ NoEntry.lockLeft = 0
  BY DEF NoEntry
<1>5. \A k \in Addresses : Cardinality(Checking(k)) \in Nat /\ Cardinality(Checking(k)') \in Nat
                           /\ Cardinality(Tabs) \in Nat
                           /\ Cardinality(Checking(k)') <= Cardinality(Tabs)
  BY CheckingFinite
\* Neither the limiter nor the checks change.
<1>6. ASSUME UNCHANGED <<attempts, key>>,
             \A t \in Tabs : tab'[t].pc = "checking" <=> tab[t].pc = "checking"
      PROVE  LockInv' /\ CheckingInv'
  <2>1. \A k \in Addresses : Checking(k)' = Checking(k)
    BY <1>6 DEF Checking
  <2> QED
    BY <1>6, <2>1 DEF LockInv, CheckingInv
<1>7. ASSUME NEW t \in Tabs, NEW k0 \in KeysOf(t), LoginAllowed(t, k0)
      PROVE  LockInv' /\ CheckingInv'
  <2>1. k0 \in Addresses
    BY KeysTypes
  <2>2. /\ attempts'[k0] = Allowed(k0)
        /\ \A k \in Addresses \ {k0} : attempts'[k] = attempts[k]
    BY <1>2, <1>7, <2>1 DEF LoginAllowed
  <2>3. \A k \in Addresses \ {k0} : Checking(k)' = Checking(k)
    <3>1. /\ tab[t].pc # "checking" /\ key'[t] = k0
          /\ \A u \in Tabs \ {t} : tab'[u] = tab[u] /\ key'[u] = key[u]
      BY <1>2, <1>7 DEF LoginAllowed
    <3> QED
      BY <3>1 DEF Checking
  \* A key that is let in has not reached the Threshold.
  <2>4. Allowed(k0).count < Threshold
    BY <1>1, <1>3, <1>4, <1>7, <2>1 DEF LoginAllowed, Locked, WindowOver, Allowed, LockInv
  <2>5. Allowed(k0).count \in Nat
    BY <1>3, <1>4, <2>1 DEF Allowed
  <2>6. LockInv'
    BY <1>1, <2>1, <2>2, <2>4, <2>5 DEF LockInv
  <2>7. CheckingInv'
    <3>1. Cardinality(Checking(k0)') <= Cardinality(Tabs) /\ Cardinality(Checking(k0)') \in Nat
          /\ Cardinality(Tabs) \in Nat
      BY <1>5, <2>1
    <3>2. attempts'[k0].count + Cardinality(Checking(k0)') < Threshold + Cardinality(Tabs)
      BY <1>1, <2>2, <2>4, <2>5, <3>1
    <3>3. \A k \in Addresses \ {k0} :
            attempts'[k].count + Cardinality(Checking(k)') < Threshold + Cardinality(Tabs)
      BY <2>2, <2>3 DEF CheckingInv
    <3> QED
      BY <3>2, <3>3 DEF CheckingInv
  <2> QED
    BY <2>6, <2>7
\* A check that ends, with a failure or with success.
<1>8. ASSUME NEW t \in Tabs, LoginFails(t) \/ LoginSucceeds(t)
      PROVE  LockInv' /\ CheckingInv'
  <2>1. PICK k0 \in Addresses : k0 = key[t] /\ attempts[k0] \in Entry
    BY <1>2, <1>8 DEF LoginFails, LoginSucceeds
  <2>2. attempts'[k0] = RegisterFailure(k0) \/ attempts'[k0] = NoEntry
    BY <1>2, <1>8, <2>1 DEF LoginFails, LoginSucceeds
  <2>3. \A k \in Addresses \ {k0} : attempts'[k] = attempts[k]
    BY <1>2, <1>8, <2>1 DEF LoginFails, LoginSucceeds
  <2>4. /\ tab[t].pc = "checking"
        /\ tab'[t].pc # "checking"
        /\ \A u \in Tabs \ {t} : tab'[u] = tab[u] /\ key'[u] = key[u]
    BY <1>2, <1>8 DEF LoginFails, LoginSucceeds, Getting, Tab
  <2>5. /\ Cardinality(Checking(k0)') = Cardinality(Checking(k0)) - 1
        /\ \A k \in Addresses \ {k0} : Checking(k)' = Checking(k)
    BY <2>1, <2>4, CheckEnds
  <2>6. /\ attempts'[k0].count \in Nat
        /\ attempts'[k0].count <= 1 \/ attempts'[k0].count = attempts[k0].count + 1
        /\ attempts'[k0].count >= Threshold => attempts'[k0].lockLeft = Window
        /\ attempts'[k0].sinceFirst \in 0..Window
    <3>1. CASE attempts'[k0] = NoEntry
      BY <1>1, <1>4, <3>1
    <3>2. CASE attempts'[k0] = RegisterFailure(k0)
      BY <1>3, <2>1, <3>2, RegisterFailureKeeps
    <3> QED
      BY <2>2, <3>1, <3>2
  <2>7. LockInv'
    <3>1. attempts'[k0].count >= Threshold /\ attempts'[k0].sinceFirst < Window
            => attempts'[k0].lockLeft >= Window - attempts'[k0].sinceFirst
      BY <1>1, <2>6
    <3> QED
      BY <2>3, <3>1 DEF LockInv
  <2>8. CheckingInv'
    <3>1. attempts[k0].count + Cardinality(Checking(k0)) < Threshold + Cardinality(Tabs)
      BY <2>1 DEF CheckingInv
    <3>2. attempts'[k0].count + Cardinality(Checking(k0)') < Threshold + Cardinality(Tabs)
      BY <1>1, <1>3, <1>5, <2>1, <2>5, <2>6, <3>1
    <3>3. \A k \in Addresses \ {k0} :
            attempts'[k].count + Cardinality(Checking(k)') < Threshold + Cardinality(Tabs)
      BY <2>3, <2>5 DEF CheckingInv
    <3> QED
      BY <3>2, <3>3 DEF CheckingInv
  <2> QED
    BY <2>7, <2>8
<1>9. ASSUME TimePasses
      PROVE  LockInv' /\ CheckingInv'
  <2>1. \A k \in Addresses : attempts'[k] = OlderEntry(attempts[k]) /\ Checking(k)' = Checking(k)
    BY <1>9 DEF TimePasses, Checking, tabVars
  <2>2. \A k \in Addresses :
          /\ OlderEntry(attempts[k]).count = attempts[k].count
          /\ \/ OlderEntry(attempts[k]) = NoEntry
             \/ /\ OlderEntry(attempts[k]).sinceFirst = IF attempts[k].sinceFirst = Window
                     THEN Window ELSE attempts[k].sinceFirst + 1
                /\ OlderEntry(attempts[k]).lockLeft = IF attempts[k].lockLeft = 0
                     THEN 0 ELSE attempts[k].lockLeft - 1
    BY <1>2 DEF OlderEntry, Entry
  <2>3. LockInv'
    <3> SUFFICES ASSUME NEW k \in Addresses,
                        attempts'[k].count >= Threshold, attempts'[k].sinceFirst < Window
                 PROVE  attempts'[k].lockLeft >= Window - attempts'[k].sinceFirst
      BY DEF LockInv
    <3>1. attempts'[k].count = attempts[k].count /\ attempts'[k] # NoEntry
      BY <1>1, <1>4, <2>1, <2>2
    <3>2. /\ attempts[k].sinceFirst < Window
          /\ attempts'[k].sinceFirst = attempts[k].sinceFirst + 1
          /\ attempts'[k].lockLeft = IF attempts[k].lockLeft = 0 THEN 0 ELSE attempts[k].lockLeft - 1
      BY <1>1, <1>3, <2>1, <2>2, <3>1
    <3>3. attempts[k].lockLeft >= Window - attempts[k].sinceFirst
      BY <3>1, <3>2 DEF LockInv
    <3> QED
      BY <1>1, <1>3, <3>2, <3>3
  <2>4. CheckingInv'
    BY <2>1, <2>2 DEF CheckingInv
  <2> QED
    BY <2>3, <2>4
<1>10. ASSUME Restart
       PROVE  LockInv' /\ CheckingInv'
  <2>1. \A k \in Addresses : attempts'[k] = NoEntry
    BY <1>10 DEF Restart
  <2>2. \A k \in Addresses : attempts'[k].count = 0
    BY <1>4, <2>1
  <2>3. LockInv'
    BY <1>1, <2>2 DEF LockInv
  <2>4. \A k \in Addresses : 0 + Cardinality(Checking(k)') < Threshold + Cardinality(Tabs)
    BY <1>1, <1>5
  <2>5. CheckingInv'
    BY <2>2, <2>4 DEF CheckingInv
  <2> QED
    BY <2>3, <2>5
\* The other requests leave the limiter alone and start or end no check.
<1>11. ASSUME NEW t \in Tabs, NEW x, tab[t].pc # "checking", x.pc # "checking",
              tab' = [tab EXCEPT ![t] = x], UNCHANGED <<attempts, key>>
       PROVE  LockInv' /\ CheckingInv'
  BY <1>2, <1>6, <1>11
<1>12. \A path, next, wanted : Getting(path, next, wanted).pc = "get"
  BY DEF Getting
<1>13. ASSUME NEW t \in Tabs, (\E path \in Pages \cup {"login"} : Open(t, path)) \/ Reload(t)
       PROVE  LockInv' /\ CheckingInv'
  <2>1. PICK path, next, wanted : tab' = [tab EXCEPT ![t] = Getting(path, next, wanted)]
    BY <1>13 DEF Open, Reload
  <2> QED
    BY <1>11, <1>12, <1>13, <2>1 DEF Open, Reload
<1>14. ASSUME NEW t \in Tabs, PostRetry(t) \/ Logout(t)
       PROVE  LockInv' /\ CheckingInv'
  <2>1. PICK path, next, wanted : tab' = [tab EXCEPT ![t] = Getting(path, next, wanted)]
    BY <1>14 DEF PostRetry, RedirectToLogin, Logout
  <2> QED
    BY <1>11, <1>12, <1>14, <2>1 DEF PostRetry, Logout
<1>15. ASSUME NEW t \in Tabs, Follow(t)
       PROVE  LockInv' /\ CheckingInv'
  <2> DEFINE shown == [tab[t] EXCEPT !.pc = "shown"]
             notFound == [tab[t] EXCEPT !.pc = "shown", !.at = "notFound"]
             form == [tab[t] EXCEPT !.pc = "form", !.next = SanitizeNext(tab[t].next)]
  <2>1. shown.pc = "shown" /\ notFound.pc = "shown" /\ form.pc = "form"
    BY <1>2 DEF Tab
  <2>2. /\ tab[t].pc = "get" /\ UNCHANGED <<attempts, key>>
        /\ \/ \E x \in {shown, notFound, form} : tab' = [tab EXCEPT ![t] = x]
           \/ \E path, next, wanted : tab' = [tab EXCEPT ![t] = Getting(path, next, wanted)]
    BY <1>15 DEF Follow, GetPage, RedirectToLogin, GetRetry, LoginPage
  <2> HIDE DEF shown, notFound, form
  <2> QED
    BY <1>11, <1>12, <2>1, <2>2
<1>16. ASSUME NEW t \in Tabs, NEW k \in KeysOf(t), LoginDenied(t, k)
       PROVE  LockInv' /\ CheckingInv'
  BY <1>6, <1>16 DEF LoginDenied, vars, tabVars
<1> QED
  BY <1>7, <1>8, <1>9, <1>10, <1>13, <1>14, <1>15, <1>16 DEF LoginNext, LoginSubmit

LEMMA StepReturn ==
  ASSUME LoginInv, LoginNext
  PROVE  ReturnInv'
<1> USE DEF LoginInv
<1>1. /\ session \in [Browsers -> NoCookie..LongestTTL]
      /\ tab \in [Tabs -> Tab]
      /\ BrowserOf \in [Tabs -> Browsers]
      /\ overtaken \subseteq Tabs
  BY LoginAssumption DEF LoginTypeOK
<1>2. \A t \in Tabs : Returns(t)
  BY DEF ReturnInv
\* A step of one tab: no other one has a session that it did not have, unless the tab
\* is not logging in or counts as overtaken.
<1>3. ASSUME NEW t \in Tabs, Returns(t)',
             \A u \in Tabs \ {t} :
               /\ tab'[u] = tab[u]
               /\ u \in overtaken => u \in overtaken'
               /\ \/ Valid(BrowserOf[u])' => Valid(BrowserOf[u])
                  \/ ~(tab[u].pc \in {"form", "checking"} \/ AtLogin(u))
                  \/ u \in overtaken'
      PROVE  ReturnInv'
  <2>1. ASSUME NEW u \in Tabs \ {t} PROVE Returns(u)'
    BY <1>2, <1>3, <2>1 DEF Returns, Aim, AtLogin, PlainLogin
  <2> QED
    BY <1>3, <2>1 DEF ReturnInv
\* A step of one tab that leaves the cookies alone.
<1>4. ASSUME NEW t \in Tabs, NEW x, tab' = [tab EXCEPT ![t] = x], Returns(t)',
             UNCHANGED session, overtaken' \in {overtaken, overtaken \ {t}}
      PROVE  ReturnInv'
  BY <1>1, <1>3, <1>4 DEF Valid
<1>5. \A path, next, wanted :
        /\ Getting(path, next, wanted).pc = "get"
        /\ Getting(path, next, wanted).at = path
        /\ Getting(path, next, wanted).next = next
        /\ Getting(path, next, wanted).wanted = wanted
  BY DEF Getting
<1>6. ASSUME NEW t \in Tabs, NEW path \in Pages \cup {"login"}, Open(t, path)
      PROVE  ReturnInv'
  <2> DEFINE x == Getting(path, "none", IF path = "login" THEN "payments" ELSE path)
  <2>1. tab' = [tab EXCEPT ![t] = x] /\ tab'[t] = x
    BY <1>1, <1>6 DEF Open
  <2>2. Returns(t)'
    BY <1>5, <2>1 DEF Returns, Aim, AtLogin, PlainLogin, Goals, Pages
  <2> HIDE DEF x
  <2> QED
    BY <1>4, <1>6, <2>1, <2>2 DEF Open
<1>7. ASSUME NEW t \in Tabs, Reload(t)
      PROVE  ReturnInv'
  <2> DEFINE x == Getting("login", tab[t].next, tab[t].wanted)
  <2>1. tab' = [tab EXCEPT ![t] = x] /\ tab'[t] = x /\ tab[t].pc = "form"
        /\ UNCHANGED <<session, overtaken>>
    BY <1>1, <1>7 DEF Reload
  <2>2. Aim(t, tab[t].next) /\ (Valid(BrowserOf[t]) => t \in overtaken)
    BY <1>2, <2>1 DEF Returns, AtLogin, PlainLogin
  <2>3. Returns(t)'
    BY <1>5, <2>1, <2>2 DEF Returns, Aim, AtLogin, Valid
  <2> HIDE DEF x
  <2> QED
    BY <1>4, <2>1, <2>3
<1>8. ASSUME NEW t \in Tabs, GetPage(t)
      PROVE  ReturnInv'
  <2>1. /\ tab[t].pc = "get" /\ tab[t].at \in Pages /\ UNCHANGED <<session, overtaken>>
        /\ tab' = [tab EXCEPT ![t] = tab'[t]]
    BY <1>1, <1>8 DEF GetPage
  <2>2. Aim(t, tab[t].at)
    BY <1>2, <2>1 DEF Returns, AtLogin, PlainLogin, Pages
  <2>3. Returns(t)'
    <3>1. CASE Valid(BrowserOf[t])
      <4>1. tab'[t] = [tab[t] EXCEPT !.pc = "shown"]
        BY <1>1, <1>8, <3>1 DEF GetPage
      <4>2. tab'[t].pc = "shown" /\ tab'[t].at = tab[t].at /\ tab'[t].wanted = tab[t].wanted
        BY <1>1, <4>1 DEF Tab
      <4> QED
        BY <2>1, <2>2, <4>2 DEF Returns, Aim, AtLogin, Pages
    <3>2. CASE ~Valid(BrowserOf[t])
      <4>1. tab'[t] = Getting("login", tab[t].at, tab[t].wanted)
        BY <1>1, <1>8, <3>2 DEF GetPage, RedirectToLogin
      <4> QED
        BY <1>5, <2>1, <2>2, <3>2, <4>1 DEF Returns, Aim, AtLogin, Valid
    <3> QED
      BY <3>1, <3>2
  <2> QED
    BY <1>4, <2>1, <2>3
<1>9. ASSUME NEW t \in Tabs, GetRetry(t)
      PROVE  ReturnInv'
  <2> DEFINE x == [tab[t] EXCEPT !.pc = "shown", !.at = "notFound"]
  <2>1. /\ tab' = [tab EXCEPT ![t] = x] /\ UNCHANGED <<session, overtaken>>
        /\ tab'[t].pc = "shown" /\ tab'[t].at = "notFound" /\ tab'[t].wanted = tab[t].wanted
    BY <1>1, <1>9 DEF GetRetry, Tab
  <2>2. tab[t].wanted = "retry"
    BY <1>2, <1>9 DEF GetRetry, Returns, Aim, AtLogin, PlainLogin
  <2>3. Returns(t)'
    BY <2>1, <2>2 DEF Returns, AtLogin
  <2> HIDE DEF x
  <2> QED
    BY <1>4, <2>1, <2>3
<1>10. ASSUME NEW t \in Tabs, LoginPage(t)
       PROVE  ReturnInv'
  <2>1. /\ AtLogin(t) /\ UNCHANGED <<session, overtaken>>
        /\ tab' = [tab EXCEPT ![t] = tab'[t]]
    BY <1>1, <1>10 DEF LoginPage, AtLogin
  <2>2. PlainLogin(t) \/ Aim(t, tab[t].next)
    BY <1>2, <2>1 DEF Returns, Aim, AtLogin, Goals, Pages
  <2>3. Returns(t)'
    <3>1. CASE Valid(BrowserOf[t])
      <4>1. tab'[t] = Getting("payments", "none", tab[t].wanted)
        BY <1>1, <1>10, <3>1 DEF LoginPage
      <4>2. tab[t].wanted = "payments" \/ t \in overtaken
        BY <1>2, <2>1, <3>1 DEF Returns, PlainLogin
      <4> QED
        BY <1>5, <2>1, <4>1, <4>2 DEF Returns, Aim, AtLogin, Goals, Pages
    <3>2. CASE ~Valid(BrowserOf[t])
      <4>1. tab'[t] = [tab[t] EXCEPT !.pc = "form", !.next = SanitizeNext(tab[t].next)]
        BY <1>1, <1>10, <3>2 DEF LoginPage
      <4>2. /\ tab'[t].pc = "form" /\ tab'[t].next = SanitizeNext(tab[t].next)
            /\ tab'[t].wanted = tab[t].wanted
        BY <1>1, <4>1 DEF Tab
      <4>3. Aim(t, SanitizeNext(tab[t].next))
        BY <2>2 DEF Aim, PlainLogin, SanitizeNext, Goals, Pages
      <4> QED
        BY <2>1, <3>2, <4>2, <4>3 DEF Returns, Aim, AtLogin, Valid
    <3> QED
      BY <3>1, <3>2
  <2> QED
    BY <1>4, <2>1, <2>3
<1>11. ASSUME NEW t \in Tabs, PostRetry(t)
       PROVE  ReturnInv'
  <2>1. /\ UNCHANGED session /\ overtaken' = overtaken \ {t}
        /\ tab' = [tab EXCEPT ![t] = tab'[t]]
    BY <1>1, <1>11 DEF PostRetry
  <2>2. Returns(t)'
    <3>1. CASE Valid(BrowserOf[t])
      <4>1. tab'[t] = Getting("detail", "none", "detail")
        BY <1>1, <1>11, <3>1 DEF PostRetry
      <4> QED
        BY <1>5, <4>1 DEF Returns, Aim, AtLogin, Goals, Pages
    <3>2. CASE ~Valid(BrowserOf[t])
      <4>1. tab'[t] = Getting("login", "retry", "retry")
        BY <1>1, <1>11, <3>2 DEF PostRetry, RedirectToLogin
      <4> QED
        BY <1>5, <2>1, <3>2, <4>1 DEF Returns, Aim, AtLogin, Goals, Valid
    <3> QED
      BY <3>1, <3>2
  <2> QED
    BY <1>4, <2>1, <2>2
<1>12. ASSUME NEW t \in Tabs, Logout(t)
       PROVE  ReturnInv'
  <2>1. /\ tab'[t] = Getting("login", "none", "payments")
        /\ overtaken' = overtaken \ {t}
        /\ \A u \in Tabs \ {t} : tab'[u] = tab[u]
        /\ session' = [session EXCEPT ![BrowserOf[t]] = NoCookie]
    BY <1>1, <1>12 DEF Logout, Clear
  <2>2. Returns(t)'
    BY <1>5, <2>1 DEF Returns, AtLogin, PlainLogin
  <2>3. \A u \in Tabs : Valid(BrowserOf[u])' => Valid(BrowserOf[u])
    BY <1>1, <2>1 DEF Valid, NoCookie
  <2> QED
    BY <1>3, <2>1, <2>2, <2>3
<1>13. ASSUME NEW t \in Tabs, (\E k \in KeysOf(t) : LoginAllowed(t, k)) \/ LoginFails(t)
       PROVE  ReturnInv'
  <2>1. /\ tab[t].pc \in {"form", "checking"} /\ UNCHANGED <<session, overtaken>>
        /\ tab' = [tab EXCEPT ![t] = tab'[t]]
        /\ \/ tab'[t] = [tab[t] EXCEPT !.pc = "checking"]
           \/ tab'[t] = [tab[t] EXCEPT !.pc = "form"]
    BY <1>1, <1>13 DEF LoginAllowed, LoginFails
  <2>2. /\ tab'[t].pc \in {"form", "checking"}
        /\ tab'[t].next = tab[t].next /\ tab'[t].wanted = tab[t].wanted
    BY <1>1, <2>1 DEF Tab
  <2>3. Returns(t)'
    BY <1>2, <2>1, <2>2 DEF Returns, Aim, AtLogin, PlainLogin, Valid
  <2> QED
    BY <1>4, <2>1, <2>3
<1>14. ASSUME NEW t \in Tabs, LoginSucceeds(t)
       PROVE  ReturnInv'
  <2>1. /\ tab'[t] = Getting(tab[t].next, "none", tab[t].wanted)
        /\ tab[t].pc = "checking"
        /\ overtaken' = overtaken \cup LoggingInBeside(t)
        /\ \A u \in Tabs \ {t} : tab'[u] = tab[u]
        /\ \A b \in Browsers \ {BrowserOf[t]} : session'[b] = session[b]
    BY <1>1, <1>14 DEF LoginSucceeds, Issue
  <2>2. Aim(t, tab[t].next)
    BY <1>2, <2>1 DEF Returns
  <2>3. Returns(t)'
    BY <1>5, <2>1, <2>2 DEF Returns, Aim, AtLogin, Goals, Pages
  <2>4. ASSUME NEW u \in Tabs \ {t}
        PROVE  \/ Valid(BrowserOf[u])' => Valid(BrowserOf[u])
               \/ ~(tab[u].pc \in {"form", "checking"} \/ AtLogin(u))
               \/ u \in overtaken'
    <3>1. CASE BrowserOf[u] = BrowserOf[t]
      BY <2>1, <3>1 DEF LoggingInBeside, AtLogin
    <3>2. CASE BrowserOf[u] # BrowserOf[t]
      BY <1>1, <2>1, <3>2 DEF Valid
    <3> QED
      BY <3>1, <3>2
  <2> QED
    BY <1>3, <2>1, <2>3, <2>4
<1>15. ASSUME NEW t \in Tabs, NEW k \in KeysOf(t), LoginDenied(t, k)
       PROVE  ReturnInv'
  BY <1>2, <1>15 DEF LoginDenied, vars, tabVars, ReturnInv, Returns, Aim, AtLogin, PlainLogin, Valid
<1>16. ASSUME TimePasses
       PROVE  ReturnInv'
  \* No token becomes valid.
  <2>1. \A t \in Tabs : Valid(BrowserOf[t])' => Valid(BrowserOf[t])
    BY <1>1, <1>16 DEF TimePasses, Valid, NoCookie, Expired
  <2>2. tab' = tab /\ overtaken' = overtaken
    BY <1>16 DEF TimePasses, tabVars
  <2> QED
    BY <1>2, <2>1, <2>2 DEF ReturnInv, Returns, Aim, AtLogin, PlainLogin
<1>17. ASSUME Restart
       PROVE  ReturnInv'
  <2>1. \A t \in Tabs : Valid(BrowserOf[t])' = Valid(BrowserOf[t])
    BY <1>17 DEF Restart, Valid
  <2>2. overtaken' = overtaken
    BY <1>17 DEF Restart
  <2>3. \A t \in Tabs : \/ tab'[t] = tab[t]
                        \/ tab[t].pc = "checking" /\ tab'[t] = [tab[t] EXCEPT !.pc = "form"]
    BY <1>17 DEF Restart
  <2>4. ASSUME NEW t \in Tabs
        PROVE  Returns(t)'
    <3>1. CASE tab'[t] = tab[t]
      BY <1>2, <2>1, <2>2, <3>1 DEF Returns, Aim, AtLogin, PlainLogin
    <3>2. CASE tab[t].pc = "checking" /\ tab'[t] = [tab[t] EXCEPT !.pc = "form"]
      <4>1. /\ tab'[t].pc = "form" /\ tab'[t].next = tab[t].next
            /\ tab'[t].wanted = tab[t].wanted
        BY <1>1, <3>2 DEF Tab
      <4> QED
        BY <1>2, <2>1, <2>2, <3>2, <4>1 DEF Returns, Aim, AtLogin, PlainLogin
    <3> QED
      BY <2>3, <3>1, <3>2
  <2> QED
    BY <2>4 DEF ReturnInv
<1> QED
  BY <1>6, <1>7, <1>8, <1>9, <1>10, <1>11, <1>12, <1>13, <1>14, <1>15, <1>16, <1>17
  DEF LoginNext, LoginSubmit, Follow

LEMMA StepLoginInv == LoginInv /\ [LoginNext]_vars => LoginInv'
<1>1. ASSUME LoginInv, LoginNext
      PROVE  LoginInv'
  <2>1. LoginTypeOK' /\ KeyInv'
    BY <1>1, StepType
  <2>2. LockInv' /\ CheckingInv'
    BY <1>1, StepLimiter
  <2>3. ReturnInv'
    BY <1>1, StepReturn
  <2> QED
    BY <2>1, <2>2, <2>3 DEF LoginInv
<1>2. ASSUME LoginInv, UNCHANGED vars
      PROVE  LoginInv'
  BY <1>2 DEF LoginInv, LoginTypeOK, LockInv, CheckingInv, KeyInv, Checking, ReturnInv, Returns,
              Aim, AtLogin, PlainLogin, Valid, vars, tabVars
<1> QED
  BY <1>1, <1>2

-----------------------------------------------------------------------------
(* How a lock ends *)

LEMMA LockStep ==
  ASSUME LoginInv, LoginNext, NEW k \in Addresses, Locked(k)
  PROVE  \/ attempts'[k].lockLeft >= attempts[k].lockLeft
         \/ attempts'[k] = OlderEntry(attempts[k])
         \/ attempts'[k] = NoEntry
         \/ WindowOver(k) /\ Checking(k) # {} /\ attempts'[k].count = 1
<1> DEFINE Goal == \/ attempts'[k].lockLeft >= attempts[k].lockLeft
                   \/ attempts'[k] = OlderEntry(attempts[k])
                   \/ attempts'[k] = NoEntry
                   \/ WindowOver(k) /\ Checking(k) # {} /\ attempts'[k].count = 1
<1>1. /\ attempts \in [Addresses -> Entry]
      /\ attempts[k].lockLeft \in 1..Window
      /\ attempts[k] # NoEntry
      /\ Window \in Nat
  BY LoginAssumption DEF LoginInv, LoginTypeOK, Entry, Locked, NoEntry
<1>2. ASSUME attempts'[k] = attempts[k]
      PROVE  Goal
  BY <1>1, <1>2
\* A key that is locked lets nobody in.
<1>3. ASSUME NEW t \in Tabs, NEW k0 \in KeysOf(t), LoginAllowed(t, k0)
      PROVE  Goal
  BY <1>1, <1>2, <1>3 DEF LoginAllowed
<1>4. ASSUME NEW t \in Tabs, LoginFails(t)
      PROVE  Goal
  <2>1. CASE key[t] # k
    BY <1>1, <1>2, <1>4, <2>1 DEF LoginFails
  <2>2. CASE key[t] = k
    <3>1. t \in Checking(k) /\ attempts'[k] = RegisterFailure(k)
      BY <1>1, <1>4, <2>2 DEF LoginFails, Checking
    <3>2. CASE WindowOver(k)
      BY <3>1, <3>2 DEF RegisterFailure
    <3>3. CASE ~WindowOver(k)
      <4>1. attempts'[k].lockLeft \in {Window, attempts[k].lockLeft}
        BY <1>1, <3>1, <3>3 DEF RegisterFailure, Entry
      <4> QED
        BY <1>1, <4>1
    <3> QED
      BY <3>2, <3>3
  <2> QED
    BY <2>1, <2>2
<1>5. ASSUME NEW t \in Tabs, LoginSucceeds(t)
      PROVE  Goal
  BY <1>1, <1>2, <1>5 DEF LoginSucceeds
<1>6. ASSUME TimePasses
      PROVE  Goal
  BY <1>6 DEF TimePasses
<1>7. ASSUME Restart
      PROVE  Goal
  BY <1>7 DEF Restart
<1>8. CASE UNCHANGED attempts
  BY <1>2, <1>8
<1> QED
  BY <1>3, <1>4, <1>5, <1>6, <1>7, <1>8
  DEF LoginNext, LoginSubmit, Follow, Open, Reload, GetPage, GetRetry, LoginPage, PostRetry,
      Logout, LoginDenied, vars

-----------------------------------------------------------------------------
(* Theorems *)

\* The limiter, the sessions and the tabs' forms and redirects keep the invariant the
\* others follow from (auth/ratelimit.go, handlers/auth.go).
THEOREM LoginInvHolds == LoginSpec => []LoginInv
  BY InitLoginInv, StepLoginInv, PTL DEF LoginSpec

\* Counters, locks, cookies and redirects stay in their types, however many
\* checks of one key run at once (Allowed, RegisterFailure, Issue).
THEOREM LoginTypeCorrect == LoginSpec => []LoginTypeOK
<1>1. LoginInv => LoginTypeOK
  BY DEF LoginInv
<1> QED
  BY <1>1, LoginInvHolds, PTL

\* However many requests check a password at once, a key fails fewer than
\* Threshold + Cardinality(Tabs) times in a window (Allowed, RegisterFailure).
THEOREM FailureBound == LoginSpec => []FailuresPerWindow
<1>1. LoginInv => FailuresPerWindow
  <2> SUFFICES ASSUME LoginInv, NEW k \in Addresses
               PROVE  attempts[k].count < Threshold + Cardinality(Tabs)
    BY DEF FailuresPerWindow
  <2>1. attempts[k].count \in Nat /\ Threshold \in Nat
    BY LoginAssumption DEF LoginInv, LoginTypeOK, Entry
  <2>2. attempts[k].count + Cardinality(Checking(k)) < Threshold + Cardinality(Tabs)
    BY DEF LoginInv, CheckingInv
  <2> QED
    BY <2>1, <2>2, CheckingFinite
<1> QED
  BY <1>1, LoginInvHolds, PTL

\* A key that has failed Threshold times is locked until the window of its first
\* failure is over (RegisterFailure).
THEOREM LockLasts == LoginSpec => []LockedWhileOverThreshold
<1>1. LoginInv => LockedWhileOverThreshold
  <2> SUFFICES ASSUME LoginInv, NEW k \in Addresses,
                      attempts[k].count >= Threshold, attempts[k].sinceFirst < Window
               PROVE  attempts[k].lockLeft > 0
    BY DEF LockedWhileOverThreshold, Locked
  <2>1. attempts[k].sinceFirst \in Nat /\ attempts[k].lockLeft \in Nat /\ Window \in Nat
    BY LoginAssumption DEF LoginInv, LoginTypeOK, Entry
  <2>2. attempts[k].lockLeft >= Window - attempts[k].sinceFirst
    BY DEF LoginInv, LockInv
  <2> QED
    BY <2>1, <2>2
<1> QED
  BY <1>1, LoginInvHolds, PTL

\* A lock ends before its time by a successful login, by a restart, and by a failed
\* check that outlasted the window of the first failure, and in no other way
\* (RegisterFailure, Reset, Allowed).
THEOREM LocksEndEarly == LoginSpec => LocksLast
<1> DEFINE Step == \A k \in Addresses : Locked(k) =>
                     \/ attempts'[k].lockLeft >= attempts[k].lockLeft
                     \/ attempts'[k] = OlderEntry(attempts[k])
                     \/ attempts'[k] = NoEntry
                     \/ WindowOver(k) /\ Checking(k) # {} /\ attempts'[k].count = 1
<1>1. LoginInv /\ [LoginNext]_vars => [Step]_vars
  BY LockStep
<1> QED
  BY <1>1, LoginInvHolds, PTL DEF LoginSpec, LocksLast

\* A tab that shows a page shows the one its user went for, but for a RetryWebhook
\* posted without a session, and for the payments shown to a tab whose login another
\* tab of the browser has overtaken (redirectToLogin, sanitizeNext, LoginPage,
\* LoginSubmit).
THEOREM UsersReturn == LoginSpec => []LoginReturns
<1>1. LoginInv => LoginReturns
  BY DEF LoginInv, ReturnInv, Returns, LoginReturns
<1> QED
  BY <1>1, LoginInvHolds, PTL
=============================================================================
