----------------------------- MODULE AdminLogin -----------------------------
(***************************************************************************)
(* The way into the admin pages: the login form and its rate limit         *)
(* (handlers/auth.go, auth/ratelimit.go), the session cookie               *)
(* (auth/session.go) and RequireSession (middleware/session.go), with the  *)
(* redirects a browser follows between them.  The tabs of a browser share  *)
(* its cookie: what one of them does decides what the others are shown.    *)
(*                                                                         *)
(* LoginLimiter is locked for each of its calls, but not from Allowed to   *)
(* RegisterFailure or Reset: the password is checked in between, while     *)
(* other requests from the same address and the clock go on.  Signatures   *)
(* and passwords are not modelled: a token is known by the time it has     *)
(* left, and a check succeeds or fails.                                    *)
(*                                                                         *)
(* An age of n units means that more than n units have passed: of two      *)
(* events the later one reads a later time from the nanosecond clock.      *)
(***************************************************************************)
EXTENDS Integers, FiniteSets

CONSTANTS
  Browsers,      \* each with one cookie
  Tabs,
  BrowserOf,     \* [Tabs -> Browsers]
  Addresses,     \* the keys of the limiter
  NoAddress,     \* a header that is not there, and the key of a tab without a check
  RequestsOf,    \* [Tabs -> SUBSET Request]: with what a tab's requests may arrive
  Threshold,     \* 10 failures
  Window,        \* 15 minutes
  DefaultTTL,    \* 12 hours
  RememberTTL    \* 30 days

\* What clientIP looks at: forwardedFor is the header's first entry, and remoteAddr
\* has the port, another one for every connection.
Request == [realIP : Addresses \cup {NoAddress}, forwardedFor : Addresses \cup {NoAddress},
            remoteAddr : Addresses]

ASSUME LoginAssumption ==
  /\ IsFiniteSet(Tabs)
  /\ BrowserOf \in [Tabs -> Browsers]
  /\ NoAddress \notin Addresses
  /\ RequestsOf \in [Tabs -> SUBSET Request]
  /\ Threshold \in Nat \ {0, 1}
  /\ Window \in Nat \ {0}
  /\ DefaultTTL \in Nat
  /\ RememberTTL \in Nat

VARIABLES
  attempts,      \* [Addresses -> the entry of the limiter or NoEntry]
  session,       \* [Browsers -> time left of the token in the cookie]
  tab,           \* [Tabs -> what the tab is doing]
  key,           \* [Tabs -> the limiter's key of the password being checked]
  overtaken      \* history: the tabs during whose login another tab of the
                 \* browser has logged in

tabVars == <<tab, key, overtaken>>
vars == <<attempts, session, tabVars>>

\* count; sinceFirst: the age of firstFailAt; lockLeft: the time to lockedUntil.
NoEntry == [count |-> 0, sinceFirst |-> 0, lockLeft |-> 0]
Entry == [count : Nat, sinceFirst : 0..Window, lockLeft : 0..Window]

\* A token is expired when now is after exp, and may then still be sent.
NoCookie == -2
Expired == -1
LongestTTL == IF DefaultTTL > RememberTTL THEN DefaultTTL ELSE RememberTTL

Pages == {"payments", "detail"}

\* "retry" is the path of RetryWebhook, served for POST only; "none" is no next.
Paths == Pages \cup {"retry", "login"}
NextPaths == Paths \cup {"none"}

\* pc: a GET of "at" is under way; "at" is shown; the login form is shown; its
\* password is being checked.  next: the parameter or hidden field of that name.
\* wanted: what the user went for.
Tab == [pc : {"get", "shown", "form", "checking"}, at : Paths \cup {"notFound"},
        next : NextPaths, wanted : Paths]

LoginTypeOK ==
  /\ attempts \in [Addresses -> Entry]
  /\ session \in [Browsers -> NoCookie..LongestTTL]
  /\ tab \in [Tabs -> Tab]
  /\ key \in [Tabs -> Addresses \cup {NoAddress}]
  /\ overtaken \subseteq Tabs

Getting(path, next, wanted) == [pc |-> "get", at |-> path, next |-> next, wanted |-> wanted]

\* redirectToLogin: the path of the request is the parameter next of the login.
RedirectToLogin(path, wanted) == Getting("login", path, wanted)

LoginInit ==
  /\ attempts = [k \in Addresses |-> NoEntry]
  /\ session = [b \in Browsers |-> NoCookie]
  /\ tab = [t \in Tabs |-> Getting("login", "none", "payments")]
  /\ key = [t \in Tabs |-> NoAddress]
  /\ overtaken = {}

\* Verify, of a token this program has signed.
Valid(b) == session[b] >= 0

Issue(b, ttl) == session' = [session EXCEPT ![b] = IF ttl <= 0 THEN DefaultTTL ELSE ttl]

Clear(b) == session' = [session EXCEPT ![b] = NoCookie]

\* clientIP.
ClientIP(request) ==
  IF request.realIP # NoAddress THEN request.realIP
  ELSE IF request.forwardedFor # NoAddress THEN request.forwardedFor
  ELSE request.remoteAddr

KeysOf(t) == {ClientIP(request) : request \in RequestsOf[t]}

-----------------------------------------------------------------------------
(* LoginLimiter *)

Locked(k) == attempts[k].lockLeft > 0

\* now.Sub(firstFailAt) > Window.
WindowOver(k) == attempts[k].sinceFirst = Window

\* Allowed, of a key that is not locked: an entry whose window is over is deleted.
Allowed(k) == IF WindowOver(k) THEN NoEntry ELSE attempts[k]

\* Mutant of RegisterFailure: only the failure that reaches the threshold locks, every
\* other one writes an entry without a lock.
RegisterFailureUnlocks(k) ==
  IF attempts[k] = NoEntry \/ WindowOver(k)
    THEN [count |-> 1, sinceFirst |-> 0, lockLeft |-> 0]
    ELSE [attempts[k] EXCEPT !.count = @ + 1,
                             !.lockLeft = IF attempts[k].count + 1 = Threshold THEN Window ELSE 0]

\* Mutant of RegisterFailure: > instead of >=.
RegisterFailureLate(k) ==
  IF attempts[k] = NoEntry \/ WindowOver(k)
    THEN [count |-> 1, sinceFirst |-> 0, lockLeft |-> 0]
    ELSE [attempts[k] EXCEPT !.count = @ + 1,
                             !.lockLeft = IF attempts[k].count + 1 > Threshold THEN Window ELSE @]

\* The entry after one more failure.
RegisterFailure(k) ==
  IF attempts[k] = NoEntry \/ WindowOver(k)
    THEN [count |-> 1, sinceFirst |-> 0, lockLeft |-> 0]
    ELSE [attempts[k] EXCEPT !.count = @ + 1,
                             !.lockLeft = IF attempts[k].count + 1 >= Threshold THEN Window ELSE @]

-----------------------------------------------------------------------------
(* The tabs *)

\* The user enters an address or follows a link.
Open(t, path) ==
  /\ tab[t].pc \in {"shown", "form"}
  /\ path \in Pages \cup {"login"}
  /\ tab' = [tab EXCEPT ![t] =
       Getting(path, "none", IF path = "login" THEN "payments" ELSE path)]
  /\ overtaken' = overtaken \ {t}
  /\ UNCHANGED <<attempts, session, key>>

\* The user loads the page of the form once more, after a failed attempt by going
\* back to it.  Without a next this is the next that sanitizeNext has put in.
Reload(t) ==
  /\ tab[t].pc = "form"
  /\ tab' = [tab EXCEPT ![t] = Getting("login", tab[t].next, tab[t].wanted)]
  /\ UNCHANGED <<attempts, session, key, overtaken>>

\* RequireSession around a page: the page, or the login with the page as next.
GetPage(t) ==
  /\ tab[t].pc = "get"
  /\ tab[t].at \in Pages
  /\ tab' = [tab EXCEPT ![t] =
       IF Valid(BrowserOf[t]) THEN [tab[t] EXCEPT !.pc = "shown"]
                              ELSE RedirectToLogin(tab[t].at, tab[t].wanted)]
  /\ UNCHANGED <<attempts, session, key, overtaken>>

\* No handler has this path for GET; the file server answers 404.
GetRetry(t) ==
  /\ tab[t].pc = "get"
  /\ tab[t].at = "retry"
  /\ tab' = [tab EXCEPT ![t] = [tab[t] EXCEPT !.pc = "shown", !.at = "notFound"]]
  /\ UNCHANGED <<attempts, session, key, overtaken>>

\* The button of the detail page posts to RetryWebhook, which redirects back;
\* without a session RequireSession redirects this POST to the login too.
PostRetry(t) ==
  /\ tab[t].pc = "shown"
  /\ tab[t].at = "detail"
  /\ tab' = [tab EXCEPT ![t] =
       IF Valid(BrowserOf[t]) THEN Getting("detail", "none", "detail")
                              ELSE RedirectToLogin("retry", "retry")]
  /\ overtaken' = overtaken \ {t}
  /\ UNCHANGED <<attempts, session, key>>

\* Mutant of SanitizeNext: an empty next is kept.
SanitizeNextEmpty(next) == IF next = "login" THEN "payments" ELSE next

\* sanitizeNext: only paths below /admin/, and never the login itself.
SanitizeNext(next) == IF next \in {"none", "login"} THEN "payments" ELSE next

\* Mutant of LoginPage: a cookie that is there counts as a session.
LoginPageAnyCookie(t) ==
  /\ tab[t].pc = "get"
  /\ tab[t].at = "login"
  /\ tab' = [tab EXCEPT ![t] =
       IF session[BrowserOf[t]] # NoCookie THEN Getting("payments", "none", tab[t].wanted)
         ELSE [tab[t] EXCEPT !.pc = "form", !.next = SanitizeNext(tab[t].next)]]
  /\ UNCHANGED <<attempts, session, key, overtaken>>

\* LoginPage: whoever has a session goes on to the payments, whatever next is.
LoginPage(t) ==
  /\ tab[t].pc = "get"
  /\ tab[t].at = "login"
  /\ tab' = [tab EXCEPT ![t] =
       IF Valid(BrowserOf[t]) THEN Getting("payments", "none", tab[t].wanted)
         ELSE [tab[t] EXCEPT !.pc = "form", !.next = SanitizeNext(tab[t].next)]]
  /\ UNCHANGED <<attempts, session, key, overtaken>>

\* Logout: the cookie is deleted, for all tabs of the browser.
Logout(t) ==
  /\ tab[t].pc = "shown"
  /\ tab[t].at \in Pages
  /\ Clear(BrowserOf[t])
  /\ tab' = [tab EXCEPT ![t] = Getting("login", "none", "payments")]
  /\ overtaken' = overtaken \ {t}
  /\ UNCHANGED <<attempts, key>>

-----------------------------------------------------------------------------
(* LoginSubmit *)

\* Mutant of LoginDenied: an attempt while locked starts the lock again.
LoginDeniedExtends(t, k) ==
  /\ tab[t].pc = "form"
  /\ Locked(k)
  /\ attempts' = [attempts EXCEPT ![k].lockLeft = Window]
  /\ UNCHANGED <<session, tabVars>>

\* 429 and the form again.
LoginDenied(t, k) ==
  /\ tab[t].pc = "form"
  /\ Locked(k)
  /\ UNCHANGED vars

\* Mutant of LoginAllowed: the handler goes on after its 429.
LoginAlwaysAllowed(t, k) ==
  /\ tab[t].pc = "form"
  /\ attempts' = [attempts EXCEPT ![k] = Allowed(k)]
  /\ tab' = [tab EXCEPT ![t] = [tab[t] EXCEPT !.pc = "checking"]]
  /\ key' = [key EXCEPT ![t] = k]
  /\ UNCHANGED <<session, overtaken>>

\* The limiter lets the request through to the password.
LoginAllowed(t, k) ==
  /\ tab[t].pc = "form"
  /\ ~Locked(k)
  /\ attempts' = [attempts EXCEPT ![k] = Allowed(k)]
  /\ tab' = [tab EXCEPT ![t] = [tab[t] EXCEPT !.pc = "checking"]]
  /\ key' = [key EXCEPT ![t] = k]
  /\ UNCHANGED <<session, overtaken>>

\* Mutant of LoginFails: the form comes back without its next.
LoginFailsForgets(t) ==
  /\ tab[t].pc = "checking"
  /\ attempts' = [attempts EXCEPT ![key[t]] = RegisterFailure(key[t])]
  /\ tab' = [tab EXCEPT ![t] = [tab[t] EXCEPT !.pc = "form", !.next = "payments"]]
  /\ key' = [key EXCEPT ![t] = NoAddress]
  /\ UNCHANGED <<session, overtaken>>

\* Wrong name or password: 401 and the form again.
LoginFails(t) ==
  /\ tab[t].pc = "checking"
  /\ attempts' = [attempts EXCEPT ![key[t]] = RegisterFailure(key[t])]
  /\ tab' = [tab EXCEPT ![t] = [tab[t] EXCEPT !.pc = "form"]]
  /\ key' = [key EXCEPT ![t] = NoAddress]
  /\ UNCHANGED <<session, overtaken>>

\* The other tabs of the browser that show the form, submit it or are on their way to it.
LoggingInBeside(t) ==
  {u \in Tabs \ {t} : /\ BrowserOf[u] = BrowserOf[t]
                      /\ \/ tab[u].pc \in {"form", "checking"}
                         \/ tab[u].pc = "get" /\ tab[u].at = "login"}

\* Reset, Issue for one of the two TTLs, and on to next.
LoginSucceeds(t) ==
  /\ tab[t].pc = "checking"
  /\ attempts' = [attempts EXCEPT ![key[t]] = NoEntry]
  /\ \E ttl \in {DefaultTTL, RememberTTL} : Issue(BrowserOf[t], ttl)
  /\ tab' = [tab EXCEPT ![t] = Getting(tab[t].next, "none", tab[t].wanted)]
  /\ key' = [key EXCEPT ![t] = NoAddress]
  /\ overtaken' = overtaken \cup LoggingInBeside(t)

-----------------------------------------------------------------------------
(* Time and the death of the process *)

OlderEntry(e) ==
  IF e = NoEntry THEN e
    ELSE [e EXCEPT !.sinceFirst = IF @ = Window THEN @ ELSE @ + 1,
                   !.lockLeft = IF @ = 0 THEN 0 ELSE @ - 1]

\* The browser drops the cookie when its token expires, by its own clock.
TimePasses ==
  /\ attempts' = [k \in Addresses |-> OlderEntry(attempts[k])]
  /\ \E dropped \in SUBSET Browsers :
       session' = [b \in Browsers |->
         IF session[b] > 0 THEN session[b] - 1
           ELSE IF session[b] = NoCookie \/ b \in dropped THEN NoCookie ELSE Expired]
  /\ UNCHANGED tabVars

\* The limiter is in memory, the sessions are not kept at all; the request of a
\* password being checked is lost, and the tab still has its form.
Restart ==
  /\ attempts' = [k \in Addresses |-> NoEntry]
  /\ tab' = [t \in Tabs |-> IF tab[t].pc = "checking" THEN [tab[t] EXCEPT !.pc = "form"]
                                                      ELSE tab[t]]
  /\ key' = [t \in Tabs |-> NoAddress]
  /\ UNCHANGED <<session, overtaken>>

\* The browser follows a redirect or loads what it was told to.
Follow(t) == GetPage(t) \/ GetRetry(t) \/ LoginPage(t)

LoginSubmit(t) ==
  \/ \E k \in KeysOf(t) : LoginDenied(t, k) \/ LoginAllowed(t, k)
  \/ LoginFails(t)
  \/ LoginSucceeds(t)

LoginNext ==
  \/ \E t \in Tabs :
       \/ \E path \in Pages \cup {"login"} : Open(t, path)
       \/ Reload(t)
       \/ Follow(t)
       \/ PostRetry(t)
       \/ Logout(t)
       \/ LoginSubmit(t)
  \/ TimePasses
  \/ Restart

LoginSpec == LoginInit /\ [][LoginNext]_vars

\* Browsers follow redirects, and time passes; nobody has to log in or to give up.
LoginFairness ==
  /\ \A t \in Tabs : WF_vars(Follow(t))
  /\ WF_vars(TimePasses)

FairLoginSpec == LoginSpec /\ LoginFairness

-----------------------------------------------------------------------------
(* Safety *)

\* The tabs whose passwords are being checked under a key.
Checking(k) == {t \in Tabs : tab[t].pc = "checking" /\ key[t] = k}

\* Although the password is checked outside the lock, a key fails within a window at
\* most Threshold times and once more for each request that was already past Allowed
\* when the Threshold was reached (Allowed, RegisterFailure).  A client is held to
\* this as far as its requests arrive with one key (clientIP).
FailuresPerWindow ==
  \A k \in Addresses : attempts[k].count < Threshold + Cardinality(Tabs)

\* A key with Threshold failures is locked at least until the window of the first of
\* them is over, whatever checks end meanwhile (RegisterFailure).
LockedWhileOverThreshold ==
  \A k \in Addresses :
    attempts[k].count >= Threshold /\ attempts[k].sinceFirst < Window => Locked(k)

\* A lock runs down with the clock and ends early in three ways only: by a login that
\* succeeds, by a restart, and by a failed check that was let in before the lock and
\* ends when the first failure's window is over, though the lock is not; the comment
\* of LoginLimiter knows only of a lock for Window (RegisterFailure, Reset).
LocksLast ==
  [][\A k \in Addresses : Locked(k) =>
       \/ attempts'[k].lockLeft >= attempts[k].lockLeft
       \/ attempts'[k] = OlderEntry(attempts[k])
       \/ attempts'[k] = NoEntry
       \/ WindowOver(k) /\ Checking(k) # {} /\ attempts'[k].count = 1]_vars

\* Redirects, failed attempts, locks and expired sessions lead back to what the user
\* went for, with two exceptions.  A RetryWebhook posted after the session has expired
\* ends at a path that only serves POST; and when another tab has logged in meanwhile,
\* LoginPage drops next and shows the payments (redirectToLogin, sanitizeNext,
\* LoginPage, LoginSubmit).
LoginReturns ==
  \A t \in Tabs : tab[t].pc = "shown" =>
    \/ tab[t].at = IF tab[t].wanted = "retry" THEN "notFound" ELSE tab[t].wanted
    \/ tab[t].at = "payments" /\ t \in overtaken

-----------------------------------------------------------------------------
(* Liveness *)

\* No key is locked for ever: an attempt while locked does not count, and only the
\* checks under way can make the lock longer (LoginSubmit, Allowed).
LockEnds == \A k \in Addresses : Locked(k) ~> ~Locked(k)

\* RequireSession and LoginPage agree on what a session is: unless other tabs log in
\* and out for ever, no tab is sent back and forth between them (redirectToLogin,
\* LoginPage).
RedirectsEnd ==
  \A t \in Tabs :
    <>[]Valid(BrowserOf[t]) \/ <>[]~Valid(BrowserOf[t])
      => (tab[t].pc = "get" ~> tab[t].pc \in {"shown", "form"})
=============================================================================
