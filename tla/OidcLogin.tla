----------------------------- MODULE OidcLogin -----------------------------
(***************************************************************************)
(* Sign-in through Slack: the routes of internal/auth (HandleLogin,        *)
(* HandleCallback, HandleLogout) and the browsers, whose tabs share one     *)
(* pre-auth cookie and one session cookie.  That the verifier is published, *)
(* after any number of failed pings of Slack's keys, is one step.          *)
(*                                                                         *)
(* A request is answered when the handler returns; the Set-Cookie headers  *)
(* of the answer take effect when it reaches the browser, which is a later *)
(* step.  The server keeps nothing about a sign-in but the session's row.  *)
(***************************************************************************)
EXTENDS Naturals

CONSTANTS
  Browser,
  Attempt,  \* sign-ins begun; each stands for its fresh state and nonce
  Request,  \* requests to /auth/callback, and the IDs of the sessions they make
  Account,  \* Slack accounts
  Member,   \* the accounts whose ID token names SLACK_TEAM_ID
  Place,    \* values of return_to
  Valid,    \* the places Validate accepts; see ReturnTo
  Landing,  \* DEFAULT_LANDING_URL, which nothing validates
  MaxRestarts,
  None

ASSUME MemberAssumption == Member \subseteq Account
ASSUME RestartsAssumption == MaxRestarts \in Nat
ASSUME PlaceAssumption == Valid \subseteq Place /\ Landing \notin Place

VARIABLES
  login,     \* per attempt, its browser, return_to, and how far it is
  spent,     \* Slack: the attempts whose authorization code was exchanged
  preAuth,   \* per browser, the attempt in its __Host-forge_pre_auth cookie
  cookie,    \* per browser, the ID in its forge_session cookie
  callback,  \* per request, what it carries and how far HandleCallback is
  sessions,  \* per ID, the state of its row
  signOut,   \* the browsers that wait for the answer to a sign-out
  verifier,  \* OIDC.verifier: whether it is published
  restarts

loginVars == <<login, spent, preAuth, callback>>
vars == <<loginVars, cookie, sessions, signOut, verifier, restarts>>

Login ==
  [browser : Browser, asked : Place, returnTo : Place \cup {Landing},
   at : {"answer", "slack", "consented", "denied"}, account : Account \cup {None}]
Callback ==
  [browser : Browser, attempt : Attempt, pre : Attempt \cup {None},
   at : {"exchange", "verify", "create", "answer", "over"},
   result : {"none", "auth_failed", "not_in_workspace", "in"}, to : Place \cup {Landing}]

ASSUME NoneAssumption == None \notin Attempt \cup Request \cup Account \cup Login \cup Callback

TypeOK ==
  /\ login \in [Attempt -> Login \cup {None}]
  /\ spent \in SUBSET Attempt
  /\ preAuth \in [Browser -> Attempt \cup {None}]
  /\ cookie \in [Browser -> Request \cup {None}]
  /\ callback \in [Request -> Callback \cup {None}]
  /\ sessions \in [Request -> {"none", "fresh", "renewed", "gone"}]
  /\ signOut \in SUBSET Browser
  /\ verifier \in BOOLEAN
  /\ restarts \in 0..MaxRestarts

Init ==
  /\ login = [a \in Attempt |-> None]
  /\ spent = {}
  /\ preAuth = [b \in Browser |-> None]
  /\ cookie = [b \in Browser |-> None]
  /\ callback = [r \in Request |-> None]
  /\ sessions = [r \in Request |-> "none"]
  /\ signOut = {}
  /\ verifier = FALSE
  /\ restarts = 0

-----------------------------------------------------------------------------
(* /auth/login, and what Slack does with it.                               *)

\* resolveReturnTo.
Resolve(p) == IF p \in Valid THEN p ELSE Landing

\* The login request and its answer; the answer sets the pre-auth cookie,
\* whichever attempt it held, and sends the browser to Slack.
HandleLogin(b, a, p) ==
  /\ login[a] = None
  /\ login' = [login EXCEPT ![a] =
       [browser |-> b, asked |-> p, returnTo |-> Resolve(p), at |-> "answer", account |-> None]]
  /\ UNCHANGED <<spent, preAuth, callback, cookie, sessions, signOut, verifier, restarts>>

SetPreAuth(a) ==
  /\ login[a] # None /\ login[a].at = "answer"
  /\ preAuth' = [preAuth EXCEPT ![login[a].browser] = a]
  /\ login' = [login EXCEPT ![a].at = "slack"]
  /\ UNCHANGED <<spent, callback, cookie, sessions, signOut, verifier, restarts>>

\* Slack asks whoever is in front of the browser, and issues a code.
Consent(a, u) ==
  /\ login[a] # None /\ login[a].at = "slack"
  /\ login' = [login EXCEPT ![a].at = "consented", ![a].account = u]
  /\ UNCHANGED <<spent, preAuth, callback, cookie, sessions, signOut, verifier, restarts>>

\* The redirect back carries an error instead of a code.
Deny(a) ==
  /\ login[a] # None /\ login[a].at = "slack"
  /\ login' = [login EXCEPT ![a].at = "denied"]
  /\ UNCHANGED <<spent, preAuth, callback, cookie, sessions, signOut, verifier, restarts>>

\* Max-Age of ten minutes.
PreAuthExpires(b) ==
  /\ preAuth' = [preAuth EXCEPT ![b] = None]
  /\ UNCHANGED <<login, spent, callback, cookie, sessions, signOut, verifier, restarts>>

-----------------------------------------------------------------------------
(* /auth/callback.                                                         *)

\* subtle.ConstantTimeCompare of two tokens.
BugSameToken(s, t) == s # None
SameToken(s, t) == s = t

At(r, where) == callback[r] # None /\ callback[r].at = where
Goes(r, where) == callback' = [callback EXCEPT ![r].at = where]
Ends(r, result, place) ==
  callback' = [callback EXCEPT ![r] = [@ EXCEPT !.at = "answer", !.result = result, !.to = place]]

\* The request carries the cookie the browser holds when it is sent; the URL
\* is that of any attempt Slack has redirected, opened in any browser, again
\* after a reload.  Cookie, state, verifier and code are looked at first.
Arrives(r, b, a, where, result) ==
  /\ callback[r] = None
  /\ login[a] # None /\ login[a].at \in {"consented", "denied"}
  /\ callback' = [callback EXCEPT ![r] =
       [browser |-> b, attempt |-> a, pre |-> preAuth[b], at |-> where, result |-> result, to |-> Landing]]
  /\ UNCHANGED <<login, spent, preAuth, cookie, sessions, signOut, verifier, restarts>>

Admissible(b, a) ==
  preAuth[b] # None /\ SameToken(preAuth[b], a) /\ verifier /\ login[a].at = "consented"
CallbackAdmitted(r, b, a) == Arrives(r, b, a, "exchange", "none") /\ Admissible(b, a)
CallbackRefused(r, b, a) == Arrives(r, b, a, "answer", "auth_failed") /\ ~Admissible(b, a)

\* Slack takes a code once.
BugExchange(r) ==
  /\ At(r, "exchange")
  /\ spent' = spent \cup {callback[r].attempt}
  /\ Goes(r, "verify")
  /\ UNCHANGED <<login, preAuth, cookie, sessions, signOut, verifier, restarts>>
Exchange(r) ==
  /\ At(r, "exchange") /\ callback[r].attempt \notin spent
  /\ spent' = spent \cup {callback[r].attempt}
  /\ Goes(r, "verify")
  /\ UNCHANGED <<login, preAuth, cookie, sessions, signOut, verifier, restarts>>

\* The exchange fails, perhaps after Slack has taken the code.
ExchangeFails(r) ==
  /\ At(r, "exchange")
  /\ spent' \in {spent, spent \cup {callback[r].attempt}}
  /\ Ends(r, "auth_failed", Landing)
  /\ UNCHANGED <<login, preAuth, cookie, sessions, signOut, verifier, restarts>>

\* The ID token is genuine: it is the answer to this code.  Its nonce is the
\* attempt's, its account the one that consented.
NonceOk(r) == SameToken(callback[r].pre, callback[r].attempt)
BugTeamOk(r) == login[callback[r].attempt].account # None
TeamOk(r) == login[callback[r].attempt].account \in Member

Verify(r) ==
  /\ At(r, "verify") /\ NonceOk(r) /\ TeamOk(r)
  /\ Goes(r, "create")
  /\ UNCHANGED <<login, spent, preAuth, cookie, sessions, signOut, verifier, restarts>>

\* Keys not to be had, or another nonce.
VerifyFails(r) ==
  /\ At(r, "verify")
  /\ Ends(r, "auth_failed", Landing)
  /\ UNCHANGED <<login, spent, preAuth, cookie, sessions, signOut, verifier, restarts>>

WrongTeam(r) ==
  /\ At(r, "verify") /\ NonceOk(r) /\ ~TeamOk(r)
  /\ Ends(r, "not_in_workspace", Landing)
  /\ UNCHANGED <<login, spent, preAuth, cookie, sessions, signOut, verifier, restarts>>

\* Upsert and Create, whose tables are HotPath's, and the redirect.
Create(r) ==
  /\ At(r, "create")
  /\ sessions' = [sessions EXCEPT ![r] = "fresh"]
  /\ Ends(r, "in", Resolve(login[callback[r].pre].returnTo))
  /\ UNCHANGED <<login, spent, preAuth, cookie, signOut, verifier, restarts>>

CreateFails(r) ==
  /\ At(r, "create")
  /\ Ends(r, "auth_failed", Landing)
  /\ UNCHANGED <<login, spent, preAuth, cookie, sessions, signOut, verifier, restarts>>

\* The answer reaches the browser: the deletion of the pre-auth cookie goes
\* by name, so another tab's goes too.
Answered(r) ==
  LET b == callback[r].browser IN
  /\ At(r, "answer")
  /\ Goes(r, "over")
  /\ preAuth' = [preAuth EXCEPT ![b] = None]
  /\ cookie' = [cookie EXCEPT ![b] = IF callback[r].result = "in" THEN r ELSE @]
  /\ UNCHANGED <<login, spent, sessions, signOut, verifier, restarts>>

-----------------------------------------------------------------------------
(* The session cookie: used, signed out, out of date.                      *)

HandleLogout(b) ==
  /\ cookie[b] # None /\ b \notin signOut
  /\ sessions' = [sessions EXCEPT ![cookie[b]] = "gone"]
  /\ signOut' = signOut \cup {b}
  /\ UNCHANGED <<loginVars, cookie, verifier, restarts>>

\* Delete fails; the answer is the same.
HandleLogoutFails(b) ==
  /\ cookie[b] # None /\ b \notin signOut
  /\ signOut' = signOut \cup {b}
  /\ UNCHANGED <<loginVars, cookie, sessions, verifier, restarts>>

Clear(b) ==
  /\ b \in signOut
  /\ cookie' = [cookie EXCEPT ![b] = None]
  /\ signOut' = signOut \ {b}
  /\ UNCHANGED <<loginVars, sessions, verifier, restarts>>

\* A request of the browser slides the row's deadline, not the cookie's.
Touch(b) ==
  /\ cookie[b] # None /\ sessions[cookie[b]] = "fresh"
  /\ sessions' = [sessions EXCEPT ![cookie[b]] = "renewed"]
  /\ UNCHANGED <<loginVars, cookie, signOut, verifier, restarts>>

\* The first expires_at goes by: it is the cookie's Expires.
FirstDeadline(r) ==
  /\ sessions[r] \in {"fresh", "renewed"}
  /\ sessions' = [sessions EXCEPT ![r] = IF @ = "fresh" THEN "gone" ELSE @]
  /\ cookie' = [b \in Browser |-> IF cookie[b] = r THEN None ELSE cookie[b]]
  /\ UNCHANGED <<loginVars, signOut, verifier, restarts>>

\* A force-logout, or the end of a renewed row.
RowEnds(r) ==
  /\ sessions[r] \in {"fresh", "renewed"}
  /\ sessions' = [sessions EXCEPT ![r] = "gone"]
  /\ UNCHANGED <<loginVars, cookie, signOut, verifier, restarts>>

-----------------------------------------------------------------------------
(* The process.                                                            *)

VerifierReady ==
  /\ verifier' = TRUE
  /\ UNCHANGED <<loginVars, cookie, sessions, signOut, restarts>>

\* The process goes and comes back: handlers at work are never answered.
Restart ==
  /\ restarts < MaxRestarts /\ restarts' = restarts + 1
  /\ callback' = [r \in Request |->
       IF callback[r] = None THEN None ELSE [callback[r] EXCEPT !.at = "over"]]
  /\ login' = [a \in Attempt |->
       IF login[a] # None /\ login[a].at = "answer" THEN None ELSE login[a]]
  /\ signOut' = {}
  /\ verifier' = FALSE
  /\ UNCHANGED <<spent, preAuth, cookie, sessions>>

HandleCallback ==
  \E r \in Request :
    \/ \E b \in Browser, a \in Attempt : CallbackAdmitted(r, b, a) \/ CallbackRefused(r, b, a)
    \/ Exchange(r) \/ ExchangeFails(r) \/ Verify(r) \/ VerifyFails(r) \/ WrongTeam(r)
    \/ Create(r) \/ CreateFails(r) \/ Answered(r) \/ FirstDeadline(r) \/ RowEnds(r)

Next ==
  \/ \E a \in Attempt : \/ \E b \in Browser, p \in Place : HandleLogin(b, a, p)
                        \/ SetPreAuth(a) \/ Deny(a)
                        \/ \E u \in Account : Consent(a, u)
  \/ HandleCallback
  \/ \E b \in Browser : \/ PreAuthExpires(b) \/ HandleLogout(b) \/ HandleLogoutFails(b)
                        \/ Clear(b) \/ Touch(b)
  \/ VerifierReady \/ Restart

Spec == Init /\ [][Next]_vars

-----------------------------------------------------------------------------
(* The inductive invariant.                                                *)

HasSession(r) == sessions[r] # "none"

\* A pre-auth cookie's attempt is one this browser began, and its answer has
\* come.
CookiesOk ==
  \A b \in Browser : preAuth[b] # None =>
    /\ login[preAuth[b]] # None
    /\ login[preAuth[b]].browser = b /\ login[preAuth[b]].at # "answer"

\* An ID goes out in a cookie, or in an answer, once its row is there.
IssuedOk ==
  /\ \A b \in Browser : cookie[b] # None => HasSession(cookie[b])
  /\ \A r \in Request : callback[r] # None /\ callback[r].result = "in" => HasSession(r)

LoginsOk ==
  \A a \in Attempt : login[a] # None => login[a].returnTo = Resolve(login[a].asked)

\* A request past the first checks carries its own attempt's cookie.
Own(r) ==
  LET c == callback[r] IN
  c.pre = c.attempt /\ login[c.attempt].browser = c.browser /\ login[c.attempt].at = "consented"

\* A request that has used its code up, and has not failed.
Took(r) == At(r, "verify") \/ At(r, "create") \/ HasSession(r)

CallbackOk(r) ==
  /\ HasSession(r) => callback[r] # None
  /\ callback[r] # None =>
       /\ login[callback[r].attempt] # None
       /\ login[callback[r].attempt].at \in {"consented", "denied"}
  /\ At(r, "exchange") \/ Took(r) => Own(r)
  /\ At(r, "exchange") \/ At(r, "verify") \/ At(r, "create") =>
       callback[r].result = "none" /\ ~HasSession(r)
  /\ Took(r) => callback[r].attempt \in spent
  /\ At(r, "create") \/ HasSession(r) => TeamOk(r)

CallbacksOk == \A r \in Request : CallbackOk(r)

OneTaker ==
  \A r, s \in Request :
    Took(r) /\ Took(s) /\ callback[r].attempt = callback[s].attempt => r = s

\* The redirect of a success is where the attempt asked to go, if Validate
\* took it, and the landing page otherwise.
Landed ==
  \A r \in Request : callback[r] # None /\ callback[r].result = "in" =>
    callback[r].to = Resolve(login[callback[r].attempt].asked)

IInv == TypeOK /\ CookiesOk /\ IssuedOk /\ LoginsOk /\ CallbacksOk /\ OneTaker /\ Landed

-----------------------------------------------------------------------------
(* Properties.                                                             *)

\* Whatever URLs are opened in which browsers and however answers are lost,
\* a session belongs to a member of the workspace who consented in a sign-in
\* that the very browser holding the session began ("bound to *this* browser
\* session through the __Host- pre-auth cookie").
OwnConsent ==
  \A r \in Request : HasSession(r) =>
    LET l == login[callback[r].attempt] IN
    l # None /\ l.browser = callback[r].browser /\ l.account \in Member

\* One consent makes at most one session, although two requests of one
\* browser may carry the same cookie past the state check before either
\* answer has cleared it, and a request may be repeated after a restart.
OnePerConsent ==
  \A r, s \in Request :
    HasSession(r) /\ HasSession(s) /\ callback[r].attempt = callback[s].attempt => r = s

\* With two tabs on one cookie, a successful sign-in goes where the tab that
\* made it asked to go, never where the other did, and never to a place
\* Validate would refuse.
LandsWhereAsked ==
  \A r \in Request : callback[r] # None /\ callback[r].result = "in" =>
    LET asked == login[callback[r].attempt].asked IN
    callback[r].to = IF asked \in Valid THEN asked ELSE Landing

\* A browser loses the cookie of a row that is still good only by signing
\* out: the idle timeout slides for the browser as it does for the row.
ActiveStaysSignedIn ==
  [][\A b \in Browser : cookie[b] # None /\ cookie'[b] = None =>
       b \in signOut \/ sessions'[cookie[b]] = "gone"]_vars
=============================================================================
