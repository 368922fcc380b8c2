-------------------------- MODULE OidcLoginProofs --------------------------
(***************************************************************************)
(* Theorems about OidcLogin: IInv is inductive for any number of browsers, *)
(* sign-ins, requests and restarts, and what it says about sessions.       *)
(***************************************************************************)
EXTENDS OidcLogin, TLAPS

LEMMA InitInv == Init => IInv
<1> SUFFICES ASSUME Init PROVE IInv
  OBVIOUS
<1>1. TypeOK
  <2>1. restarts \in 0..MaxRestarts
    BY RestartsAssumption DEF Init
  <2> QED
    BY <2>1 DEF Init, TypeOK
<1>2. CookiesOk /\ IssuedOk /\ LoginsOk
  BY DEF Init, CookiesOk, IssuedOk, LoginsOk
<1>3. \A r \in Request : callback[r] = None /\ ~HasSession(r) /\ ~Took(r)
  BY DEF Init, Took, At, HasSession
<1>4. CallbacksOk /\ OneTaker /\ Landed
  BY <1>3 DEF CallbacksOk, CallbackOk, At, OneTaker, Landed
<1> QED
  BY <1>1, <1>2, <1>4 DEF IInv

-----------------------------------------------------------------------------
(* Types.                                                                  *)

LEMMA LoginTypes ==
  ASSUME TypeOK, NEW a \in Attempt, login[a] # None
  PROVE  login[a] \in Login
BY DEF TypeOK

LEMMA CallbackTypes ==
  ASSUME TypeOK, NEW r \in Request, callback[r] # None
  PROVE  callback[r] \in Callback
BY DEF TypeOK

LEMMA ResolveTypes ==
  ASSUME NEW p \in Place \cup {Landing}
  PROVE  Resolve(p) \in Place \cup {Landing} /\ Resolve(Resolve(p)) = Resolve(p)
BY PlaceAssumption DEF Resolve

\* Goes and Ends keep a request's record a record.
LEMMA GoesTypes ==
  ASSUME TypeOK, NEW r \in Request, callback[r] # None,
         NEW where \in {"exchange", "verify", "create", "answer", "over"}, Goes(r, where)
  PROVE  /\ callback' \in [Request -> Callback \cup {None}]
         /\ callback'[r] = [callback[r] EXCEPT !.at = where]
         /\ \A s \in Request \ {r} : callback'[s] = callback[s]
<1>1. callback[r] \in Callback
  BY CallbackTypes
<1>2. [callback[r] EXCEPT !.at = where] \in Callback
  BY <1>1 DEF Callback
<1> QED
  BY <1>2 DEF Goes, TypeOK

LEMMA EndsTypes ==
  ASSUME TypeOK, NEW r \in Request, callback[r] # None,
         NEW result \in {"auth_failed", "not_in_workspace", "in"},
         NEW place \in Place \cup {Landing}, Ends(r, result, place)
  PROVE  /\ callback' \in [Request -> Callback \cup {None}]
         /\ callback'[r] = [callback[r] EXCEPT !.at = "answer", !.result = result, !.to = place]
         /\ \A s \in Request \ {r} : callback'[s] = callback[s]
<1>1. callback[r] \in Callback
  BY CallbackTypes
<1>2. [callback[r] EXCEPT !.at = "answer", !.result = result, !.to = place] \in Callback
  BY <1>1 DEF Callback
<1> QED
  BY <1>2 DEF Ends, TypeOK

LEMMA ArrivesTypes ==
  ASSUME TypeOK, NEW r \in Request, NEW b \in Browser, NEW a \in Attempt,
         NEW where \in {"exchange", "answer"}, NEW result \in {"none", "auth_failed"},
         Arrives(r, b, a, where, result)
  PROVE  /\ callback' \in [Request -> Callback \cup {None}]
         /\ callback'[r] = [browser |-> b, attempt |-> a, pre |-> preAuth[b], at |-> where,
                            result |-> result, to |-> Landing]
         /\ \A s \in Request \ {r} : callback'[s] = callback[s]
<1>1. [browser |-> b, attempt |-> a, pre |-> preAuth[b], at |-> where,
       result |-> result, to |-> Landing] \in Callback
  BY DEF TypeOK, Callback
<1> QED
  BY <1>1 DEF Arrives, TypeOK

\* The actions that write login.
LEMMA LoginCases ==
  ASSUME [Next]_vars
  PROVE  \/ \E a \in Attempt : \/ \E b \in Browser, p \in Place : HandleLogin(b, a, p)
                              \/ SetPreAuth(a) \/ Deny(a) \/ \E u \in Account : Consent(a, u)
         \/ Restart \/ UNCHANGED login
<1>1. ASSUME HandleCallback PROVE UNCHANGED login
  BY <1>1 DEF HandleCallback, CallbackAdmitted, CallbackRefused, Arrives, Exchange, ExchangeFails,
              Verify, VerifyFails, WrongTeam, Create, CreateFails, Answered, FirstDeadline, RowEnds, loginVars
<1>2. ASSUME NEW b \in Browser, PreAuthExpires(b) \/ HandleLogout(b) \/ HandleLogoutFails(b) \/ Clear(b) \/ Touch(b)
      PROVE  UNCHANGED login
  BY <1>2 DEF PreAuthExpires, HandleLogout, HandleLogoutFails, Clear, Touch, loginVars
<1> QED
  BY <1>1, <1>2 DEF Next, VerifierReady, vars, loginVars

\* What a step does to the sign-ins.
LEMMA LoginStep ==
  ASSUME TypeOK, [Next]_vars
  PROVE  /\ login' \in [Attempt -> Login \cup {None}]
         /\ \A a \in Attempt : login[a] # None /\ login[a].at \in {"consented", "denied"} =>
              login'[a] = login[a]
<1>1. ASSUME NEW b \in Browser, NEW a \in Attempt, NEW p \in Place, HandleLogin(b, a, p)
      PROVE  login' \in [Attempt -> Login \cup {None}] /\ \A c \in Attempt : login[c] # None => login'[c] = login[c]
  <2>1. [browser |-> b, asked |-> p, returnTo |-> Resolve(p), at |-> "answer", account |-> None] \in Login
    BY ResolveTypes DEF Login
  <2> QED
    BY <1>1, <2>1 DEF HandleLogin, TypeOK
<1>2. ASSUME NEW a \in Attempt, SetPreAuth(a) \/ Deny(a) \/ \E u \in Account : Consent(a, u)
      PROVE  /\ login' \in [Attempt -> Login \cup {None}]
             /\ \A c \in Attempt : login[c] # None /\ login[c].at \in {"consented", "denied"} => login'[c] = login[c]
  <2>1. login[a] # None /\ login[a].at \in {"answer", "slack"}
    BY <1>2 DEF SetPreAuth, Deny, Consent
  <2>2. login[a] \in Login
    BY <2>1, LoginTypes
  <2>3. [login[a] EXCEPT !.at = "slack"] \in Login /\ [login[a] EXCEPT !.at = "denied"] \in Login
    BY <2>2 DEF Login
  <2>4. \A u \in Account : [login[a] EXCEPT !.at = "consented", !.account = u] \in Login
    BY <2>2 DEF Login
  <2>5. \E l \in Login : login' = [login EXCEPT ![a] = l]
    <3>1. CASE SetPreAuth(a) \/ Deny(a)
      BY <3>1, <2>3 DEF SetPreAuth, Deny, TypeOK
    <3>2. CASE \E u \in Account : Consent(a, u)
      BY <3>2, <2>4 DEF Consent, TypeOK
    <3> QED
      BY <1>2, <3>1, <3>2
  <2> QED
    BY <2>1, <2>5 DEF TypeOK
<1>3. ASSUME Restart
      PROVE  /\ login' \in [Attempt -> Login \cup {None}]
             /\ \A c \in Attempt : login[c] # None /\ login[c].at \in {"consented", "denied"} => login'[c] = login[c]
  BY <1>3 DEF Restart, TypeOK
<1>4. ASSUME UNCHANGED login
      PROVE  /\ login' \in [Attempt -> Login \cup {None}]
             /\ \A c \in Attempt : login'[c] = login[c]
  BY <1>4 DEF TypeOK
<1>5. \/ \E a \in Attempt : \/ \E b \in Browser, p \in Place : HandleLogin(b, a, p)
                           \/ SetPreAuth(a) \/ Deny(a) \/ \E u \in Account : Consent(a, u)
      \/ Restart \/ UNCHANGED login
  BY LoginCases
<1> QED
  BY <1>1, <1>2, <1>3, <1>4, <1>5

\* A sign-in keeps its browser and what it asked; it goes only with an answer
\* that a restart loses, and is never again one whose answer has not come.
LEMMA LoginKept ==
  ASSUME TypeOK, [Next]_vars, NEW a \in Attempt, login[a] # None, login'[a] # None \/ login[a].at # "answer"
  PROVE  /\ login'[a] # None
         /\ login'[a].browser = login[a].browser /\ login'[a].asked = login[a].asked
         /\ login'[a].returnTo = login[a].returnTo
         /\ login[a].at # "answer" => login'[a].at # "answer"
<1>1. login[a] \in Login /\ login \in [Attempt -> Login \cup {None}]
  BY LoginTypes DEF TypeOK
<1>2. ASSUME NEW c \in Attempt, NEW b \in Browser, NEW p \in Place, HandleLogin(b, c, p)
      PROVE  login'[a] = login[a]
  <2>1. c # a
    BY <1>2 DEF HandleLogin
  <2> QED
    BY <1>1, <1>2, <2>1 DEF HandleLogin
<1>3. ASSUME NEW c \in Attempt, SetPreAuth(c) \/ Deny(c) \/ \E u \in Account : Consent(c, u)
      PROVE  \/ login'[a] = login[a]
             \/ login'[a] = [login[a] EXCEPT !.at = "slack"] \/ login'[a] = [login[a] EXCEPT !.at = "denied"]
             \/ \E u \in Account : login'[a] = [login[a] EXCEPT !.at = "consented", !.account = u]
  BY <1>1, <1>3 DEF SetPreAuth, Deny, Consent
<1>4. ASSUME Restart PROVE login'[a] = login[a]
  BY <1>1, <1>4 DEF Restart
<1>5. \/ \E c \in Attempt : \/ \E b \in Browser, p \in Place : HandleLogin(b, c, p)
                           \/ SetPreAuth(c) \/ Deny(c) \/ \E u \in Account : Consent(c, u)
      \/ Restart \/ UNCHANGED login
  BY LoginCases
<1>6. \/ login'[a] = login[a]
      \/ login'[a] = [login[a] EXCEPT !.at = "slack"] \/ login'[a] = [login[a] EXCEPT !.at = "denied"]
      \/ \E u \in Account : login'[a] = [login[a] EXCEPT !.at = "consented", !.account = u]
  BY <1>2, <1>3, <1>4, <1>5
<1>7. /\ [login[a] EXCEPT !.at = "slack"] \in Login /\ [login[a] EXCEPT !.at = "denied"] \in Login
      /\ \A u \in Account : [login[a] EXCEPT !.at = "consented", !.account = u] \in Login
  BY <1>1 DEF Login
<1>8. None \notin Login
  BY NoneAssumption
<1>9. ASSUME login'[a] = login[a] \/ \E at \in {"slack", "denied"} : login'[a] = [login[a] EXCEPT !.at = at]
      PROVE  login'[a] # None /\ login'[a].browser = login[a].browser /\ login'[a].asked = login[a].asked
             /\ login'[a].returnTo = login[a].returnTo /\ (login[a].at # "answer" => login'[a].at # "answer")
  <2>1. login'[a] \in Login
    BY <1>1, <1>7, <1>9
  <2>2. login'[a] # None
    BY <1>8, <2>1
  <2> QED
    BY <1>1, <1>9, <2>2 DEF Login
<1>10. ASSUME NEW u \in Account, login'[a] = [login[a] EXCEPT !.at = "consented", !.account = u]
      PROVE  login'[a] # None /\ login'[a].browser = login[a].browser /\ login'[a].asked = login[a].asked
             /\ login'[a].returnTo = login[a].returnTo /\ (login[a].at # "answer" => login'[a].at # "answer")
  <2>1. login'[a] \in Login
    BY <1>1, <1>7, <1>10
  <2>2. login'[a] # None
    BY <1>8, <2>1
  <2> QED
    BY <1>1, <1>10, <2>2 DEF Login
<1> QED
  BY <1>6, <1>9, <1>10

\* Except by Restart, callback changes at one request.
LEMMA RequestCases ==
  ASSUME [Next]_vars
  PROVE  \/ \E r \in Request :
              \/ \E b \in Browser, a \in Attempt : CallbackAdmitted(r, b, a) \/ CallbackRefused(r, b, a)
              \/ Exchange(r) \/ ExchangeFails(r) \/ Verify(r) \/ VerifyFails(r) \/ WrongTeam(r)
              \/ Create(r) \/ CreateFails(r) \/ Answered(r)
         \/ Restart \/ UNCHANGED <<callback, spent>>
<1>1. ASSUME NEW b \in Browser, PreAuthExpires(b) \/ HandleLogout(b) \/ HandleLogoutFails(b) \/ Clear(b) \/ Touch(b)
      PROVE  UNCHANGED <<callback, spent>>
  BY <1>1 DEF PreAuthExpires, HandleLogout, HandleLogoutFails, Clear, Touch, loginVars
<1>2. ASSUME NEW a \in Attempt, \/ \E b \in Browser, p \in Place : HandleLogin(b, a, p)
                                \/ SetPreAuth(a) \/ Deny(a) \/ \E u \in Account : Consent(a, u)
      PROVE  UNCHANGED <<callback, spent>>
  BY <1>2 DEF HandleLogin, SetPreAuth, Deny, Consent
<1>3. ASSUME NEW r \in Request, FirstDeadline(r) \/ RowEnds(r)
      PROVE  UNCHANGED <<callback, spent>>
  BY <1>3 DEF FirstDeadline, RowEnds, loginVars
<1>4. CASE HandleCallback
  <2>1. PICK r \in Request :
              \/ \E b \in Browser, a \in Attempt : CallbackAdmitted(r, b, a) \/ CallbackRefused(r, b, a)
              \/ Exchange(r) \/ ExchangeFails(r) \/ Verify(r) \/ VerifyFails(r) \/ WrongTeam(r)
              \/ Create(r) \/ CreateFails(r) \/ Answered(r) \/ FirstDeadline(r) \/ RowEnds(r)
    BY <1>4 DEF HandleCallback
  <2>2. CASE FirstDeadline(r) \/ RowEnds(r)
    BY <1>3, <2>2
  <2> QED
    BY <2>1, <2>2
<1>5. CASE VerifierReady \/ UNCHANGED vars
  BY <1>5 DEF VerifierReady, vars, loginVars
<1>6. CASE \E b \in Browser : PreAuthExpires(b) \/ HandleLogout(b) \/ HandleLogoutFails(b) \/ Clear(b) \/ Touch(b)
  BY <1>1, <1>6
<1>7. CASE \E a \in Attempt : \/ \E b \in Browser, p \in Place : HandleLogin(b, a, p)
                            \/ SetPreAuth(a) \/ Deny(a) \/ \E u \in Account : Consent(a, u)
  BY <1>2, <1>7
<1> QED
  BY <1>4, <1>5, <1>6, <1>7 DEF Next

LEMMA SpentGrows ==
  ASSUME TypeOK, [Next]_vars
  PROVE  spent \subseteq spent' /\ spent' \in SUBSET Attempt
<1>1. ASSUME NEW r \in Request, NEW b \in Browser, NEW a \in Attempt, CallbackAdmitted(r, b, a) \/ CallbackRefused(r, b, a)
      PROVE  spent' = spent
  BY <1>1 DEF CallbackAdmitted, CallbackRefused, Arrives
<1>2. ASSUME NEW r \in Request, Exchange(r) \/ ExchangeFails(r)
      PROVE  spent \subseteq spent' /\ spent' \in SUBSET Attempt
  <2>1. callback[r] \in Callback
    BY <1>2, CallbackTypes DEF Exchange, ExchangeFails, At
  <2>2. callback[r].attempt \in Attempt
    BY <2>1 DEF Callback
  <2>3. spent' = spent \/ spent' = spent \cup {callback[r].attempt}
    BY <1>2 DEF Exchange, ExchangeFails
  <2> QED
    BY <2>2, <2>3 DEF TypeOK
<1>3. ASSUME NEW r \in Request, Verify(r) \/ VerifyFails(r) \/ WrongTeam(r) \/ Create(r) \/ CreateFails(r) \/ Answered(r)
      PROVE  spent' = spent
  BY <1>3 DEF Verify, VerifyFails, WrongTeam, Create, CreateFails, Answered
<1>4. Restart => spent' = spent
  BY DEF Restart
<1> QED
  BY <1>1, <1>2, <1>3, <1>4, RequestCases DEF TypeOK

\* What a step does to the requests it does not restart.
LEMMA CallbackStep ==
  ASSUME TypeOK, [Next]_vars
  PROVE  callback' \in [Request -> Callback \cup {None}]
<1>1. ASSUME NEW r \in Request, NEW b \in Browser, NEW a \in Attempt, CallbackAdmitted(r, b, a) \/ CallbackRefused(r, b, a)
      PROVE  callback' \in [Request -> Callback \cup {None}]
  BY <1>1, ArrivesTypes DEF CallbackAdmitted, CallbackRefused
<1>2. ASSUME NEW r \in Request, callback[r] # None,
             \E where \in {"exchange", "verify", "create", "answer", "over"} : Goes(r, where)
      PROVE  callback' \in [Request -> Callback \cup {None}]
  BY <1>2, GoesTypes
<1>3. ASSUME NEW r \in Request, Exchange(r) \/ Verify(r) \/ Answered(r)
      PROVE  callback' \in [Request -> Callback \cup {None}]
  BY <1>2, <1>3 DEF Exchange, Verify, Answered, At
<1>4. ASSUME NEW r \in Request, ExchangeFails(r) \/ VerifyFails(r) \/ WrongTeam(r) \/ CreateFails(r)
      PROVE  callback' \in [Request -> Callback \cup {None}]
  BY <1>4, EndsTypes DEF ExchangeFails, VerifyFails, WrongTeam, CreateFails, At
<1>5. ASSUME NEW r \in Request, Create(r)
      PROVE  callback' \in [Request -> Callback \cup {None}]
  <2>1. Resolve(login[callback[r].pre].returnTo) \in Place \cup {Landing}
    BY PlaceAssumption DEF Resolve
  <2> QED
    BY <1>5, <2>1, EndsTypes DEF Create, At
<1>6. ASSUME Restart PROVE callback' \in [Request -> Callback \cup {None}]
  <2>1. \A r \in Request : callback[r] # None => [callback[r] EXCEPT !.at = "over"] \in Callback
    BY CallbackTypes DEF Callback
  <2> QED
    BY <1>6, <2>1 DEF Restart
<1> QED
  BY <1>1, <1>3, <1>4, <1>5, <1>6, RequestCases DEF TypeOK

\* The actions that write cookie, preAuth or sessions.
LEMMA CookieStep ==
  ASSUME TypeOK, [Next]_vars
  PROVE  /\ preAuth' \in [Browser -> Attempt \cup {None}]
         /\ cookie' \in [Browser -> Request \cup {None}]
         /\ sessions' \in [Request -> {"none", "fresh", "renewed", "gone"}]
         /\ signOut' \in SUBSET Browser
         /\ verifier' \in BOOLEAN
         /\ restarts' \in 0..MaxRestarts
<1> DEFINE Goal == /\ preAuth' \in [Browser -> Attempt \cup {None}]
                   /\ cookie' \in [Browser -> Request \cup {None}]
                   /\ sessions' \in [Request -> {"none", "fresh", "renewed", "gone"}]
                   /\ signOut' \in SUBSET Browser
                   /\ verifier' \in BOOLEAN
                   /\ restarts' \in 0..MaxRestarts
<1>1. ASSUME NEW a \in Attempt, \/ \E b \in Browser, p \in Place : HandleLogin(b, a, p)
                                \/ Deny(a) \/ \E u \in Account : Consent(a, u)
      PROVE  Goal
  BY <1>1 DEF TypeOK, HandleLogin, Deny, Consent
<1>2. ASSUME NEW a \in Attempt, SetPreAuth(a)
      PROVE  Goal
  <2>1. login[a].browser \in Browser
    BY <1>2, LoginTypes DEF SetPreAuth, Login
  <2> QED
    BY <1>2, <2>1 DEF TypeOK, SetPreAuth
<1>3. ASSUME NEW r \in Request,
             \/ \E b \in Browser, a \in Attempt : CallbackAdmitted(r, b, a) \/ CallbackRefused(r, b, a)
             \/ Exchange(r) \/ ExchangeFails(r) \/ Verify(r) \/ VerifyFails(r) \/ WrongTeam(r) \/ CreateFails(r)
      PROVE  Goal
  <2>1. UNCHANGED <<preAuth, cookie, sessions, signOut, verifier, restarts>>
    BY <1>3 DEF CallbackAdmitted, CallbackRefused, Arrives, Exchange, ExchangeFails, Verify, VerifyFails,
                WrongTeam, CreateFails
  <2> QED
    BY <2>1 DEF TypeOK
<1>4. ASSUME NEW r \in Request, Create(r)
      PROVE  Goal
  BY <1>4 DEF TypeOK, Create
<1>5. ASSUME NEW r \in Request, Answered(r)
      PROVE  Goal
  <2>1. callback[r].browser \in Browser
    BY <1>5, CallbackTypes DEF Answered, At, Callback
  <2> QED
    BY <1>5, <2>1 DEF TypeOK, Answered
<1>6. ASSUME NEW r \in Request, FirstDeadline(r) \/ RowEnds(r)
      PROVE  Goal
  <2>1. CASE FirstDeadline(r)
    BY <2>1 DEF TypeOK, FirstDeadline, loginVars
  <2>2. CASE RowEnds(r)
    BY <2>2 DEF TypeOK, RowEnds, loginVars
  <2> QED
    BY <1>6, <2>1, <2>2
<1>7. ASSUME NEW b \in Browser, PreAuthExpires(b) \/ HandleLogout(b) \/ HandleLogoutFails(b) \/ Clear(b) \/ Touch(b)
      PROVE  Goal
  <2>1. CASE PreAuthExpires(b)
    BY <2>1 DEF TypeOK, PreAuthExpires, loginVars
  <2>2. CASE HandleLogout(b) \/ HandleLogoutFails(b)
    BY <2>2 DEF TypeOK, HandleLogout, HandleLogoutFails, loginVars
  <2>3. CASE Clear(b) \/ Touch(b)
    BY <2>3 DEF TypeOK, Clear, Touch, loginVars
  <2> QED
    BY <1>7, <2>1, <2>2, <2>3
<1>8. VerifierReady \/ UNCHANGED vars => Goal
  BY DEF TypeOK, VerifierReady, vars, loginVars
<1>9. ASSUME Restart PROVE Goal
  <2>1. restarts' \in 0..MaxRestarts
    BY <1>9, RestartsAssumption DEF TypeOK, Restart
  <2> QED
    BY <1>9, <2>1 DEF TypeOK, Restart
<1> HIDE DEF Goal
<1>10. HandleCallback => Goal
  BY <1>3, <1>4, <1>5, <1>6 DEF HandleCallback
<1>11. Next => Goal
  BY <1>1, <1>2, <1>7, <1>8, <1>9, <1>10 DEF Next
<1>12. Goal
  BY <1>8, <1>11
<1> QED
  BY <1>12 DEF Goal

LEMMA TypeStep ==
  ASSUME TypeOK, [Next]_vars
  PROVE  TypeOK'
BY LoginStep, SpentGrows, CallbackStep, CookieStep DEF TypeOK

-----------------------------------------------------------------------------
(* The invariant is kept.                                                  *)

LEMMA LoginsStep ==
  ASSUME TypeOK, LoginsOk, [Next]_vars
  PROVE  LoginsOk'
<1> SUFFICES ASSUME NEW a \in Attempt, login'[a] # None
             PROVE  login'[a].returnTo = Resolve(login'[a].asked)
  BY DEF LoginsOk, Resolve
<1>1. CASE login[a] # None
  BY <1>1, LoginKept DEF LoginsOk
<1>2. CASE login[a] = None
  <2>1. ASSUME NEW c \in Attempt, SetPreAuth(c) \/ Deny(c) \/ \E u \in Account : Consent(c, u)
        PROVE  FALSE
    BY <1>2, <2>1 DEF TypeOK, SetPreAuth, Deny, Consent
  <2>2. ~Restart /\ ~UNCHANGED login
    BY <1>2 DEF Restart
  <2>3. PICK c \in Attempt, b \in Browser, p \in Place : HandleLogin(b, c, p)
    BY <2>1, <2>2, LoginCases
  <2>4. login'[a] = [browser |-> b, asked |-> p, returnTo |-> Resolve(p), at |-> "answer", account |-> None]
    BY <1>2, <2>3 DEF HandleLogin, TypeOK
  <2> QED
    BY <2>4
<1> QED
  BY <1>1, <1>2

LEMMA CookiesStep ==
  ASSUME TypeOK, CookiesOk, [Next]_vars
  PROVE  CookiesOk'
<1> SUFFICES ASSUME NEW b \in Browser, preAuth'[b] # None
             PROVE  /\ login'[preAuth'[b]] # None
                    /\ login'[preAuth'[b]].browser = b /\ login'[preAuth'[b]].at # "answer"
  BY DEF CookiesOk
<1>1. CASE preAuth'[b] = preAuth[b]
  <2>1. preAuth[b] \in Attempt /\ login[preAuth[b]] # None
        /\ login[preAuth[b]].browser = b /\ login[preAuth[b]].at # "answer"
    BY <1>1 DEF TypeOK, CookiesOk
  <2> QED
    BY <1>1, <2>1, LoginKept
<1>2. CASE preAuth'[b] # preAuth[b]
  <2>1. PICK a \in Attempt : SetPreAuth(a)
    <3>1. ASSUME NEW a \in Attempt, \/ \E d \in Browser, p \in Place : HandleLogin(d, a, p)
                                    \/ Deny(a) \/ \E u \in Account : Consent(a, u)
          PROVE  FALSE
      BY <1>2, <3>1 DEF HandleLogin, Deny, Consent
    <3>2. ASSUME NEW r \in Request,
                 \/ \E d \in Browser, a \in Attempt : CallbackAdmitted(r, d, a) \/ CallbackRefused(r, d, a)
                 \/ Exchange(r) \/ ExchangeFails(r) \/ Verify(r) \/ VerifyFails(r) \/ WrongTeam(r)
                 \/ Create(r) \/ CreateFails(r) \/ FirstDeadline(r) \/ RowEnds(r)
          PROVE  FALSE
      BY <1>2, <3>2 DEF CallbackAdmitted, CallbackRefused, Arrives, Exchange, ExchangeFails, Verify, VerifyFails,
                        WrongTeam, Create, CreateFails, FirstDeadline, RowEnds, loginVars
    <3>3. ASSUME NEW r \in Request, Answered(r)
          PROVE  FALSE
      BY <1>2, <3>3 DEF Answered, TypeOK
    <3>4. ASSUME NEW d \in Browser,
                 PreAuthExpires(d) \/ HandleLogout(d) \/ HandleLogoutFails(d) \/ Clear(d) \/ Touch(d)
          PROVE  FALSE
      BY <1>2, <3>4 DEF PreAuthExpires, HandleLogout, HandleLogoutFails, Clear, Touch, loginVars, TypeOK
    <3>5. ~VerifierReady /\ ~Restart /\ ~UNCHANGED vars
      BY <1>2 DEF VerifierReady, Restart, vars, loginVars
    <3>6. ~HandleCallback
      BY <3>2, <3>3 DEF HandleCallback
    <3> QED
      BY <3>1, <3>4, <3>5, <3>6 DEF Next
  <2>2. login[a] \in Login /\ [login[a] EXCEPT !.at = "slack"] \in Login
    BY <2>1, LoginTypes DEF SetPreAuth, Login
  <2>3. login' = [login EXCEPT ![a] = [login[a] EXCEPT !.at = "slack"]]
    BY <2>1 DEF SetPreAuth
  <2>4. preAuth'[b] = a /\ login[a].browser = b
    BY <1>2, <2>1 DEF SetPreAuth, TypeOK
  <2>5. login'[a] = [login[a] EXCEPT !.at = "slack"]
    BY <2>3 DEF TypeOK
  <2> QED
    BY <2>2, <2>4, <2>5, NoneAssumption DEF Login
<1> QED
  BY <1>1, <1>2

\* A row comes into being by Create and is never one that was not made.
LEMMA SessionsStep ==
  ASSUME TypeOK, IssuedOk, [Next]_vars, NEW r \in Request
  PROVE  /\ HasSession(r) => HasSession(r)'
         /\ HasSession(r)' => HasSession(r) \/ Create(r)
<1> DEFINE Goal == /\ sessions[r] # "none" => sessions'[r] # "none"
                   /\ sessions'[r] # "none" => sessions[r] # "none" \/ Create(r)
<1>1. ASSUME NEW a \in Attempt, \/ \E b \in Browser, p \in Place : HandleLogin(b, a, p)
                                \/ SetPreAuth(a) \/ Deny(a) \/ \E u \in Account : Consent(a, u)
      PROVE  Goal
  BY <1>1 DEF HandleLogin, SetPreAuth, Deny, Consent
<1>2. ASSUME NEW s \in Request,
             \/ \E b \in Browser, a \in Attempt : CallbackAdmitted(s, b, a) \/ CallbackRefused(s, b, a)
             \/ Exchange(s) \/ ExchangeFails(s) \/ Verify(s) \/ VerifyFails(s) \/ WrongTeam(s)
             \/ CreateFails(s) \/ Answered(s)
      PROVE  Goal
  BY <1>2 DEF CallbackAdmitted, CallbackRefused, Arrives, Exchange, ExchangeFails, Verify, VerifyFails,
              WrongTeam, CreateFails, Answered
<1>3. ASSUME NEW s \in Request, Create(s)
      PROVE  Goal
  BY <1>3 DEF Create, TypeOK
<1>4. ASSUME NEW s \in Request, FirstDeadline(s) \/ RowEnds(s)
      PROVE  Goal
  BY <1>4 DEF FirstDeadline, RowEnds, TypeOK
<1>5. ASSUME NEW b \in Browser, HandleLogout(b) \/ Touch(b)
      PROVE  Goal
  <2>1. cookie[b] \in Request /\ sessions[cookie[b]] # "none"
    BY <1>5 DEF HandleLogout, Touch, TypeOK, IssuedOk, HasSession
  <2>2. \E at \in {"renewed", "gone"} : sessions' = [sessions EXCEPT ![cookie[b]] = at]
    BY <1>5 DEF HandleLogout, Touch
  <2> QED
    BY <2>1, <2>2 DEF TypeOK
<1>6. ASSUME NEW b \in Browser, PreAuthExpires(b) \/ HandleLogoutFails(b) \/ Clear(b)
      PROVE  Goal
  BY <1>6 DEF PreAuthExpires, HandleLogoutFails, Clear
<1>7. VerifierReady \/ Restart \/ UNCHANGED vars => Goal
  BY DEF VerifierReady, Restart, vars
<1> HIDE DEF Goal
<1>8. HandleCallback => Goal
  BY <1>2, <1>3, <1>4 DEF HandleCallback
<1>9. Goal
  BY <1>1, <1>5, <1>6, <1>7, <1>8 DEF Next
<1> QED
  BY <1>9 DEF Goal, HasSession

\* A sign-in Slack has sent back stays as it is.
LEMMA ConsentKept ==
  ASSUME TypeOK, [Next]_vars, NEW a \in Attempt, login[a] # None, login[a].at \in {"consented", "denied"}
  PROVE  login'[a] = login[a]
BY LoginStep

\* What is known of a request outlives the steps of the others.
LEMMA Frame ==
  ASSUME TypeOK, [Next]_vars, NEW r \in Request, CallbackOk(r),
         callback'[r] = callback[r], sessions'[r] # "none" <=> sessions[r] # "none"
  PROVE  CallbackOk(r)'
<1>1. CASE callback[r] = None
  BY <1>1 DEF CallbackOk, HasSession, At, Took
<1>2. CASE callback[r] # None
  <2>1. callback[r] \in Callback
    BY <1>2, CallbackTypes
  <2>2. callback[r].attempt \in Attempt
    BY <2>1 DEF Callback
  <2>3. login'[callback[r].attempt] = login[callback[r].attempt]
    BY <1>2, <2>2, ConsentKept DEF CallbackOk
  <2>4. spent \subseteq spent'
    BY SpentGrows
  <2> QED
    BY <1>2, <2>3, <2>4 DEF CallbackOk, HasSession, At, Took, Own, TeamOk
<1> QED
  BY <1>1, <1>2

\* A request that arrives; one let in carries the cookie of its own attempt.
LEMMA ArrivesOk ==
  ASSUME TypeOK, CookiesOk, CallbacksOk, [Next]_vars, NEW r \in Request, NEW b \in Browser, NEW a \in Attempt,
         CallbackAdmitted(r, b, a) \/ CallbackRefused(r, b, a)
  PROVE  CallbackOk(r)'
<1>1. PICK where \in {"exchange", "answer"}, result \in {"none", "auth_failed"} :
        /\ Arrives(r, b, a, where, result)
        /\ where = "exchange" => result = "none" /\ Admissible(b, a)
  BY DEF CallbackAdmitted, CallbackRefused
<1>2. callback'[r] = [browser |-> b, attempt |-> a, pre |-> preAuth[b], at |-> where,
                      result |-> result, to |-> Landing]
  BY <1>1, ArrivesTypes
<1>3. callback[r] = None /\ UNCHANGED <<login, sessions>> /\ login[a] # None /\ login[a].at \in {"consented", "denied"}
  BY <1>1 DEF Arrives
<1>4. ~HasSession(r)
  BY <1>3 DEF CallbacksOk, CallbackOk
<1>5. callback'[r] # None
  BY <1>2, CallbackStep, NoneAssumption, ArrivesTypes DEF TypeOK, Callback
<1>6. CASE where = "exchange"
  <2>1. preAuth[b] = a /\ login[a].at = "consented" /\ login[a].browser = b
    BY <1>1, <1>6 DEF Admissible, SameToken, CookiesOk
  <2> QED
    BY <1>2, <1>3, <1>4, <1>5, <1>6, <1>1, <2>1 DEF CallbackOk, HasSession, At, Took, Own
<1>7. CASE where = "answer"
  BY <1>2, <1>3, <1>4, <1>5, <1>7 DEF CallbackOk, HasSession, At, Took
<1> QED
  BY <1>1, <1>6, <1>7

\* A request at work in a handler, or answered.
LEMMA WorksOk ==
  ASSUME TypeOK, CallbacksOk, [Next]_vars, NEW r \in Request,
         \/ Exchange(r) \/ ExchangeFails(r) \/ Verify(r) \/ VerifyFails(r) \/ WrongTeam(r)
         \/ Create(r) \/ CreateFails(r) \/ Answered(r)
  PROVE  CallbackOk(r)' /\ callback[r] # None /\ callback'[r].attempt = callback[r].attempt
<1> DEFINE c == callback[r]
           Kept == /\ login'[callback[r].attempt] = login[callback[r].attempt]
                   /\ spent \subseteq spent'
<1>1. callback[r] # None
  BY DEF Exchange, ExchangeFails, Verify, VerifyFails, WrongTeam, Create, CreateFails, Answered, At
<1>2. callback[r] \in Callback /\ callback[r].attempt \in Attempt
  BY <1>1, CallbackTypes DEF Callback
<1>3. Kept
  BY <1>1, <1>2, ConsentKept, SpentGrows DEF CallbacksOk, CallbackOk
<1>4. CallbackOk(r)
  BY DEF CallbacksOk
<1>5. callback'[r] # None /\ callback'[r].attempt = callback[r].attempt
  <2>1. \/ \E where \in {"exchange", "verify", "create", "answer", "over"} : Goes(r, where)
        \/ \E result \in {"auth_failed", "not_in_workspace", "in"}, place \in Place \cup {Landing} : Ends(r, result, place)
    BY PlaceAssumption DEF Exchange, ExchangeFails, Verify, VerifyFails, WrongTeam, Create, CreateFails, Answered, Resolve
  <2>2. ASSUME NEW where \in {"exchange", "verify", "create", "answer", "over"}, Goes(r, where)
        PROVE  callback'[r] \in Callback /\ callback'[r].attempt = callback[r].attempt
    <3>1. callback'[r] = [callback[r] EXCEPT !.at = where]
      BY <1>1, <2>2, GoesTypes
    <3> QED
      BY <1>2, <3>1 DEF Callback
  <2>3. ASSUME NEW result \in {"auth_failed", "not_in_workspace", "in"}, NEW place \in Place \cup {Landing},
               Ends(r, result, place)
        PROVE  callback'[r] \in Callback /\ callback'[r].attempt = callback[r].attempt
    <3>1. callback'[r] = [callback[r] EXCEPT !.at = "answer", !.result = result, !.to = place]
      BY <2>3 DEF Ends, TypeOK
    <3> QED
      BY <1>2, <3>1 DEF Callback
  <2> QED
    BY <2>1, <2>2, <2>3, NoneAssumption
<1> HIDE DEF Kept
<1>6. CASE Exchange(r)
  <2>1. callback'[r] = [c EXCEPT !.at = "verify"] /\ sessions' = sessions /\ c.attempt \in spent'
    BY <1>1, <1>6, GoesTypes DEF Exchange
  <2>2. At(r, "exchange")
    BY <1>6 DEF Exchange
  <2>3. callback'[r].at = "verify" /\ callback'[r].attempt = c.attempt /\ callback'[r].pre = c.pre
        /\ callback'[r].browser = c.browser /\ callback'[r].result = c.result
    BY <1>2, <2>1 DEF Callback
  <2> QED
    BY <1>1, <1>3, <1>4, <1>5, <2>1, <2>2, <2>3 DEF Kept, CallbackOk, HasSession, At, Took, Own, TeamOk
<1>7. CASE Verify(r)
  <2>1. callback'[r] = [c EXCEPT !.at = "create"] /\ sessions' = sessions
    BY <1>1, <1>7, GoesTypes DEF Verify
  <2>2. At(r, "verify") /\ TeamOk(r)
    BY <1>7 DEF Verify
  <2>3. callback'[r].at = "create" /\ callback'[r].attempt = c.attempt /\ callback'[r].pre = c.pre
        /\ callback'[r].browser = c.browser /\ callback'[r].result = c.result
    BY <1>2, <2>1 DEF Callback
  <2> QED
    BY <1>1, <1>3, <1>4, <1>5, <2>1, <2>2, <2>3 DEF Kept, CallbackOk, HasSession, At, Took, Own, TeamOk
<1>8. CASE Create(r)
  <2>1. PICK place \in Place \cup {Landing} : Ends(r, "in", place)
    BY <1>8, PlaceAssumption DEF Create, Resolve
  <2>2. callback'[r] = [c EXCEPT !.at = "answer", !.result = "in", !.to = place]
    BY <1>1, <2>1, EndsTypes
  <2>3. callback'[r].at = "answer" /\ callback'[r].attempt = c.attempt /\ callback'[r].pre = c.pre
        /\ callback'[r].browser = c.browser
    BY <1>2, <2>2 DEF Callback
  <2>4. At(r, "create")
    BY <1>8 DEF Create
  <2> QED
    BY <1>1, <1>3, <1>4, <1>5, <2>3, <2>4 DEF Kept, CallbackOk, HasSession, At, Took, Own, TeamOk
<1>9. CASE ExchangeFails(r) \/ VerifyFails(r) \/ WrongTeam(r) \/ CreateFails(r)
  <2>1. PICK result \in {"auth_failed", "not_in_workspace", "in"} : Ends(r, result, Landing)
    BY <1>9 DEF ExchangeFails, VerifyFails, WrongTeam, CreateFails
  <2>2. callback'[r] = [c EXCEPT !.at = "answer", !.result = result, !.to = Landing]
    BY <2>1 DEF Ends, TypeOK
  <2>5. sessions' = sessions
    BY <1>9 DEF ExchangeFails, VerifyFails, WrongTeam, CreateFails
  <2>3. callback'[r].at = "answer" /\ callback'[r].attempt = c.attempt
    BY <1>2, <2>2 DEF Callback
  <2>4. At(r, "exchange") \/ At(r, "verify") \/ At(r, "create")
    BY <1>9 DEF ExchangeFails, VerifyFails, WrongTeam, CreateFails
  <2> QED
    BY <1>1, <1>3, <1>4, <1>5, <2>3, <2>4, <2>5 DEF Kept, CallbackOk, HasSession, At, Took
<1>10. CASE Answered(r)
  <2>1. callback'[r] = [c EXCEPT !.at = "over"] /\ sessions' = sessions
    BY <1>1, <1>10, GoesTypes DEF Answered
  <2>2. callback'[r].at = "over" /\ callback'[r].attempt = c.attempt /\ callback'[r].pre = c.pre
        /\ callback'[r].browser = c.browser
    BY <1>2, <2>1 DEF Callback
  <2> QED
    BY <1>1, <1>3, <1>4, <1>5, <2>1, <2>2 DEF Kept, CallbackOk, HasSession, At, Took, Own, TeamOk
<1> QED
  BY <1>1, <1>5, <1>6, <1>7, <1>8, <1>9, <1>10

\* One request moves and the others keep their records, or all end together.
LEMMA OneMoves ==
  ASSUME TypeOK, [Next]_vars, ~Restart
  PROVE  \/ callback' = callback
         \/ \E r \in Request :
              /\ \/ \E b \in Browser, a \in Attempt : CallbackAdmitted(r, b, a) \/ CallbackRefused(r, b, a)
                 \/ Exchange(r) \/ ExchangeFails(r) \/ Verify(r) \/ VerifyFails(r) \/ WrongTeam(r)
                 \/ Create(r) \/ CreateFails(r) \/ Answered(r)
              /\ \A s \in Request \ {r} : callback'[s] = callback[s]
<1>1. ASSUME NEW r \in Request,
             \/ \E b \in Browser, a \in Attempt : CallbackAdmitted(r, b, a) \/ CallbackRefused(r, b, a)
             \/ Exchange(r) \/ ExchangeFails(r) \/ Verify(r) \/ VerifyFails(r) \/ WrongTeam(r)
             \/ Create(r) \/ CreateFails(r) \/ Answered(r)
      PROVE  \A s \in Request \ {r} : callback'[s] = callback[s]
  BY <1>1 DEF CallbackAdmitted, CallbackRefused, Exchange, ExchangeFails, Verify, VerifyFails, WrongTeam,
              Create, CreateFails, Answered, Arrives, Goes, Ends, TypeOK
<1> QED
  BY <1>1, RequestCases

LEMMA RestartMoves ==
  ASSUME TypeOK, Restart, NEW r \in Request
  PROVE  /\ callback[r] = None => callback'[r] = None
         /\ callback[r] # None =>
              /\ callback'[r] # None /\ callback'[r].at = "over"
              /\ callback'[r].attempt = callback[r].attempt /\ callback'[r].pre = callback[r].pre
              /\ callback'[r].browser = callback[r].browser /\ callback'[r].result = callback[r].result
              /\ callback'[r].to = callback[r].to
<1>1. CASE callback[r] = None
  BY <1>1 DEF Restart
<1>2. CASE callback[r] # None
  <2>1. callback[r] \in Callback
    BY <1>2, CallbackTypes
  <2>2. callback'[r] = [callback[r] EXCEPT !.at = "over"]
    BY <1>2 DEF Restart
  <2>3. callback'[r] \in Callback
    BY <2>1, <2>2 DEF Callback
  <2> QED
    BY <1>2, <2>1, <2>2, <2>3, NoneAssumption DEF Callback
<1> QED
  BY <1>1, <1>2

LEMMA CallbacksStep ==
  ASSUME TypeOK, CookiesOk, IssuedOk, CallbacksOk, [Next]_vars
  PROVE  CallbacksOk'
<1> SUFFICES ASSUME NEW r \in Request PROVE CallbackOk(r)'
  BY DEF CallbacksOk
<1>1. CASE Create(r)
  BY <1>1, WorksOk
<1>2. ASSUME ~Create(r), callback'[r] = callback[r]
      PROVE  CallbackOk(r)'
  BY <1>2, SessionsStep, Frame DEF CallbacksOk, HasSession
<1>3. CASE Restart
  <2>1. CASE callback[r] = None
    BY <1>3, <2>1, RestartMoves DEF CallbacksOk, CallbackOk, HasSession, At, Took, Restart
  <2>2. CASE callback[r] # None
    <3>1. callback[r].attempt \in Attempt
      BY <2>2, CallbackTypes DEF Callback
    <3>2. CallbackOk(r) /\ login'[callback[r].attempt] = login[callback[r].attempt] /\ spent' = spent /\ sessions' = sessions
      BY <1>3, <2>2, <3>1, ConsentKept DEF CallbacksOk, CallbackOk, Restart
    <3> QED
      BY <1>3, <2>2, <3>2, RestartMoves DEF CallbackOk, HasSession, At, Took, Own, TeamOk
  <2> QED
    BY <2>1, <2>2
<1>4. ASSUME NEW s \in Request,
             \/ \E b \in Browser, a \in Attempt : CallbackAdmitted(s, b, a) \/ CallbackRefused(s, b, a)
             \/ Exchange(s) \/ ExchangeFails(s) \/ Verify(s) \/ VerifyFails(s) \/ WrongTeam(s)
             \/ Create(s) \/ CreateFails(s) \/ Answered(s)
      PROVE  CallbackOk(s)'
  BY <1>4, ArrivesOk, WorksOk
<1> QED
  BY <1>1, <1>2, <1>3, <1>4, OneMoves

\* Only Exchange makes a request one that has used a code up.
LEMMA TookStep ==
  ASSUME TypeOK, IssuedOk, CallbacksOk, [Next]_vars, NEW r \in Request, Took(r)'
  PROVE  /\ callback[r] # None /\ callback'[r].attempt = callback[r].attempt
         /\ Took(r) \/ Exchange(r)
<1>1. CASE Create(r)
  BY <1>1, WorksOk DEF Create, Took
<1>2. CASE Restart
  <2>1. HasSession(r)
    BY <1>2, RestartMoves DEF Took, At, HasSession, Restart
  <2>2. callback[r] # None
    BY <2>1 DEF CallbacksOk, CallbackOk
  <2> QED
    BY <1>2, <2>1, <2>2, RestartMoves DEF Took
<1>3. ASSUME ~Create(r), callback'[r] = callback[r]
      PROVE  callback[r] # None /\ Took(r)
  BY <1>3, SessionsStep DEF Took, At, HasSession, CallbacksOk, CallbackOk
<1>4. ASSUME NEW b \in Browser, NEW a \in Attempt, CallbackAdmitted(r, b, a) \/ CallbackRefused(r, b, a)
      PROVE  FALSE
  <2>1. PICK where \in {"exchange", "answer"}, result \in {"none", "auth_failed"} : Arrives(r, b, a, where, result)
    BY <1>4 DEF CallbackAdmitted, CallbackRefused
  <2>2. callback'[r].at = where /\ sessions' = sessions /\ callback[r] = None
    BY <2>1, ArrivesTypes DEF Arrives
  <2>3. ~HasSession(r)
    BY <2>2 DEF CallbacksOk, CallbackOk
  <2> QED
    BY <2>2, <2>3 DEF Took, At, HasSession
<1>5. ASSUME Verify(r) \/ Answered(r) \/ ExchangeFails(r) \/ VerifyFails(r) \/ WrongTeam(r) \/ CreateFails(r), ~Create(r)
      PROVE  callback[r] # None /\ callback'[r].attempt = callback[r].attempt /\ Took(r)
  <2>1. callback[r] # None /\ callback'[r].attempt = callback[r].attempt
    BY <1>5, WorksOk
  <2>2. callback[r] \in Callback
    BY <2>1, CallbackTypes
  <2>3. CASE Verify(r)
    BY <2>1, <2>3 DEF Verify, Took
  <2>4. CASE ~Verify(r)
    <3>1. callback'[r].at \in {"answer", "over"}
      <4>1. CASE Answered(r)
        BY <2>2, <4>1 DEF Answered, Goes, TypeOK, Callback
      <4>2. CASE ~Answered(r)
        <5>1. \E result \in {"auth_failed", "not_in_workspace"} : Ends(r, result, Landing)
          BY <1>5, <2>4, <4>2 DEF ExchangeFails, VerifyFails, WrongTeam, CreateFails
        <5> QED
          BY <2>2, <5>1 DEF Ends, TypeOK, Callback
      <4> QED
        BY <4>1, <4>2
    <3>2. HasSession(r)'
      BY <3>1 DEF Took, At
    <3>3. HasSession(r)
      BY <1>5, <3>2, SessionsStep
    <3> QED
      BY <2>1, <3>3 DEF Took
  <2> QED
    BY <2>1, <2>3, <2>4
<1>6. CASE Exchange(r)
  BY <1>6, WorksOk
<1> QED
  BY <1>1, <1>2, <1>3, <1>4, <1>5, <1>6, OneMoves

LEMMA OneTakerStep ==
  ASSUME TypeOK, IssuedOk, CallbacksOk, OneTaker, [Next]_vars
  PROVE  OneTaker'
<1> SUFFICES ASSUME NEW r \in Request, NEW s \in Request, Took(r)', Took(s)',
                    callback'[r].attempt = callback'[s].attempt
             PROVE  r = s
  BY DEF OneTaker, Took, HasSession, At
<1>1. callback[r].attempt = callback[s].attempt
  BY TookStep
<1>2. CASE Took(r) /\ Took(s)
  BY <1>1, <1>2 DEF OneTaker
\* The one that takes the code now finds it untaken, the other has taken it.
<1>3. ASSUME NEW t \in Request, NEW u \in Request, callback[t].attempt = callback[u].attempt,
             Exchange(t), Took(u)
      PROVE  FALSE
  BY <1>3 DEF Exchange, CallbacksOk, CallbackOk
<1>4. CASE Exchange(r) /\ Exchange(s)
  <2>1. callback[r] \in Callback /\ callback'[r] = [callback[r] EXCEPT !.at = "verify"]
    BY <1>4, CallbackTypes, GoesTypes DEF Exchange, At
  <2>2. callback'[r].at = "verify" /\ callback[r].at = "exchange"
    BY <1>4, <2>1 DEF Exchange, At, Callback
  <2>3. r # s => callback'[r] = callback[r]
    BY <1>4, GoesTypes DEF Exchange, At
  <2> QED
    BY <2>2, <2>3
<1> QED
  BY <1>1, <1>2, <1>3, <1>4, TookStep

\* A result is given once: "in" by Create, and kept with its place.
LEMMA ResultStep ==
  ASSUME TypeOK, [Next]_vars, NEW r \in Request, callback'[r] # None, callback'[r].result = "in", ~Create(r)
  PROVE  /\ callback[r] # None /\ callback[r].result = "in"
         /\ callback'[r].attempt = callback[r].attempt /\ callback'[r].to = callback[r].to
<1>1. CASE Restart
  BY <1>1, RestartMoves
<1>2. CASE callback'[r] = callback[r]
  BY <1>2
<1>3. ASSUME NEW b \in Browser, NEW a \in Attempt, CallbackAdmitted(r, b, a) \/ CallbackRefused(r, b, a)
      PROVE  FALSE
  <2>1. PICK where \in {"exchange", "answer"}, result \in {"none", "auth_failed"} : Arrives(r, b, a, where, result)
    BY <1>3 DEF CallbackAdmitted, CallbackRefused
  <2>2. callback'[r].result = result
    BY <2>1 DEF Arrives, TypeOK
  <2> QED
    BY <2>2
<1>4. ASSUME Exchange(r) \/ Verify(r) \/ Answered(r)
      PROVE  /\ callback[r] # None /\ callback[r].result = "in"
             /\ callback'[r].attempt = callback[r].attempt /\ callback'[r].to = callback[r].to
  <2>1. callback[r] # None
    BY <1>4 DEF Exchange, Verify, Answered, At
  <2>2. callback[r] \in Callback
    BY <2>1, CallbackTypes
  <2>3. PICK where \in {"verify", "create", "over"} : Goes(r, where)
    BY <1>4 DEF Exchange, Verify, Answered
  <2>4. callback'[r] = [callback[r] EXCEPT !.at = where]
    BY <2>3 DEF Goes, TypeOK
  <2> QED
    BY <2>1, <2>2, <2>4 DEF Callback
<1>5. ASSUME ExchangeFails(r) \/ VerifyFails(r) \/ WrongTeam(r) \/ CreateFails(r)
      PROVE  FALSE
  <2>1. PICK result \in {"auth_failed", "not_in_workspace"} : Ends(r, result, Landing)
    BY <1>5 DEF ExchangeFails, VerifyFails, WrongTeam, CreateFails
  <2>2. callback[r] \in Callback
    BY <1>5, CallbackTypes DEF ExchangeFails, VerifyFails, WrongTeam, CreateFails, At
  <2>3. callback'[r] = [callback[r] EXCEPT !.at = "answer", !.result = result, !.to = Landing]
    BY <2>1 DEF Ends, TypeOK
  <2> QED
    BY <2>2, <2>3 DEF Callback
<1> QED
  BY <1>1, <1>2, <1>3, <1>4, <1>5, OneMoves

LEMMA IssuedStep ==
  ASSUME TypeOK, IssuedOk, [Next]_vars
  PROVE  IssuedOk'
<1>1. ASSUME NEW r \in Request, callback'[r] # None, callback'[r].result = "in"
      PROVE  sessions'[r] # "none"
  <2>1. CASE Create(r)
    BY <2>1 DEF Create, TypeOK
  <2>2. CASE ~Create(r)
    BY <1>1, <2>2, ResultStep, SessionsStep DEF IssuedOk, HasSession
  <2> QED
    BY <2>1, <2>2
<1>2. ASSUME NEW b \in Browser, cookie'[b] # None
      PROVE  sessions'[cookie'[b]] # "none"
  <2>1. CASE cookie'[b] = cookie[b]
    <3>1. cookie[b] \in Request /\ HasSession(cookie[b])
      BY <1>2, <2>1 DEF IssuedOk, TypeOK
    <3> QED
      BY <2>1, <3>1, SessionsStep DEF HasSession
  <2>2. CASE cookie'[b] # cookie[b]
    <3>1. PICK r \in Request : Answered(r)
      <4>1. ASSUME NEW d \in Browser, PreAuthExpires(d) \/ HandleLogout(d) \/ HandleLogoutFails(d) \/ Clear(d) \/ Touch(d)
            PROVE  cookie'[b] = cookie[b] \/ cookie'[b] = None
        BY <4>1 DEF PreAuthExpires, HandleLogout, HandleLogoutFails, Clear, Touch, TypeOK
      <4>2. ASSUME NEW a \in Attempt, \/ \E d \in Browser, p \in Place : HandleLogin(d, a, p)
                                      \/ SetPreAuth(a) \/ Deny(a) \/ \E u \in Account : Consent(a, u)
            PROVE  cookie' = cookie
        BY <4>2 DEF HandleLogin, SetPreAuth, Deny, Consent
      <4>3. ASSUME NEW r \in Request,
                   \/ \E d \in Browser, a \in Attempt : CallbackAdmitted(r, d, a) \/ CallbackRefused(r, d, a)
                   \/ Exchange(r) \/ ExchangeFails(r) \/ Verify(r) \/ VerifyFails(r) \/ WrongTeam(r)
                   \/ Create(r) \/ CreateFails(r) \/ FirstDeadline(r) \/ RowEnds(r)
            PROVE  cookie'[b] = cookie[b] \/ cookie'[b] = None
        BY <4>3 DEF CallbackAdmitted, CallbackRefused, Arrives, Exchange, ExchangeFails, Verify, VerifyFails,
                    WrongTeam, Create, CreateFails, FirstDeadline, RowEnds
      <4>4. VerifierReady \/ Restart \/ UNCHANGED vars => cookie' = cookie
        BY DEF VerifierReady, Restart, vars
      <4>5. HandleCallback => (\E r \in Request : Answered(r)) \/ cookie'[b] = cookie[b] \/ cookie'[b] = None
        BY <4>3 DEF HandleCallback
      <4> QED
        BY <1>2, <2>2, <4>1, <4>2, <4>4, <4>5 DEF Next
    <3>2. cookie'[b] = r /\ callback[r] # None /\ callback[r].result = "in" /\ sessions' = sessions
      BY <2>2, <3>1 DEF Answered, At, TypeOK
    <3> QED
      BY <3>2 DEF IssuedOk, HasSession
  <2> QED
    BY <2>1, <2>2
<1> QED
  BY <1>1, <1>2 DEF IssuedOk, HasSession

LEMMA LandedStep ==
  ASSUME TypeOK, LoginsOk, CallbacksOk, IssuedOk, Landed, [Next]_vars
  PROVE  Landed'
<1> SUFFICES ASSUME NEW r \in Request, callback'[r] # None, callback'[r].result = "in"
             PROVE  callback'[r].to = Resolve(login'[callback'[r].attempt].asked)
  BY DEF Landed, Resolve
<1>1. callback[r] # None /\ callback'[r].attempt = callback[r].attempt
  BY ResultStep, WorksOk
<1>2. callback[r] \in Callback /\ callback[r].attempt \in Attempt
  BY <1>1, CallbackTypes DEF Callback
<1>3. login'[callback[r].attempt] = login[callback[r].attempt] /\ login[callback[r].attempt] # None
  BY <1>1, <1>2, ConsentKept DEF CallbacksOk, CallbackOk
<1>4. CASE Create(r)
  <2>1. callback[r].pre = callback[r].attempt
    BY <1>4 DEF Create, CallbacksOk, CallbackOk, Took, Own
  <2>2. callback'[r].to = Resolve(login[callback[r].pre].returnTo)
    <3>1. Ends(r, "in", Resolve(login[callback[r].pre].returnTo))
      BY <1>4 DEF Create
    <3>2. Resolve(login[callback[r].pre].returnTo) \in Place \cup {Landing}
      BY PlaceAssumption DEF Resolve
    <3>3. callback'[r] = [callback[r] EXCEPT !.at = "answer", !.result = "in", !.to = Resolve(login[callback[r].pre].returnTo)]
      BY <3>1 DEF Ends, TypeOK
    <3> QED
      BY <1>2, <3>3 DEF Callback
  <2>3. login[callback[r].attempt].returnTo = Resolve(login[callback[r].attempt].asked)
    BY <1>2, <1>3 DEF LoginsOk
  <2>4. login[callback[r].attempt].asked \in Place
    BY <1>2, <1>3, LoginTypes DEF Login
  <2> QED
    BY <1>1, <1>3, <2>1, <2>2, <2>3, <2>4, ResolveTypes
<1>5. CASE ~Create(r)
  BY <1>1, <1>3, <1>5, ResultStep DEF Landed
<1> QED
  BY <1>4, <1>5

-----------------------------------------------------------------------------
(* The theorems.                                                           *)

\* IInv holds in every state, for any number of browsers, sign-ins, requests
\* and restarts.
THEOREM Inductive == Spec => []IInv
<1>1. IInv /\ [Next]_vars => IInv'
  BY TypeStep, CookiesStep, IssuedStep, LoginsStep, CallbacksStep, OneTakerStep, LandedStep DEF IInv
<1> QED
  BY <1>1, InitInv, PTL DEF Spec

\* A session is one a member consented to, in a sign-in of the browser that
\* was given it.
THEOREM SessionsAreConsented == Spec => []OwnConsent
<1>1. IInv => OwnConsent
  <2> SUFFICES ASSUME IInv, NEW r \in Request, HasSession(r)
               PROVE  LET l == login[callback[r].attempt] IN
                      l # None /\ l.browser = callback[r].browser /\ l.account \in Member
    BY DEF OwnConsent
  <2>1. CallbackOk(r)
    BY DEF IInv, CallbacksOk
  <2> QED
    BY <2>1 DEF CallbackOk, Took, Own, TeamOk
<1> QED
  BY <1>1, Inductive, PTL

\* One consent makes at most one session.
THEOREM ConsentIsSpentOnce == Spec => []OnePerConsent
<1>1. IInv => OnePerConsent
  BY DEF IInv, OneTaker, OnePerConsent, Took
<1> QED
  BY <1>1, Inductive, PTL

\* A successful sign-in is redirected to where its own attempt asked to go,
\* when that is valid, and to the landing page when it is not.
THEOREM SignInLands == Spec => []LandsWhereAsked
<1>1. IInv => LandsWhereAsked
  BY DEF IInv, Landed, LandsWhereAsked, Resolve
<1> QED
  BY <1>1, Inductive, PTL

=============================================================================
