-------------------------------- MODULE Edge --------------------------------
(***************************************************************************)
(* The HTTP side of the process as a browser sees it: the configuration it *)
(* starts from, the dispatcher, the host map, the redirect to the sign-in  *)
(* card, the rate limiters before the handlers of a sign-in, the redirect  *)
(* back, the Domain of the session cookie, and the request an app gets.    *)
(*                                                                         *)
(* How a request is decided is HotPath's, how a sign-in fails OidcLogin's, *)
(* when a row ends SessionStore's.  A request that finds no process is      *)
(* repeated; a name that points elsewhere is answered as an unknown host.  *)
(***************************************************************************)
EXTENDS RateLimiter, Sequences

CONSTANTS
  RoleName, MaxPort, MaxRange, DefaultLifetime, DefaultIdle,  \* of Config
  Client,
  Address,  \* per client, the host part of RemoteAddr
  Person,   \* per client, the user row of whoever sits there
  Env,
  URL,      \* what a client may ask for
  ReturnTo, \* and what it may name as return_to, or None
  Inbound,  \* requests as httputil.ReverseProxy hands them to Rewrite
  Secret,
  MaxRestarts

INSTANCE Config

ASSUME KeyAssumption == Key = {"login", "callback"} \X {Address[c] : c \in Client}

ASSUME BoundAssumption == MaxRestarts \in Nat

\* A fact of TLA+ that has to be said.
ASSUME TextAssumption == {"https", "."} \subseteq STRING

ASSUME EnvAssumption == \A e \in Env :
  /\ e.base # None => e.base \in Seq(STRING)
  /\ e.auth # None => e.auth \in HostType
  /\ e.landing # None => e.landing \in URLType
  /\ e.upstreams \in Seq(Entry) /\ e.ssh \in Seq(SSHEntry)

ASSUME URLAssumption ==
  /\ URL \subseteq URLType /\ ReturnTo \subseteq URLType \cup {None}
  /\ None \notin URLType /\ None \notin Seq(STRING)

\* The mark of an encoded name is no byte of a name.
ASSUME PersonAssumption ==
  \A c \in Client : Person[c].name \in Seq(STRING \ {"UTF-8''"})

ASSUME InboundAssumption == \A in \in Inbound :
  in = [header |-> in.header, announced |-> in.announced,
        trailer |-> in.trailer, cookies |-> in.cookies]

VARIABLES
  env,
  process,  \* "down", "serving" or "failed"
  table,    \* HostMap
  ports,    \* the ports of the SSH server, and where they lead
  client,   \* per client, where the browser is, what was asked, where it goes
  session,  \* per client, the row of its last sign-in
  cookie,   \* per client, the Domain of its forge_session cookie
  answer,   \* per client, the last page, or where the callback led it
  restarts

browserVars == <<client, session, cookie, answer>>
serverVars == <<env, process, table, ports, restarts>>
vars == <<limiterVars, browserVars, serverVars>>

At(c, where) == client[c].at = where
Moves(c, where, asked, to) ==
  client' = [client EXCEPT ![c] = [at |-> where, asked |-> asked, to |-> to]]
Idle == [at |-> "idle", asked |-> None, to |-> None]
Gets(c, page) ==
  /\ client' = [client EXCEPT ![c] = Idle]
  /\ answer' = [answer EXCEPT ![c] = page]
Page(kind, host) == [kind |-> kind, host |-> host]

EdgeTypeOK ==
  /\ env \in Env /\ process \in {"down", "serving", "failed"} /\ restarts \in 0..MaxRestarts
  /\ client \in [Client -> [at : {"idle", "request", "card", "login", "slack", "callback"},
                            asked : URLType \cup {None}, to : URLType \cup {None}]]
  /\ session \in [Client -> {"none", "live", "gone"}]
  /\ cookie \in [Client -> Seq(STRING) \cup {None}]
  /\ answer = [c \in Client |-> answer[c]]
  /\ \A c \in Client :
       /\ At(c, "request") \/ At(c, "card") => client[c].asked # None
       /\ At(c, "slack") \/ At(c, "callback") => client[c].to # None
       /\ cookie[c] # None => session[c] # "none"

Init ==
  /\ LimiterInit
  /\ env \in Env
  /\ process = "down" /\ table = <<>> /\ ports = <<>> /\ restarts = 0
  /\ client = [c \in Client |-> Idle]
  /\ session = [c \in Client |-> "none"]
  /\ cookie = [c \in Client |-> None]
  /\ answer = [c \in Client |-> None]

-----------------------------------------------------------------------------
(* The process.                                                            *)

Start ==
  /\ process = "down" /\ Load(env)
  /\ process' = "serving"
  /\ table' \in NewHostMap(parseUpstreams(env.upstreams).map)
  /\ ports' = IF env.ssh = <<>> THEN <<>> ELSE parseSSHUpstreams(env.ssh).map
  /\ UNCHANGED <<limiterVars, browserVars, env, restarts>>

RefusesToStart ==
  /\ process = "down" /\ ~Load(env)
  /\ process' = "failed"
  /\ UNCHANGED <<limiterVars, browserVars, env, table, ports, restarts>>

\* The limiters are of the process.
Stop ==
  /\ process = "serving" /\ restarts < MaxRestarts /\ restarts' = restarts + 1
  /\ process' = "down" /\ table' = <<>> /\ ports' = <<>>
  /\ Forget
  /\ UNCHANGED <<browserVars, env>>

-----------------------------------------------------------------------------
(* The browser's cookies.                                                  *)

\* The last labels of a name are those of a domain.
Within(name, domain) ==
  \E i \in DOMAIN name : (i # 1 => name[i - 1] = ".") /\ SubSeq(name, i, Len(name)) = TrimDot(domain)

\* A cookie is accepted from, and sent to, the hosts of its domain.
Sends(c, host) == cookie[c] # None /\ Within(host.name, cookie[c])
SignedIn(c, host) == Sends(c, host) /\ session[c] = "live"

-----------------------------------------------------------------------------
(* Requests.                                                               *)

Visit(c, url) ==
  /\ At(c, "idle")
  /\ Moves(c, "request", url, None)
  /\ answer' = [answer EXCEPT ![c] = None]
  /\ UNCHANGED <<limiterVars, serverVars, session, cookie>>

Host(c) == client[c].asked.host
Serves(c) == process = "serving" /\ At(c, "request")
ToAuthHost(c) == NormalizeHost(Host(c)) = NormalizeHost(env.auth)
ToProxy(c) == Serves(c) /\ ~ToAuthHost(c)
Resolves(c) == NormalizeHost(Host(c)) \in DOMAIN table
Upstream(c) == table[NormalizeHost(Host(c))]

\* "/" of the auth host, of someone who came without a return_to.
Portal(c) ==
  /\ Serves(c) /\ ToAuthHost(c)
  /\ Gets(c, Page("portal", Host(c)))
  /\ UNCHANGED <<limiterVars, serverVars, session, cookie>>

writeUnknownHost(c) ==
  /\ ToProxy(c) /\ ~Resolves(c)
  /\ Gets(c, Page("unknown", Host(c)))
  /\ UNCHANGED <<limiterVars, serverVars, session, cookie>>

\* return_to is put together from the Host header as it came; it leads to
\* the sign-in card of the auth host.
redirectToLogin(c) ==
  /\ ToProxy(c) /\ Resolves(c) /\ ~SignedIn(c, Host(c))
  /\ Moves(c, "card", Https(Host(c)), None)
  /\ UNCHANGED <<limiterVars, serverVars, session, cookie, answer>>

writeRoleDenied(c) ==
  /\ ToProxy(c) /\ Resolves(c) /\ SignedIn(c, Host(c)) /\ ~Permits(Upstream(c), Person[c].roles)
  /\ Gets(c, Page("denied", Host(c)))
  /\ UNCHANGED <<limiterVars, serverVars, session, cookie>>

-----------------------------------------------------------------------------
(* The request an app gets.                                                *)

\* A byte of a header, percent-encoded or not.
Plain(b) == [byte |-> b, pct |-> FALSE]
Ascii(b) == b # "hi"
Encode(b) == [byte |-> b, pct |-> b # "a"]
encodeDisplayName(name) ==
  IF \A i \in DOMAIN name : Ascii(name[i]) THEN [i \in DOMAIN name |-> Plain(name[i])]
  ELSE <<Plain("UTF-8''")>> \o [i \in DOMAIN name |-> Encode(name[i])]

\* The nine headers: the others are copied as these are.
Contract(u) ==
  [h \in {"X-Forge-Proxy-Secret", "X-Forge-Roles", "X-Forge-Name"} |->
     CASE h = "X-Forge-Proxy-Secret" -> <<"secret", Secret>>
       [] h = "X-Forge-Roles" -> <<"roles", u.roles>>
       [] h = "X-Forge-Name" -> <<"name", encodeDisplayName(u.name)>>]

\* Names with the prefix, one of them not in the contract.
ForgeHeader == {"X-Forge-Proxy-Secret", "X-Forge-Roles", "X-Forge-Name", "X-Forge-Next"}
Without(f, names) == [h \in DOMAIN f \ names |-> f[h]]

BugStripForgeHeaders(out) ==
  [out EXCEPT !.header = Without(@, ForgeHeader), !.announced = @ \ ForgeHeader,
              !.cookies = @ \ {"forge_session"}]
stripForgeHeaders(out) ==
  [out EXCEPT !.header = Without(@, ForgeHeader), !.announced = @ \ ForgeHeader,
              !.trailer = Without(@, ForgeHeader), !.cookies = @ \ {"forge_session"}]
injectForgeHeaders(out, u) ==
  [out EXCEPT !.header = Extend(@, DOMAIN Contract(u), LAMBDA h : Contract(u)[h])]

rewrite(in, u) == injectForgeHeaders(stripForgeHeaders(in), u)

\* What the browser adds to it.
WithSession(in) == [in EXCEPT !.cookies = @ \cup {"forge_session"}]

Forward(c, in) ==
  /\ ToProxy(c) /\ Resolves(c) /\ SignedIn(c, Host(c)) /\ Permits(Upstream(c), Person[c].roles)
  /\ Gets(c, [kind |-> "app", host |-> Host(c), target |-> Upstream(c).target,
              came |-> in, sent |-> rewrite(WithSession(in), Person[c])])
  /\ UNCHANGED <<limiterVars, serverVars, session, cookie>>

-----------------------------------------------------------------------------
(* Signing in.                                                             *)

\* The card asks /auth/me, and links to /auth/login with its return_to.
Continue(c) ==
  /\ process = "serving" /\ At(c, "card") /\ ~SignedIn(c, env.auth)
  /\ Moves(c, "login", client[c].asked, None)
  /\ UNCHANGED <<limiterVars, serverVars, session, cookie, answer>>

CardIsPortal(c) ==
  /\ process = "serving" /\ At(c, "card") /\ SignedIn(c, env.auth)
  /\ Gets(c, Page("portal", env.auth))
  /\ UNCHANGED <<limiterVars, serverVars, session, cookie>>

\* Or someone follows a link to /auth/login.
FollowLink(c, url) ==
  /\ At(c, "idle")
  /\ Moves(c, "login", url, None)
  /\ answer' = [answer EXCEPT ![c] = None]
  /\ UNCHANGED <<limiterVars, serverVars, session, cookie>>

LetIn(k) == AllowFresh(k) \/ Allow(k)

HandleLogin(c) ==
  /\ process = "serving" /\ At(c, "login")
  /\ LetIn(<<"login", Address[c]>>)
  /\ Moves(c, "slack", client[c].asked, resolveReturnTo(client[c].asked, env))
  /\ UNCHANGED <<serverVars, session, cookie, answer>>

\* RateLimitMiddleware's 429.
TooManyRequests(c) ==
  /\ process = "serving" /\ client[c].at \in {"login", "callback"}
  /\ Refuse(<<client[c].at, Address[c]>>)
  /\ Gets(c, Page("429", env.auth))
  /\ UNCHANGED <<serverVars, session, cookie>>

Consent(c) ==
  /\ At(c, "slack")
  /\ client' = [client EXCEPT ![c].at = "callback"]
  /\ UNCHANGED <<limiterVars, serverVars, session, cookie, answer>>

Abandon(c) ==
  /\ At(c, "slack")
  /\ client' = [client EXCEPT ![c] = Idle]
  /\ UNCHANGED <<limiterVars, serverVars, session, cookie, answer>>

\* A success: the cookie is the browser's if the auth host is in its Domain.
HandleCallback(c) ==
  LET to == resolveReturnTo(client[c].to, env) IN
  /\ process = "serving" /\ At(c, "callback")
  /\ LetIn(<<"callback", Address[c]>>)
  /\ session' = [session EXCEPT ![c] = "live"]
  /\ cookie' = [cookie EXCEPT ![c] =
       IF Within(env.auth.name, CookieDomain(env)) THEN CookieDomain(env) ELSE @]
  /\ answer' = [answer EXCEPT ![c] = [kind |-> "back", asked |-> client[c].asked, to |-> to]]
  /\ Moves(c, "request", to, None)
  /\ UNCHANGED serverVars

HandleLogout(c) ==
  /\ process = "serving" /\ At(c, "idle") /\ SignedIn(c, env.auth)
  /\ session' = [session EXCEPT ![c] = "gone"]
  /\ cookie' = [cookie EXCEPT ![c] = IF @ = CookieDomain(env) THEN None ELSE @]
  /\ UNCHANGED <<limiterVars, serverVars, client, answer>>

\* The row expires, or an operator ends it.
SessionEnds(c) ==
  /\ session[c] = "live"
  /\ session' = [session EXCEPT ![c] = "gone"]
  /\ UNCHANGED <<limiterVars, serverVars, client, cookie, answer>>

-----------------------------------------------------------------------------
Browses(c) ==
  \/ \E url \in URL : Visit(c, url)
  \/ Portal(c) \/ writeUnknownHost(c) \/ redirectToLogin(c) \/ writeRoleDenied(c)
  \/ \E in \in Inbound : Forward(c, in)

SignsIn(c) ==
  \/ Continue(c) \/ CardIsPortal(c) \/ (\E url \in ReturnTo : FollowLink(c, url))
  \/ HandleLogin(c) \/ TooManyRequests(c) \/ Consent(c) \/ Abandon(c) \/ HandleCallback(c)
  \/ HandleLogout(c) \/ SessionEnds(c)

Passes ==
  /\ Tick \/ \E k \in Key : Watch(k)
  /\ UNCHANGED <<browserVars, serverVars>>

Next ==
  \/ Start \/ RefusesToStart \/ Stop \/ Passes
  \/ \E c \in Client : Browses(c) \/ SignsIn(c)

Spec == Init /\ [][Next]_vars

-----------------------------------------------------------------------------
(* The inductive invariant, with LimiterInv and RoutesAsConfigured.        *)

\* A process serves what its environment says.
TableIsOfEnv ==
  process = "serving" =>
    /\ Load(env)
    /\ table \in NewHostMap(parseUpstreams(env.upstreams).map)
    /\ ports = IF env.ssh = <<>> THEN <<>> ELSE parseSSHUpstreams(env.ssh).map

\* What was asked for goes along to Slack and back.
Accompanied(c) ==
  At(c, "slack") \/ At(c, "callback") =>
    /\ Load(env)
    /\ client[c].to = resolveReturnTo(client[c].asked, env)

\* A live session has its cookie, if the auth host may set it.
CookieFits(c) ==
  session[c] = "live" /\ Within(env.auth.name, CookieDomain(env)) => cookie[c] = CookieDomain(env)

Remembered(c) ==
  LET a == answer[c] IN
  answer[c] # None =>
    /\ a.kind = "back" => /\ Load(env) /\ a.asked \in URLType \cup {None}
                          /\ a.to = resolveReturnTo(a.asked, env)
    /\ a.kind = "app" => a.came \in Inbound /\ a.sent = rewrite(WithSession(a.came), Person[c])

EdgeInv ==
  /\ EdgeTypeOK /\ TableIsOfEnv
  /\ \A c \in Client : Accompanied(c) /\ CookieFits(c) /\ Remembered(c)

-----------------------------------------------------------------------------
(* Properties.                                                             *)

\* The lines of UPSTREAMS that name a host; one that names a port as well
\* names nothing, since the port of a request is taken away.
Lines(host) ==
  {i \in DOMAIN env.upstreams :
     LET h == env.upstreams[i].host IN h # None /\ h.port = 0 /\ h.name = host.name}

\* Whatever the case of names in UPSTREAMS and in the Host header, whatever
\* port the latter has, and after whatever restart: a host the operator has
\* a line for is never unknown, exactly one line is its own, and that line's
\* roles decide and that line's app answers.
RoutesAsConfigured ==
  \A c \in Client : answer[c] # None =>
    LET a == answer[c] IN
    /\ a.kind = "unknown" => Lines(a.host) = {}
    /\ a.kind \in {"app", "denied"} => \E i \in DOMAIN env.upstreams :
         /\ Lines(a.host) = {i}
         /\ a.kind = "app" <=> Permits(env.upstreams[i], Person[c].roles)
         /\ a.kind = "app" => a.target = env.upstreams[i].url.host

\* Every port an SSH_UPSTREAMS line names, alone or in a range, is served, as
\* that line says and no other does; a range keeps the port it came in on.
SshPortsAsConfigured ==
  process = "serving" => \A p \in 0..(MaxPort + 1) :
    LET lines == {i \in DOMAIN env.ssh : p \in env.ssh[i].lo..env.ssh[i].hi} IN
    /\ p \in DOMAIN ports <=> lines # {}
    /\ p \in DOMAIN ports => \E i \in lines :
         LET e == env.ssh[i] IN
         /\ lines = {i}
         /\ ports[p] = [host |-> e.target.host, roles |-> e.roles,
                        port |-> IF e.isRange THEN p ELSE e.target.port]

\* What the operator's lines say is what the server does, for web and SSH.
ServesAsConfigured == RoutesAsConfigured /\ SshPortsAsConfigured

\* A sign-in leads to what was asked for when that is an https host of
\* BASE_DOMAIN, on the usual port and in plain letters, and otherwise to the
\* landing page: through the app's redirect, the card, the pre-auth cookie
\* and the callback, and after a restart between them.
ComesBack ==
  \A c \in Client : answer[c] # None /\ answer[c].kind = "back" =>
    LET asked == answer[c].asked
        safe == /\ asked # None /\ asked.scheme = "https" /\ ~asked.userinfo
                /\ Within(asked.host.name, env.base) /\ ~HasIdnLabel(asked.host.name)
                /\ asked.host.port \in {0, 443}
    IN answer[c].to = IF safe THEN asked ELSE DefaultLandingURL(env)

\* One sign-in is good for every app of BASE_DOMAIN: while the session lasts
\* no app sends the browser to sign in again, so that no redirect goes round
\* in a circle, however BASE_DOMAIN is written.
OneSignIn ==
  [][\A c \in Client : At(c, "request") /\ client'[c].at = "card" =>
       ~(session[c] = "live" /\ Within(env.auth.name, env.base)
         /\ Within(Host(c).name, env.base))]_vars

\* Decoded as an app decodes it.
Decoded(wire) ==
  IF wire # <<>> /\ wire[1] = Plain("UTF-8''")
  THEN [i \in 1..(Len(wire) - 1) |-> wire[i + 1].byte]
  ELSE [i \in DOMAIN wire |-> wire[i].byte]

\* Whatever a client sends in headers, trailers and cookies, an app sees
\* under the names of the contract what the proxy says and nothing else, the
\* name of the user decodes to what it is and is ASCII on the way, the
\* session's ID stays behind, and everything else arrives.
OnlyTrustedHeaders ==
  \A c \in Client : answer[c] # None /\ answer[c].kind = "app" =>
    LET in == answer[c].came
        out == answer[c].sent
        forge == DOMAIN out.header \cap ForgeHeader
        wire == out.header["X-Forge-Name"][2]
    IN /\ forge = {"X-Forge-Proxy-Secret", "X-Forge-Roles", "X-Forge-Name"}
       /\ out.header["X-Forge-Proxy-Secret"] = <<"secret", Secret>>
       /\ out.header["X-Forge-Roles"] = <<"roles", Person[c].roles>>
       /\ Decoded(wire) = Person[c].name
       /\ \A i \in DOMAIN wire : wire[i].pct \/ Ascii(wire[i].byte)
       /\ (out.announced \cup DOMAIN out.trailer) \cap ForgeHeader = {}
       /\ out.cookies = in.cookies \ {"forge_session"}
       /\ out.announced = in.announced \ ForgeHeader
       /\ Without(out.header, ForgeHeader) = Without(in.header, ForgeHeader)
       /\ \A h \in DOMAIN in.trailer \ ForgeHeader :
            h \in DOMAIN out.trailer /\ out.trailer[h] = in.trailer[h]
=============================================================================
