------------------------------- MODULE Config -------------------------------
(***************************************************************************)
(* What an environment means: internal/config, the host map of             *)
(* internal/proxy, and the return_to rule of internal/auth.                *)
(*                                                                         *)
(* A domain name is a sequence of parts, the dots between its labels among *)
(* them, so that a suffix need not begin at a label.  A host is a name     *)
(* written in lower or in upper case, with a port or without (0).  A line  *)
(* of UPSTREAMS or SSH_UPSTREAMS is a record of its fields; a field that   *)
(* is not there, or an empty one, is None.                                 *)
(***************************************************************************)
EXTENDS Naturals, Sequences

CONSTANTS
  RoleName,  \* texts roleNameRe matches
  MaxPort,   \* 65535
  MaxRange,  \* maxSSHPortRange
  DefaultLifetime, DefaultIdle,
  None

\* Names may be empty; port 0 is none, in a host and in a target.
HostType == [name : Seq(STRING), upper : BOOLEAN, port : Nat]
URLType == [scheme : STRING, userinfo : BOOLEAN, host : HostType]
RolesType == (SUBSET STRING) \cup {None}
UpstreamURL == [scheme : STRING, host : STRING \cup {None}, comma : BOOLEAN]
Entry == [host : HostType \cup {None}, url : UpstreamURL \cup {None}, roles : RolesType]
SSHEntry ==
  [lo : Nat, hi : Nat, isRange : BOOLEAN, roles : RolesType,
   target : [host : STRING, port : Nat] \cup {None}]

-----------------------------------------------------------------------------
(* Hosts.                                                                  *)

ToLower(h) == [h EXCEPT !.upper = FALSE]
NormalizeHost(h) == [ToLower(h) EXCEPT !.port = 0]

\* strings.HasSuffix
EndsIn(name, tail) ==
  Len(tail) <= Len(name) /\ SubSeq(name, Len(name) - Len(tail) + 1, Len(name)) = tail
TrimDot(name) == IF name # <<>> /\ Head(name) = "." THEN Tail(name) ELSE name

-----------------------------------------------------------------------------
(* UPSTREAMS.  A parser returns a map and whether there was no error.      *)

Parsed(m) == [ok |-> TRUE, map |-> m]
Failed == [ok |-> FALSE, map |-> <<>>]
NonEmpty(result) == IF DOMAIN result.map = {} THEN Failed ELSE result

RolesOk(roles) == roles # {} /\ roles \subseteq RoleName

\* A URL with a comma in it is what an entry of the old format looks like.
EntryOk(e) ==
  /\ e.host # None /\ e.url # None
  /\ ~e.url.comma /\ e.url.scheme \in {"http", "https"} /\ e.url.host # None
  /\ e.roles # None => RolesOk(e.roles)

EntryHost(e) == ToLower(e.host)

Extend(m, keys, Value(_)) ==
  [k \in DOMAIN m \cup keys |-> IF k \in keys THEN Value(k) ELSE m[k]]

Blank(e) == e.host = None /\ e.url = None /\ e.roles = None

\* One turn of the parser's loop: after an error it has returned.
AddEntry(result, e) ==
  IF ~result.ok \/ Blank(e) THEN result
  ELSE IF ~EntryOk(e) \/ EntryHost(e) \in DOMAIN result.map THEN Failed
  ELSE Parsed(Extend(result.map, {EntryHost(e)},
                     LAMBDA h : [target |-> e.url.host, roles |-> e.roles]))

parseUpstreams(raw) ==
  LET after[i \in 0 .. Len(raw)] == IF i = 0 THEN Parsed(<<>>) ELSE AddEntry(after[i - 1], raw[i])
  IN  NonEmpty(after[Len(raw)])

\* One of the maps NewHostMap may make: when two hosts differ in their case
\* only, the order Go ranges in decides.
NewHostMap(m) ==
  LET keys == {ToLower(h) : h \in DOMAIN m} IN
  {t \in [keys -> {m[h] : h \in DOMAIN m}] :
     \A k \in keys : \E h \in DOMAIN m : ToLower(h) = k /\ t[k] = m[h]}

Permits(entry, roles) == entry.roles # None => entry.roles \cap roles # {}

-----------------------------------------------------------------------------
(* SSH_UPSTREAMS.                                                          *)

PortSpecOk(e) ==
  /\ {e.lo, e.hi} \subseteq 1..MaxPort /\ e.lo <= e.hi
  /\ e.hi - e.lo + 1 <= MaxRange

\* A range keeps the port, so its target names none; a single port's does.
SSHEntryOk(e) ==
  /\ PortSpecOk(e)
  /\ e.roles # None /\ RolesOk(e.roles)
  /\ e.target # None
  /\ e.isRange <=> e.target.port = 0

SSHTarget(e, p) ==
  [host |-> e.target.host, port |-> IF e.isRange THEN p ELSE e.target.port, roles |-> e.roles]

BugAddSSHEntry(result, e) ==
  IF ~result.ok THEN result
  ELSE IF ~SSHEntryOk(e) \/ e.lo \in DOMAIN result.map THEN Failed
  ELSE Parsed(Extend(result.map, e.lo .. e.hi, LAMBDA p : SSHTarget(e, p)))
AddSSHEntry(result, e) ==
  IF ~result.ok THEN result
  ELSE IF ~SSHEntryOk(e) \/ DOMAIN result.map \cap (e.lo .. e.hi) # {} THEN Failed
  ELSE Parsed(Extend(result.map, e.lo .. e.hi, LAMBDA p : SSHTarget(e, p)))

parseSSHUpstreams(raw) ==
  LET after[i \in 0 .. Len(raw)] == IF i = 0 THEN Parsed(<<>>) ELSE AddSSHEntry(after[i - 1], raw[i])
  IN  NonEmpty(after[Len(raw)])

-----------------------------------------------------------------------------
(* The rest of the environment.                                            *)

\* getenvDuration: what does not parse is not noticed.
Duration(v, fallback) == IF v = None THEN fallback ELSE v

\* The suffix is one of characters, in the case they are written in.
IsUnder(auth, base) == ~auth.upper /\ auth.port = 0 /\ EndsIn(auth.name, base)

\* Load returns a Config.  env.others: the variables of which nothing else is
\* said here are set and well-formed.
Load(env) ==
  /\ env.others /\ env.base # None /\ env.auth # None
  /\ IsUnder(env.auth, env.base)
  /\ parseUpstreams(env.upstreams).ok
  /\ Duration(env.idle, DefaultIdle) <= Duration(env.lifetime, DefaultLifetime)
  /\ env.ssh # <<>> => parseSSHUpstreams(env.ssh).ok /\ env.sshPaths

BugCookieDomain(env) == <<".">> \o env.base
CookieDomain(env) == <<".">> \o TrimDot(env.base)

Https(h) == [scheme |-> "https", userinfo |-> FALSE, host |-> h]
DefaultLandingURL(env) == IF env.landing = None THEN Https(env.auth) ELSE env.landing

-----------------------------------------------------------------------------
(* return_to.                                                              *)

HasIdnLabel(name) ==
  \E i \in DOMAIN name : name[i] = "xn--" /\ (i = 1 \/ name[i - 1] = ".")

BugInDomain(name, base) == base # <<>> /\ EndsIn(name, base)
InDomain(name, base) == base # <<>> /\ (name = base \/ EndsIn(name, <<".">> \o base))

\* Validate, of a URL or of a text that is none.
Validates(url, env) ==
  /\ url # None /\ url.scheme = "https" /\ ~url.userinfo
  /\ ~HasIdnLabel(url.host.name)
  /\ InDomain(url.host.name, TrimDot(env.base))
  /\ url.host.port \in {0, 443}

BugResolveReturnTo(url, env) == IF Validates(url, env) THEN url ELSE env.landing
resolveReturnTo(url, env) == IF Validates(url, env) THEN url ELSE DefaultLandingURL(env)
=============================================================================
