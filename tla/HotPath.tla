------------------------------ MODULE HotPath ------------------------------
(***************************************************************************)
(* The request hot path (internal/proxy, HandleMe) against everything that *)
(* changes what it reads: sign-ins (HandleCallback's last step), sign-outs,*)
(* the sweeper, and the admin CLI, which is another process on the same    *)
(* database.                                                               *)
(*                                                                         *)
(* A request reads the session row, then the user row, decides, and only   *)
(* then touches the session: each is a query of its own, so anything can   *)
(* happen in between.  A session row is here what SessionPromise promises  *)
(* of it - it is issued once, it may die of age, it is deleted for good -  *)
(* without the clock: Age is the passing of its deadline.                  *)
(***************************************************************************)
EXTENDS Naturals, Sequences

CONSTANTS
  Slack,     \* Slack user IDs
  Email,     \* addresses Slack reports; two accounts may share one over time
  Role,      \* role names
  Host,      \* hosts of the upstream map
  Required,  \* per host, the roles of its allowlist
  Sid,       \* session IDs
  Req,       \* requests in flight
  Login,     \* sign-ins in flight
  Admin,     \* runs of the admin CLI
  None

UserRow == [slack : Slack, email : Email, roles : SUBSET Role]

VARIABLES
  users,     \* the users table; the autoincrement ID is the position
  sessions,  \* per ID, the row (its user, and whether its age allows it) or None
  owner,     \* history: who signed in to get an ID, None before that
  revoked,   \* history: the IDs a sign-out or an admin command has deleted
  granted,   \* history: per user row, the roles the operator last set
  login,     \* per sign-in, whose it is and the user row it has upserted
  req,       \* per request, how far it is and what it holds
  seen,      \* history: per request, the rows of its account since it arrived
  admin      \* per CLI run, the command and the row it looked up, until it writes

vars == <<users, sessions, owner, revoked, granted, login, req, seen, admin>>

Ids == DOMAIN users
Session == [user : Nat, live : BOOLEAN]
SignIn == [who : Slack, id : Nat]
Steps   == {"session", "user", "touch", "slideLive", "slideDead"}
Answers == {"notFound", "login", "error", "denied", "upstream", "signedIn", "signedOut"}
Request ==
  [pc : Steps \cup Answers, me : BOOLEAN, host : Host \cup {None},
   sid : Sid \cup {None}, uid : Nat, row : UserRow \cup {None}, late : BOOLEAN]
Command == [op : {"roles", "logout"}, id : Nat]

ASSUME RequiredAssumption == Required \in [Host -> SUBSET Role]
ASSUME NoneAssumption ==
  None \notin Slack \cup Sid \cup Host \cup Nat \cup Session \cup UserRow \cup SignIn \cup Request \cup Command

TypeOK ==
  /\ users \in Seq(UserRow)
  /\ sessions \in [Sid -> Session \cup {None}]
  /\ owner \in [Sid -> Slack \cup {None}]
  /\ revoked \in SUBSET Sid
  /\ granted \in Seq(SUBSET Role)
  /\ login \in [Login -> SignIn \cup {None}]
  /\ req \in [Req -> Request \cup {None}]
  /\ seen \in [Req -> SUBSET (Ids \X UserRow)]
  /\ admin \in [Admin -> Command \cup {None}]

Init ==
  /\ users = <<>>
  /\ sessions = [s \in Sid |-> None]
  /\ owner = [s \in Sid |-> None]
  /\ revoked = {}
  /\ granted = <<>>
  /\ login = [l \in Login |-> None]
  /\ req = [r \in Req |-> None]
  /\ seen = [r \in Req |-> {}]
  /\ admin = [a \in Admin |-> None]

HasRow(s) == sessions[s] # None

\* Store.GetByEmail: no index serves LOWER(email), so SQLite scans the table
\* in ID order and QueryRow takes the first match.
FirstWith(e, i) ==
  i \in Ids /\ users[i].email = e /\ \A j \in Ids : users[j].email = e => i <= j

\* The row of the account behind a cookie, as it is in a table.
RowsBehind(s, table) ==
  {<<i, table[i]>> : i \in {j \in DOMAIN table : s # None /\ table[j].slack = owner[s]}}

\* What a request in flight has been able to see since it arrived.
Observe ==
  seen' = [r \in Req |-> IF req[r] = None THEN {}
                         ELSE seen[r] \cup RowsBehind(req[r].sid, users')]

-----------------------------------------------------------------------------
(* Mutants: plausible bugs the properties must notice.                     *)

\* An upstream without an allowlist admits nobody.
BugPermits(h, roles) == Required[h] \cap roles # {}

\* The upsert finds the existing row by email.
BugExisting(i, k, e) == users[i].email = e

\* The update writes every column it was given, roles included.
BugRefreshed(row, e) == [row EXCEPT !.email = e, !.roles = {}]

\* Touch re-creates a row that has gone since the request read it.
BugSlide(s, u, sawLive) == sessions' = [sessions EXCEPT ![s] = [user |-> u, live |-> TRUE]]

-----------------------------------------------------------------------------
(* Sign-in: UpsertFromOIDC, then Sessions.Create, two transactions.        *)

\* The row the SELECT of the upsert finds.
Existing(i, k, e) == users[i].slack = k
Known(k, e) == \E i \in Ids : Existing(i, k, e)

\* The UPDATE of a returning user never touches roles.
Refreshed(row, e) == [row EXCEPT !.email = e]

UpsertInsert(l, k, e) ==
  /\ ~Known(k, e)
  /\ users' = Append(users, [slack |-> k, email |-> e, roles |-> {}])
  /\ granted' = Append(granted, {})
  /\ login' = [login EXCEPT ![l] = [who |-> k, id |-> Len(users) + 1]]

UpsertUpdate(l, k, e) ==
  \E i \in Ids :
    /\ Existing(i, k, e)
    /\ users' = [users EXCEPT ![i] = Refreshed(@, e)]
    /\ login' = [login EXCEPT ![l] = [who |-> k, id |-> i]]
    /\ UNCHANGED granted

LoginUpsert(l, k, e) ==
  /\ login[l] = None
  /\ UpsertInsert(l, k, e) \/ UpsertUpdate(l, k, e)
  /\ Observe
  /\ UNCHANGED <<sessions, owner, revoked, req, admin>>

\* The ID is fresh; once the transaction commits the cookie is handed out.
LoginCreate(l, s) ==
  /\ login[l] # None
  /\ owner[s] = None
  /\ sessions' = [sessions EXCEPT ![s] = [user |-> login[l].id, live |-> TRUE]]
  /\ owner' = [owner EXCEPT ![s] = login[l].who]
  /\ login' = [login EXCEPT ![l] = None]
  /\ UNCHANGED <<users, revoked, granted, req, seen, admin>>

\* Create fails: the refreshed user row stays, nobody is signed in.
LoginFails(l) ==
  /\ login[l] # None
  /\ login' = [login EXCEPT ![l] = None]
  /\ UNCHANGED <<users, sessions, owner, revoked, granted, req, seen, admin>>

-----------------------------------------------------------------------------
(* A request.                                                              *)

\* Upstream.Permits: any of the user's roles is on the allowlist, and an
\* upstream without an allowlist is open.
Permits(h, roles) == Required[h] = {} \/ Required[h] \cap roles # {}

Move(r, pc) == req' = [req EXCEPT ![r].pc = pc]
At(r, pc) == req[r] # None /\ req[r].pc = pc
Rest == <<users, owner, granted, login, admin>>

\* The host is resolved before the cookie is read: an unknown host is a 404
\* for everyone.  HandleMe resolves no host and answers an anonymous caller.
Arrive(r, me, h, s) ==
  /\ req[r] = None
  /\ me => h = None
  /\ s # None => owner[s] # None
  /\ req' = [req EXCEPT ![r] =
               [pc |-> CASE me /\ s = None       -> "signedOut"
                         [] ~me /\ h = None      -> "notFound"
                         [] h # None /\ s = None -> "login"
                         [] OTHER                -> "session",
                me |-> me, host |-> h, sid |-> s, uid |-> 0, row |-> None,
                late |-> s \in revoked]]
  /\ seen' = [seen EXCEPT ![r] = RowsBehind(s, users)]
  /\ UNCHANGED <<sessions, revoked>> /\ UNCHANGED Rest

\* Anything but a session sends the caller to sign in, an error included.
Refuse(r) == Move(r, IF req[r].me THEN "signedOut" ELSE "login")

GetSession(r) ==
  /\ At(r, "session")
  /\ \/ Refuse(r)
     \/ LET s == req[r].sid IN
        /\ HasRow(s) /\ sessions[s].live
        /\ req' = [req EXCEPT ![r].pc = "user", ![r].uid = sessions[s].user]
  /\ UNCHANGED <<sessions, revoked, seen>> /\ UNCHANGED Rest

\* The one read of the user row: the gate and the forwarded headers both use it.
GetUser(r) ==
  /\ At(r, "user")
  /\ \/ /\ req[r].uid \in Ids
        /\ LET u == users[req[r].uid] IN
           req' = [req EXCEPT
             ![r].row = u,
             ![r].pc = IF req[r].me THEN "signedIn"
                       ELSE IF Permits(req[r].host, u.roles) THEN "touch" ELSE "denied"]
     \/ Move(r, IF req[r].me THEN "signedOut" ELSE "error")  \* the query fails
     \/ req[r].uid \notin Ids /\ Refuse(r)                   \* and the cookie is cleared
  /\ UNCHANGED <<sessions, revoked, seen>> /\ UNCHANGED Rest

\* Touch captures its clock: whether the deadline had passed by then.
TouchBegin(r) ==
  /\ At(r, "touch")
  /\ \/ LET s == req[r].sid IN
        Move(r, IF HasRow(s) /\ sessions[s].live THEN "slideLive" ELSE "slideDead")
     \/ Move(r, "upstream")   \* throttled, or the fast read fails: not fatal
  /\ UNCHANGED <<sessions, revoked, seen>> /\ UNCHANGED Rest

\* The write judges the row by the captured clock, so a row that has aged
\* since may come back; a row that is gone stays gone.
Slide(s, u, sawLive) ==
  \/ UNCHANGED sessions
  \/ /\ HasRow(s) /\ sawLive
     /\ sessions' = [sessions EXCEPT ![s].live = TRUE]

TouchWrite(r) ==
  /\ At(r, "slideLive") \/ At(r, "slideDead")
  /\ Slide(req[r].sid, req[r].uid, At(r, "slideLive"))
  /\ Move(r, "upstream")
  /\ UNCHANGED <<revoked, seen>> /\ UNCHANGED Rest

\* The response is written; what the upstream streams goes on until then.
Finish(r) ==
  /\ req[r] # None /\ req[r].pc \in Answers
  /\ req' = [req EXCEPT ![r] = None]
  /\ seen' = [seen EXCEPT ![r] = {}]
  /\ UNCHANGED <<sessions, revoked>> /\ UNCHANGED Rest

-----------------------------------------------------------------------------
(* What ends sessions.                                                     *)

Drop(S) == sessions' = [s \in Sid |-> IF s \in S THEN None ELSE sessions[s]]
RowsOf(i) == {s \in Sid : HasRow(s) /\ sessions[s].user = i}

Age(s) ==
  /\ HasRow(s) /\ sessions[s].live
  /\ sessions' = [sessions EXCEPT ![s].live = FALSE]
  /\ UNCHANGED <<revoked, req, seen>> /\ UNCHANGED Rest

Sweep(S) ==
  /\ S # {} /\ \A s \in S : HasRow(s) /\ ~sessions[s].live
  /\ Drop(S)
  /\ UNCHANGED <<revoked, req, seen>> /\ UNCHANGED Rest

\* HandleLogout, its Origin check passed and its Delete successful.
HandleLogout(s) ==
  /\ owner[s] # None
  /\ Drop({s})
  /\ revoked' = revoked \cup {s}
  /\ UNCHANGED <<req, seen>> /\ UNCHANGED Rest

ForceLogoutAll ==
  /\ Drop(Sid)
  /\ revoked' = revoked \cup {s \in Sid : HasRow(s)}
  /\ UNCHANGED <<req, seen>> /\ UNCHANGED Rest

\* set-roles and force-logout: the address is resolved first ...
AdminLookup(a, op, e) ==
  /\ admin[a] = None
  /\ \E i \in Ids :
       /\ FirstWith(e, i)
       /\ admin' = [admin EXCEPT ![a] = [op |-> op, id |-> i]]
  /\ UNCHANGED <<users, sessions, owner, revoked, granted, login, req, seen>>

\* ... and the write, a transaction of its own, goes by the row's ID.
AdminSetRoles(a, R) ==
  /\ admin[a] # None /\ admin[a].op = "roles"
  /\ users' = [users EXCEPT ![admin[a].id].roles = R]
  /\ granted' = [granted EXCEPT ![admin[a].id] = R]
  /\ admin' = [admin EXCEPT ![a] = None]
  /\ Observe
  /\ UNCHANGED <<sessions, owner, revoked, login, req>>

AdminForceLogout(a) ==
  /\ admin[a] # None /\ admin[a].op = "logout"
  /\ Drop(RowsOf(admin[a].id))
  /\ revoked' = revoked \cup RowsOf(admin[a].id)
  /\ admin' = [admin EXCEPT ![a] = None]
  /\ UNCHANGED <<users, owner, granted, login, req, seen>>

\* The write failed or timed out.
AdminFails(a) ==
  /\ admin[a] # None
  /\ admin' = [admin EXCEPT ![a] = None]
  /\ UNCHANGED <<users, sessions, owner, revoked, granted, login, req, seen>>

Next ==
  \/ \E l \in Login : \/ \E k \in Slack, e \in Email : LoginUpsert(l, k, e)
                      \/ \E s \in Sid : LoginCreate(l, s)
                      \/ LoginFails(l)
  \/ \E r \in Req : \/ \E me \in BOOLEAN, h \in Host \cup {None}, s \in Sid \cup {None} :
                         Arrive(r, me, h, s)
                    \/ GetSession(r)
                    \/ GetUser(r)
                    \/ TouchBegin(r)
                    \/ TouchWrite(r)
                    \/ Finish(r)
  \/ \E s \in Sid : Age(s) \/ HandleLogout(s)
  \/ \E S \in SUBSET Sid : Sweep(S)
  \/ ForceLogoutAll
  \/ \E a \in Admin : \/ \E op \in {"roles", "logout"}, e \in Email : AdminLookup(a, op, e)
                      \/ \E R \in SUBSET Role : AdminSetRoles(a, R)
                      \/ AdminForceLogout(a)
                      \/ AdminFails(a)

Spec == Init /\ [][Next]_vars

Allowed(h, roles) == Required[h] # {} => \E x \in roles : x \in Required[h]

-----------------------------------------------------------------------------
(* The inductive invariant.                                                *)

\* One row per account, with the roles the operator gave it.
UsersInv ==
  /\ Len(granted) = Len(users)
  /\ \A i \in Ids : users[i].roles = granted[i]
  /\ \A i, j \in Ids : users[i].slack = users[j].slack => i = j
  /\ \A l \in Login : login[l] # None => /\ login[l].id \in Ids
                                        /\ users[login[l].id].slack = login[l].who
  /\ \A a \in Admin : admin[a] # None => admin[a].id \in Ids

\* A row belongs to whoever signed in for it, and is not a deleted one.
SessionsInv ==
  \A s \in Sid :
    /\ sessions[s] # None => /\ sessions[s].user \in Ids
                             /\ owner[s] = users[sessions[s].user].slack
                             /\ s \notin revoked
    /\ s \in revoked => owner[s] # None

Past == {"touch", "slideLive", "slideDead", "upstream", "signedIn", "denied"}

\* What a request holds: a sid that was issued; past the session read, a row
\* of the account that signed in for it, read since the request arrived.
RequestsInv ==
  \A r \in Req : req[r] # None =>
    LET q == req[r] IN
    /\ q.sid # None => owner[q.sid] # None
    /\ q.pc \in Steps \cup Past => q.sid # None
    /\ q.pc \notin Answers \ {"upstream", "denied"} => q.me \/ q.host # None
    /\ q.late => q.sid \in revoked
    /\ RowsBehind(q.sid, users) \subseteq seen[r]
    /\ q.pc \in Past \cup {"user"} => ~q.late
    /\ q.pc = "user" => q.uid \in Ids /\ users[q.uid].slack = owner[q.sid]
    /\ q.pc \in Past => /\ q.row # None /\ q.row.slack = owner[q.sid]
                       /\ <<q.uid, q.row>> \in seen[r]
    /\ q.pc \in Past \ {"signedIn"} =>
         q.host # None /\ ((q.pc # "denied") = Allowed(q.host, q.row.roles))

IInv == TypeOK /\ UsersInv /\ SessionsInv /\ RequestsInv

-----------------------------------------------------------------------------
(* Properties.                                                             *)

\* Whatever changes while a request is under way, what it forwards, and what
\* it is denied for, is one state the user row was in since the request
\* arrived: a set-roles that has reported success decides every request that
\* arrives after it.
FreshDecision ==
  \A r \in Req : req[r] # None /\ req[r].pc \in {"touch", "slideLive", "slideDead", "upstream", "denied"} =>
    /\ <<req[r].uid, req[r].row>> \in seen[r]
    /\ (req[r].pc # "denied") = Allowed(req[r].host, req[r].row.roles)

\* The identity an upstream (or /auth/me) is given is the account that signed in
\* for the cookie, however rows are refreshed and addresses change hands.
RightPerson ==
  \A r \in Req : req[r] # None /\ req[r].pc \in {"upstream", "signedIn"} =>
    req[r].row.slack = owner[req[r].sid]

\* A sign-out, force-logout or force-logout-all that deleted a session before a
\* request arrived keeps that request out, even when a Touch of an earlier one
\* was in flight at the time.
RevokedStaysOut ==
  \A r \in Req : req[r] # None /\ req[r].pc \in {"upstream", "signedIn"} => ~req[r].late

\* No interleaving of sign-ins with set-roles loses a grant or invents one.
GrantsKept == \A i \in Ids : users[i].roles = granted[i]

\* A Slack account has one row for ever: concurrent first sign-ins do not
\* split it, so X-Forge-User-Id is a join key upstreams can keep.
StableIdentity ==
  [][/\ \A i \in Ids : i \in Ids' /\ users'[i].slack = users[i].slack
     /\ \A i, j \in Ids' : users'[i].slack = users'[j].slack => i = j]_vars
=============================================================================
