---------------------------- MODULE HotPathProofs ----------------------------
(***************************************************************************)
(* The request hot path against sign-ins, sign-outs and the admin CLI, for *)
(* any number of accounts, addresses, roles, hosts, sessions, requests,    *)
(* sign-ins and commands in flight: who is let in, as whom, on which       *)
(* reading of the roles.                                                   *)
(***************************************************************************)
EXTENDS HotPath, TLAPS

-----------------------------------------------------------------------------
(* Types.                                                                  *)

LEMMA InitIInv == Init => IInv
<1> SUFFICES ASSUME Init PROVE IInv
  OBVIOUS
<1>1. TypeOK
  BY DEF Init, TypeOK, Ids
<1>2. UsersInv
  BY DEF Init, UsersInv, Ids
<1>3. SessionsInv /\ RequestsInv
  BY DEF Init, SessionsInv, RequestsInv
<1> QED
  BY <1>1, <1>2, <1>3 DEF IInv

LEMMA RequestTypes ==
  ASSUME TypeOK, NEW r \in Req, req[r] # None
  PROVE  req[r] \in Request
BY DEF TypeOK

\* A request moves on and keeps what it holds.
LEMMA MoveFacts ==
  ASSUME TypeOK, NEW r \in Req, req[r] # None, NEW pc \in Steps \cup Answers, Move(r, pc)
  PROVE  /\ req' \in [Req -> Request \cup {None}]
         /\ req'[r] \in Request /\ req'[r] # None
         /\ req'[r].pc = pc
         /\ req'[r].me = req[r].me /\ req'[r].host = req[r].host /\ req'[r].sid = req[r].sid
         /\ req'[r].uid = req[r].uid /\ req'[r].row = req[r].row /\ req'[r].late = req[r].late
         /\ \A d \in Req \ {r} : req'[d] = req[d]
<1>1. req[r] \in Request
  BY RequestTypes
<1>2. req'[r] = [req[r] EXCEPT !.pc = pc] /\ \A d \in Req \ {r} : req'[d] = req[d]
  BY DEF TypeOK, Move
<1>3. [req[r] EXCEPT !.pc = pc] \in Request
  BY <1>1 DEF Request
<1>4. req' \in [Req -> Request \cup {None}]
  BY <1>3 DEF TypeOK, Move
<1>5. req'[r] # None
  BY <1>2, <1>3, NoneAssumption
<1> QED
  BY <1>1, <1>2, <1>3, <1>4, <1>5 DEF Request

LEMMA RowsBehindType ==
  ASSUME NEW s, NEW table \in Seq(UserRow)
  PROVE  RowsBehind(s, table) \subseteq (DOMAIN table) \X UserRow
BY DEF RowsBehind

LEMMA RefreshedFacts ==
  ASSUME NEW row \in UserRow, NEW e \in Email
  PROVE  /\ Refreshed(row, e) \in UserRow
         /\ Refreshed(row, e).slack = row.slack /\ Refreshed(row, e).roles = row.roles
BY DEF Refreshed, UserRow

LEMMA GrantFacts ==
  ASSUME NEW row \in UserRow, NEW R \in SUBSET Role
  PROVE  /\ [row EXCEPT !.roles = R] \in UserRow
         /\ [row EXCEPT !.roles = R].slack = row.slack /\ [row EXCEPT !.roles = R].roles = R
BY DEF UserRow

\* What IInv says of the table, for the steps below.
LEMMA TableFacts ==
  ASSUME IInv
  PROVE  /\ users \in Seq(UserRow) /\ granted \in Seq(SUBSET Role) /\ Len(granted) = Len(users)
         /\ Ids = 1 .. Len(users) /\ \A i \in Ids : users[i] \in UserRow /\ users[i].roles = granted[i]
         /\ \A i, j \in Ids : users[i].slack = users[j].slack => i = j
BY DEF IInv, TypeOK, UsersInv, Ids

\* Appending a row, or changing one, leaves every account where it was.
LEMMA InsertFacts ==
  ASSUME IInv, NEW l \in Login, NEW k \in Slack, NEW e \in Email, UpsertInsert(l, k, e)
  PROVE  /\ users' \in Seq(UserRow) /\ granted' \in Seq(SUBSET Role)
         /\ Ids \subseteq Ids' /\ \A i \in Ids : users'[i].slack = users[i].slack
         /\ Len(granted') = Len(users') /\ \A i \in Ids' : users'[i].roles = granted'[i]
         /\ \A i, j \in Ids' : users'[i].slack = users'[j].slack => i = j
         /\ \E i \in Ids' : login' = [login EXCEPT ![l] = [who |-> k, id |-> i]]
                            /\ users'[i].slack = k
<1> DEFINE row == [slack |-> k, email |-> e, roles |-> {}]
           m == Len(users)
<1>1. /\ users' = Append(users, row) /\ granted' = Append(granted, {})
      /\ login' = [login EXCEPT ![l] = [who |-> k, id |-> m + 1]]
  BY DEF UpsertInsert
<1>2. row \in UserRow /\ row.slack = k /\ row.roles = {}
  BY DEF UserRow
<1>3. /\ users \in Seq(UserRow) /\ granted \in Seq(SUBSET Role) /\ Len(granted) = m /\ Ids = 1 .. m
      /\ m \in Nat
      /\ \A i \in 1 .. m : users[i] \in UserRow /\ users[i].roles = granted[i]
      /\ \A i, j \in 1 .. m : users[i].slack = users[j].slack => i = j
  BY TableFacts
<1> HIDE DEF row
<1>4. users' \in Seq(UserRow) /\ granted' \in Seq(SUBSET Role) /\ Len(users') = m + 1 /\ Len(granted') = m + 1
  BY <1>1, <1>2, <1>3
<1>5. /\ users'[m + 1] = row /\ granted'[m + 1] = {}
      /\ \A i \in 1 .. m : users'[i] = users[i] /\ granted'[i] = granted[i]
  BY <1>1, <1>2, <1>3
<1>6. Ids' = 1 .. (m + 1)
  BY <1>4 DEF Ids
<1>7. \A i \in 1 .. m : users[i].slack # k
  BY <1>3 DEF UpsertInsert, Known, Existing
<1> HIDE DEF m
<1>8. Ids \subseteq Ids' /\ m + 1 \in Ids' /\ \A i \in Ids' : i \in 1 .. m \/ i = m + 1
  BY <1>3, <1>6
<1>9. \A i \in Ids : users'[i].slack = users[i].slack
  BY <1>3, <1>5
<1>10. \A i \in Ids' : users'[i].roles = granted'[i]
  BY <1>2, <1>3, <1>5, <1>8
<1>11. \A i, j \in Ids' : users'[i].slack = users'[j].slack => i = j
  BY <1>2, <1>3, <1>5, <1>7, <1>8
<1> QED
  BY <1>1, <1>2, <1>4, <1>5, <1>8, <1>9, <1>10, <1>11

LEMMA UpdateFacts ==
  ASSUME IInv, NEW l \in Login, NEW k \in Slack, NEW e \in Email, UpsertUpdate(l, k, e)
  PROVE  /\ users' \in Seq(UserRow) /\ granted' \in Seq(SUBSET Role)
         /\ Ids' = Ids /\ \A i \in Ids : users'[i].slack = users[i].slack
         /\ Len(granted') = Len(users') /\ \A i \in Ids' : users'[i].roles = granted'[i]
         /\ \A i, j \in Ids' : users'[i].slack = users'[j].slack => i = j
         /\ \E i \in Ids' : login' = [login EXCEPT ![l] = [who |-> k, id |-> i]]
                            /\ users'[i].slack = k
<1>1. PICK n \in Ids : /\ users[n].slack = k /\ users' = [users EXCEPT ![n] = Refreshed(@, e)]
                       /\ login' = [login EXCEPT ![l] = [who |-> k, id |-> n]]
                       /\ UNCHANGED granted
  BY DEF UpsertUpdate, Existing
<1>2. /\ Refreshed(users[n], e) \in UserRow /\ Refreshed(users[n], e).slack = users[n].slack
      /\ Refreshed(users[n], e).roles = users[n].roles
  BY TableFacts, RefreshedFacts
<1>3. /\ users' \in Seq(UserRow) /\ Len(users') = Len(users)
      /\ users'[n] = Refreshed(users[n], e)
      /\ \A j \in 1 .. Len(users) : j # n => users'[j] = users[j]
  BY <1>1, <1>2, TableFacts
<1>4. Ids' = Ids
  BY <1>3, TableFacts DEF Ids
<1>5. \A j \in Ids : users'[j].slack = users[j].slack /\ users'[j].roles = users[j].roles
  BY <1>2, <1>3, TableFacts
<1>6. \A i \in Ids' : users'[i].roles = granted'[i]
  BY <1>1, <1>4, <1>5, TableFacts
<1>7. \A i, j \in Ids' : users'[i].slack = users'[j].slack => i = j
  BY <1>4, <1>5, TableFacts
<1>8. n \in Ids' /\ users'[n].slack = k
  BY <1>1, <1>4, <1>5
<1>9. granted' \in Seq(SUBSET Role) /\ Len(granted') = Len(users')
  BY <1>1, <1>3, TableFacts
<1> QED
  BY <1>1, <1>3, <1>4, <1>5, <1>6, <1>7, <1>8, <1>9

LEMMA UpsertFacts ==
  ASSUME IInv, NEW l \in Login, NEW k \in Slack, NEW e \in Email, LoginUpsert(l, k, e)
  PROVE  /\ users' \in Seq(UserRow) /\ granted' \in Seq(SUBSET Role)
         /\ Ids \subseteq Ids' /\ \A i \in Ids : users'[i].slack = users[i].slack
         /\ Len(granted') = Len(users') /\ \A i \in Ids' : users'[i].roles = granted'[i]
         /\ \A i, j \in Ids' : users'[i].slack = users'[j].slack => i = j
         /\ \E i \in Ids' : login' = [login EXCEPT ![l] = [who |-> k, id |-> i]]
                            /\ users'[i].slack = k
<1>1. CASE UpsertInsert(l, k, e)
  BY <1>1, InsertFacts
<1>2. CASE UpsertUpdate(l, k, e)
  BY <1>2, UpdateFacts
<1> QED
  BY <1>1, <1>2 DEF LoginUpsert

LEMMA SetRolesFacts ==
  ASSUME IInv, NEW a \in Admin, NEW R \in SUBSET Role, AdminSetRoles(a, R)
  PROVE  /\ users' \in Seq(UserRow) /\ granted' \in Seq(SUBSET Role)
         /\ Ids' = Ids /\ \A i \in Ids : users'[i].slack = users[i].slack
         /\ Len(granted') = Len(users') /\ \A i \in Ids' : users'[i].roles = granted'[i]
<1> DEFINE n == admin[a].id
<1>1. n \in Ids
  BY DEF IInv, UsersInv, AdminSetRoles
<1>2. users' = [users EXCEPT ![n] = [users[n] EXCEPT !.roles = R]] /\ granted' = [granted EXCEPT ![n] = R]
  BY <1>1, TableFacts DEF AdminSetRoles
<1> HIDE DEF n
<1>3. /\ [users[n] EXCEPT !.roles = R] \in UserRow /\ [users[n] EXCEPT !.roles = R].slack = users[n].slack
      /\ [users[n] EXCEPT !.roles = R].roles = R
  BY <1>1, TableFacts, GrantFacts
<1>4. /\ users' \in Seq(UserRow) /\ Len(users') = Len(users)
      /\ users'[n] = [users[n] EXCEPT !.roles = R]
      /\ \A j \in 1 .. Len(users) : j # n => users'[j] = users[j]
  BY <1>1, <1>2, <1>3, TableFacts
<1>5. /\ granted' \in Seq(SUBSET Role) /\ Len(granted') = Len(granted) /\ granted'[n] = R
      /\ \A j \in 1 .. Len(users) : j # n => granted'[j] = granted[j]
  BY <1>1, <1>2, TableFacts
<1>6. Ids' = Ids
  BY <1>4, TableFacts DEF Ids
<1>7. \A j \in Ids : users'[j].slack = users[j].slack /\ users'[j].roles = granted'[j]
  BY <1>1, <1>3, <1>4, <1>5, TableFacts
<1> QED
  BY <1>4, <1>5, <1>6, <1>7, TableFacts

-----------------------------------------------------------------------------
(* The tables, sign-ins and commands.                                      *)

\* Accounts that were there stay where they were; what points at one still does.
Steady == Ids \subseteq Ids' /\ \A i \in Ids : users'[i].slack = users[i].slack

LEMMA UsersKept ==
  ASSUME IInv, UNCHANGED <<users, granted>>,
         \A l \in Login : login'[l] \in {login[l], None},
         \A a \in Admin : admin'[a] = admin[a] \/ admin'[a] = None \/ admin'[a].id \in Ids
  PROVE  UsersInv' /\ Steady
BY DEF IInv, UsersInv, Ids, Steady

LEMMA NextUsers ==
  ASSUME IInv, [Next]_vars
  PROVE  UsersInv' /\ Steady
<1>1. ASSUME NEW l \in Login, NEW k \in Slack, NEW e \in Email, LoginUpsert(l, k, e)
      PROVE  UsersInv' /\ Steady
  <2>1. Steady
    BY <1>1, UpsertFacts DEF Steady
  <2>2. PICK n \in Ids' : login' = [login EXCEPT ![l] = [who |-> k, id |-> n]] /\ users'[n].slack = k
    BY <1>1, UpsertFacts
  <2>3. \A d \in Login : login'[d] # None => /\ login'[d].id \in Ids'
                                            /\ users'[login'[d].id].slack = login'[d].who
    BY <2>1, <2>2 DEF Steady, IInv, TypeOK, UsersInv
  <2>4. \A a \in Admin : admin'[a] # None => admin'[a].id \in Ids'
    BY <1>1, <2>1 DEF LoginUpsert, Steady, IInv, UsersInv
  <2> QED
    BY <1>1, <2>1, <2>3, <2>4, UpsertFacts DEF UsersInv
<1>2. ASSUME NEW a \in Admin, NEW R \in SUBSET Role, AdminSetRoles(a, R)
      PROVE  UsersInv' /\ Steady
  <2>1. Steady
    BY <1>2, SetRolesFacts DEF Steady
  <2>2. /\ UNCHANGED login /\ admin' = [admin EXCEPT ![a] = None]
    BY <1>2 DEF AdminSetRoles
  <2>3. \A l \in Login : login'[l] # None => /\ login'[l].id \in Ids'
                                            /\ users'[login'[l].id].slack = login'[l].who
    BY <2>1, <2>2 DEF Steady, IInv, UsersInv
  <2>4. \A b \in Admin : admin'[b] # None => admin'[b].id \in Ids'
    BY <2>1, <2>2 DEF Steady, IInv, TypeOK, UsersInv
  <2>5. \A i, j \in Ids' : users'[i].slack = users'[j].slack => i = j
    BY <1>2, SetRolesFacts, TableFacts
  <2> QED
    BY <1>2, <2>1, <2>3, <2>4, <2>5, SetRolesFacts DEF UsersInv
<1>3. ASSUME NEW l \in Login, LoginFails(l) \/ \E s \in Sid : LoginCreate(l, s)
      PROVE  UsersInv' /\ Steady
  <2>1. UNCHANGED <<users, granted, admin>> /\ login' = [login EXCEPT ![l] = None]
    BY <1>3 DEF LoginFails, LoginCreate
  <2>2. \A d \in Login : login'[d] \in {login[d], None}
    BY <2>1 DEF IInv, TypeOK
  <2> QED
    BY <2>1, <2>2, UsersKept
<1>4. ASSUME NEW a \in Admin, AdminFails(a) \/ AdminForceLogout(a)
      PROVE  UsersInv' /\ Steady
  <2>1. UNCHANGED <<users, granted, login>> /\ admin' = [admin EXCEPT ![a] = None]
    BY <1>4 DEF AdminFails, AdminForceLogout
  <2>2. \A b \in Admin : admin'[b] \in {admin[b], None}
    BY <2>1 DEF IInv, TypeOK
  <2> QED
    BY <2>1, <2>2, UsersKept
<1>5. ASSUME NEW a \in Admin, NEW op \in {"roles", "logout"}, NEW e \in Email, AdminLookup(a, op, e)
      PROVE  UsersInv' /\ Steady
  <2>1. UNCHANGED <<users, granted, login>>
    BY <1>5 DEF AdminLookup
  <2>2. PICK i \in Ids : admin' = [admin EXCEPT ![a] = [op |-> op, id |-> i]]
    BY <1>5 DEF AdminLookup
  <2>3. \A b \in Admin : admin'[b] = admin[b] \/ admin'[b].id \in Ids
    BY <2>2 DEF IInv, TypeOK
  <2> QED
    BY <2>1, <2>3, UsersKept
<1>6. ASSUME UNCHANGED <<users, granted, login, admin>>
      PROVE  UsersInv' /\ Steady
  BY <1>6, UsersKept
<1>7. ASSUME NEW r \in Req,
             \/ \E me \in BOOLEAN, h \in Host \cup {None}, s \in Sid \cup {None} : Arrive(r, me, h, s)
             \/ GetSession(r) \/ GetUser(r) \/ TouchBegin(r) \/ TouchWrite(r) \/ Finish(r)
      PROVE  UsersInv' /\ Steady
  BY <1>6, <1>7 DEF Arrive, GetSession, GetUser, TouchBegin, TouchWrite, Finish, Rest
<1>8. ASSUME NEW s \in Sid, Age(s) \/ HandleLogout(s) PROVE UsersInv' /\ Steady
  BY <1>6, <1>8 DEF Age, HandleLogout, Rest
<1>9. ASSUME NEW S \in SUBSET Sid, Sweep(S) PROVE UsersInv' /\ Steady
  BY <1>6, <1>9 DEF Sweep, Rest
<1>10. CASE ForceLogoutAll
  BY <1>6, <1>10 DEF ForceLogoutAll, Rest
<1>11. CASE UNCHANGED vars
  BY <1>6, <1>11 DEF vars
<1> QED
  BY <1>1, <1>2, <1>3, <1>4, <1>5, <1>7, <1>8, <1>9, <1>10, <1>11 DEF Next

\* What becomes of a session row in a step.
LEMMA NextSessions ==
  ASSUME IInv, [Next]_vars
  PROVE  SessionsInv'
<1>0. Steady
  BY NextUsers
<1>1. ASSUME UNCHANGED owner,
             \A s \in Sid : sessions'[s] = None \/ (sessions[s] # None /\ sessions'[s].user = sessions[s].user),
             \A s \in Sid : s \in revoked' => s \in revoked \/ (sessions[s] # None /\ sessions'[s] = None),
             revoked \subseteq revoked'
      PROVE  SessionsInv'
  <2> SUFFICES ASSUME NEW s \in Sid
               PROVE  /\ sessions'[s] # None => /\ sessions'[s].user \in Ids'
                                               /\ owner'[s] = users'[sessions'[s].user].slack
                                               /\ s \notin revoked'
                      /\ s \in revoked' => owner'[s] # None
    BY DEF SessionsInv
  <2>1. sessions[s] # None => /\ sessions[s].user \in Ids /\ s \notin revoked
                             /\ owner[s] = users[sessions[s].user].slack
    BY DEF IInv, SessionsInv
  <2>2. sessions[s] # None => owner[s] # None
    BY <2>1, TableFacts, NoneAssumption DEF UserRow
  <2>3. s \in revoked => owner[s] # None /\ sessions[s] = None
    BY DEF IInv, SessionsInv
  <2> QED
    BY <1>0, <1>1, <2>1, <2>2, <2>3 DEF Steady
<1>2. ASSUME UNCHANGED <<sessions, owner, revoked>> PROVE SessionsInv'
  BY <1>1, <1>2
<1>3. ASSUME NEW l \in Login, NEW s \in Sid, LoginCreate(l, s) PROVE SessionsInv'
  <2>1. /\ login[l] # None /\ owner[s] = None /\ UNCHANGED <<users, revoked>>
        /\ sessions' = [sessions EXCEPT ![s] = [user |-> login[l].id, live |-> TRUE]]
        /\ owner' = [owner EXCEPT ![s] = login[l].who]
    BY <1>3 DEF LoginCreate
  <2>2. /\ sessions'[s].user = login[l].id /\ owner'[s] = login[l].who
        /\ \A t \in Sid \ {s} : sessions'[t] = sessions[t] /\ owner'[t] = owner[t]
    BY <2>1 DEF IInv, TypeOK
  <2>3. login[l].id \in Ids /\ users[login[l].id].slack = login[l].who
    BY <2>1 DEF IInv, UsersInv
  <2>4. s \notin revoked
    BY <2>1 DEF IInv, SessionsInv
  <2> QED
    BY <2>1, <2>2, <2>3, <2>4 DEF IInv, SessionsInv, Ids
<1>4. ASSUME NEW r \in Req, TouchWrite(r) PROVE SessionsInv'
  <2>1. UNCHANGED <<owner, revoked>> /\ Slide(req[r].sid, req[r].uid, At(r, "slideLive"))
    BY <1>4 DEF TouchWrite, Rest
  <2>2. \A s \in Sid : sessions'[s] = None \/ (sessions[s] # None /\ sessions'[s].user = sessions[s].user)
    <3>1. CASE UNCHANGED sessions
      BY <3>1
    <3>2. CASE /\ HasRow(req[r].sid) /\ sessions' = [sessions EXCEPT ![req[r].sid].live = TRUE]
      BY <3>2 DEF HasRow, IInv, TypeOK, Session
    <3> QED
      BY <2>1, <3>1, <3>2 DEF Slide
  <2> QED
    BY <1>1, <2>1, <2>2
<1>5. ASSUME NEW s \in Sid, Age(s) PROVE SessionsInv'
  <2>1. UNCHANGED <<owner, revoked>> /\ HasRow(s) /\ sessions' = [sessions EXCEPT ![s].live = FALSE]
    BY <1>5 DEF Age, Rest
  <2>2. \A t \in Sid : sessions'[t] = None \/ (sessions[t] # None /\ sessions'[t].user = sessions[t].user)
    BY <2>1 DEF HasRow, IInv, TypeOK, Session
  <2> QED
    BY <1>1, <2>1, <2>2
<1>6. ASSUME NEW S \in SUBSET Sid, Sweep(S) PROVE SessionsInv'
  BY <1>1, <1>6 DEF Sweep, Drop, Rest
<1>7. CASE ForceLogoutAll
  BY <1>1, <1>7 DEF ForceLogoutAll, Drop, HasRow, Rest
<1>8. ASSUME NEW a \in Admin, AdminForceLogout(a) PROVE SessionsInv'
  BY <1>1, <1>8 DEF AdminForceLogout, Drop, RowsOf, HasRow
<1>9. ASSUME NEW s \in Sid, HandleLogout(s) PROVE SessionsInv'
  <2>1. /\ UNCHANGED owner /\ owner[s] # None /\ revoked' = revoked \cup {s}
        /\ sessions' = [t \in Sid |-> IF t \in {s} THEN None ELSE sessions[t]]
    BY <1>9 DEF HandleLogout, Drop, Rest
  <2> QED
    BY <1>0, <2>1 DEF IInv, SessionsInv, Steady
<1>10. ASSUME NEW r \in Req,
             \/ \E me \in BOOLEAN, h \in Host \cup {None}, s \in Sid \cup {None} : Arrive(r, me, h, s)
             \/ GetSession(r) \/ GetUser(r) \/ TouchBegin(r) \/ Finish(r)
      PROVE  SessionsInv'
  BY <1>2, <1>10 DEF Arrive, GetSession, GetUser, TouchBegin, Finish, Rest
<1>11. ASSUME NEW l \in Login, LoginFails(l) \/ \E k \in Slack, e \in Email : LoginUpsert(l, k, e)
      PROVE  SessionsInv'
  BY <1>2, <1>11 DEF LoginFails, LoginUpsert
<1>12. ASSUME NEW a \in Admin,
             \/ AdminFails(a) \/ \E R \in SUBSET Role : AdminSetRoles(a, R)
             \/ \E op \in {"roles", "logout"}, e \in Email : AdminLookup(a, op, e)
      PROVE  SessionsInv'
  BY <1>2, <1>12 DEF AdminFails, AdminSetRoles, AdminLookup
<1>13. CASE UNCHANGED vars
  BY <1>2, <1>13 DEF vars
<1> QED
  BY <1>3, <1>4, <1>5, <1>6, <1>7, <1>8, <1>9, <1>10, <1>11, <1>12, <1>13 DEF Next

-----------------------------------------------------------------------------
(* Requests.                                                               *)

\* What RequestsInv says of one request.
HoldsInv(r) ==
  req[r] # None =>
    LET q == req[r] IN
    /\ q.sid # None => owner[q.sid] # None
    /\ q.pc \in Steps \cup Past => q.sid # None
    /\ q.pc \notin Answers \ {"upstream", "denied"} => q.me \/ q.host # None
    /\ q.late => q.sid \in revoked
    /\ RowsBehind(q.sid, users) \subseteq seen[r]
    /\ q.pc \in Past \cup {"user"} => ~q.late
    /\ q.pc = "user" => q.uid \in Ids /\ users[q.uid].slack = owner[q.sid]
    /\ q.pc \in Past => /\ q.row # None /\ q.row.slack = owner[q.sid]
                       /\ <<q.uid, q.row>> \in seen[r]
    /\ q.pc \in Past \ {"signedIn"} =>
         q.host # None /\ ((q.pc # "denied") = Allowed(q.host, q.row.roles))

LEMMA RequestsHold == RequestsInv <=> \A r \in Req : HoldsInv(r)
BY DEF RequestsInv, HoldsInv

\* A request that does not move keeps what it holds while the rest changes.
LEMMA StillHolds ==
  ASSUME IInv, Steady, NEW r \in Req, req'[r] = req[r],
         \A s \in Sid : owner[s] # None => owner'[s] = owner[s],
         revoked \subseteq revoked',
         \/ UNCHANGED users /\ seen'[r] = seen[r]
         \/ Observe
  PROVE  HoldsInv(r)'
<1> SUFFICES ASSUME req[r] # None PROVE HoldsInv(r)'
  BY DEF HoldsInv
<1>1. HoldsInv(r) /\ req[r] \in Request
  BY RequestsHold, RequestTypes DEF IInv
<1>2. req[r].sid \in Sid \cup {None}
  BY <1>1 DEF Request
<1>3. req[r].sid # None => owner'[req[r].sid] = owner[req[r].sid]
  BY <1>1, <1>2 DEF HoldsInv
<1>4. RowsBehind(req[r].sid, users)' \subseteq seen'[r] /\ seen[r] \subseteq seen'[r]
  <2>1. CASE Observe
    <3>1. seen'[r] = seen[r] \cup RowsBehind(req[r].sid, users')
      BY <2>1 DEF Observe
    <3> QED
      BY <1>3, <3>1 DEF RowsBehind
  <2>2. CASE UNCHANGED users /\ seen'[r] = seen[r]
    BY <1>1, <1>3, <2>2 DEF HoldsInv, RowsBehind
  <2> QED
    BY <2>1, <2>2
<1>5. req[r].pc = "user" => req[r].uid \in Ids' /\ users'[req[r].uid].slack = owner'[req[r].sid]
  BY <1>1, <1>3 DEF HoldsInv, Steady, Steps
<1>6. req[r].pc \in Past => req[r].sid # None
  BY <1>1 DEF HoldsInv
<1> QED
  BY <1>1, <1>3, <1>4, <1>5, <1>6 DEF HoldsInv, Allowed

\* Its own steps: onwards while it touches, or out without having been let in.
LEMMA MoveHolds ==
  ASSUME IInv, NEW r \in Req, req[r] # None, NEW pc \in Steps \cup Answers, Move(r, pc),
         UNCHANGED <<users, owner, revoked, seen>>,
         \/ pc \in {"login", "error", "signedOut"}
         \/ /\ pc \in {"slideLive", "slideDead", "upstream"}
            /\ req[r].pc \in {"touch", "slideLive", "slideDead"}
  PROVE  HoldsInv(r)'
<1>1. /\ req'[r] # None /\ req'[r].pc = pc
      /\ req'[r].me = req[r].me /\ req'[r].host = req[r].host /\ req'[r].sid = req[r].sid
      /\ req'[r].uid = req[r].uid /\ req'[r].row = req[r].row /\ req'[r].late = req[r].late
  BY MoveFacts DEF IInv
<1>2. HoldsInv(r)
  BY RequestsHold DEF IInv
<1> QED
  BY <1>1, <1>2 DEF HoldsInv, RowsBehind, Allowed, Past, Steps, Answers

LEMMA ArriveHolds ==
  ASSUME IInv, NEW r \in Req, NEW me \in BOOLEAN, NEW h \in Host \cup {None}, NEW s \in Sid \cup {None},
         Arrive(r, me, h, s)
  PROVE  HoldsInv(r)' /\ req' \in [Req -> Request \cup {None}]
<1> DEFINE pc == CASE me /\ s = None       -> "signedOut"
                   [] ~me /\ h = None      -> "notFound"
                   [] h # None /\ s = None -> "login"
                   [] OTHER                -> "session"
           q == [pc |-> pc, me |-> me, host |-> h, sid |-> s, uid |-> 0, row |-> None, late |-> s \in revoked]
<1>1. req' = [req EXCEPT ![r] = q] /\ (s # None => owner[s] # None)
  BY DEF Arrive
<1>2. pc \in {"signedOut", "notFound", "login", "session"} /\ (pc = "session" => s # None /\ (me \/ h # None))
  OBVIOUS
<1> HIDE DEF pc
<1>3. q \in Request
  BY <1>2 DEF Request, Steps, Answers
<1>4. q # None
  BY <1>3, NoneAssumption
<1>5. /\ q.pc = pc /\ q.me = me /\ q.host = h /\ q.sid = s /\ q.late = (s \in revoked)
  OBVIOUS
<1> HIDE DEF q
<1>6. req' \in [Req -> Request \cup {None}] /\ req'[r] = q
  BY <1>1, <1>3 DEF IInv, TypeOK
<1>7. UNCHANGED <<users, owner, revoked>> /\ seen'[r] = RowsBehind(s, users)
  BY DEF Arrive, Rest, IInv, TypeOK
<1>8. RowsBehind(s, users)' = RowsBehind(s, users)
  BY <1>7 DEF RowsBehind
<1> QED
  BY <1>1, <1>2, <1>4, <1>5, <1>6, <1>7, <1>8 DEF HoldsInv, Past, Steps, Answers

LEMMA GetSessionHolds ==
  ASSUME IInv, NEW r \in Req, GetSession(r)
  PROVE  HoldsInv(r)' /\ req' \in [Req -> Request \cup {None}]
<1>1. req[r] # None /\ req[r].pc = "session" /\ UNCHANGED <<users, owner, revoked, seen>>
  BY DEF GetSession, At, Rest
<1>2. CASE Refuse(r)
  <2>1. PICK pc \in {"signedOut", "login"} : Move(r, pc)
    BY <1>2 DEF Refuse
  <2> QED
    BY <1>1, <2>1, MoveHolds, MoveFacts DEF IInv, Answers
<1>3. CASE /\ HasRow(req[r].sid)
           /\ req' = [req EXCEPT ![r].pc = "user", ![r].uid = sessions[req[r].sid].user]
  <2> DEFINE q == req[r]
             u == sessions[q.sid].user
  <2>1. HoldsInv(r) /\ q \in Request
    BY <1>1, RequestsHold, RequestTypes DEF IInv
  <2>2. q.sid \in Sid
    BY <1>1, <2>1 DEF HoldsInv, Steps, Request
  <2>3. u \in Ids /\ owner[q.sid] = users[u].slack /\ q.sid \notin revoked
    BY <1>3, <2>2 DEF HasRow, IInv, SessionsInv
  <2>4. u \in Nat
    BY <2>3, TableFacts
  <2>5. req'[r] = [q EXCEPT !.pc = "user", !.uid = u] /\ req' = [req EXCEPT ![r] = [q EXCEPT !.pc = "user", !.uid = u]]
    BY <1>3 DEF IInv, TypeOK
  <2> HIDE DEF u, q
  <2>6. [q EXCEPT !.pc = "user", !.uid = u] \in Request
    BY <2>1, <2>4 DEF Request, Steps
  <2>7. /\ req'[r] # None /\ req'[r].pc = "user" /\ req'[r].uid = u
        /\ req'[r].me = q.me /\ req'[r].host = q.host /\ req'[r].sid = q.sid /\ req'[r].late = q.late
    BY <2>1, <2>5, <2>6, NoneAssumption DEF Request
  <2>8. req' \in [Req -> Request \cup {None}]
    BY <2>5, <2>6 DEF IInv, TypeOK
  <2>9. ~q.late
    BY <1>1, <2>1, <2>3 DEF HoldsInv, q
  <2>10. Ids' = Ids /\ \A s : RowsBehind(s, users)' = RowsBehind(s, users)
    BY <1>1 DEF Ids, RowsBehind
  <2>11. /\ q.sid # None => owner[q.sid] # None
         /\ q.sid # None /\ (q.me \/ q.host # None)
         /\ RowsBehind(q.sid, users) \subseteq seen[r]
    BY <1>1, <2>1 DEF HoldsInv, q, Steps, Answers
  <2>12. HoldsInv(r)'
    BY <1>1, <2>3, <2>7, <2>9, <2>10, <2>11 DEF HoldsInv, Past, Steps
  <2> QED
    BY <2>8, <2>12
<1> QED
  BY <1>2, <1>3 DEF GetSession

LEMMA PermitsAllowed ==
  ASSUME NEW h \in Host, NEW R \in SUBSET Role
  PROVE  Permits(h, R) = Allowed(h, R)
BY RequiredAssumption DEF Permits, Allowed

LEMMA GetUserHolds ==
  ASSUME IInv, NEW r \in Req, GetUser(r)
  PROVE  HoldsInv(r)' /\ req' \in [Req -> Request \cup {None}]
<1>1. req[r] # None /\ req[r].pc = "user" /\ UNCHANGED <<users, owner, revoked, seen>>
  BY DEF GetUser, At, Rest
<1>2. CASE Refuse(r) \/ Move(r, IF req[r].me THEN "signedOut" ELSE "error")
  <2>1. PICK pc \in {"signedOut", "login", "error"} : Move(r, pc)
    BY <1>2 DEF Refuse
  <2> QED
    BY <1>1, <2>1, MoveHolds, MoveFacts DEF IInv, Answers
<1> DEFINE q == req[r]
           u == users[q.uid]
           pc == IF q.me THEN "signedIn" ELSE IF Permits(q.host, u.roles) THEN "touch" ELSE "denied"
<1>3. CASE q.uid \in Ids /\ req' = [req EXCEPT ![r].row = u, ![r].pc = pc]
  <2>1. HoldsInv(r) /\ q \in Request
    BY <1>1, RequestsHold, RequestTypes DEF IInv
  <2>2. u \in UserRow /\ u # None /\ u.roles \in SUBSET Role
    BY <1>3, TableFacts, NoneAssumption DEF UserRow
  <2>3. req'[r] = [q EXCEPT !.row = u, !.pc = pc] /\ req' = [req EXCEPT ![r] = [q EXCEPT !.row = u, !.pc = pc]]
    BY <1>3 DEF IInv, TypeOK
  <2>4. pc \in {"signedIn", "touch", "denied"} /\ (pc = "signedIn" <=> q.me)
    BY <2>1 DEF Request
  <2>5. pc # "signedIn" => q.host # None /\ ((pc # "denied") = Allowed(q.host, u.roles))
    <3>1. ~q.me => q.host \in Host
      BY <1>1, <2>1 DEF HoldsInv, Request, Answers
    <3>2. ASSUME ~q.me
          PROVE  q.host # None /\ ((pc # "denied") <=> Allowed(q.host, u.roles))
      <4>1. Permits(q.host, u.roles) <=> Allowed(q.host, u.roles)
        BY <2>2, <3>1, <3>2, PermitsAllowed
      <4>2. q.host # None
        BY <3>1, <3>2, NoneAssumption
      <4>3. pc = IF Permits(q.host, u.roles) THEN "touch" ELSE "denied"
        BY <3>2
      <4> HIDE DEF pc
      <4> QED
        BY <4>1, <4>2, <4>3
    <3> QED
      BY <2>4, <3>2 DEF Allowed
  <2>6. /\ q.sid # None /\ owner[q.sid] # None /\ ~q.late
        /\ q.uid \in Ids /\ u.slack = owner[q.sid]
        /\ RowsBehind(q.sid, users) \subseteq seen[r]
    BY <1>1, <2>1 DEF HoldsInv, Steps
  <2>7. <<q.uid, u>> \in seen[r]
    BY <2>6 DEF RowsBehind, Ids
  <2> HIDE DEF u, q, pc
  <2>8. [q EXCEPT !.row = u, !.pc = pc] \in Request
    BY <2>1, <2>2, <2>4 DEF Request, Steps, Answers
  <2>9. /\ req'[r] # None /\ req'[r].pc = pc /\ req'[r].uid = q.uid /\ req'[r].row = u
        /\ req'[r].me = q.me /\ req'[r].host = q.host /\ req'[r].sid = q.sid /\ req'[r].late = q.late
    <3>1. req'[r] # None
      BY <2>3, <2>8, NoneAssumption
    <3>2. req'[r].pc = pc /\ req'[r].uid = q.uid /\ req'[r].row = u
      BY <2>1, <2>3 DEF Request
    <3>3. req'[r].me = q.me /\ req'[r].host = q.host /\ req'[r].sid = q.sid /\ req'[r].late = q.late
      BY <2>1, <2>3 DEF Request
    <3> QED
      BY <3>1, <3>2, <3>3
  <2>10. req' \in [Req -> Request \cup {None}]
    BY <2>3, <2>8 DEF IInv, TypeOK
  <2>11. \A s : RowsBehind(s, users)' = RowsBehind(s, users)
    BY <1>1 DEF RowsBehind
  <2>12. HoldsInv(r)'
    BY <1>1, <2>2, <2>4, <2>5, <2>6, <2>7, <2>9, <2>11 DEF HoldsInv, Past, Steps, Answers, Allowed
  <2> QED
    BY <2>10, <2>12
<1> QED
  BY <1>2, <1>3 DEF GetUser

LEMMA TouchHolds ==
  ASSUME IInv, NEW r \in Req, TouchBegin(r) \/ TouchWrite(r)
  PROVE  HoldsInv(r)' /\ req' \in [Req -> Request \cup {None}]
<1>1. /\ req[r] # None /\ req[r].pc \in {"touch", "slideLive", "slideDead"}
      /\ UNCHANGED <<users, owner, revoked, seen>>
  BY DEF TouchBegin, TouchWrite, At, Rest
<1>2. PICK pc \in {"slideLive", "slideDead", "upstream"} : Move(r, pc)
  BY DEF TouchBegin, TouchWrite
<1> QED
  BY <1>1, <1>2, MoveHolds, MoveFacts DEF IInv, Steps, Answers

LEMMA NextRequests ==
  ASSUME IInv, [Next]_vars, NEW r \in Req
  PROVE  HoldsInv(r)'
<1>0. Steady
  BY NextUsers
<1>1. ASSUME NEW l \in Login, NEW k \in Slack, NEW e \in Email, LoginUpsert(l, k, e) PROVE HoldsInv(r)'
  BY <1>0, <1>1, StillHolds DEF LoginUpsert
<1>2. ASSUME NEW a \in Admin, NEW R \in SUBSET Role, AdminSetRoles(a, R) PROVE HoldsInv(r)'
  BY <1>0, <1>2, StillHolds DEF AdminSetRoles
<1>3. ASSUME NEW l \in Login, NEW s \in Sid, LoginCreate(l, s) PROVE HoldsInv(r)'
  <2>1. \A t \in Sid : owner[t] # None => owner'[t] = owner[t]
    BY <1>3 DEF LoginCreate, IInv, TypeOK
  <2> QED
    BY <1>0, <1>3, <2>1, StillHolds DEF LoginCreate
<1>4. ASSUME NEW l \in Login, LoginFails(l) PROVE HoldsInv(r)'
  BY <1>0, <1>4, StillHolds DEF LoginFails
<1>5. ASSUME NEW s \in Sid, Age(s) \/ HandleLogout(s) PROVE HoldsInv(r)'
  BY <1>0, <1>5, StillHolds DEF Age, HandleLogout, Rest
<1>6. ASSUME NEW S \in SUBSET Sid, Sweep(S) PROVE HoldsInv(r)'
  BY <1>0, <1>6, StillHolds DEF Sweep, Rest
<1>7. CASE ForceLogoutAll
  BY <1>0, <1>7, StillHolds DEF ForceLogoutAll, Rest
<1>8. ASSUME NEW a \in Admin, AdminForceLogout(a) \/ AdminFails(a) PROVE HoldsInv(r)'
  BY <1>0, <1>8, StillHolds DEF AdminForceLogout, AdminFails
<1>9. ASSUME NEW a \in Admin, NEW op \in {"roles", "logout"}, NEW e \in Email, AdminLookup(a, op, e)
      PROVE  HoldsInv(r)'
  BY <1>0, <1>9, StillHolds DEF AdminLookup
<1>10. CASE UNCHANGED vars
  BY <1>0, <1>10, StillHolds DEF vars
<1>11. ASSUME NEW d \in Req,
             \/ \E me \in BOOLEAN, h \in Host \cup {None}, s \in Sid \cup {None} : Arrive(d, me, h, s)
             \/ GetSession(d) \/ GetUser(d) \/ TouchBegin(d) \/ TouchWrite(d) \/ Finish(d)
      PROVE  HoldsInv(r)'
  <2>1. CASE r # d
    <3>1. UNCHANGED <<users, owner>> /\ UNCHANGED revoked
      BY <1>11 DEF Arrive, GetSession, GetUser, TouchBegin, TouchWrite, Finish, Rest
    <3>2. seen'[r] = seen[r]
      BY <1>11, <2>1 DEF Arrive, GetSession, GetUser, TouchBegin, TouchWrite, Finish, IInv, TypeOK
    <3>3. req'[r] = req[r]
      BY <1>11, <2>1 DEF Arrive, GetSession, GetUser, TouchBegin, TouchWrite, Finish, Refuse, Move, IInv, TypeOK
    <3> QED
      BY <1>0, <3>1, <3>2, <3>3, StillHolds
  <2>2. CASE r = d
    <3>1. CASE Finish(r)
      BY <3>1 DEF Finish, HoldsInv, IInv, TypeOK
    <3> QED
      BY <1>11, <2>2, <3>1, ArriveHolds, GetSessionHolds, GetUserHolds, TouchHolds
  <2> QED
    BY <2>1, <2>2
<1> QED
  BY <1>1, <1>2, <1>3, <1>4, <1>5, <1>6, <1>7, <1>8, <1>9, <1>10, <1>11 DEF Next

-----------------------------------------------------------------------------
(* Type correctness.                                                       *)

LEMMA NextReq ==
  ASSUME IInv, [Next]_vars
  PROVE  req' \in [Req -> Request \cup {None}]
<1>1. ASSUME NEW r \in Req,
             \/ \E me \in BOOLEAN, h \in Host \cup {None}, s \in Sid \cup {None} : Arrive(r, me, h, s)
             \/ GetSession(r) \/ GetUser(r) \/ TouchBegin(r) \/ TouchWrite(r)
      PROVE  req' \in [Req -> Request \cup {None}]
  BY <1>1, ArriveHolds, GetSessionHolds, GetUserHolds, TouchHolds
<1>2. ASSUME NEW r \in Req, Finish(r) PROVE req' \in [Req -> Request \cup {None}]
  BY <1>2 DEF Finish, IInv, TypeOK
<1>3. ASSUME UNCHANGED req PROVE req' \in [Req -> Request \cup {None}]
  BY <1>3 DEF IInv, TypeOK
<1>4. ASSUME NEW l \in Login, LoginFails(l) \/ (\E k \in Slack, e \in Email : LoginUpsert(l, k, e))
                              \/ \E s \in Sid : LoginCreate(l, s)
      PROVE  UNCHANGED req
  BY <1>4 DEF LoginFails, LoginUpsert, LoginCreate
<1>5. ASSUME NEW s \in Sid, Age(s) \/ HandleLogout(s) PROVE UNCHANGED req
  BY <1>5 DEF Age, HandleLogout
<1>6. ASSUME NEW S \in SUBSET Sid, Sweep(S) \/ ForceLogoutAll PROVE UNCHANGED req
  BY <1>6 DEF Sweep, ForceLogoutAll
<1>7. ASSUME NEW a \in Admin,
             \/ AdminFails(a) \/ AdminForceLogout(a) \/ \E R \in SUBSET Role : AdminSetRoles(a, R)
             \/ \E op \in {"roles", "logout"}, e \in Email : AdminLookup(a, op, e)
      PROVE  UNCHANGED req
  BY <1>7 DEF AdminFails, AdminForceLogout, AdminSetRoles, AdminLookup
<1>8. CASE UNCHANGED vars
  BY <1>3, <1>8 DEF vars
<1> QED
  BY <1>1, <1>2, <1>3, <1>4, <1>5, <1>6, <1>7, <1>8 DEF Next

\* The rows a request has seen are rows of accounts that are still there.
LEMMA NextSeen ==
  ASSUME IInv, [Next]_vars, users' \in Seq(UserRow)
  PROVE  seen' \in [Req -> SUBSET (Ids' \X UserRow)]
<1>1. Ids \subseteq Ids'
  BY NextUsers DEF Steady
<1>2. seen \in [Req -> SUBSET (Ids' \X UserRow)]
  BY <1>1 DEF IInv, TypeOK
<1>3. \A s : RowsBehind(s, users') \subseteq Ids' \X UserRow
  <2>1. \A s, table : table \in Seq(UserRow) => RowsBehind(s, table) \subseteq (DOMAIN table) \X UserRow
    BY RowsBehindType
  <2> QED
    BY <2>1 DEF Ids, RowsBehind
<1>4. CASE Observe
  BY <1>2, <1>3, <1>4 DEF Observe
<1>5. CASE UNCHANGED seen
  BY <1>2, <1>5
<1>6. ASSUME NEW r \in Req, NEW s, seen' = [seen EXCEPT ![r] = RowsBehind(s, users)], UNCHANGED users
      PROVE  seen' \in [Req -> SUBSET (Ids' \X UserRow)]
  <2>1. RowsBehind(s, users) \in SUBSET (Ids' \X UserRow)
    BY <1>6, RowsBehindType DEF IInv, TypeOK, Ids
  <2> QED
    BY <1>2, <1>6, <2>1
<1>7. ASSUME NEW r \in Req,
             \/ \E me \in BOOLEAN, h \in Host \cup {None}, s \in Sid \cup {None} : Arrive(r, me, h, s)
             \/ Finish(r)
      PROVE  seen' \in [Req -> SUBSET (Ids' \X UserRow)]
  <2>1. CASE Finish(r)
    BY <1>2, <2>1 DEF Finish
  <2>2. ASSUME NEW me \in BOOLEAN, NEW h \in Host \cup {None}, NEW s \in Sid \cup {None}, Arrive(r, me, h, s)
        PROVE  seen' \in [Req -> SUBSET (Ids' \X UserRow)]
    BY <1>6, <2>2 DEF Arrive, Rest
  <2> QED
    BY <1>7, <2>1, <2>2
<1>8. ASSUME NEW r \in Req, GetSession(r) \/ GetUser(r) \/ TouchBegin(r) \/ TouchWrite(r)
      PROVE  UNCHANGED seen
  BY <1>8 DEF GetSession, GetUser, TouchBegin, TouchWrite
<1>9. ASSUME NEW l \in Login, LoginFails(l) \/ (\E k \in Slack, e \in Email : LoginUpsert(l, k, e))
                              \/ \E s \in Sid : LoginCreate(l, s)
      PROVE  UNCHANGED seen \/ Observe
  BY <1>9 DEF LoginFails, LoginUpsert, LoginCreate
<1>10. ASSUME NEW s \in Sid, Age(s) \/ HandleLogout(s) PROVE UNCHANGED seen
  BY <1>10 DEF Age, HandleLogout
<1>11. ASSUME NEW S \in SUBSET Sid, Sweep(S) \/ ForceLogoutAll PROVE UNCHANGED seen
  BY <1>11 DEF Sweep, ForceLogoutAll
<1>12. ASSUME NEW a \in Admin,
             \/ AdminFails(a) \/ AdminForceLogout(a) \/ \E R \in SUBSET Role : AdminSetRoles(a, R)
             \/ \E op \in {"roles", "logout"}, e \in Email : AdminLookup(a, op, e)
      PROVE  UNCHANGED seen \/ Observe
  BY <1>12 DEF AdminFails, AdminForceLogout, AdminSetRoles, AdminLookup
<1>13. CASE UNCHANGED vars
  BY <1>5, <1>13 DEF vars
<1> QED
  BY <1>4, <1>5, <1>7, <1>8, <1>9, <1>10, <1>11, <1>12, <1>13 DEF Next

\* The sign-ins and the commands in flight, and the two tables of users.
LEMMA NextTables ==
  ASSUME IInv, [Next]_vars
  PROVE  /\ users' \in Seq(UserRow) /\ granted' \in Seq(SUBSET Role)
         /\ login' \in [Login -> SignIn \cup {None}] /\ admin' \in [Admin -> Command \cup {None}]
<1>0. TypeOK
  BY DEF IInv
<1> DEFINE Tables == /\ users' \in Seq(UserRow) /\ granted' \in Seq(SUBSET Role)
           SignIns == login' \in [Login -> SignIn \cup {None}]
           Commands == admin' \in [Admin -> Command \cup {None}]
<1>1. /\ UNCHANGED <<users, granted>> => Tables
      /\ UNCHANGED login => SignIns
      /\ UNCHANGED admin => Commands
  BY <1>0 DEF TypeOK
<1>2. ASSUME NEW l \in Login, NEW k \in Slack, NEW e \in Email, LoginUpsert(l, k, e)
      PROVE  Tables /\ SignIns /\ Commands
  <2>1. PICK i \in Ids' : login' = [login EXCEPT ![l] = [who |-> k, id |-> i]]
    BY <1>2, UpsertFacts
  <2>2. Tables /\ UNCHANGED admin
    BY <1>2, UpsertFacts DEF LoginUpsert
  <2>3. i \in Nat
    BY <2>2 DEF Ids
  <2>4. [who |-> k, id |-> i] \in SignIn
    BY <2>3 DEF SignIn
  <2>5. SignIns
    BY <1>0, <2>1, <2>4 DEF TypeOK
  <2> QED
    BY <1>1, <2>2, <2>5
<1>3. ASSUME NEW l \in Login, LoginFails(l) \/ \E s \in Sid : LoginCreate(l, s)
      PROVE  Tables /\ SignIns /\ Commands
  <2>1. UNCHANGED <<users, granted, admin>> /\ login' = [login EXCEPT ![l] = None]
    BY <1>3 DEF LoginFails, LoginCreate
  <2>2. SignIns
    BY <1>0, <2>1 DEF TypeOK
  <2> QED
    BY <1>1, <2>1, <2>2
<1>4. ASSUME NEW a \in Admin, NEW R \in SUBSET Role, AdminSetRoles(a, R)
      PROVE  Tables /\ SignIns /\ Commands
  <2>1. Tables
    BY <1>4, SetRolesFacts
  <2>2. UNCHANGED login /\ admin' = [admin EXCEPT ![a] = None]
    BY <1>4 DEF AdminSetRoles
  <2>3. Commands
    BY <1>0, <2>2 DEF TypeOK
  <2> QED
    BY <1>1, <2>1, <2>2, <2>3
<1>5. ASSUME NEW a \in Admin, AdminFails(a) \/ AdminForceLogout(a)
      PROVE  Tables /\ SignIns /\ Commands
  <2>1. UNCHANGED <<users, granted, login>> /\ admin' = [admin EXCEPT ![a] = None]
    BY <1>5 DEF AdminFails, AdminForceLogout
  <2>2. Commands
    BY <1>0, <2>1 DEF TypeOK
  <2> QED
    BY <1>1, <2>1, <2>2
<1>6. ASSUME NEW a \in Admin, NEW op \in {"roles", "logout"}, NEW e \in Email, AdminLookup(a, op, e)
      PROVE  Tables /\ SignIns /\ Commands
  <2>1. UNCHANGED <<users, granted, login>>
    BY <1>6 DEF AdminLookup
  <2>2. PICK i \in Ids : admin' = [admin EXCEPT ![a] = [op |-> op, id |-> i]]
    BY <1>6 DEF AdminLookup
  <2>3. [op |-> op, id |-> i] \in Command
    BY TableFacts DEF Command
  <2>4. Commands
    BY <1>0, <2>2, <2>3 DEF TypeOK
  <2> QED
    BY <1>1, <2>1, <2>4
<1>7. ASSUME UNCHANGED <<users, granted, login, admin>> PROVE Tables /\ SignIns /\ Commands
  BY <1>1, <1>7
<1> HIDE DEF Tables, SignIns, Commands
<1>8. ASSUME NEW r \in Req,
             \/ \E me \in BOOLEAN, h \in Host \cup {None}, s \in Sid \cup {None} : Arrive(r, me, h, s)
             \/ GetSession(r) \/ GetUser(r) \/ TouchBegin(r) \/ TouchWrite(r) \/ Finish(r)
      PROVE  Tables /\ SignIns /\ Commands
  BY <1>7, <1>8 DEF Arrive, GetSession, GetUser, TouchBegin, TouchWrite, Finish, Rest
<1>9. ASSUME NEW s \in Sid, Age(s) \/ HandleLogout(s) PROVE Tables /\ SignIns /\ Commands
  BY <1>7, <1>9 DEF Age, HandleLogout, Rest
<1>10. ASSUME NEW S \in SUBSET Sid, Sweep(S) \/ ForceLogoutAll PROVE Tables /\ SignIns /\ Commands
  BY <1>7, <1>10 DEF Sweep, ForceLogoutAll, Rest
<1>11. ASSUME UNCHANGED vars PROVE Tables /\ SignIns /\ Commands
  BY <1>7, <1>11 DEF vars
<1>12. Tables /\ SignIns /\ Commands
  BY <1>2, <1>3, <1>4, <1>5, <1>6, <1>8, <1>9, <1>10, <1>11 DEF Next
<1> QED
  BY <1>12 DEF Tables, SignIns, Commands

LEMMA LiveFacts ==
  ASSUME NEW row \in Session, NEW live \in BOOLEAN
  PROVE  [row EXCEPT !.live = live] \in Session
BY DEF Session

\* The session rows and their histories.
LEMMA NextRows ==
  ASSUME IInv, [Next]_vars
  PROVE  /\ sessions' \in [Sid -> Session \cup {None}] /\ owner' \in [Sid -> Slack \cup {None}]
         /\ revoked' \in SUBSET Sid
<1>0. TypeOK
  BY DEF IInv
<1> DEFINE Rows == /\ sessions' \in [Sid -> Session \cup {None}] /\ owner' \in [Sid -> Slack \cup {None}]
                   /\ revoked' \in SUBSET Sid
<1>1. ASSUME UNCHANGED <<sessions, owner, revoked>> PROVE Rows
  BY <1>0, <1>1 DEF TypeOK
<1>2. ASSUME NEW S \in SUBSET Sid, Drop(S), UNCHANGED owner, revoked' \in SUBSET Sid PROVE Rows
  BY <1>0, <1>2 DEF TypeOK, Drop
<1>3. ASSUME NEW l \in Login, NEW s \in Sid, LoginCreate(l, s) PROVE Rows
  <2>1. login[l] # None /\ login[l] \in SignIn
    BY <1>0, <1>3 DEF LoginCreate, TypeOK
  <2>2. [user |-> login[l].id, live |-> TRUE] \in Session /\ login[l].who \in Slack
    BY <2>1 DEF SignIn, Session
  <2> QED
    BY <1>0, <1>3, <2>2 DEF LoginCreate, TypeOK
<1>4. ASSUME NEW r \in Req, TouchWrite(r) PROVE Rows
  <2>1. Slide(req[r].sid, req[r].uid, At(r, "slideLive")) /\ UNCHANGED <<owner, revoked>>
    BY <1>4 DEF TouchWrite, Rest
  <2>2. sessions' \in [Sid -> Session \cup {None}]
    <3>1. CASE UNCHANGED sessions
      BY <1>0, <3>1 DEF TypeOK
    <3>2. CASE /\ HasRow(req[r].sid) /\ sessions' = [sessions EXCEPT ![req[r].sid].live = TRUE]
      <4> DEFINE s == req[r].sid
      <4>1. s \in Sid => [sessions[s] EXCEPT !.live = TRUE] \in Session
        BY <1>0, <3>2, LiveFacts DEF HasRow, TypeOK
      <4> QED
        BY <1>0, <3>2, <4>1 DEF TypeOK
    <3> QED
      BY <2>1, <3>1, <3>2 DEF Slide
  <2> QED
    BY <1>0, <2>1, <2>2 DEF TypeOK
<1>5. ASSUME NEW s \in Sid, Age(s) PROVE Rows
  <2>1. [sessions[s] EXCEPT !.live = FALSE] \in Session
    BY <1>0, <1>5, LiveFacts DEF Age, HasRow, TypeOK
  <2> QED
    BY <1>0, <1>5, <2>1 DEF Age, Rest, TypeOK
<1>6. ASSUME NEW S \in SUBSET Sid, Sweep(S) PROVE Rows
  BY <1>0, <1>2, <1>6 DEF Sweep, Rest, TypeOK
<1>7. ASSUME ForceLogoutAll PROVE Rows
  BY <1>0, <1>2, <1>7 DEF ForceLogoutAll, Rest, TypeOK
<1>8. ASSUME NEW a \in Admin, AdminForceLogout(a) PROVE Rows
  BY <1>0, <1>2, <1>8 DEF AdminForceLogout, RowsOf, TypeOK
<1>9. ASSUME NEW s \in Sid, HandleLogout(s) PROVE Rows
  BY <1>0, <1>2, <1>9 DEF HandleLogout, Rest, TypeOK
<1> HIDE DEF Rows
<1>10. ASSUME NEW r \in Req,
             \/ \E me \in BOOLEAN, h \in Host \cup {None}, s \in Sid \cup {None} : Arrive(r, me, h, s)
             \/ GetSession(r) \/ GetUser(r) \/ TouchBegin(r) \/ Finish(r)
      PROVE  Rows
  BY <1>1, <1>10 DEF Arrive, GetSession, GetUser, TouchBegin, Finish, Rest
<1>11. ASSUME NEW l \in Login, LoginFails(l) \/ \E k \in Slack, e \in Email : LoginUpsert(l, k, e)
      PROVE  Rows
  BY <1>1, <1>11 DEF LoginFails, LoginUpsert
<1>12. ASSUME NEW a \in Admin,
             \/ AdminFails(a) \/ \E R \in SUBSET Role : AdminSetRoles(a, R)
             \/ \E op \in {"roles", "logout"}, e \in Email : AdminLookup(a, op, e)
      PROVE  Rows
  BY <1>1, <1>12 DEF AdminFails, AdminSetRoles, AdminLookup
<1>13. ASSUME UNCHANGED vars PROVE Rows
  BY <1>1, <1>13 DEF vars
<1>14. Rows
  BY <1>3, <1>4, <1>5, <1>6, <1>7, <1>8, <1>9, <1>10, <1>11, <1>12, <1>13 DEF Next
<1> QED
  BY <1>14 DEF Rows

LEMMA NextIInv ==
  ASSUME IInv, [Next]_vars
  PROVE  IInv'
<1>1. TypeOK'
  BY NextTables, NextRows, NextReq, NextSeen DEF TypeOK
<1>2. RequestsInv'
  BY NextRequests DEF RequestsInv, HoldsInv
<1> QED
  BY <1>1, <1>2, NextUsers, NextSessions DEF IInv

-----------------------------------------------------------------------------
(* The theorems.                                                           *)

\* IInv holds of every state the program reaches: one row per account, every
\* session row and everything a request holds pointing at the right one
\* (internal/auth, internal/sessions, internal/users, internal/proxy).
THEOREM Inductive == Spec => []IInv
BY InitIInv, NextIInv, PTL DEF Spec

\* What HandleMe and the proxy decide, and forward, is one state the user row
\* was in since the request arrived.
THEOREM DecidesOnFreshRoles == Spec => []FreshDecision
<1>1. IInv => FreshDecision
  BY DEF IInv, RequestsInv, FreshDecision, Past
<1> QED
  BY <1>1, Inductive, PTL

\* Nobody is forwarded under another account's identity.
THEOREM ForwardsTheSignedIn == Spec => []RightPerson
<1>1. IInv => RightPerson
  BY DEF IInv, RequestsInv, RightPerson, Past
<1> QED
  BY <1>1, Inductive, PTL

\* A session deleted before a request arrived does not let it in.
THEOREM SignedOutIsOut == Spec => []RevokedStaysOut
<1>1. IInv => RevokedStaysOut
  BY DEF IInv, RequestsInv, RevokedStaysOut, Past
<1> QED
  BY <1>1, Inductive, PTL

\* Roles are what the operator last set, whatever sign-ins do meanwhile.
THEOREM NoGrantIsLost == Spec => []GrantsKept
<1>1. IInv => GrantsKept
  BY DEF IInv, UsersInv, GrantsKept
<1> QED
  BY <1>1, Inductive, PTL

\* Accounts and rows correspond one to one, for ever.
THEOREM AccountsKeepTheirRow == Spec => StableIdentity
<1>1. IInv /\ IInv' /\ [Next]_vars =>
        [/\ \A i \in Ids : i \in Ids' /\ users'[i].slack = users[i].slack
         /\ \A i, j \in Ids' : users'[i].slack = users'[j].slack => i = j]_vars
  BY NextUsers DEF Steady, IInv, UsersInv
<1> QED
  BY <1>1, Inductive, PTL DEF Spec, StableIdentity
=============================================================================
