---------------------------- MODULE SessionStore ----------------------------
(***************************************************************************)
(* internal/session: the sessions table and every operation on it.         *)
(*                                                                         *)
(* A call of the store reads the wall clock first and only then waits for  *)
(* the single writer connection, so the instant a write works with may be  *)
(* long past when the write happens.  Each such call is therefore two or   *)
(* three actions, the captured instant being kept in call[c] in between.   *)
(* A write transaction is BEGIN IMMEDIATE on one connection and is atomic. *)
(*                                                                         *)
(* Time is counted in ticks, Res ticks to the second.  The table stores    *)
(* Unix seconds; the instant a stored value denotes when it is read back   *)
(* is Floor(t), a whole second.                                            *)
(***************************************************************************)
EXTENDS Naturals

CONSTANTS
  Sid,           \* session IDs: 32 random bytes, never drawn twice
  User,          \* rows of the users table (nothing deletes a user)
  Caller,        \* goroutines and CLI processes that call the store
  Res,           \* ticks per second: the precision of time.Now
  IdleTimeout,   \* Options.IdleTimeout, in ticks
  Lifetime,      \* Options.Lifetime, in ticks
  TouchThrottle, \* touchThrottle, in ticks
  MaxClock,      \* bound on the clock
  None           \* no row, no call, no sweep in progress

ASSUME TimeAssumption ==
  /\ Res \in Nat \ {0}
  /\ IdleTimeout \in Nat \ {0}
  /\ Lifetime \in Nat
  /\ IdleTimeout <= Lifetime   \* config.Load refuses anything else
  /\ TouchThrottle \in Nat
  /\ Res <= TouchThrottle      \* the constant in the code is 60 s
  /\ MaxClock \in Nat

Time == 0 .. MaxClock

\* The whole second a time.Time is stored as: t.Unix(), read by time.Unix.
Floor(t) == t - (t % Res)

Earlier(t, u) == IF u < t THEN u ELSE t

Row == [user : User, created_at : Nat, last_seen_at : Nat, expires_at : Nat]

CreateCall == [op : {"create"}, sid : Sid, user : User, now : Time]
TouchCall  == [op : {"touchRead", "touchWrite"}, sid : Sid, now : Time]

ASSUME NoneAssumption ==
  /\ None \notin Row
  /\ None \notin CreateCall \cup TouchCall
  /\ None \notin Nat

VARIABLES
  clock,     \* the wall clock
  sessions,  \* the sessions table
  call,      \* the call each caller is in, with what it captured
  sweep,     \* the instant the sweeper's running tick captured
  minted,    \* history: the IDs generateID has returned
  birth      \* history: the instant Create captured for an ID

vars == <<clock, sessions, call, sweep, minted, birth>>

TypeOK ==
  /\ clock \in Time
  /\ sessions \in [Sid -> Row \cup {None}]
  /\ call \in [Caller -> CreateCall \cup TouchCall \cup {None}]
  /\ sweep \in Time \cup {None}
  /\ minted \in SUBSET Sid
  /\ birth \in [Sid -> Time]

Init ==
  /\ clock = 0
  /\ sessions = [s \in Sid |-> None]
  /\ call = [c \in Caller |-> None]
  /\ sweep = None
  /\ minted = {}
  /\ birth = [s \in Sid |-> 0]

-----------------------------------------------------------------------------
(* The lookups the code makes on a row.                                    *)

HasRow(s) == sessions[s] # None

Creating(s) ==
  \E c \in Caller : call[c] # None /\ call[c].op = "create" /\ call[c].sid = s

\* Store.Get returns the session: a row, and now.Before(expires_at).
Live(s) == HasRow(s) /\ clock < sessions[s].expires_at

\* The test Touch makes twice: now.Sub(last_seen_at) < touchThrottle.
Throttled(s, now) == now < sessions[s].last_seen_at + TouchThrottle

NewRow(u, now) ==
  [user |-> u, created_at |-> Floor(now), last_seen_at |-> Floor(now),
   expires_at |-> Floor(now + IdleTimeout)]

-----------------------------------------------------------------------------
(* Mutants: plausible bugs the properties must notice.                     *)

\* Touch forgets the absolute cap.
BugSlideNoCap(row, now) ==
  [row EXCEPT !.last_seen_at = Floor(now), !.expires_at = Floor(now + IdleTimeout)]

\* The write transaction trusts the throttle decision of the fast path.
BugMaySlideNoRecheck(s, now) == HasRow(s) /\ now < sessions[s].expires_at

\* The sweeper reads the clock once, when the process starts.
BugSweepStale ==
  /\ sweep = None
  /\ sweep' = 0
  /\ UNCHANGED <<clock, sessions, call, minted, birth>>

-----------------------------------------------------------------------------
(* Store.Create                                                            *)

CreateBegin(c, s, u) ==
  /\ call[c] = None
  /\ s \notin minted
  /\ minted' = minted \cup {s}
  /\ birth' = [birth EXCEPT ![s] = clock]
  /\ call' = [call EXCEPT ![c] =
                [op |-> "create", sid |-> s, user |-> u, now |-> clock]]
  /\ UNCHANGED <<clock, sessions, sweep>>

CreateWrite(c) ==
  /\ call[c] # None /\ call[c].op = "create"
  /\ sessions' = [sessions EXCEPT ![call[c].sid] =
                    NewRow(call[c].user, call[c].now)]
  /\ call' = [call EXCEPT ![c] = None]
  /\ UNCHANGED <<clock, sweep, minted, birth>>

-----------------------------------------------------------------------------
(* Store.Touch: capture now, read last_seen_at through the reader pool,    *)
(* and only if the throttle allows it queue for the writer.                *)

TouchBegin(c, s) ==
  /\ call[c] = None
  /\ s \in minted
  /\ call' = [call EXCEPT ![c] = [op |-> "touchRead", sid |-> s, now |-> clock]]
  /\ UNCHANGED <<clock, sessions, sweep, minted, birth>>

TouchRead(c) ==
  /\ call[c] # None /\ call[c].op = "touchRead"
  /\ LET s == call[c].sid IN
     call' = [call EXCEPT ![c] =
                IF HasRow(s) /\ ~Throttled(s, call[c].now)
                  THEN [call[c] EXCEPT !.op = "touchWrite"]
                  ELSE None]
  /\ UNCHANGED <<clock, sessions, sweep, minted, birth>>

\* What an accepted touch writes.
Slide(row, now) ==
  [row EXCEPT !.last_seen_at = Floor(now),
              !.expires_at = Floor(Earlier(now + IdleTimeout,
                                           row.created_at + Lifetime))]

\* The write transaction reads the row again before it decides.
MaySlide(s, now) ==
  /\ HasRow(s)
  /\ now < sessions[s].expires_at
  /\ ~Throttled(s, now)

TouchWrite(c) ==
  /\ call[c] # None /\ call[c].op = "touchWrite"
  /\ LET s == call[c].sid IN
     sessions' = IF MaySlide(s, call[c].now)
                   THEN [sessions EXCEPT ![s] = Slide(@, call[c].now)]
                   ELSE sessions
  /\ call' = [call EXCEPT ![c] = None]
  /\ UNCHANGED <<clock, sweep, minted, birth>>

\* A call that fails (disk full, busy writer, cancelled context) is rolled
\* back and leaves nothing behind.
CallFails(c) ==
  /\ call[c] # None
  /\ call' = [call EXCEPT ![c] = None]
  /\ UNCHANGED <<clock, sessions, sweep, minted, birth>>

-----------------------------------------------------------------------------
(* Deletions capture nothing before the transaction, so each is one step.  *)

Erase(S) == sessions' = [s \in Sid |-> IF s \in S THEN None ELSE sessions[s]]

RowsOf(u) == {s \in Sid : HasRow(s) /\ sessions[s].user = u}

\* Store.Delete: sign-out, idempotent.
Delete(s) ==
  /\ s \in minted
  /\ Erase({s})
  /\ UNCHANGED <<clock, call, sweep, minted, birth>>

\* Store.DeleteAllForUser: forge-proxy admin force-logout <email>.
DeleteAllForUser(u) ==
  /\ Erase(RowsOf(u))
  /\ UNCHANGED <<clock, call, sweep, minted, birth>>

\* forge-proxy admin force-logout-all.
DeleteAll ==
  /\ Erase(Sid)
  /\ UNCHANGED <<clock, call, sweep, minted, birth>>

-----------------------------------------------------------------------------
(* Sweeper.tick and Store.Sweep: the tick captures now, then the DELETE    *)
(* compares every row's expires_at, as it is by then, with that instant.   *)

SweepBegin ==
  /\ sweep = None
  /\ sweep' = clock
  /\ UNCHANGED <<clock, sessions, call, minted, birth>>

Sweepable(now) == {s \in Sid : HasRow(s) /\ sessions[s].expires_at < Floor(now)}

SweepWrite ==
  /\ sweep # None
  /\ Erase(Sweepable(sweep))
  /\ sweep' = None
  /\ UNCHANGED <<clock, call, minted, birth>>

\* A failed tick is logged; the loop goes on to the next one.
SweepFails ==
  /\ sweep # None
  /\ sweep' = None
  /\ UNCHANGED <<clock, sessions, call, minted, birth>>

-----------------------------------------------------------------------------
\* The process dies and is restarted: committed rows survive, calls do not.
Restart ==
  /\ call' = [c \in Caller |-> None]
  /\ sweep' = None
  /\ UNCHANGED <<clock, sessions, minted, birth>>

Tick ==
  /\ clock < MaxClock
  /\ clock' = clock + 1
  /\ UNCHANGED <<sessions, call, sweep, minted, birth>>

Next ==
  \/ \E c \in Caller : \/ \E s \in Sid, u \in User : CreateBegin(c, s, u)
                       \/ \E s \in Sid : TouchBegin(c, s)
                       \/ CreateWrite(c)
                       \/ TouchRead(c)
                       \/ TouchWrite(c)
                       \/ CallFails(c)
  \/ \E s \in Sid : Delete(s)
  \/ \E u \in User : DeleteAllForUser(u)
  \/ DeleteAll
  \/ SweepBegin
  \/ SweepWrite
  \/ SweepFails
  \/ Restart
  \/ Tick

Spec == Init /\ [][Next]_vars

\* Sweeper.Run never stops ticking, and a tick does not fail for ever.
SweeperFairness == WF_vars(SweepBegin) /\ SF_vars(SweepWrite)

FairSpec == Spec /\ SweeperFairness

-----------------------------------------------------------------------------
(* Properties.                                                             *)

\* However Create, Touch and the floor to whole seconds interleave, a row
\* never promises a life beyond Lifetime after the sign-in that made it
\* (Options.Lifetime: "no session may outlive CreatedAt + Lifetime").
AbsoluteCap ==
  \A s \in Sid : HasRow(s) => sessions[s].expires_at <= birth[s] + Lifetime

\* A row that nobody has used for IdleTimeout is dead: its expiry is never
\* more than IdleTimeout past the use recorded in last_seen_at, give or take
\* the second that flooring loses.
IdleBound ==
  \A s \in Sid :
    HasRow(s) => sessions[s].expires_at < sessions[s].last_seen_at + Res + IdleTimeout

\* What the deployed timeouts satisfy (336h and 720h by default): without it
\* the first touch may take a row back by the fraction of a second that
\* flooring created_at loses.
WholeLifetime == Lifetime % Res = 0

\* A touch that waited for the writer while a younger one committed must not
\* take the row backwards in time.
NeverMovesBack ==
  [][\A s \in Sid : HasRow(s) /\ HasRow(s)' =>
       /\ sessions'[s].last_seen_at >= sessions[s].last_seen_at
       /\ sessions'[s].expires_at >= sessions[s].expires_at]_vars

\* Two touches of one session, however they interleave, write it at least
\* touchThrottle apart ("two concurrent Touch calls can't both write").
ThrottleHolds ==
  [][\A s \in Sid : HasRow(s) /\ HasRow(s)' /\ sessions'[s] # sessions[s] =>
       sessions'[s].last_seen_at + Res > sessions[s].last_seen_at + TouchThrottle]_vars

\* Once its row is gone an ID that was handed out never gets one again, so a
\* sign-out or a force-logout is final even for a Touch already in flight.  An
\* ID whose Create is still in flight has not been handed out.
SignOutIsFinal ==
  [][\A s \in minted : ~HasRow(s) /\ ~Creating(s) => ~HasRow(s)']_vars

\* The janitor only takes the dead: no step of the sweeper, however stale the
\* instant it compares with, removes a row that Get would still accept.
NoEarlySweep ==
  [][\A s \in Sid : Live(s) /\ ~HasRow(s)' => sweep' = sweep]_vars

\* "Never resurrect an expired session" (store.go:185 and :237): the expiry of
\* a row that is already dead by the clock does not move.
NeverResurrects ==
  [][\A s \in Sid : HasRow(s) /\ HasRow(s)' /\ ~Live(s) =>
       sessions'[s].expires_at = sessions[s].expires_at]_vars

\* The sweeper removes every row that stays expired, transient failures and
\* restarts notwithstanding.
Overdue(s) == HasRow(s) /\ sessions[s].expires_at < Floor(clock)
ExpiredRowsGo == \A s \in Sid : Overdue(s) ~> ~Overdue(s)

-----------------------------------------------------------------------------
(* The inductive invariant behind the properties: what a call in flight    *)
(* may still do, and what a row records of its past.                       *)

\* A call in flight works with an instant that has passed and an ID that was
\* minted; a Create owns its ID, which has no row yet, and its birth.
CallsInv ==
  \A c \in Caller : call[c] # None =>
    /\ call[c].sid \in minted
    /\ call[c].now <= clock
    /\ call[c].op = "create" =>
         /\ sessions[call[c].sid] = None
         /\ birth[call[c].sid] = call[c].now
         /\ \A d \in Caller \ {c} :
              call[d] # None /\ call[d].op = "create" => call[d].sid # call[c].sid

\* A row belongs to a minted ID, its times are whole seconds, and its expiry is
\* within IdleTimeout of its last use and within Lifetime of its birth.
RowsInv ==
  \A s \in Sid : HasRow(s) =>
    /\ s \in minted
    /\ sessions[s].created_at = Floor(birth[s])
    /\ Floor(sessions[s].expires_at) = sessions[s].expires_at
    /\ sessions[s].expires_at < sessions[s].last_seen_at + Res + IdleTimeout
    /\ sessions[s].expires_at <= birth[s] + Lifetime

SweepInv == sweep # None => sweep <= clock

\* Sign-in fixes the cap, a captured instant is never in the future, and a
\* Create in flight is the only one that can still give its ID a row.
IInv == TypeOK /\ CallsInv /\ RowsInv /\ SweepInv

-----------------------------------------------------------------------------
(* The store implements SessionPromise: an ID is issued when generateID    *)
(* returns it, open while it has a row and closed after that; its deadline *)
(* is expires_at.                                                          *)

PhaseOf(s) ==
  IF s \notin minted  THEN "unissued"
  ELSE IF HasRow(s)   THEN "open"
  ELSE IF Creating(s) THEN "issued" ELSE "closed"

Promise == INSTANCE SessionPromise WITH
  now      <- clock,
  phase    <- [s \in Sid |-> PhaseOf(s)],
  born     <- birth,
  deadline <- [s \in Sid |-> IF HasRow(s) THEN sessions[s].expires_at ELSE 0],
  janitor  <- (sweep # None)

\* Every step of the table, of the calls in flight, of the sweeper and of a
\* restart is a step of the promise or invisible to it.
ImplementsPromise == Promise!PromiseSpec
=============================================================================
