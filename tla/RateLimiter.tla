---------------------------- MODULE RateLimiter ----------------------------
(***************************************************************************)
(* internal/httplog: a token bucket per client address, refilled by the    *)
(* time that has passed whenever the client calls, whether it is let in or *)
(* not.  One RateLimiter serves /auth/login and one /auth/callback; a key  *)
(* is a limiter and an address.                                            *)
(*                                                                         *)
(* Tokens are counted in parts: Allow takes Minute of them and each second *)
(* brings PerMinute of the key's limiter, the code's N/60 of a token.  The *)
(* arithmetic is exact where the code's is floating point.                 *)
(***************************************************************************)
EXTENDS Integers

CONSTANTS
  Key,
  PerMinute,  \* per key, its limiter's requests a minute: the capacity too
  Minute,     \* seconds a minute has
  MaxClock,
  None

ASSUME RateAssumption == PerMinute \in [Key -> Nat \ {0}] /\ Minute \in Nat \ {0}

VARIABLES
  clock,
  buckets,  \* per key, tokens and lastSeen
  refused,  \* per key, when it was first refused after it was last let in
  window    \* per key, an instant someone began to count at, and the count

limiterVars == <<clock, buckets, refused, window>>

Cost == Minute
Capacity(k) == PerMinute[k] * Minute

Bucket == [tokens : Nat, lastSeen : Nat]
Window == [from : Nat, admitted : Nat]

ASSUME NoneAssumption == None \notin Nat \cup Bucket \cup Window

LimiterTypeOK ==
  /\ clock \in Nat
  /\ buckets \in [Key -> Bucket \cup {None}]
  /\ \A k \in Key : buckets[k] # None => buckets[k].tokens <= Capacity(k)
  /\ refused \in [Key -> Nat \cup {None}]
  /\ window \in [Key -> Window \cup {None}]

\* NewRateLimiter.
LimiterInit ==
  /\ clock = 0
  /\ buckets = [k \in Key |-> None]
  /\ refused = [k \in Key |-> None]
  /\ window = [k \in Key |-> None]

Least(a, b) == IF a < b THEN a ELSE b
BugTokens(k) == buckets[k].tokens + (clock - buckets[k].lastSeen) * PerMinute[k]
\* What the bucket holds now: "replenish based on elapsed time, cap at
\* capacity".
Tokens(k) ==
  Least(Capacity(k), buckets[k].tokens + (clock - buckets[k].lastSeen) * PerMinute[k])

\* The bucket after a call that leaves t in it.
Seen(k, t) == buckets' = [buckets EXCEPT ![k] = [tokens |-> t, lastSeen |-> clock]]

More(w) == IF w = None THEN None ELSE [w EXCEPT !.admitted = @ + 1]
Count(k) ==
  /\ refused' = [refused EXCEPT ![k] = None]
  /\ window' = [window EXCEPT ![k] = More(@)]

\* Allow, for an address it has not seen: "start full, consume one".
AllowFresh(k) ==
  /\ buckets[k] = None
  /\ Seen(k, Capacity(k) - Cost)
  /\ Count(k)
  /\ UNCHANGED clock

Allow(k) ==
  /\ buckets[k] # None /\ Tokens(k) >= Cost
  /\ Seen(k, Tokens(k) - Cost)
  /\ Count(k)
  /\ UNCHANGED clock

\* The call is refused; RateLimitMiddleware answers 429, Retry-After 60.
Refuse(k) ==
  /\ buckets[k] # None /\ Tokens(k) < Cost
  /\ Seen(k, Tokens(k))
  /\ refused' = [refused EXCEPT ![k] = IF @ = None THEN clock ELSE @]
  /\ UNCHANGED <<clock, window>>

Tick == clock < MaxClock /\ clock' = clock + 1 /\ UNCHANGED <<buckets, refused, window>>

\* Someone begins to count what k is allowed; one count at a time is enough.
Watch(k) ==
  /\ \A j \in Key : window[j] = None
  /\ window' = [window EXCEPT ![k] = [from |-> clock, admitted |-> 0]]
  /\ UNCHANGED <<clock, buckets, refused>>

\* "Buckets reset on restart", and with them what was promised.
Forget ==
  /\ buckets' = [k \in Key |-> None]
  /\ refused' = [k \in Key |-> None]
  /\ window' = [k \in Key |-> None]
  /\ UNCHANGED clock

Call(k) == AllowFresh(k) \/ Allow(k) \/ Refuse(k)
LimiterNext == Tick \/ Forget \/ \E k \in Key : Call(k) \/ Watch(k)

LimiterSpec == LimiterInit /\ [][LimiterNext]_limiterVars

-----------------------------------------------------------------------------
(* The inductive invariant.                                                *)

Past ==
  \A k \in Key :
    /\ buckets[k] # None => buckets[k].lastSeen <= clock
    /\ window[k] # None => window[k].from <= clock

\* What was let in since the count began was in the bucket then, or has come
\* since.
WindowPaid ==
  \A k \in Key : window[k] # None /\ window[k].admitted > 0 =>
    /\ buckets[k] # None /\ buckets[k].lastSeen >= window[k].from
    /\ Cost * window[k].admitted + buckets[k].tokens
         <= Capacity(k) + PerMinute[k] * (buckets[k].lastSeen - window[k].from)

\* Since it was first refused, no call has taken anything from the bucket.
RefusalPaid ==
  \A k \in Key : refused[k] # None =>
    /\ buckets[k] # None /\ refused[k] <= buckets[k].lastSeen
    /\ PerMinute[k] * (buckets[k].lastSeen - refused[k]) <= buckets[k].tokens
    /\ buckets[k].tokens < Cost

LimiterInv == LimiterTypeOK /\ Past /\ WindowPaid /\ RefusalPaid

-----------------------------------------------------------------------------
(* Properties.                                                             *)

\* In no stretch of a process's time, wherever it begins, is a client let in more often
\* than a full bucket and the refill of that stretch allow, idle time before
\* it notwithstanding: at most 2N in a minute.
BurstBounded ==
  \A k \in Key : window[k] # None =>
    Cost * window[k].admitted <= Capacity(k) + PerMinute[k] * (clock - window[k].from)

\* A client is let in again 1/N of a minute after it was first refused, even
\* if it goes on calling meanwhile: calls that are refused cost nothing, and
\* the minute of Retry-After is enough.
PollingIsHarmless ==
  \A k \in Key : refused[k] # None =>
    PerMinute[k] * (buckets[k].lastSeen - refused[k]) < Minute
=============================================================================
