------------------------------ MODULE EdgeProofs ------------------------------
(***************************************************************************)
(* The HTTP side for every environment, set of clients and rate: the rate  *)
(* limiter's two promises, and what a browser may rely on.                 *)
(***************************************************************************)
EXTENDS Edge, SequenceTheorems, WellFoundedInduction, TLAPS

USE RateAssumption DEF Cost

-----------------------------------------------------------------------------
(* Arithmetic.                                                             *)

\* Refills of two stretches that meet are the refill of both together.
LEMMA RefillsAdd ==
  ASSUME NEW p \in Int, NEW a \in Int, NEW b \in Int, NEW c \in Int
  PROVE  p * (a - b) + (b - c) * p = p * (a - c)
BY SMT

\* A longer stretch brings no less.
LEMMA RefillGrows ==
  ASSUME NEW p \in Nat, NEW a \in Int, NEW b \in Int, NEW c \in Int, a <= b
  PROVE  p * (a - c) <= p * (b - c)
<1>1. p * (b - c) = p * (a - c) + p * (b - a) BY SMT
<1>2. p * (b - a) \in Nat BY SMT
<1>. QED BY <1>1, <1>2, p * (a - c) \in Int, SMT

\* Products of naturals are naturals, which SMT is not asked to find again.
LEMMA RefillTypes ==
  ASSUME NEW k \in Key, NEW a \in Nat, NEW b \in Nat, b <= a
  PROVE  (a - b) * PerMinute[k] \in Nat
BY SMT

\* One more admission costs one more Cost.
LEMMA OneMoreCosts ==
  ASSUME NEW n \in Nat
  PROVE  Minute * (n + 1) = Minute * n + Minute /\ Minute * n \in Nat
BY SMT

\* Capacity(k) is worth at least one request.
LEMMA CapacityIsEnough == \A k \in Key : Capacity(k) \in Nat /\ Minute <= Capacity(k)
BY SMT DEF Capacity

\* Tokens stays within the bucket.
LEMMA TokensTyped ==
  ASSUME LimiterTypeOK, Past, NEW k \in Key, buckets[k] # None
  PROVE  /\ Tokens(k) \in 0..Capacity(k)
         /\ Tokens(k) <= buckets[k].tokens + (clock - buckets[k].lastSeen) * PerMinute[k]
         /\ \/ Tokens(k) = Capacity(k)
            \/ Tokens(k) = buckets[k].tokens + (clock - buckets[k].lastSeen) * PerMinute[k]
<1>1. buckets[k] \in Bucket BY DEF LimiterTypeOK
<1>2. buckets[k].tokens \in 0..Capacity(k) /\ buckets[k].lastSeen \in Nat
  BY <1>1, CapacityIsEnough DEF Bucket, LimiterTypeOK
<1>3. clock \in Nat /\ buckets[k].lastSeen <= clock BY DEF LimiterTypeOK, Past
<1>4. (clock - buckets[k].lastSeen) * PerMinute[k] \in Nat BY <1>2, <1>3, RefillTypes
<1>5. Capacity(k) \in Nat BY CapacityIsEnough
<1>. QED BY <1>2, <1>4, <1>5 DEF Tokens, Least

-----------------------------------------------------------------------------
(* The inductive invariant.                                                *)

LEMMA InitInv == LimiterInit => LimiterInv
BY NoneAssumption
   DEF LimiterInit, LimiterInv, LimiterTypeOK, Past, WindowPaid, RefusalPaid

\* The part of a step that a key which does not call, or the passing of
\* time, leaves alone.
Same(k) == buckets'[k] = buckets[k] /\ window'[k] = window[k] /\ refused'[k] = refused[k]

PastOk(k) ==
  /\ buckets[k] # None => buckets[k].lastSeen <= clock
  /\ window[k] # None => window[k].from <= clock
WindowOk(k) ==
  window[k] # None /\ window[k].admitted > 0 =>
    /\ buckets[k] # None /\ buckets[k].lastSeen >= window[k].from
    /\ Cost * window[k].admitted + buckets[k].tokens
         <= Capacity(k) + PerMinute[k] * (buckets[k].lastSeen - window[k].from)
RefusalOk(k) ==
  refused[k] # None =>
    /\ buckets[k] # None /\ refused[k] <= buckets[k].lastSeen
    /\ PerMinute[k] * (buckets[k].lastSeen - refused[k]) <= buckets[k].tokens
    /\ buckets[k].tokens < Cost
Ok(k) == PastOk(k) /\ WindowOk(k) /\ RefusalOk(k)

LEMMA InvIsOk == LimiterInv <=> LimiterTypeOK /\ \A k \in Key : Ok(k)
BY DEF LimiterInv, Past, WindowPaid, RefusalPaid, Ok, PastOk, WindowOk, RefusalOk

LEMMA SameKeepsOk ==
  ASSUME LimiterTypeOK, LimiterTypeOK', NEW k \in Key, Ok(k), Same(k), clock <= clock'
  PROVE  Ok(k)'
<1>1. buckets[k] # None => buckets[k].lastSeen \in Nat BY DEF LimiterTypeOK, Bucket
<1>2. window[k] # None => window[k].from \in Nat BY DEF LimiterTypeOK, Window
<1>3. clock \in Nat /\ clock' \in Nat BY DEF LimiterTypeOK
<1>4. PastOk(k)' BY <1>1, <1>2, <1>3 DEF Ok, PastOk, Same
<1>5. WindowOk(k)' BY DEF Ok, WindowOk, Same
<1>6. RefusalOk(k)' BY DEF Ok, RefusalOk, Same
<1>. QED BY <1>4, <1>5, <1>6 DEF Ok

\* Count and Seen leave every other key alone.
LEMMA OthersSame ==
  ASSUME LimiterTypeOK, NEW k \in Key, NEW t, Seen(k, t), NEW j \in Key, j # k,
         refused' = [refused EXCEPT ![k] = refused'[k]],
         window' = [window EXCEPT ![k] = window'[k]]
  PROVE  Same(j)
BY DEF LimiterTypeOK, Seen, Same

\* A call that lets k in, from a bucket that held t.
LEMMA Admission ==
  ASSUME LimiterInv, NEW k \in Key, NEW t \in Cost..Capacity(k), Seen(k, t - Cost), Count(k), clock' = clock,
         buckets[k] # None => t <= buckets[k].tokens + (clock - buckets[k].lastSeen) * PerMinute[k]
  PROVE  LimiterInv'
<1>. USE DEF LimiterInv
<1>1. LimiterTypeOK /\ clock \in Nat BY DEF LimiterTypeOK
<1>c. Capacity(k) \in Nat /\ Minute \in Nat BY CapacityIsEnough
<1>2. buckets' = [buckets EXCEPT ![k] = [tokens |-> t - Minute, lastSeen |-> clock]] BY DEF Seen
<1>3. t - Minute \in 0..Capacity(k)
  <2>. QED BY <1>c
<1>4. [tokens |-> t - Minute, lastSeen |-> clock] \in Bucket BY <1>1, <1>3 DEF Bucket
<1>5. window'[k] \in Window \cup {None}
  <2>1. CASE window[k] = None BY <2>1 DEF Count, More, LimiterTypeOK
  <2>2. CASE window[k] # None
    <3>1. window[k] \in Window BY <2>2 DEF LimiterTypeOK
    <3>2. window'[k] = [window[k] EXCEPT !.admitted = window[k].admitted + 1] BY <2>2 DEF Count, More, LimiterTypeOK
    <3>. QED BY <3>1, <3>2 DEF Window
  <2>. QED BY <2>1, <2>2
<1>6. window' = [window EXCEPT ![k] = window'[k]] /\ refused' = [refused EXCEPT ![k] = refused'[k]]
  BY DEF Count, LimiterTypeOK
<1>7. LimiterTypeOK'
  <2>1. buckets' \in [Key -> Bucket \cup {None}] BY <1>2, <1>4 DEF LimiterTypeOK
  <2>2. window' \in [Key -> Window \cup {None}] BY <1>5, <1>6 DEF LimiterTypeOK
  <2>3. refused' \in [Key -> Nat \cup {None}] BY DEF Count, LimiterTypeOK
  <2>4. (buckets'[k]).tokens = t - Minute /\ \A j \in Key : j # k => buckets'[j] = buckets[j]
    BY <1>2 DEF LimiterTypeOK
  <2>5. ASSUME NEW j \in Key, buckets'[j] # None PROVE (buckets'[j]).tokens <= Capacity(j)
    BY <2>4, <2>5, <1>3, <1>c DEF LimiterTypeOK
  <2>6. (\A j \in Key : buckets[j] # None => buckets[j].tokens <= Capacity(j))' BY <2>5 DEF Capacity
  <2>. QED BY <2>1, <2>2, <2>3, <2>6, <1>1 DEF LimiterTypeOK
<1>8. buckets'[k] = [tokens |-> t - Minute, lastSeen |-> clock] /\ buckets'[k] # None
  BY <1>2, <1>4, NoneAssumption DEF LimiterTypeOK
<1>9. refused'[k] = None BY DEF Count, LimiterTypeOK
<1>10. ASSUME window'[k] # None
       PROVE  /\ window[k] # None /\ window[k] \in Window
              /\ window'[k].from = window[k].from /\ window'[k].admitted = window[k].admitted + 1
  <2>1. window[k] # None BY <1>10 DEF Count, More, LimiterTypeOK
  <2>2. window[k] \in Window BY <2>1 DEF LimiterTypeOK
  <2>3. window'[k] = [window[k] EXCEPT !.admitted = window[k].admitted + 1] BY <2>1 DEF Count, More, LimiterTypeOK
  <2>. QED BY <2>1, <2>2, <2>3 DEF Window
<1>11. PastOk(k)' BY <1>1, <1>8, <1>10 DEF PastOk, Past
<1>12. WindowOk(k)'
  <2>. SUFFICES ASSUME window'[k] # None PROVE WindowOk(k)' BY DEF WindowOk
  <2>. DEFINE n == window[k].admitted
              f == window[k].from
              s == buckets[k].lastSeen
              h == buckets[k].tokens
  <2>1. n \in Nat /\ f \in Nat /\ f <= clock BY <1>10 DEF Window, Past
  <2>2. window'[k].from = f /\ window'[k].admitted = n + 1 BY <1>10
  <2>3. Minute * (n + 1) = Minute * n + Minute /\ Minute * n \in Nat BY <2>1, OneMoreCosts
  <2>4. Minute * n + t <= Capacity(k) + PerMinute[k] * (clock - f)
    <3>1. CASE n = 0
      <4>1. PerMinute[k] * (clock - f) \in Nat BY <2>1, <1>1
      <4>2. Minute * n = 0 BY <3>1
      <4>. HIDE DEF n, f
      <4>. QED BY <4>1, <4>2, <1>c
    <3>2. CASE n > 0
      <4>1. /\ buckets[k] # None /\ s >= f
            /\ Minute * n + h <= Capacity(k) + PerMinute[k] * (s - f)
        BY <3>2, <1>10 DEF WindowPaid
      <4>2. s \in Nat /\ s <= clock /\ h \in Nat
        <5>1. buckets[k] \in Bucket BY <4>1 DEF LimiterTypeOK
        <5>. QED BY <5>1, <4>1, <1>c DEF Bucket, Past
      <4>3. t <= h + (clock - s) * PerMinute[k] BY <4>1
      <4>4. PerMinute[k] * (clock - f) = (clock - s) * PerMinute[k] + PerMinute[k] * (s - f)
        BY <4>2, <2>1, <1>1
      <4>5. (clock - s) * PerMinute[k] \in Int /\ PerMinute[k] * (s - f) \in Int BY <4>2, <2>1, <1>1
      <4>. HIDE DEF n, f, s, h
      <4>. QED BY <4>1, <4>2, <4>3, <4>4, <4>5, <2>3, <1>c
    <3>. HIDE DEF n
    <3>. QED BY <3>1, <3>2, <2>1
  <2>5. PerMinute[k] * (clock - f) \in Int BY <2>1, <1>1
  <2>6. Minute * (n + 1) + (t - Minute) <= Capacity(k) + PerMinute[k] * (clock - f)
    <3>. HIDE DEF n, f
    <3>. QED BY <2>3, <2>4, <2>5, <1>c
  <2>. QED BY <1>8, <2>1, <2>2, <2>6 DEF WindowOk
<1>13. RefusalOk(k)' BY <1>9 DEF RefusalOk
<1>14. \A j \in Key : j # k => Same(j) BY <1>6, OthersSame
<1>15. ASSUME NEW j \in Key PROVE Ok(j)'
  <2>1. CASE j = k BY <2>1, <1>11, <1>12, <1>13 DEF Ok
  <2>2. CASE j # k
    <3>1. Ok(j) BY InvIsOk
    <3>. QED BY <2>2, <1>1, <1>7, <1>14, <3>1, SameKeepsOk
  <2>. QED BY <2>1, <2>2
<1>16. (\A j \in Key : Ok(j))' BY <1>15
<1>. QED BY <1>7, <1>16 DEF Past, WindowPaid, RefusalPaid, Ok, PastOk, WindowOk, RefusalOk

LEMMA RefuseInv ==
  ASSUME LimiterInv, NEW k \in Key, Refuse(k)
  PROVE  LimiterInv'
<1>. USE DEF LimiterInv
<1>. DEFINE b == buckets[k]
            t == Tokens(k)
            gained == (clock - b.lastSeen) * PerMinute[k]
<1>1. LimiterTypeOK /\ clock \in Nat /\ clock' = clock /\ window' = window BY DEF LimiterTypeOK, Refuse
<1>2. b # None /\ b \in Bucket /\ b.lastSeen \in Nat /\ b.tokens \in Nat /\ b.lastSeen <= clock
  BY CapacityIsEnough DEF Refuse, LimiterTypeOK, Bucket, Past
<1>3. t \in 0..Capacity(k) /\ t < Minute /\ t = b.tokens + gained
  <2>1. t \in 0..Capacity(k) /\ (t = Capacity(k) \/ t = b.tokens + gained) BY <1>2, TokensTyped
  <2>2. t < Minute BY DEF Refuse
  <2>. HIDE DEF t, gained
  <2>. QED BY <2>1, <2>2, CapacityIsEnough
<1>4. gained \in Nat BY <1>1, <1>2, RefillTypes
<1>5. buckets' = [buckets EXCEPT ![k] = [tokens |-> t, lastSeen |-> clock]] BY DEF Refuse, Seen
<1>6. [tokens |-> t, lastSeen |-> clock] \in Bucket
  <2>. HIDE DEF t
  <2>. QED BY <1>1, <1>3 DEF Bucket
<1>7. buckets'[k] = [tokens |-> t, lastSeen |-> clock] /\ buckets'[k] # None
  BY <1>5, <1>6, NoneAssumption DEF LimiterTypeOK
<1>8. refused'[k] = (IF refused[k] = None THEN clock ELSE refused[k]) BY DEF Refuse, LimiterTypeOK
<1>9. refused' = [refused EXCEPT ![k] = refused'[k]] BY DEF Refuse, LimiterTypeOK
<1>10. LimiterTypeOK'
  <2>1. buckets' \in [Key -> Bucket \cup {None}]
    <3>. HIDE DEF t
    <3>. QED BY <1>5, <1>6 DEF LimiterTypeOK
  <2>2. refused' \in [Key -> Nat \cup {None}] BY <1>1 DEF Refuse, LimiterTypeOK
  <2>3. (buckets'[k]).tokens = t /\ \A j \in Key : j # k => buckets'[j] = buckets[j]
    BY <1>7, <1>5 DEF LimiterTypeOK
  <2>4. ASSUME NEW j \in Key, buckets'[j] # None PROVE (buckets'[j]).tokens <= Capacity(j)
    <3>. HIDE DEF t, b
    <3>. QED BY <2>3, <2>4, <1>3 DEF LimiterTypeOK
  <2>5. (\A j \in Key : buckets[j] # None => buckets[j].tokens <= Capacity(j))' BY <2>4 DEF Capacity
  <2>. QED BY <2>1, <2>2, <2>5, <1>1 DEF LimiterTypeOK
<1>f. (buckets'[k]).tokens = t /\ (buckets'[k]).lastSeen = clock BY <1>7
<1>11. PastOk(k)' BY <1>1, <1>f DEF PastOk, Past
<1>12. WindowOk(k)'
  <2>. SUFFICES ASSUME window[k] # None, window[k].admitted > 0
                PROVE  /\ buckets'[k] # None /\ clock >= window[k].from
                       /\ Cost * window[k].admitted + t <= Capacity(k) + PerMinute[k] * (clock - window[k].from)
    BY <1>1, <1>7, <1>f DEF WindowOk
  <2>. DEFINE f == window[k].from
              n == window[k].admitted
  <2>1. window[k] \in Window BY DEF LimiterTypeOK
  <2>2. n \in Nat /\ f \in Nat BY <2>1 DEF Window
  <2>3. b.lastSeen >= f /\ Minute * n + b.tokens <= Capacity(k) + PerMinute[k] * (b.lastSeen - f) BY DEF WindowPaid
  <2>4. PerMinute[k] * (clock - f) = gained + PerMinute[k] * (b.lastSeen - f) BY <1>1, <1>2, <2>2
  <2>5. Minute * n \in Nat /\ PerMinute[k] * (b.lastSeen - f) \in Int BY <1>2, <2>2
  <2>6. Minute * n + t <= Capacity(k) + PerMinute[k] * (clock - f)
    <3>. HIDE DEF t, gained, f, n, b
    <3>. QED BY <1>2, <1>3, <1>4, <2>3, <2>4, <2>5, CapacityIsEnough
  <2>7. clock >= f
    <3>. HIDE DEF f, b
    <3>. QED BY <1>1, <1>2, <2>2, <2>3
  <2>. QED BY <1>7, <2>6, <2>7
<1>13. RefusalOk(k)'
  <2>1. CASE refused[k] = None
    <3>1. refused'[k] = clock BY <1>8, <2>1
    <3>2. PerMinute[k] * (clock - clock) = 0 BY <1>1
    <3>3. 0 <= t /\ clock <= clock
      <4>. HIDE DEF t
      <4>. QED BY <1>1, <1>3, CapacityIsEnough
    <3>. HIDE DEF t
    <3>. QED BY <1>3, <1>7, <1>f, <3>1, <3>2, <3>3 DEF RefusalOk
  <2>2. CASE refused[k] # None
    <3>. DEFINE q == refused[k]
    <3>1. refused'[k] = q /\ q \in Nat BY <1>8, <2>2 DEF LimiterTypeOK
    <3>2. q <= b.lastSeen /\ PerMinute[k] * (b.lastSeen - q) <= b.tokens BY <2>2 DEF RefusalPaid
    <3>3. PerMinute[k] * (clock - q) = gained + PerMinute[k] * (b.lastSeen - q) BY <1>1, <1>2, <3>1
    <3>4. PerMinute[k] * (b.lastSeen - q) \in Int BY <1>2, <3>1
    <3>5. PerMinute[k] * (clock - q) <= t /\ q <= clock
      <4>. HIDE DEF t, gained, q, b
      <4>. QED BY <1>1, <1>2, <1>3, <1>4, <3>1, <3>2, <3>3, <3>4
    <3>. HIDE DEF t
    <3>. QED BY <1>3, <1>7, <1>f, <3>1, <3>5 DEF RefusalOk
  <2>. QED BY <2>1, <2>2
<1>14. \A j \in Key : j # k => Same(j) BY <1>1, <1>5, <1>9 DEF LimiterTypeOK, Same
<1>15. ASSUME NEW j \in Key PROVE Ok(j)'
  <2>1. CASE j = k BY <2>1, <1>11, <1>12, <1>13 DEF Ok
  <2>2. CASE j # k
    <3>1. Ok(j) BY InvIsOk
    <3>2. clock <= clock' BY <1>1
    <3>. QED BY <2>2, <1>1, <1>10, <1>14, <3>1, <3>2, SameKeepsOk
  <2>. QED BY <2>1, <2>2
<1>16. (\A j \in Key : Ok(j))' BY <1>15
<1>. QED BY <1>10, <1>16 DEF Past, WindowPaid, RefusalPaid, Ok, PastOk, WindowOk, RefusalOk

LEMMA StepInv == LimiterInv /\ [LimiterNext]_limiterVars => LimiterInv'
<1>. SUFFICES ASSUME LimiterInv, [LimiterNext]_limiterVars PROVE LimiterInv' OBVIOUS
<1>. USE DEF LimiterInv
<1>1. CASE Tick
  <2>1. LimiterTypeOK' /\ clock <= clock' BY <1>1 DEF Tick, LimiterTypeOK
  <2>2. ASSUME NEW j \in Key PROVE Ok(j)'
    <3>1. Ok(j) /\ Same(j) BY <1>1, InvIsOk DEF Tick, Same
    <3>. QED BY <2>1, <3>1, SameKeepsOk
  <2>3. (\A j \in Key : Ok(j))' BY <2>2
  <2>. QED BY <2>1, <2>3 DEF Past, WindowPaid, RefusalPaid, Ok, PastOk, WindowOk, RefusalOk
<1>2. ASSUME NEW k \in Key, AllowFresh(k) PROVE LimiterInv'
  <2>1. Capacity(k) \in Cost..Capacity(k)
    <3>. QED BY CapacityIsEnough
  <2>. QED BY <1>2, <2>1, Admission DEF AllowFresh
<1>3. ASSUME NEW k \in Key, Allow(k) PROVE LimiterInv'
  <2>1. buckets[k] # None /\ Tokens(k) >= Cost BY <1>3 DEF Allow
  <2>2. /\ Tokens(k) \in 0..Capacity(k)
        /\ Tokens(k) <= buckets[k].tokens + (clock - buckets[k].lastSeen) * PerMinute[k]
    BY <2>1, TokensTyped
  <2>3. Tokens(k) \in Cost..Capacity(k)
    <3>. QED BY <2>1, <2>2, CapacityIsEnough
  <2>. QED BY <1>3, <2>2, <2>3, Admission DEF Allow
<1>4. ASSUME NEW k \in Key, Refuse(k) PROVE LimiterInv' BY <1>4, RefuseInv
<1>5. ASSUME NEW k \in Key, Watch(k) PROVE LimiterInv'
  <2>1. [from |-> clock, admitted |-> 0] \in Window BY DEF LimiterTypeOK, Window
  <2>2. LimiterTypeOK' BY <1>5, <2>1 DEF Watch, LimiterTypeOK
  <2>3. window'[k] = [from |-> clock, admitted |-> 0] BY <1>5 DEF Watch, LimiterTypeOK
  <2>4. ASSUME NEW j \in Key PROVE Ok(j)'
    <3>1. CASE j # k
      <4>1. Ok(j) /\ Same(j) /\ clock <= clock'
        BY <1>5, <3>1, InvIsOk DEF Watch, Same, LimiterTypeOK
      <4>. QED BY <2>2, <4>1, SameKeepsOk
    <3>2. CASE j = k
      <4>1. window'[k].from = clock /\ ~(window'[k].admitted > 0) BY <2>3
      <4>2. clock' = clock /\ buckets' = buckets /\ refused' = refused /\ clock \in Nat BY <1>5 DEF Watch, LimiterTypeOK
      <4>3. PastOk(k)' BY <4>1, <4>2 DEF Past, PastOk
      <4>4. WindowOk(k)' BY <4>1 DEF WindowOk
      <4>5. RefusalOk(k)' BY <4>2 DEF RefusalPaid, RefusalOk
      <4>. QED BY <3>2, <4>3, <4>4, <4>5 DEF Ok
    <3>. QED BY <3>1, <3>2
  <2>5. (\A j \in Key : Ok(j))' BY <2>4
  <2>. QED BY <2>2, <2>5 DEF Past, WindowPaid, RefusalPaid, Ok, PastOk, WindowOk, RefusalOk
<1>6. CASE Forget
  BY <1>6, NoneAssumption DEF Forget, LimiterTypeOK, Past, WindowPaid, RefusalPaid
<1>7. CASE UNCHANGED limiterVars
  BY <1>7 DEF limiterVars, LimiterTypeOK, Past, WindowPaid, RefusalPaid
<1>. QED BY <1>1, <1>2, <1>3, <1>4, <1>5, <1>6, <1>7 DEF LimiterNext, Call

\* The bookkeeping of the bucket: what was let in has been paid for, and
\* what is refused is not charged (Allow).
THEOREM Accounts == LimiterSpec => []LimiterInv
BY InitInv, StepInv, PTL DEF LimiterSpec

-----------------------------------------------------------------------------
(* The promises.                                                           *)

\* At most the bucket and the refill, in any stretch of time (RateLimiter).
THEOREM BurstsAreBounded == LimiterSpec => []BurstBounded
<1>1. LimiterInv => BurstBounded
  <2>. SUFFICES ASSUME LimiterInv, NEW k \in Key, window[k] # None
                PROVE  Cost * window[k].admitted <= Capacity(k) + PerMinute[k] * (clock - window[k].from)
    BY DEF BurstBounded
  <2>. USE DEF LimiterInv
  <2>. DEFINE n == window[k].admitted
              f == window[k].from
  <2>1. n \in Nat /\ f \in Nat /\ clock \in Nat /\ f <= clock BY DEF LimiterTypeOK, Window, Past
  <2>2. Minute * n \in Nat /\ PerMinute[k] * (clock - f) \in Nat BY <2>1
  <2>3. CASE n = 0
    <3>1. Minute * n = 0 BY <2>3
    <3>2. Minute * n <= Capacity(k) + PerMinute[k] * (clock - f)
      <4>. HIDE DEF n, f
      <4>. QED BY <2>2, <3>1, CapacityIsEnough
    <3>. QED BY <3>2
  <2>4. CASE n > 0
    <3>. DEFINE s == buckets[k].lastSeen
                h == buckets[k].tokens
    <3>1. buckets[k] # None /\ Minute * n + h <= Capacity(k) + PerMinute[k] * (s - f) BY <2>4 DEF WindowPaid
    <3>2. s \in Nat /\ s <= clock /\ h \in Nat BY <3>1, CapacityIsEnough DEF LimiterTypeOK, Bucket, Past
    <3>3. PerMinute[k] * (s - f) <= PerMinute[k] * (clock - f) BY <2>1, <3>2, RefillGrows
    <3>4. PerMinute[k] * (s - f) \in Int BY <2>1, <3>2
    <3>5. Minute * n <= Capacity(k) + PerMinute[k] * (clock - f)
      <4>. HIDE DEF n, f, s, h
      <4>. QED BY <2>2, <3>1, <3>2, <3>3, <3>4, CapacityIsEnough
    <3>. QED BY <3>5
  <2>. HIDE DEF n
  <2>. QED BY <2>1, <2>3, <2>4
<1>. QED BY <1>1, Accounts, PTL

\* Polling while limited does not keep a client out (Allow).
THEOREM PollingCostsNothing == LimiterSpec => []PollingIsHarmless
<1>1. LimiterInv => PollingIsHarmless
  <2>. SUFFICES ASSUME LimiterInv, NEW k \in Key, refused[k] # None
                PROVE  PerMinute[k] * (buckets[k].lastSeen - refused[k]) < Minute
    BY DEF PollingIsHarmless
  <2>1. /\ buckets[k] # None
        /\ PerMinute[k] * (buckets[k].lastSeen - refused[k]) <= buckets[k].tokens
        /\ buckets[k].tokens < Minute
    BY DEF LimiterInv, RefusalPaid
  <2>2. buckets[k].tokens \in Nat /\ buckets[k].lastSeen \in Nat /\ refused[k] \in Nat
    BY <2>1, CapacityIsEnough DEF LimiterInv, LimiterTypeOK, Bucket
  <2>3. PerMinute[k] * (buckets[k].lastSeen - refused[k]) \in Int BY <2>2
  <2>. QED BY <2>1, <2>2, <2>3
<1>. QED BY <1>1, Accounts, PTL

HIDE RateAssumption DEF Cost

-----------------------------------------------------------------------------
(* Steps of the HTTP side and the limiter.                                 *)

LEMMA KeysOf == ASSUME NEW c \in Client, NEW r \in {"login", "callback"} PROVE <<r, Address[c]>> \in Key
BY KeyAssumption

\* What a step does to the buckets, the limiter does.
LEMMA StepOfLimiter == [Next]_vars => [LimiterNext]_limiterVars
<1>. SUFFICES ASSUME [Next]_vars PROVE LimiterNext \/ UNCHANGED limiterVars OBVIOUS
<1>1. CASE UNCHANGED vars BY <1>1 DEF vars
<1>2. CASE Start \/ RefusesToStart BY <1>2 DEF Start, RefusesToStart
<1>3. CASE Stop BY <1>3 DEF Stop, LimiterNext
<1>4. CASE Passes BY <1>4 DEF Passes, LimiterNext
<1>5. ASSUME NEW c \in Client, Browses(c) PROVE UNCHANGED limiterVars
  BY <1>5 DEF Browses, Visit, Portal, writeUnknownHost, redirectToLogin, writeRoleDenied, Forward
<1>6. ASSUME NEW c \in Client, SignsIn(c) PROVE LimiterNext \/ UNCHANGED limiterVars
  <2>1. CASE HandleLogin(c) \/ HandleCallback(c)
    BY <2>1, KeysOf DEF HandleLogin, HandleCallback, LetIn, LimiterNext, Call
  <2>2. CASE TooManyRequests(c)
    BY <2>2, KeysOf DEF TooManyRequests, LimiterNext, Call
  <2>. QED BY <1>6, <2>1, <2>2
    DEF SignsIn, Continue, CardIsPortal, FollowLink, Consent, Abandon, HandleLogout, SessionEnds
<1>. QED BY <1>1, <1>2, <1>3, <1>4, <1>5, <1>6 DEF Next

\* The HTTP side uses its limiters as the limiter is specified
\* (RateLimitMiddleware, before login and callback): the specification of
\* the whole implements the limiter's.
THEOREM LimitersAreUsedAsMeant == Spec => LimiterSpec
BY StepOfLimiter, PTL DEF Spec, Init, LimiterSpec

\* So the books are kept, and bursts bounded, whatever browsers do.
THEOREM SignInsAreLimited == Spec => []BurstBounded
BY LimitersAreUsedAsMeant, BurstsAreBounded, PTL

-----------------------------------------------------------------------------
(* What the environment means.                                             *)

LEMMA EnvTypes ==
  ASSUME NEW e \in Env, Load(e)
  PROVE  /\ e.base # None /\ e.base \in Seq(STRING)
         /\ e.auth # None /\ e.auth \in HostType
         /\ e.landing # None => e.landing \in URLType
BY EnvAssumption DEF Load

LEMMA HostIsTyped ==
  ASSUME NEW h \in HostType
  PROVE  h.name \in Seq(STRING) /\ h.upper \in BOOLEAN /\ h.port \in Nat
BY DEF HostType

LEMMA HttpsIsTyped == ASSUME NEW h \in HostType PROVE Https(h) \in URLType
<1>1. "https" \in STRING BY TextAssumption
<1>2. FALSE \in BOOLEAN OBVIOUS
<1>. QED BY <1>1, <1>2, Zenon DEF Https, URLType

\* A sign-in always has somewhere to lead to (resolveReturnTo).
LEMMA ResolvesToUrl ==
  ASSUME NEW e \in Env, Load(e), NEW url \in URLType \cup {None}
  PROVE  resolveReturnTo(url, e) \in URLType /\ resolveReturnTo(url, e) # None
<1>1. DefaultLandingURL(e) \in URLType BY EnvTypes, HttpsIsTyped DEF DefaultLandingURL
<1>2. Validates(url, e) => url \in URLType BY DEF Validates
<1>. QED BY <1>1, <1>2, URLAssumption DEF resolveReturnTo

\* What was resolved once stays as it is: the second check, in the callback,
\* of what the first one put into the pre-auth cookie changes nothing.
LEMMA ResolvedTwice ==
  ASSUME NEW e, NEW url
  PROVE  resolveReturnTo(resolveReturnTo(url, e), e) = resolveReturnTo(url, e)
BY DEF resolveReturnTo, DefaultLandingURL

LEMMA PrefixedIsTyped ==
  ASSUME NEW S, NEW x \in S, NEW s \in Seq(S)
  PROVE  <<x>> \o s \in Seq(S)
OBVIOUS

LEMMA TrimIsTyped ==
  ASSUME NEW name \in Seq(STRING)
  PROVE  TrimDot(name) \in Seq(STRING)
<1>1. CASE name = <<>> BY <1>1 DEF TrimDot
<1>2. CASE name # <<>>
  <2>1. Tail(name) \in Seq(STRING) BY <1>2, HeadTailProperties
  <2>. QED BY <2>1 DEF TrimDot
<1>. QED BY <1>1, <1>2

LEMMA DomainIsTyped ==
  ASSUME NEW e \in Env, Load(e)
  PROVE  CookieDomain(e) \in Seq(STRING) /\ CookieDomain(e) # None /\ TrimDot(e.base) \in Seq(STRING)
<1>1. e.base \in Seq(STRING) BY EnvTypes
<1>2. TrimDot(e.base) \in Seq(STRING) BY <1>1, TrimIsTyped
<1>3. <<".">> \o TrimDot(e.base) \in Seq(STRING)
  <2>. QED BY <1>2, TextAssumption, PrefixedIsTyped, Zenon
<1>. QED BY <1>2, <1>3, URLAssumption DEF CookieDomain

-----------------------------------------------------------------------------
(* The inductive invariant, of one browser at a time.                      *)

Where == {"idle", "request", "card", "login", "slack", "callback"}
PlaceOk(p) ==
  /\ p \in [at : Where, asked : URLType \cup {None}, to : URLType \cup {None}]
  /\ p.at \in {"request", "card"} => p.asked # None
  /\ p.at \in {"slack", "callback"} => /\ p.to # None /\ Load(env)
                                       /\ p.to = resolveReturnTo(p.asked, env)
TicketOk(s, k) ==
  /\ s \in {"none", "live", "gone"} /\ k \in Seq(STRING) \cup {None}
  /\ k # None => s # "none"
  /\ s = "live" /\ Within(env.auth.name, CookieDomain(env)) => k = CookieDomain(env)
AnswerOk(c, a) ==
  a # None =>
    /\ a.kind = "back" => /\ Load(env) /\ a.asked \in URLType \cup {None}
                          /\ a.to = resolveReturnTo(a.asked, env)
    /\ a.kind = "app" => a.came \in Inbound /\ a.sent = rewrite(WithSession(a.came), Person[c])
BrowserOk(c) == PlaceOk(client[c]) /\ TicketOk(session[c], cookie[c]) /\ AnswerOk(c, answer[c])

BrowsersOk == \A c \in Client : BrowserOk(c)

Shaped(f) == f = [c \in Client |-> f[c]]
ServerOk ==
  /\ env \in Env /\ process \in {"down", "serving", "failed"} /\ restarts \in 0..MaxRestarts
  /\ TableIsOfEnv
  /\ Shaped(answer)

LEMMA ByBrowser ==
  EdgeInv <=> /\ ServerOk /\ Shaped(client) /\ Shaped(session) /\ Shaped(cookie)
              /\ BrowsersOk
<1>1. ASSUME EdgeInv
      PROVE  ServerOk /\ Shaped(client) /\ Shaped(session) /\ Shaped(cookie) /\ BrowsersOk
  <2>1. ServerOk BY <1>1 DEF EdgeInv, EdgeTypeOK, ServerOk, Shaped
  <2>2. Shaped(client) /\ Shaped(session) /\ Shaped(cookie) BY <1>1 DEF EdgeInv, EdgeTypeOK, Shaped
  <2>3. ASSUME NEW c \in Client PROVE BrowserOk(c)
    <3>1. PlaceOk(client[c]) BY <1>1 DEF EdgeInv, EdgeTypeOK, Accompanied, At, PlaceOk, Where
    <3>2. TicketOk(session[c], cookie[c]) BY <1>1 DEF EdgeInv, EdgeTypeOK, CookieFits, TicketOk
    <3>3. AnswerOk(c, answer[c]) BY <1>1 DEF EdgeInv, Remembered, AnswerOk
    <3>. QED BY <3>1, <3>2, <3>3 DEF BrowserOk
  <2>. QED BY <2>1, <2>2, <2>3 DEF BrowsersOk
<1>2. ASSUME ServerOk, Shaped(client), Shaped(session), Shaped(cookie), BrowsersOk
      PROVE  EdgeInv
  <2>. USE DEF BrowsersOk
  <2>1. client \in [Client -> [at : Where, asked : URLType \cup {None}, to : URLType \cup {None}]]
    BY <1>2 DEF Shaped, BrowserOk, PlaceOk
  <2>2. session \in [Client -> {"none", "live", "gone"}] /\ cookie \in [Client -> Seq(STRING) \cup {None}]
    BY <1>2 DEF Shaped, BrowserOk, TicketOk
  <2>3. EdgeTypeOK BY <1>2, <2>1, <2>2 DEF EdgeTypeOK, ServerOk, Shaped, BrowserOk, PlaceOk, TicketOk, At, Where
  <2>4. ASSUME NEW c \in Client PROVE Accompanied(c) /\ CookieFits(c) /\ Remembered(c)
    <3>1. Accompanied(c) BY <1>2 DEF BrowserOk, PlaceOk, Accompanied, At
    <3>2. CookieFits(c) BY <1>2 DEF BrowserOk, TicketOk, CookieFits
    <3>3. Remembered(c) BY <1>2 DEF BrowserOk, AnswerOk, Remembered
    <3>. QED BY <3>1, <3>2, <3>3
  <2>. QED BY <1>2, <2>3, <2>4 DEF EdgeInv, ServerOk
<1>. QED BY <1>1, <1>2

\* A step of one browser is judged by what it leaves that one with.
LEMMA OneBrowserMoves ==
  ASSUME EdgeInv, NEW c \in Client, UNCHANGED serverVars,
         NEW p, PlaceOk(p), client' = [client EXCEPT ![c] = p],
         NEW s, NEW k, TicketOk(s, k),
         session' = [session EXCEPT ![c] = s], cookie' = [cookie EXCEPT ![c] = k],
         NEW a, AnswerOk(c, a), answer' = [answer EXCEPT ![c] = a]
  PROVE  EdgeInv'
<1>1. /\ ServerOk /\ Shaped(client) /\ Shaped(session) /\ Shaped(cookie)
      /\ \A d \in Client : BrowserOk(d)
  BY ByBrowser DEF BrowsersOk
<1>2. /\ env' = env /\ process' = process /\ table' = table /\ ports' = ports /\ restarts' = restarts
  BY DEF serverVars
<1>3. ServerOk' BY <1>1, <1>2 DEF ServerOk, TableIsOfEnv, Shaped
<1>4. Shaped(client)' /\ Shaped(session)' /\ Shaped(cookie)' BY <1>1 DEF Shaped
<1>5. ASSUME NEW d \in Client PROVE BrowserOk(d)'
  <2>1. CASE d = c
    <3>1. client'[d] = p /\ session'[d] = s /\ cookie'[d] = k /\ answer'[d] = a
      BY <1>1, <2>1 DEF Shaped, ServerOk
    <3>2. PlaceOk(client[d])' BY <3>1, <1>2 DEF PlaceOk
    <3>3. TicketOk(session[d], cookie[d])' BY <3>1, <1>2 DEF TicketOk
    <3>4. AnswerOk(d, answer[d])' BY <2>1, <3>1, <1>2 DEF AnswerOk
    <3>. QED BY <3>2, <3>3, <3>4 DEF BrowserOk
  <2>2. CASE d # c
    <3>1. client'[d] = client[d] /\ session'[d] = session[d] /\ cookie'[d] = cookie[d] /\ answer'[d] = answer[d]
      BY <1>1, <2>2 DEF Shaped, ServerOk
    <3>2. PlaceOk(client[d])' BY <1>1, <3>1, <1>2 DEF BrowserOk, PlaceOk
    <3>3. TicketOk(session[d], cookie[d])' BY <1>1, <3>1, <1>2 DEF BrowserOk, TicketOk
    <3>4. AnswerOk(d, answer[d])' BY <1>1, <3>1, <1>2 DEF BrowserOk, AnswerOk
    <3>. QED BY <3>2, <3>3, <3>4 DEF BrowserOk
  <2>. QED BY <2>1, <2>2
<1>6. BrowsersOk' BY <1>5 DEF BrowsersOk
<1>. QED BY <1>3, <1>4, <1>6, ByBrowser, PTL

\* And a step that only moves it by what it may do there.
LEMMA BrowserTyped ==
  ASSUME EdgeInv, NEW c \in Client
  PROVE  /\ PlaceOk(client[c]) /\ TicketOk(session[c], cookie[c]) /\ AnswerOk(c, answer[c])
         /\ session = [session EXCEPT ![c] = session[c]]
         /\ cookie = [cookie EXCEPT ![c] = cookie[c]]
         /\ client[c].asked \in URLType \cup {None}
<1>1. EdgeInv => /\ Shaped(session) /\ Shaped(cookie) /\ BrowserOk(c) BY ByBrowser DEF BrowsersOk
<1>. QED BY <1>1 DEF Shaped, BrowserOk, PlaceOk

LEMMA EdgeStarts == Init => EdgeInv
<1>. SUFFICES ASSUME Init PROVE EdgeInv OBVIOUS
<1>1. ServerOk BY BoundAssumption DEF Init, ServerOk, TableIsOfEnv, Shaped
<1>2. Shaped(client) /\ Shaped(session) /\ Shaped(cookie) BY DEF Init, Shaped
<1>3. ASSUME NEW c \in Client PROVE BrowserOk(c)
  <2>1. client[c] = Idle /\ session[c] = "none" /\ cookie[c] = None /\ answer[c] = None BY DEF Init
  <2>2. PlaceOk(client[c]) BY <2>1 DEF PlaceOk, Idle, Where
  <2>3. TicketOk(session[c], cookie[c]) BY <2>1 DEF TicketOk
  <2>4. AnswerOk(c, answer[c]) BY <2>1 DEF AnswerOk
  <2>. QED BY <2>2, <2>3, <2>4 DEF BrowserOk
<1>. QED BY <1>1, <1>2, <1>3, ByBrowser DEF BrowsersOk

\* The process comes and goes; the browsers do not notice.
LEMMA ProcessSteps ==
  ASSUME EdgeInv, Start \/ RefusesToStart \/ Stop \/ Passes \/ UNCHANGED vars
  PROVE  EdgeInv'
<1>1. ServerOk /\ Shaped(client) /\ Shaped(session) /\ Shaped(cookie) /\ BrowsersOk BY ByBrowser
<1>2. /\ client' = client /\ session' = session /\ cookie' = cookie /\ answer' = answer /\ env' = env
  BY DEF Start, RefusesToStart, Stop, Passes, vars, browserVars, serverVars
<1>3. ServerOk'
  <2>1. CASE Start BY <2>1, <1>1 DEF Start, ServerOk, TableIsOfEnv, Shaped, browserVars
  <2>2. CASE RefusesToStart BY <2>2, <1>1 DEF RefusesToStart, ServerOk, TableIsOfEnv, Shaped, browserVars
  <2>3. CASE Stop
    <3>1. restarts' \in 0..MaxRestarts BY <2>3, <1>1, BoundAssumption DEF Stop, ServerOk
    <3>. QED BY <2>3, <3>1, <1>1 DEF Stop, ServerOk, TableIsOfEnv, Shaped, browserVars
  <2>4. CASE Passes \/ UNCHANGED vars
    BY <2>4, <1>1 DEF Passes, ServerOk, TableIsOfEnv, Shaped, vars, browserVars, serverVars
  <2>. QED BY <2>1, <2>2, <2>3, <2>4
<1>4. Shaped(client)' /\ Shaped(session)' /\ Shaped(cookie)' BY <1>1, <1>2 DEF Shaped
<1>5. ASSUME NEW c \in Client PROVE BrowserOk(c)'
  <2>1. BrowserOk(c) BY <1>1 DEF BrowsersOk
  <2>2. PlaceOk(client[c])' BY <2>1, <1>2 DEF BrowserOk, PlaceOk
  <2>3. TicketOk(session[c], cookie[c])' BY <2>1, <1>2 DEF BrowserOk, TicketOk
  <2>4. AnswerOk(c, answer[c])' BY <2>1, <1>2 DEF BrowserOk, AnswerOk
  <2>. QED BY <2>2, <2>3, <2>4 DEF BrowserOk
<1>6. BrowsersOk' BY <1>5 DEF BrowsersOk
<1>. QED BY <1>3, <1>4, <1>6, ByBrowser, PTL

LEMMA IdleIsOk == PlaceOk(Idle)
BY DEF PlaceOk, Idle, Where

\* A page that is neither an app's nor the way back.
LEMMA PageIsOk ==
  ASSUME NEW c \in Client, NEW kind \in {"portal", "unknown", "denied", "429"}, NEW h
  PROVE  AnswerOk(c, Page(kind, h))
BY DEF AnswerOk, Page

LEMMA NoAnswerIsOk == ASSUME NEW c \in Client PROVE AnswerOk(c, None)
BY DEF AnswerOk

\* To ask for something, with nowhere to be led to yet.
LEMMA AskingIsOk ==
  ASSUME NEW at \in {"request", "card", "login"}, NEW asked \in URLType \cup {None},
         at \in {"request", "card"} => asked # None
  PROVE  PlaceOk([at |-> at, asked |-> asked, to |-> None])
BY DEF PlaceOk, Where

LEMMA PageSteps ==
  ASSUME EdgeInv, NEW c \in Client, NEW a, AnswerOk(c, a), Gets(c, a), UNCHANGED <<serverVars, session, cookie>>
  PROVE  EdgeInv'
<1>1. client' = [client EXCEPT ![c] = Idle] /\ answer' = [answer EXCEPT ![c] = a] BY DEF Gets
<1>2. session' = [session EXCEPT ![c] = session[c]] /\ cookie' = [cookie EXCEPT ![c] = cookie[c]] BY BrowserTyped
<1>3. TicketOk(session[c], cookie[c]) BY BrowserTyped
<1>. QED BY <1>1, <1>2, <1>3, IdleIsOk, OneBrowserMoves

\* The answer it has stays, or is forgotten.
LEMMA PlaceSteps ==
  ASSUME EdgeInv, NEW c \in Client, NEW p, PlaceOk(p), client' = [client EXCEPT ![c] = p],
         answer' = answer \/ answer' = [answer EXCEPT ![c] = None],
         UNCHANGED <<serverVars, session, cookie>>
  PROVE  EdgeInv'
<1>1. session' = [session EXCEPT ![c] = session[c]] /\ cookie' = [cookie EXCEPT ![c] = cookie[c]] BY BrowserTyped
<1>2. TicketOk(session[c], cookie[c]) BY BrowserTyped
<1>3. CASE answer' = [answer EXCEPT ![c] = None] BY <1>1, <1>2, <1>3, NoAnswerIsOk, OneBrowserMoves
<1>4. CASE answer' = answer
  <2>1. answer' = [answer EXCEPT ![c] = answer[c]] BY <1>4, ByBrowser DEF ServerOk, Shaped
  <2>2. AnswerOk(c, answer[c]) BY BrowserTyped
  <2>. QED BY <1>1, <1>2, <2>1, <2>2, OneBrowserMoves
<1>. QED BY <1>3, <1>4

LEMMA EdgeMoves == EdgeInv /\ [Next]_vars => EdgeInv'
<1>. SUFFICES ASSUME EdgeInv, [Next]_vars PROVE EdgeInv' OBVIOUS
<1>1. CASE Start \/ RefusesToStart \/ Stop \/ Passes \/ UNCHANGED vars BY <1>1, ProcessSteps
<1>2. ASSUME NEW c \in Client, Browses(c) PROVE EdgeInv'
  <2>1. ASSUME NEW url \in URL, Visit(c, url) PROVE EdgeInv'
    <3>1. url \in URLType \cup {None} /\ url # None BY URLAssumption
    <3>2. PlaceOk([at |-> "request", asked |-> url, to |-> None]) BY <3>1, AskingIsOk
    <3>. QED BY <2>1, <3>2, PlaceSteps DEF Visit, Moves
  <2>2. CASE Portal(c) BY <2>2, PageIsOk, PageSteps DEF Portal
  <2>3. CASE writeUnknownHost(c) BY <2>3, PageIsOk, PageSteps DEF writeUnknownHost
  <2>4. CASE redirectToLogin(c)
    <3>1. At(c, "request") BY <2>4 DEF redirectToLogin, ToProxy, Serves
    <3>2. client[c].asked \in URLType BY <3>1, BrowserTyped DEF At, PlaceOk
    <3>3. Https(Host(c)) \in URLType BY <3>2, HttpsIsTyped DEF URLType, Host
    <3>4. PlaceOk([at |-> "card", asked |-> Https(Host(c)), to |-> None]) BY <3>3, URLAssumption, AskingIsOk
    <3>. QED BY <2>4, <3>4, PlaceSteps DEF redirectToLogin, Moves
  <2>5. CASE writeRoleDenied(c) BY <2>5, PageIsOk, PageSteps DEF writeRoleDenied
  <2>6. ASSUME NEW in \in Inbound, Forward(c, in) PROVE EdgeInv'
    <3>. DEFINE a == [kind |-> "app", host |-> Host(c), target |-> Upstream(c).target,
                      came |-> in, sent |-> rewrite(WithSession(in), Person[c])]
    <3>1. AnswerOk(c, a) BY DEF AnswerOk
    <3>2. Gets(c, a) /\ UNCHANGED <<serverVars, session, cookie>> BY <2>6 DEF Forward
    <3>. HIDE DEF a
    <3>. QED BY <3>1, <3>2, PageSteps
  <2>. QED BY <1>2, <2>1, <2>2, <2>3, <2>4, <2>5, <2>6 DEF Browses
<1>3. ASSUME NEW c \in Client, SignsIn(c) PROVE EdgeInv'
  <2>0. client[c].asked \in URLType \cup {None} /\ PlaceOk(client[c]) /\ TicketOk(session[c], cookie[c])
    BY BrowserTyped
  <2>1. CASE Continue(c)
    <3>1. PlaceOk([at |-> "login", asked |-> client[c].asked, to |-> None]) BY <2>0, AskingIsOk
    <3>. QED BY <2>1, <3>1, PlaceSteps DEF Continue, Moves
  <2>2. CASE CardIsPortal(c) BY <2>2, PageIsOk, PageSteps DEF CardIsPortal
  <2>3. ASSUME NEW url \in ReturnTo, FollowLink(c, url) PROVE EdgeInv'
    <3>1. PlaceOk([at |-> "login", asked |-> url, to |-> None]) BY URLAssumption, AskingIsOk
    <3>. QED BY <2>3, <3>1, PlaceSteps DEF FollowLink, Moves
  <2>4. CASE HandleLogin(c)
    <3>. DEFINE to == resolveReturnTo(client[c].asked, env)
    <3>1. Load(env) /\ env \in Env BY <2>4, ByBrowser DEF HandleLogin, ServerOk, TableIsOfEnv
    <3>2. to \in URLType /\ to # None BY <2>0, <3>1, ResolvesToUrl
    <3>3. PlaceOk([at |-> "slack", asked |-> client[c].asked, to |-> to])
      <4>1. to = resolveReturnTo(client[c].asked, env) OBVIOUS
      <4>. HIDE DEF to
      <4>. QED BY <2>0, <3>1, <3>2, <4>1 DEF PlaceOk, Where
    <3>. QED BY <2>4, <3>3, PlaceSteps DEF HandleLogin, Moves
  <2>5. CASE TooManyRequests(c) BY <2>5, PageIsOk, PageSteps DEF TooManyRequests
  <2>6. CASE Consent(c)
    <3>. DEFINE p == [client[c] EXCEPT !.at = "callback"]
    <3>1. client' = [client EXCEPT ![c] = p] BY <2>6 DEF Consent
    <3>2. PlaceOk(p) BY <2>0, <2>6 DEF Consent, At, PlaceOk, Where
    <3>. QED BY <2>6, <3>1, <3>2, PlaceSteps DEF Consent
  <2>7. CASE Abandon(c) BY <2>7, IdleIsOk, PlaceSteps DEF Abandon
  <2>8. CASE HandleCallback(c)
    <3>. DEFINE to == resolveReturnTo(client[c].to, env)
                asked == client[c].asked
                k == IF Within(env.auth.name, CookieDomain(env)) THEN CookieDomain(env) ELSE cookie[c]
                a == [kind |-> "back", asked |-> asked, to |-> to]
    <3>1. Load(env) /\ env \in Env BY <2>8, ByBrowser DEF HandleCallback, ServerOk, TableIsOfEnv
    <3>2. client[c].to = resolveReturnTo(asked, env) /\ At(c, "callback")
      BY <2>0, <2>8 DEF HandleCallback, At, PlaceOk
    <3>3. to = resolveReturnTo(asked, env) BY <3>2, ResolvedTwice
    <3>4. to \in URLType /\ to # None BY <2>0, <3>1, <3>3, ResolvesToUrl
    <3>5. PlaceOk([at |-> "request", asked |-> to, to |-> None])
      <4>. HIDE DEF to
      <4>. QED BY <3>4, AskingIsOk
    <3>6. TicketOk("live", k) BY <2>0, <3>1, DomainIsTyped DEF TicketOk
    <3>7. AnswerOk(c, a)
      <4>. HIDE DEF to
      <4>. QED BY <2>0, <3>1, <3>3 DEF AnswerOk
    <3>8. /\ client' = [client EXCEPT ![c] = [at |-> "request", asked |-> to, to |-> None]]
          /\ session' = [session EXCEPT ![c] = "live"] /\ cookie' = [cookie EXCEPT ![c] = k]
          /\ answer' = [answer EXCEPT ![c] = a] /\ UNCHANGED serverVars
      BY <2>8 DEF HandleCallback, Moves
    <3>. HIDE DEF to, k, a
    <3>. QED BY <3>5, <3>6, <3>7, <3>8, OneBrowserMoves
  <2>9. CASE HandleLogout(c) \/ SessionEnds(c)
    <3>1. client' = [client EXCEPT ![c] = client[c]] /\ answer' = [answer EXCEPT ![c] = answer[c]]
      BY <2>9, ByBrowser DEF HandleLogout, SessionEnds, Shaped, ServerOk
    <3>2. session' = [session EXCEPT ![c] = "gone"] BY <2>9 DEF HandleLogout, SessionEnds
    <3>3. \E q \in {None, cookie[c]} : cookie' = [cookie EXCEPT ![c] = q]
      BY <2>9, BrowserTyped DEF HandleLogout, SessionEnds
    <3>4. \A q \in {None, cookie[c]} : TicketOk("gone", q) BY <2>0 DEF TicketOk
    <3>5. UNCHANGED serverVars BY <2>9 DEF HandleLogout, SessionEnds
    <3>6. AnswerOk(c, answer[c]) BY BrowserTyped
    <3>. QED BY <2>0, <3>1, <3>2, <3>3, <3>4, <3>5, <3>6, OneBrowserMoves
  <2>. QED BY <1>3, <2>1, <2>2, <2>3, <2>4, <2>5, <2>6, <2>7, <2>8, <2>9 DEF SignsIn
<1>. QED BY <1>1, <1>2, <1>3 DEF Next

\* A serving process has the table and the ports of an environment it could
\* load (Start); a sign-in carries with it what was asked for, checked, to
\* Slack and back, over a restart (HandleLogin, HandleCallback); a browser
\* with a session has the cookie for it; and an app was sent what Rewrite
\* makes of a request.
THEOREM EdgeInductive == Spec => []EdgeInv
BY EdgeStarts, EdgeMoves, PTL DEF Spec

-----------------------------------------------------------------------------
(* Names and domains.                                                      *)

\* The test Validate makes of the characters of a host is the one of its
\* labels: InDomain is what Within means.
LEMMA InDomainIsWithin ==
  ASSUME NEW name \in Seq(STRING), NEW base \in Seq(STRING)
  PROVE  Within(name, base) <=> InDomain(name, TrimDot(base))
<1>. DEFINE b == TrimDot(base)
            n == Len(name)
            m == Len(b)
            dotted == <<".">> \o b
<1>1. b \in Seq(STRING) /\ m \in Nat /\ n \in Nat BY TrimIsTyped
<1>2. /\ Len(dotted) = m + 1 /\ dotted[1] = "."
      /\ \A i \in 1..m : dotted[i + 1] = b[i]
  <2>. HIDE DEF b
  <2>. QED BY <1>1
<1>3. dotted \in Seq(STRING) BY <1>1, TextAssumption, PrefixedIsTyped, Zenon
<1>4. ASSUME Within(name, base) PROVE InDomain(name, b)
  <2>0. DOMAIN name = 1..n OBVIOUS
  <2>1. PICK i \in 1..n : (i # 1 => name[i - 1] = ".") /\ SubSeq(name, i, n) = b BY <1>4, <2>0, Zenon DEF Within
  <2>2. Len(SubSeq(name, i, n)) = n - i + 1 /\ \A j \in 1..(n - i + 1) : SubSeq(name, i, n)[j] = name[i + j - 1]
    BY SubSeqProperties
  <2>3. m = n - i + 1 /\ b # <<>> /\ \A j \in 1..m : b[j] = name[i + j - 1]
    <3>. HIDE DEF b
    <3>. QED BY <2>1, <2>2
  <2>4. CASE i = 1
    <3>1. name = b
      <4>. HIDE DEF b
      <4>. QED BY <1>1, <2>3, <2>4, SeqEqual
    <3>. QED BY <2>3, <3>1 DEF InDomain
  <2>5. CASE i # 1
    <3>1. i - 1 \in 1..n /\ n - Len(dotted) + 1 = i - 1 /\ Len(dotted) <= n
      <4>. HIDE DEF b, dotted
      <4>. QED BY <1>1, <1>2, <2>3, <2>5
    <3>2. /\ SubSeq(name, i - 1, n) \in Seq(STRING)
          /\ Len(SubSeq(name, i - 1, n)) = n - (i - 1) + 1
          /\ \A j \in 1..(n - (i - 1) + 1) : SubSeq(name, i - 1, n)[j] = name[(i - 1) + j - 1]
      BY <3>1, <1>1, SubSeqProperties
    <3>3. SubSeq(name, i - 1, n) = dotted
      <4>1. ASSUME NEW j \in 1..(m + 1) PROVE SubSeq(name, i - 1, n)[j] = dotted[j]
        <5>1. CASE j = 1
          <6>. HIDE DEF b, dotted
          <6>. QED BY <1>1, <1>2, <2>1, <2>3, <2>5, <3>2, <5>1
        <5>2. CASE j # 1
          <6>1. j - 1 \in 1..m BY <1>1, <5>2
          <6>2. dotted[j] = b[j - 1]
            <7>. HIDE DEF b, dotted
            <7>. QED BY <1>2, <6>1
          <6>3. b[j - 1] = name[i + (j - 1) - 1] BY <2>3, <6>1
          <6>. HIDE DEF b, dotted
          <6>. QED BY <1>1, <2>3, <3>2, <6>1, <6>2, <6>3
        <5>. QED BY <5>1, <5>2
      <4>. HIDE DEF b, dotted
      <4>. QED BY <1>1, <1>2, <1>3, <2>3, <3>2, <4>1, SeqEqual
    <3>. QED BY <2>3, <3>1, <3>3 DEF InDomain, EndsIn
  <2>. QED BY <2>4, <2>5
<1>5. ASSUME InDomain(name, b) PROVE Within(name, base)
  <2>1. b # <<>> /\ m >= 1
    <3>1. b # <<>> BY <1>5 DEF InDomain
    <3>. HIDE DEF b
    <3>. QED BY <1>1, <3>1
  <2>2. CASE name = b
    <3>1. 1 \in DOMAIN name /\ SubSeq(name, 1, n) = name
      <4>. HIDE DEF b
      <4>. QED BY <1>1, <2>1, <2>2, SubSeqFull
    <3>. QED BY <2>2, <3>1 DEF Within
  <2>3. CASE EndsIn(name, dotted)
    <3>. DEFINE i == n - m + 1
    <3>1. m + 1 <= n /\ SubSeq(name, i - 1, n) = dotted
      <4>1. Len(dotted) <= n /\ SubSeq(name, n - Len(dotted) + 1, n) = dotted BY <2>3 DEF EndsIn
      <4>2. n - Len(dotted) + 1 = i - 1
        <5>. HIDE DEF b, dotted
        <5>. QED BY <1>1, <1>2
      <4>. QED BY <1>2, <4>1, <4>2
    <3>2. i \in 2..n BY <1>1, <2>1, <3>1
    <3>3. /\ \A j \in 1..(n - (i - 1) + 1) : SubSeq(name, i - 1, n)[j] = name[(i - 1) + j - 1]
      BY <1>1, <3>2, SubSeqProperties
    <3>4. \A j \in 1..(m + 1) : dotted[j] = name[n - m + j - 1]
      <4>1. n - (i - 1) + 1 = m + 1 /\ i - 1 = n - m
        <5>. HIDE DEF b
        <5>. QED BY <1>1
      <4>2. ASSUME NEW j \in 1..(m + 1) PROVE dotted[j] = name[n - m + j - 1]
        <5>1. SubSeq(name, i - 1, n)[j] = name[(i - 1) + j - 1] BY <3>3, <4>1
        <5>. HIDE DEF b, i, dotted
        <5>. QED BY <3>1, <4>1, <5>1
      <4>. QED BY <4>2
    <3>5. name[i - 1] = "."
      <4>. HIDE DEF b, dotted
      <4>. QED BY <1>1, <1>2, <2>1, <3>4
    <3>6. /\ SubSeq(name, i, n) \in Seq(STRING) /\ Len(SubSeq(name, i, n)) = m
          /\ \A j \in 1..m : SubSeq(name, i, n)[j] = name[i + j - 1]
      <4>1. /\ SubSeq(name, i, n) \in Seq(STRING) /\ Len(SubSeq(name, i, n)) = n - i + 1
            /\ \A j \in 1..(n - i + 1) : SubSeq(name, i, n)[j] = name[i + j - 1]
        BY <1>1, <3>2, SubSeqProperties
      <4>2. n - i + 1 = m BY <1>1
      <4>. QED BY <4>1, <4>2
    <3>7. \A j \in 1..m : b[j] = name[i + j - 1]
      <4>1. ASSUME NEW j \in 1..m PROVE b[j] = name[i + j - 1]
        <5>1. dotted[j + 1] = name[n - m + (j + 1) - 1]
          <6>1. j + 1 \in 1..(m + 1) BY <1>1
          <6>. QED BY <3>4, <6>1
        <5>. HIDE DEF b, dotted
        <5>. QED BY <1>1, <1>2, <5>1
      <4>. QED BY <4>1
    <3>8. SubSeq(name, i, n) = b
      <4>. HIDE DEF b, i
      <4>. QED BY <1>1, <3>6, <3>7, SeqEqual
    <3>9. i \in DOMAIN name BY <3>2, <1>1
    <3>. QED BY <3>5, <3>8, <3>9 DEF Within
  <2>. QED BY <1>5, <2>2, <2>3 DEF InDomain
<1>. QED BY <1>4, <1>5

\* A dot put before a domain, or left there, says nothing (CookieDomain).
LEMMA DotSaysNothing ==
  ASSUME NEW e \in Env, Load(e), NEW name
  PROVE  Within(name, CookieDomain(e)) <=> Within(name, e.base)
<1>. DEFINE t == TrimDot(e.base)
<1>1. t \in Seq(STRING) BY DomainIsTyped
<1>2. LET d == <<".">> \o t IN d # <<>> /\ Head(d) = "." /\ Tail(d) = t
  <2>. HIDE DEF t
  <2>. QED BY <1>1
<1>3. TrimDot(CookieDomain(e)) = t BY <1>2 DEF TrimDot, CookieDomain
<1>. QED BY <1>3 DEF Within

-----------------------------------------------------------------------------
(* The way back, and staying signed in.                                    *)

\* However often a sign-in is interrupted, and over a restart of the process
\* between the redirect and the callback, it leads to what was asked for
\* when the labels of that host end in BASE_DOMAIN, and otherwise to the
\* landing page (return_to: redirectToLogin, HandleLogin, HandleCallback).
THEOREM SignInLeadsBack == Spec => []ComesBack
<1>1. EdgeInv => ComesBack
  <2>. SUFFICES ASSUME EdgeInv, NEW c \in Client, answer[c] # None, answer[c].kind = "back"
                PROVE  LET asked == answer[c].asked
                           safe == /\ asked # None /\ asked.scheme = "https" /\ ~asked.userinfo
                                   /\ Within(asked.host.name, env.base) /\ ~HasIdnLabel(asked.host.name)
                                   /\ asked.host.port \in {0, 443}
                       IN answer[c].to = IF safe THEN asked ELSE DefaultLandingURL(env)
    BY DEF ComesBack
  <2>1. Load(env) /\ answer[c].asked \in URLType \cup {None} /\ answer[c].to = resolveReturnTo(answer[c].asked, env)
    BY DEF EdgeInv, Remembered
  <2>2. env \in Env BY DEF EdgeInv, EdgeTypeOK
  <2>3. env.base \in Seq(STRING) BY <2>1, <2>2, EnvTypes
  <2>4. ASSUME answer[c].asked # None PROVE answer[c].asked.host.name \in Seq(STRING)
    BY <2>1, <2>4, HostIsTyped DEF URLType
  <2>5. answer[c].asked # None =>
          (Within(answer[c].asked.host.name, env.base) <=> InDomain(answer[c].asked.host.name, TrimDot(env.base)))
    BY <2>3, <2>4, InDomainIsWithin
  <2>. QED BY <2>1, <2>5 DEF resolveReturnTo, Validates
<1>. QED BY <1>1, EdgeInductive, PTL

\* No app sends someone who is signed in to sign in again: the Domain of the
\* cookie covers every app under BASE_DOMAIN, with a dot before it or
\* without (CookieDomain, redirectToLogin).
THEOREM SignedInIsSignedInEverywhere == Spec => OneSignIn
<1>. DEFINE Asks(c) == At(c, "request") /\ client'[c].at = "card"
            Good(c) == session[c] = "live" /\ Within(env.auth.name, env.base) /\ Within(Host(c).name, env.base)
<1>1. ASSUME EdgeInv, [Next]_vars, NEW c \in Client, Asks(c) PROVE redirectToLogin(c)
  <2>0. Shaped(client) BY <1>1, ByBrowser
  <2>1. ASSUME client' = client PROVE FALSE BY <1>1, <2>1 DEF At
  <2>2. ASSUME NEW d \in Client, NEW p, client' = [client EXCEPT ![d] = p] PROVE d = c /\ p.at = "card"
    BY <1>1, <2>0, <2>2 DEF At, Shaped
  <2>3. CASE Start \/ RefusesToStart \/ Stop \/ Passes \/ UNCHANGED vars
    BY <2>1, <2>3 DEF Start, RefusesToStart, Stop, Passes, vars, browserVars
  <2>4. ASSUME NEW d \in Client, Browses(d) PROVE redirectToLogin(c)
    <3>1. ASSUME NEW p, Gets(d, p) PROVE FALSE
      <4>1. client' = [client EXCEPT ![d] = Idle] BY <3>1 DEF Gets
      <4>2. Idle.at = "card" BY <2>2, <4>1
      <4>. QED BY <4>2 DEF Idle
    <3>2. ASSUME NEW at, NEW x, NEW y, Moves(d, at, x, y) PROVE d = c /\ at = "card"
      <4>1. d = c /\ [at |-> at, asked |-> x, to |-> y].at = "card" BY <2>2, <3>2 DEF Moves
      <4>. QED BY <4>1
    <3>3. ASSUME NEW url \in URL, Visit(d, url) PROVE FALSE BY <3>2, <3>3 DEF Visit
    <3>4. CASE redirectToLogin(d)
      <4>1. d = c BY <3>2, <3>4 DEF redirectToLogin
      <4>. QED BY <3>4, <4>1
    <3>5. CASE Portal(d) \/ writeUnknownHost(d) \/ writeRoleDenied(d)
      BY <3>1, <3>5 DEF Portal, writeUnknownHost, writeRoleDenied
    <3>6. ASSUME NEW in \in Inbound, Forward(d, in) PROVE FALSE BY <3>1, <3>6 DEF Forward
    <3>. QED BY <2>4, <3>3, <3>4, <3>5, <3>6 DEF Browses
  <2>5. ASSUME NEW d \in Client, SignsIn(d) PROVE FALSE
    <3>1. CASE Consent(d)
      <4>1. client' = [client EXCEPT ![d] = [client[d] EXCEPT !.at = "callback"]] BY <3>1 DEF Consent
      <4>2. [client[d] EXCEPT !.at = "callback"].at = "card" /\ d = c BY <2>2, <4>1
      <4>3. PlaceOk(client[d]) BY <1>1, BrowserTyped
      <4>. QED BY <4>2, <4>3 DEF PlaceOk
    <3>2. CASE HandleLogout(d) \/ SessionEnds(d) BY <2>1, <3>2 DEF HandleLogout, SessionEnds
    <3>3. CASE Abandon(d) \/ CardIsPortal(d) \/ TooManyRequests(d)
      <4>1. client' = [client EXCEPT ![d] = Idle] BY <3>3 DEF Abandon, CardIsPortal, TooManyRequests, Gets
      <4>2. Idle.at = "card" BY <2>2, <4>1
      <4>. QED BY <4>2 DEF Idle
    <3>4. ASSUME NEW at \in {"login", "slack", "request"}, NEW x, NEW y, Moves(d, at, x, y) PROVE FALSE
      <4>1. [at |-> at, asked |-> x, to |-> y].at = "card" BY <2>2, <3>4 DEF Moves
      <4>. QED BY <4>1
    <3>5. CASE Continue(d) BY <3>4, <3>5 DEF Continue
    <3>6. CASE HandleLogin(d) BY <3>4, <3>6 DEF HandleLogin
    <3>7. CASE HandleCallback(d) BY <3>4, <3>7 DEF HandleCallback
    <3>8. ASSUME NEW url \in ReturnTo, FollowLink(d, url) PROVE FALSE BY <3>4, <3>8 DEF FollowLink
    <3>. QED BY <2>5, <3>1, <3>2, <3>3, <3>5, <3>6, <3>7, <3>8 DEF SignsIn
  <2>. QED BY <1>1, <2>3, <2>4, <2>5 DEF Next
<1>2. ASSUME EdgeInv, NEW c \in Client, redirectToLogin(c) PROVE ~Good(c)
  <2>1. env \in Env /\ Load(env) BY <1>2, ByBrowser DEF redirectToLogin, ToProxy, Serves, ServerOk, TableIsOfEnv
  <2>2. SUFFICES ASSUME Good(c) PROVE FALSE OBVIOUS
  <2>3. cookie[c] = CookieDomain(env) BY <1>2, <2>1, <2>2, DotSaysNothing DEF EdgeInv, CookieFits
  <2>4. cookie[c] # None BY <2>1, <2>3, DomainIsTyped
  <2>5. Within(Host(c).name, cookie[c]) BY <2>1, <2>2, <2>3, DotSaysNothing
  <2>6. ~SignedIn(c, Host(c)) BY <1>2 DEF redirectToLogin
  <2>. QED BY <2>2, <2>4, <2>5, <2>6 DEF SignedIn, Sends
<1>3. EdgeInv /\ [Next]_vars => \A c \in Client : Asks(c) => ~Good(c) BY <1>1, <1>2
<1>. QED BY <1>3, EdgeInductive, PTL DEF Spec, OneSignIn

-----------------------------------------------------------------------------
(* The request an app gets.                                                *)

\* A name decodes to what it was, and is ASCII on the way
\* (encodeDisplayName).
LEMMA NameSurvives ==
  ASSUME NEW name \in Seq(STRING \ {"UTF-8''"})
  PROVE  LET wire == encodeDisplayName(name) IN
         /\ Decoded(wire) = name
         /\ \A i \in DOMAIN wire : wire[i].pct \/ Ascii(wire[i].byte)
<1>. DEFINE wire == encodeDisplayName(name)
            n == Len(name)
<1>1. n \in Nat /\ DOMAIN name = 1..n /\ name = [i \in 1..n |-> name[i]] /\ \A i \in 1..n : name[i] # "UTF-8''"
  OBVIOUS
<1>2. CASE \A i \in DOMAIN name : Ascii(name[i])
  <2>1. wire = [i \in 1..n |-> Plain(name[i])] BY <1>1, <1>2 DEF encodeDisplayName
  <2>2. DOMAIN wire = 1..n /\ \A i \in 1..n : wire[i] = Plain(name[i]) BY <2>1
  <2>3. \A i \in 1..n : wire[i].byte = name[i] BY <2>2 DEF Plain
  <2>4. ~(wire # <<>> /\ wire[1] = Plain("UTF-8''"))
    <3>. SUFFICES ASSUME wire # <<>>, wire[1] = Plain("UTF-8''") PROVE FALSE OBVIOUS
    <3>1. n # 0
      <4>. SUFFICES ASSUME n = 0 PROVE wire = <<>> OBVIOUS
      <4>. QED BY <1>1, <2>1
    <3>2. 1 \in 1..n BY <1>1, <3>1
    <3>3. wire[1].byte = "UTF-8''" BY DEF Plain
    <3>. HIDE DEF wire
    <3>. QED BY <1>1, <2>3, <3>2, <3>3
  <2>5. Decoded(wire) = [i \in DOMAIN wire |-> wire[i].byte]
    <3>. HIDE DEF wire
    <3>. QED BY <2>4 DEF Decoded
  <2>6. Decoded(wire) = name
    <3>. HIDE DEF wire
    <3>. QED BY <1>1, <2>2, <2>3, <2>5
  <2>7. ASSUME NEW i \in 1..n PROVE Ascii(wire[i].byte)
    <3>. HIDE DEF wire
    <3>. QED BY <1>1, <1>2, <2>3
  <2>. QED BY <2>2, <2>6, <2>7
<1>3. CASE ~ \A i \in DOMAIN name : Ascii(name[i])
  <2>. DEFINE rest == [i \in 1..n |-> Encode(name[i])]
  <2>1. wire = <<Plain("UTF-8''")>> \o rest BY <1>1, <1>3 DEF encodeDisplayName
  <2>2. Len(rest) = n /\ DOMAIN rest = 1..n BY <1>1
  <2>3. /\ DOMAIN wire = 1..(n + 1) /\ Len(wire) = n + 1 /\ wire[1] = Plain("UTF-8''")
        /\ \A i \in 1..n : wire[i + 1] = rest[i]
    <3>1. rest \in Seq({Encode(name[i]) : i \in 1..n}) BY <1>1
    <3>2. \A i \in 1..(n + 1) : i # 1 => i - 1 \in 1..n BY <1>1
    <3>. HIDE DEF rest, wire
    <3>. QED BY <1>1, <2>1, <2>2, <3>1, <3>2
  <2>4. \A i \in 1..n : wire[i + 1].byte = name[i] /\ (wire[i + 1].pct \/ Ascii(wire[i + 1].byte))
    <3>1. ASSUME NEW i \in 1..n PROVE wire[i + 1].byte = name[i] /\ (wire[i + 1].pct \/ Ascii(wire[i + 1].byte))
      <4>1. wire[i + 1] = Encode(name[i]) BY <2>3
      <4>2. Encode(name[i]).byte = name[i] BY DEF Encode
      <4>3. Encode(name[i]).pct <=> name[i] # "a" BY Zenon DEF Encode
      <4>4. name[i] = "a" => Ascii(name[i]) BY DEF Ascii
      <4>. HIDE DEF wire
      <4>. QED BY <4>1, <4>2, <4>3, <4>4
    <3>. QED BY <3>1
  <2>5. Decoded(wire) = [i \in 1..n |-> wire[i + 1].byte]
    <3>1. wire # <<>>
      <4>. HIDE DEF wire
      <4>. QED BY <1>1, <2>3
    <3>2. Len(wire) - 1 = n
      <4>. HIDE DEF wire
      <4>. QED BY <1>1, <2>3
    <3>. HIDE DEF wire
    <3>. QED BY <2>3, <3>1, <3>2 DEF Decoded
  <2>6. Decoded(wire) = name
    <3>. HIDE DEF wire
    <3>. QED BY <1>1, <2>4, <2>5
  <2>7. ASSUME NEW i \in 1..(n + 1) PROVE wire[i].pct \/ Ascii(wire[i].byte)
    <3>1. CASE i = 1 BY <2>3, <3>1 DEF Plain, Ascii
    <3>2. CASE i # 1
      <4>1. i - 1 \in 1..n /\ (i - 1) + 1 = i BY <1>1, <3>2
      <4>. HIDE DEF wire
      <4>. QED BY <2>4, <4>1
    <3>. QED BY <3>1, <3>2
  <2>. QED BY <2>3, <2>6, <2>7
<1>. QED BY <1>2, <1>3

\* An app's view of a request, as OnlyTrustedHeaders states it.
Clean(in, out, u) ==
  LET forge == DOMAIN out.header \cap ForgeHeader
      wire == out.header["X-Forge-Name"][2]
  IN /\ forge = {"X-Forge-Proxy-Secret", "X-Forge-Roles", "X-Forge-Name"}
     /\ out.header["X-Forge-Proxy-Secret"] = <<"secret", Secret>>
     /\ out.header["X-Forge-Roles"] = <<"roles", u.roles>>
     /\ Decoded(wire) = u.name
     /\ \A i \in DOMAIN wire : wire[i].pct \/ Ascii(wire[i].byte)
     /\ (out.announced \cup DOMAIN out.trailer) \cap ForgeHeader = {}
     /\ out.cookies = in.cookies \ {"forge_session"}
     /\ out.announced = in.announced \ ForgeHeader
     /\ Without(out.header, ForgeHeader) = Without(in.header, ForgeHeader)
     /\ \A h \in DOMAIN in.trailer \ ForgeHeader :
          h \in DOMAIN out.trailer /\ out.trailer[h] = in.trailer[h]

\* What Rewrite makes of any request for any user.
Request(h, a, t, k) == [header |-> h, announced |-> a, trailer |-> t, cookies |-> k]
Replaced(r, h, a, t, k) == [r EXCEPT !.header = h, !.announced = a, !.trailer = t, !.cookies = k]

LEMMA FieldByField ==
  ASSUME NEW h, NEW a, NEW t, NEW k, NEW h2, NEW a2, NEW t2, NEW k2
  PROVE  Replaced(Request(h, a, t, k), h2, a2, t2, k2) = Request(h2, a2, t2, k2)
<1>. DEFINE r == [header |-> h, announced |-> a, trailer |-> t, cookies |-> k]
            r1 == [header |-> h2, announced |-> a, trailer |-> t, cookies |-> k]
            r2 == [header |-> h2, announced |-> a2, trailer |-> t, cookies |-> k]
            r3 == [header |-> h2, announced |-> a2, trailer |-> t2, cookies |-> k]
            r4 == [header |-> h2, announced |-> a2, trailer |-> t2, cookies |-> k2]
<1>1. [r EXCEPT !.header = h2] = r1 OBVIOUS
<1>2. [r1 EXCEPT !.announced = a2] = r2 OBVIOUS
<1>3. [r2 EXCEPT !.trailer = t2] = r3 OBVIOUS
<1>4. [r3 EXCEPT !.cookies = k2] = r4 OBVIOUS
<1>5. [r EXCEPT !.header = h2, !.announced = a2, !.trailer = t2, !.cookies = k2]
      = [[[[r EXCEPT !.header = h2] EXCEPT !.announced = a2] EXCEPT !.trailer = t2] EXCEPT !.cookies = k2]
  BY Zenon
<1>. HIDE DEF r, r1, r2, r3, r4
<1>6. [r EXCEPT !.header = h2, !.announced = a2, !.trailer = t2, !.cookies = k2] = r4
  BY <1>1, <1>2, <1>3, <1>4, <1>5, Zenon
<1>. QED BY <1>6, Zenon DEF r, r4, Replaced, Request

LEMMA RewriteIsClean ==
  ASSUME NEW in, NEW u,
         in = [header |-> in.header, announced |-> in.announced, trailer |-> in.trailer, cookies |-> in.cookies],
         u.name \in Seq(STRING \ {"UTF-8''"})
  PROVE  Clean(in, rewrite(WithSession(in), u), u)
<1>. DEFINE out == rewrite(WithSession(in), u)
            own == {"X-Forge-Proxy-Secret", "X-Forge-Roles", "X-Forge-Name"}
            bare == Without(in.header, ForgeHeader)
            contract == Contract(u)
<1>1. WithSession(in) = [header |-> in.header, announced |-> in.announced, trailer |-> in.trailer,
                         cookies |-> in.cookies \cup {"forge_session"}]
  <2>. DEFINE h == in.header  an == in.announced  t == in.trailer  k == in.cookies
  <2>1. in = [header |-> h, announced |-> an, trailer |-> t, cookies |-> k] OBVIOUS
  <2>2. WithSession(in) = [in EXCEPT !.cookies = k \cup {"forge_session"}] BY DEF WithSession
  <2>. HIDE DEF h, an, t, k
  <2>. QED BY <2>1, <2>2
<1>2. stripForgeHeaders(WithSession(in)) =
        [header |-> bare, announced |-> in.announced \ ForgeHeader,
         trailer |-> Without(in.trailer, ForgeHeader), cookies |-> (in.cookies \cup {"forge_session"}) \ {"forge_session"}]
  <2>. DEFINE k == in.cookies \cup {"forge_session"}
              r == [header |-> in.header, announced |-> in.announced, trailer |-> in.trailer, cookies |-> k]
  <2>1. r.header = in.header /\ r.announced = in.announced /\ r.trailer = in.trailer /\ r.cookies = k OBVIOUS
  <2>2. [r EXCEPT !.header = Without(r.header, ForgeHeader), !.announced = r.announced \ ForgeHeader,
                  !.trailer = Without(r.trailer, ForgeHeader), !.cookies = r.cookies \ {"forge_session"}]
        = [header |-> Without(r.header, ForgeHeader), announced |-> r.announced \ ForgeHeader,
           trailer |-> Without(r.trailer, ForgeHeader), cookies |-> r.cookies \ {"forge_session"}]
    <3>1. r = Request(in.header, in.announced, in.trailer, k) BY DEF Request
    <3>2. Replaced(r, Without(r.header, ForgeHeader), r.announced \ ForgeHeader,
                   Without(r.trailer, ForgeHeader), r.cookies \ {"forge_session"})
          = Request(Without(r.header, ForgeHeader), r.announced \ ForgeHeader,
                    Without(r.trailer, ForgeHeader), r.cookies \ {"forge_session"})
      <4>. HIDE DEF r, k
      <4>. QED BY <3>1, FieldByField
    <3>. HIDE DEF r, k
    <3>. QED BY <3>2, Zenon DEF Replaced, Request
  <2>3. stripForgeHeaders(r) = [r EXCEPT !.header = Without(r.header, ForgeHeader), !.announced = r.announced \ ForgeHeader,
                                        !.trailer = Without(r.trailer, ForgeHeader), !.cookies = r.cookies \ {"forge_session"}]
    BY Zenon DEF stripForgeHeaders
  <2>4. WithSession(in) = r BY <1>1
  <2>5. stripForgeHeaders(r) = [header |-> bare, announced |-> in.announced \ ForgeHeader,
          trailer |-> Without(in.trailer, ForgeHeader), cookies |-> k \ {"forge_session"}]
    <3>. HIDE DEF k, r
    <3>. QED BY <2>1, <2>2, <2>3
  <2>6. stripForgeHeaders(WithSession(in)) = stripForgeHeaders(r) BY <2>4, Zenon
  <2>. HIDE DEF r
  <2>. QED BY <2>5, <2>6
<1>3. DOMAIN contract = own BY DEF Contract
<1>4. out = [header |-> [h \in DOMAIN bare \cup own |-> IF h \in own THEN contract[h] ELSE bare[h]],
             announced |-> in.announced \ ForgeHeader, trailer |-> Without(in.trailer, ForgeHeader),
             cookies |-> (in.cookies \cup {"forge_session"}) \ {"forge_session"}]
  <2>. HIDE DEF bare, own
  <2>1. out = [stripForgeHeaders(WithSession(in)) EXCEPT !.header = Extend(@, DOMAIN Contract(u), LAMBDA h : Contract(u)[h])]
    BY DEF rewrite, injectForgeHeaders
  <2>2. Extend(bare, own, LAMBDA h : Contract(u)[h]) = [h \in DOMAIN bare \cup own |-> IF h \in own THEN contract[h] ELSE bare[h]]
    BY DEF Extend
  <2>. DEFINE an == in.announced \ ForgeHeader
              t == Without(in.trailer, ForgeHeader)
              k == (in.cookies \cup {"forge_session"}) \ {"forge_session"}
              r == [header |-> bare, announced |-> an, trailer |-> t, cookies |-> k]
              full == Extend(bare, own, LAMBDA h : Contract(u)[h])
  <2>3. r.header = bare OBVIOUS
  <2>4. [r EXCEPT !.header = full] = [header |-> full, announced |-> an, trailer |-> t, cookies |-> k]
    <3>. HIDE DEF full, an, t, k
    <3>. QED OBVIOUS
  <2>5. out = [r EXCEPT !.header = full]
    <3>1. stripForgeHeaders(WithSession(in)) = r BY <1>2
    <3>2. DOMAIN Contract(u) = own BY <1>3
    <3>. HIDE DEF r
    <3>. QED BY <2>1, <2>3, <3>1, <3>2
  <2>. HIDE DEF full
  <2>. QED BY <2>2, <2>4, <2>5 DEF full
<1>. DEFINE header == [h \in DOMAIN bare \cup own |-> IF h \in own THEN contract[h] ELSE bare[h]]
<1>5. /\ out.header = header /\ out.announced = in.announced \ ForgeHeader
      /\ out.trailer = Without(in.trailer, ForgeHeader)
      /\ out.cookies = (in.cookies \cup {"forge_session"}) \ {"forge_session"}
  <2>. HIDE DEF out, header, bare, own
  <2>. QED BY <1>4 DEF header
<1>6. DOMAIN header = DOMAIN bare \cup own /\ own \subseteq ForgeHeader /\ DOMAIN bare \cap ForgeHeader = {}
  BY DEF ForgeHeader, Without
<1>7. /\ header["X-Forge-Proxy-Secret"] = <<"secret", Secret>>
      /\ header["X-Forge-Roles"] = <<"roles", u.roles>>
      /\ header["X-Forge-Name"] = <<"name", encodeDisplayName(u.name)>>
  <2>. HIDE DEF bare
  <2>. QED BY DEF Contract
<1>8. Without(header, ForgeHeader) = bare
  <2>1. DOMAIN header \ ForgeHeader = DOMAIN bare
    <3>. HIDE DEF header, bare, own
    <3>. QED BY <1>6
  <2>2. \A h \in DOMAIN bare : header[h] = bare[h]
    <3>. HIDE DEF bare, own
    <3>. QED BY <1>6
  <2>3. bare = [h \in DOMAIN bare |-> bare[h]] BY DEF Without
  <2>. HIDE DEF header, bare, own
  <2>. QED BY <2>1, <2>2, <2>3 DEF Without
<1>9. \A h \in DOMAIN in.trailer \ ForgeHeader :
        h \in DOMAIN out.trailer /\ out.trailer[h] = in.trailer[h]
  <2>. HIDE DEF out
  <2>. QED BY <1>5 DEF Without
<1>10. DOMAIN out.trailer \cap ForgeHeader = {}
  <2>. HIDE DEF out
  <2>. QED BY <1>5 DEF Without
<1>11. out.header["X-Forge-Name"][2] = encodeDisplayName(u.name)
  <2>. HIDE DEF out, header
  <2>. QED BY <1>5, <1>7
<1>12. LET wire == encodeDisplayName(u.name) IN
       Decoded(wire) = u.name /\ \A i \in DOMAIN wire : wire[i].pct \/ Ascii(wire[i].byte)
  BY NameSurvives
<1>13. DOMAIN out.header \cap ForgeHeader = own
  <2>. HIDE DEF out, header, bare, own
  <2>. QED BY <1>5, <1>6
<1>14. /\ out.header["X-Forge-Proxy-Secret"] = <<"secret", Secret>>
       /\ out.header["X-Forge-Roles"] = <<"roles", u.roles>>
       /\ (out.announced \cup DOMAIN out.trailer) \cap ForgeHeader = {}
       /\ out.cookies = in.cookies \ {"forge_session"}
       /\ Without(out.header, ForgeHeader) = bare
  <2>. HIDE DEF out, header
  <2>. QED BY <1>5, <1>7, <1>8, <1>10
<1>15. Clean(in, out, u)
  <2>. HIDE DEF out, header
  <2>. QED BY <1>5, <1>9, <1>11, <1>12, <1>13, <1>14 DEF Clean
<1>. QED BY <1>15

\* Whatever headers, trailers and cookies a client sends, and whoever it is
\* (Rewrite: stripForgeHeaders, then injectForgeHeaders).
THEOREM AppsTrustTheContract == Spec => []OnlyTrustedHeaders
<1>1. EdgeInv => OnlyTrustedHeaders
  <2>1. ASSUME EdgeInv, NEW c \in Client, answer[c] # None, answer[c].kind = "app"
        PROVE  Clean(answer[c].came, answer[c].sent, Person[c])
    <3>1. answer[c].came \in Inbound /\ answer[c].sent = rewrite(WithSession(answer[c].came), Person[c])
      BY <2>1 DEF EdgeInv, Remembered
    <3>2. answer[c].came = [header |-> answer[c].came.header, announced |-> answer[c].came.announced,
                            trailer |-> answer[c].came.trailer, cookies |-> answer[c].came.cookies]
      BY <3>1, InboundAssumption
    <3>. QED BY <3>1, <3>2, PersonAssumption, RewriteIsClean
  <2>. QED BY <2>1 DEF OnlyTrustedHeaders, Clean
<1>. QED BY <1>1, EdgeInductive, PTL

-----------------------------------------------------------------------------
(* What the parsers return.                                                *)

\* Induction on the naturals, for a property given as the set it holds of.
LEMMA NatSets ==
  ASSUME NEW S, 0 \in S, \A n \in Nat : n \in S => n + 1 \in S
  PROVE  Nat \subseteq S
<1>. SUFFICES ASSUME Nat \ S # {} PROVE FALSE OBVIOUS
<1>. DEFINE R == OpToRel(<, Nat)
<1>1. IsWellFoundedOn(R, Nat) BY NatLessThanWellFounded
<1>2. \A i, j \in Nat : i < j => <<i, j>> \in R BY DEF OpToRel
<1>. HIDE DEF R
<1>3. PICK x \in Nat \ S : \A y \in Nat \ S : ~(<<y, x>> \in R)
  <2>. DEFINE T == Nat \ S
  <2>1. T \subseteq Nat /\ T # {} OBVIOUS
  <2>. HIDE DEF T
  <2>2. \E x \in T : \A y \in T : ~(<<y, x>> \in R) BY <1>1, <2>1, WFMin
  <2>. QED BY <2>2 DEF T
<1>4. x # 0 /\ x - 1 \in Nat /\ x - 1 < x /\ (x - 1) + 1 = x OBVIOUS
<1>5. x - 1 \in S BY <1>2, <1>3, <1>4
<1>. QED BY <1>4, <1>5

\* The states of a parser's loop over raw (parseUpstreams, parseSSHUpstreams).
Loop(f, raw) == f = [i \in 0..Len(raw) |-> IF i = 0 THEN Parsed(<<>>) ELSE AddEntry(f[i - 1], raw[i])]
SSHLoop(f, raw) == f = [i \in 0..Len(raw) |-> IF i = 0 THEN Parsed(<<>>) ELSE AddSSHEntry(f[i - 1], raw[i])]

LEMMA LoopRuns ==
  ASSUME NEW raw, Len(raw) \in Nat
  PROVE  \E f : Loop(f, raw) /\ parseUpstreams(raw) = NonEmpty(f[Len(raw)])
<1>. DEFINE Upto(f, n) == f = [i \in 0..n |-> IF i = 0 THEN Parsed(<<>>) ELSE AddEntry(f[i - 1], raw[i])]
            S == {n \in Nat : \E f : Upto(f, n)}
<1>1. 0 \in S
  <2>. DEFINE f == [i \in {0} |-> Parsed(<<>>)]
  <2>1. 0..0 = {0} OBVIOUS
  <2>2. Upto(f, 0) BY <2>1
  <2>. QED BY <2>2
<1>2. ASSUME NEW n \in Nat, n \in S PROVE n + 1 \in S
  <2>1. PICK g : Upto(g, n) BY <1>2
  <2>. DEFINE f == [i \in 0..(n + 1) |-> IF i = n + 1 THEN AddEntry(g[n], raw[n + 1]) ELSE g[i]]
  <2>2. \A i \in 0..n : g[i] = IF i = 0 THEN Parsed(<<>>) ELSE AddEntry(g[i - 1], raw[i])
    <3>. DEFINE Val(i) == IF i = 0 THEN Parsed(<<>>) ELSE AddEntry(g[i - 1], raw[i])
    <3>1. g = [i \in 0..n |-> Val(i)] BY <2>1
    <3>. HIDE DEF Val
    <3>2. \A i \in 0..n : g[i] = Val(i) BY <3>1
    <3>. QED BY <3>2 DEF Val
  <2>3. \A i \in 0..n : f[i] = g[i] OBVIOUS
  <2>4. ASSUME NEW i \in 0..(n + 1) PROVE f[i] = IF i = 0 THEN Parsed(<<>>) ELSE AddEntry(f[i - 1], raw[i])
    <3>1. CASE i = n + 1
      <4>1. f[i] = AddEntry(g[n], raw[n + 1]) /\ f[n] = g[n] /\ i - 1 = n /\ i # 0 BY <3>1, <2>3
      <4>. HIDE DEF f
      <4>. QED BY <3>1, <4>1
    <3>2. CASE i # n + 1
      <4>1. i \in 0..n /\ (i # 0 => i - 1 \in 0..n) BY <3>2
      <4>. HIDE DEF f
      <4>. QED BY <2>2, <2>3, <4>1
    <3>. QED BY <3>1, <3>2
  <2>5. Upto(f, n + 1)
    <3>1. f = [i \in 0..(n + 1) |-> f[i]] OBVIOUS
    <3>. HIDE DEF f
    <3>. QED BY <3>1, <2>4
  <2>. HIDE DEF f, Upto
  <2>. QED BY <2>5
<1>3. Len(raw) \in S
  <2>. HIDE DEF S
  <2>. QED BY <1>1, <1>2, NatSets
<1>4. \E f : f = [i \in 0..Len(raw) |-> IF i = 0 THEN Parsed(<<>>) ELSE AddEntry(f[i - 1], raw[i])] BY <1>3
<1>. DEFINE after == CHOOSE f : f = [i \in 0..Len(raw) |-> IF i = 0 THEN Parsed(<<>>) ELSE AddEntry(f[i - 1], raw[i])]
<1>5. Loop(after, raw) BY <1>4 DEF Loop
<1>6. parseUpstreams(raw) = NonEmpty(after[Len(raw)]) BY Zenon DEF parseUpstreams
<1>. QED BY <1>5, <1>6

LEMMA SSHLoopRuns ==
  ASSUME NEW raw, Len(raw) \in Nat
  PROVE  \E f : SSHLoop(f, raw) /\ parseSSHUpstreams(raw) = NonEmpty(f[Len(raw)])
<1>. DEFINE Upto(f, n) == f = [i \in 0..n |-> IF i = 0 THEN Parsed(<<>>) ELSE AddSSHEntry(f[i - 1], raw[i])]
            S == {n \in Nat : \E f : Upto(f, n)}
<1>1. 0 \in S
  <2>. DEFINE f == [i \in {0} |-> Parsed(<<>>)]
  <2>1. 0..0 = {0} OBVIOUS
  <2>2. Upto(f, 0) BY <2>1
  <2>. QED BY <2>2
<1>2. ASSUME NEW n \in Nat, n \in S PROVE n + 1 \in S
  <2>1. PICK g : Upto(g, n) BY <1>2
  <2>. DEFINE f == [i \in 0..(n + 1) |-> IF i = n + 1 THEN AddSSHEntry(g[n], raw[n + 1]) ELSE g[i]]
  <2>2. \A i \in 0..n : g[i] = IF i = 0 THEN Parsed(<<>>) ELSE AddSSHEntry(g[i - 1], raw[i])
    <3>. DEFINE Val(i) == IF i = 0 THEN Parsed(<<>>) ELSE AddSSHEntry(g[i - 1], raw[i])
    <3>1. g = [i \in 0..n |-> Val(i)] BY <2>1
    <3>. HIDE DEF Val
    <3>2. \A i \in 0..n : g[i] = Val(i) BY <3>1
    <3>. QED BY <3>2 DEF Val
  <2>3. \A i \in 0..n : f[i] = g[i] OBVIOUS
  <2>4. ASSUME NEW i \in 0..(n + 1) PROVE f[i] = IF i = 0 THEN Parsed(<<>>) ELSE AddSSHEntry(f[i - 1], raw[i])
    <3>1. CASE i = n + 1
      <4>1. f[i] = AddSSHEntry(g[n], raw[n + 1]) /\ f[n] = g[n] /\ i - 1 = n /\ i # 0 BY <3>1, <2>3
      <4>. HIDE DEF f
      <4>. QED BY <3>1, <4>1
    <3>2. CASE i # n + 1
      <4>1. i \in 0..n /\ (i # 0 => i - 1 \in 0..n) BY <3>2
      <4>. HIDE DEF f
      <4>. QED BY <2>2, <2>3, <4>1
    <3>. QED BY <3>1, <3>2
  <2>5. Upto(f, n + 1)
    <3>1. f = [i \in 0..(n + 1) |-> f[i]] OBVIOUS
    <3>. HIDE DEF f
    <3>. QED BY <3>1, <2>4
  <2>. HIDE DEF f, Upto
  <2>. QED BY <2>5
<1>3. Len(raw) \in S
  <2>. HIDE DEF S
  <2>. QED BY <1>1, <1>2, NatSets
<1>4. \E f : f = [i \in 0..Len(raw) |-> IF i = 0 THEN Parsed(<<>>) ELSE AddSSHEntry(f[i - 1], raw[i])] BY <1>3
<1>. DEFINE after == CHOOSE f : f = [i \in 0..Len(raw) |-> IF i = 0 THEN Parsed(<<>>) ELSE AddSSHEntry(f[i - 1], raw[i])]
<1>5. SSHLoop(after, raw) BY <1>4 DEF SSHLoop
<1>6. parseSSHUpstreams(raw) = NonEmpty(after[Len(raw)]) BY Zenon DEF parseSSHUpstreams
<1>. QED BY <1>5, <1>6

-----------------------------------------------------------------------------
(* UPSTREAMS and the host map.                                             *)

\* What r, after n turns of the loop, knows of the first n lines.
EntriesAre(r, raw, n) ==
  r.ok =>
    /\ \A i \in 1..n : ~Blank(raw[i]) =>
         /\ EntryOk(raw[i]) /\ EntryHost(raw[i]) \in DOMAIN r.map
         /\ r.map[EntryHost(raw[i])] = [target |-> raw[i].url.host, roles |-> raw[i].roles]
    /\ \A h \in DOMAIN r.map : \E i \in 1..n : ~Blank(raw[i]) /\ EntryHost(raw[i]) = h
    /\ \A i, j \in 1..n :
         ~Blank(raw[i]) /\ ~Blank(raw[j]) /\ EntryHost(raw[i]) = EntryHost(raw[j]) => i = j

LEMMA EntryAdded ==
  ASSUME NEW raw, NEW n \in Nat, NEW r, EntriesAre(r, raw, n)
  PROVE  EntriesAre(AddEntry(r, raw[n + 1]), raw, n + 1)
<1>. DEFINE e == raw[n + 1]
            s == AddEntry(r, e)
            v == [target |-> e.url.host, roles |-> e.roles]
            m == [k \in DOMAIN r.map \cup {EntryHost(e)} |-> IF k \in {EntryHost(e)} THEN v ELSE r.map[k]]
<1>0. \A i \in 1..(n + 1) : i \in 1..n \/ i = n + 1 OBVIOUS
<1>1. CASE ~r.ok
  <2>1. s = r BY <1>1 DEF AddEntry
  <2>. HIDE DEF s
  <2>2. ~s.ok BY <1>1, <2>1
  <2>3. EntriesAre(s, raw, n + 1) BY <2>2 DEF EntriesAre
  <2>. QED BY <2>3 DEF s
<1>2. CASE r.ok /\ Blank(e)
  <2>1. s = r BY <1>2 DEF AddEntry
  <2>2. EntriesAre(r, raw, n + 1) BY <1>0, <1>2 DEF EntriesAre
  <2>. QED BY <2>1, <2>2
<1>3. CASE r.ok /\ ~Blank(e) /\ (~EntryOk(e) \/ EntryHost(e) \in DOMAIN r.map)
  <2>1. s = Failed BY <1>3 DEF AddEntry
  <2>2. EntriesAre(Failed, raw, n + 1) BY DEF EntriesAre, Failed
  <2>. QED BY <2>1, <2>2
<1>4. CASE r.ok /\ ~Blank(e) /\ EntryOk(e) /\ EntryHost(e) \notin DOMAIN r.map
  <2>1. s = Parsed(m) BY <1>4, Zenon DEF AddEntry, Extend
  <2>2. /\ DOMAIN m = DOMAIN r.map \cup {EntryHost(e)} /\ m[EntryHost(e)] = v
        /\ \A h \in DOMAIN r.map : m[h] = r.map[h]
    <3>. HIDE DEF v, e
    <3>. QED BY <1>4
  <2>3. Parsed(m).map = m /\ Parsed(m).ok BY DEF Parsed
  <2>4. ASSUME NEW i \in 1..(n + 1), ~Blank(raw[i])
        PROVE  /\ EntryOk(raw[i]) /\ EntryHost(raw[i]) \in DOMAIN m
               /\ m[EntryHost(raw[i])] = [target |-> raw[i].url.host, roles |-> raw[i].roles]
    <3>1. CASE i = n + 1 BY <1>4, <2>2, <3>1
    <3>2. CASE i \in 1..n
      <4>1. /\ EntryOk(raw[i]) /\ EntryHost(raw[i]) \in DOMAIN r.map
            /\ r.map[EntryHost(raw[i])] = [target |-> raw[i].url.host, roles |-> raw[i].roles]
        BY <1>4, <2>4, <3>2 DEF EntriesAre
      <4>. HIDE DEF m
      <4>. QED BY <2>2, <4>1
    <3>. QED BY <1>0, <3>1, <3>2
  <2>5. ASSUME NEW h \in DOMAIN m PROVE \E i \in 1..(n + 1) : ~Blank(raw[i]) /\ EntryHost(raw[i]) = h
    <3>1. CASE h \in DOMAIN r.map BY <1>4, <3>1 DEF EntriesAre
    <3>2. CASE h = EntryHost(e) BY <1>4, <3>2
    <3>. HIDE DEF m
    <3>. QED BY <2>2, <3>1, <3>2
  <2>6. ASSUME NEW i \in 1..(n + 1), NEW j \in 1..(n + 1), ~Blank(raw[i]), ~Blank(raw[j]),
               EntryHost(raw[i]) = EntryHost(raw[j])
        PROVE  i = j
    <3>1. \A k \in 1..n : ~Blank(raw[k]) => EntryHost(raw[k]) \in DOMAIN r.map BY <1>4 DEF EntriesAre
    <3>2. CASE i \in 1..n /\ j \in 1..n BY <1>4, <2>6, <3>2 DEF EntriesAre
    <3>3. CASE i = n + 1 /\ j \in 1..n BY <1>4, <2>6, <3>1, <3>3
    <3>4. CASE j = n + 1 /\ i \in 1..n BY <1>4, <2>6, <3>1, <3>4
    <3>. QED BY <1>0, <3>2, <3>3, <3>4
  <2>7. EntriesAre(Parsed(m), raw, n + 1)
    <3>. HIDE DEF m
    <3>. QED BY <2>3, <2>4, <2>5, <2>6 DEF EntriesAre
  <2>. QED BY <2>1, <2>7
<1>. QED BY <1>1, <1>2, <1>3, <1>4

LEMMA UpstreamsAreParsed ==
  ASSUME NEW raw, Len(raw) \in Nat, parseUpstreams(raw).ok
  PROVE  EntriesAre(parseUpstreams(raw), raw, Len(raw))
<1>1. PICK f : Loop(f, raw) /\ parseUpstreams(raw) = NonEmpty(f[Len(raw)]) BY LoopRuns
<1>2. f[0] = Parsed(<<>>) /\ \A i \in 1..Len(raw) : f[i] = AddEntry(f[i - 1], raw[i])
  <2>. DEFINE Val(i) == IF i = 0 THEN Parsed(<<>>) ELSE AddEntry(f[i - 1], raw[i])
  <2>1. f = [i \in 0..Len(raw) |-> Val(i)] BY <1>1 DEF Loop
  <2>. HIDE DEF Val
  <2>2. \A i \in 0..Len(raw) : f[i] = Val(i) BY <2>1
  <2>. QED BY <2>2 DEF Val
<1>. DEFINE S == {n \in Nat : n <= Len(raw) => EntriesAre(f[n], raw, n)}
<1>3. 0 \in S
  <2>1. DOMAIN Parsed(<<>>).map = {} BY DEF Parsed
  <2>2. EntriesAre(Parsed(<<>>), raw, 0)
    <3>1. 1..0 = {} OBVIOUS
    <3>. QED BY <2>1, <3>1 DEF EntriesAre
  <2>. QED BY <1>2, <2>2
<1>4. ASSUME NEW n \in Nat, n \in S PROVE n + 1 \in S
  <2>. SUFFICES ASSUME n + 1 <= Len(raw) PROVE EntriesAre(f[n + 1], raw, n + 1) OBVIOUS
  <2>1. EntriesAre(f[n], raw, n) BY <1>4
  <2>2. n + 1 \in 1..Len(raw) /\ (n + 1) - 1 = n OBVIOUS
  <2>3. f[n + 1] = AddEntry(f[n], raw[n + 1]) BY <1>2, <2>2
  <2>. QED BY <2>1, <2>3, EntryAdded
<1>5. EntriesAre(f[Len(raw)], raw, Len(raw))
  <2>1. Len(raw) \in S
    <3>. HIDE DEF S
    <3>. QED BY <1>3, <1>4, NatSets
  <2>. QED BY <2>1
<1>6. parseUpstreams(raw) = f[Len(raw)] BY <1>1 DEF NonEmpty, Failed
<1>. QED BY <1>5, <1>6

HostOf(n, u, p) == [name |-> n, upper |-> u, port |-> p]

LEMMA HostFields ==
  ASSUME NEW n, NEW u, NEW p
  PROVE  HostOf(n, u, p).name = n /\ HostOf(n, u, p).upper = u /\ HostOf(n, u, p).port = p
BY DEF HostOf

LEMMA HostChanged ==
  ASSUME NEW n, NEW u, NEW p, NEW u2, NEW p2
  PROVE  /\ [HostOf(n, u, p) EXCEPT !.upper = u2] = HostOf(n, u2, p)
         /\ [HostOf(n, u, p) EXCEPT !.port = p2] = HostOf(n, u, p2)
BY DEF HostOf

Lower == FALSE

LEMMA HostLowered ==
  ASSUME NEW n, NEW u, NEW p
  PROVE  /\ ToLower(HostOf(n, u, p)) = HostOf(n, Lower, p)
         /\ ToLower(HostOf(n, u, p)).name = n /\ ToLower(HostOf(n, u, p)).port = p
         /\ NormalizeHost(HostOf(n, u, p)) = HostOf(n, Lower, 0)
         /\ NormalizeHost(HostOf(n, u, p)).name = n /\ NormalizeHost(HostOf(n, u, p)).port = 0
<1>1. ToLower(HostOf(n, u, p)) = [HostOf(n, u, p) EXCEPT !.upper = Lower] BY Zenon DEF ToLower, Lower
<1>2. NormalizeHost(HostOf(n, u, p)) = [ToLower(HostOf(n, u, p)) EXCEPT !.port = 0] BY Zenon DEF NormalizeHost
<1>3. ToLower(HostOf(n, u, p)) = HostOf(n, Lower, p) BY <1>1, HostChanged
<1>4. NormalizeHost(HostOf(n, u, p)) = HostOf(n, Lower, 0) BY <1>2, <1>3, HostChanged
<1>. QED BY <1>3, <1>4, HostFields

LEMMA RecordOfHost ==
  ASSUME NEW h \in HostType
  PROVE  /\ ToLower(h) = HostOf(h.name, Lower, h.port) /\ ToLower(h).name = h.name /\ ToLower(h).port = h.port
         /\ NormalizeHost(h) = HostOf(h.name, Lower, 0) /\ NormalizeHost(h).name = h.name /\ NormalizeHost(h).port = 0
         /\ ToLower(ToLower(h)) = ToLower(h)
<1>. DEFINE n == h.name  u == h.upper  p == h.port
<1>1. h = HostOf(n, u, p) BY DEF HostType, HostOf
<1>. HIDE DEF n, u, p
<1>2. /\ ToLower(h) = HostOf(n, Lower, p) /\ ToLower(h).name = n /\ ToLower(h).port = p
      /\ NormalizeHost(h) = HostOf(n, Lower, 0) /\ NormalizeHost(h).name = n /\ NormalizeHost(h).port = 0
      /\ ToLower(ToLower(h)) = ToLower(h)
  BY <1>1, HostLowered
<1>. QED BY <1>2 DEF n, u, p

\* Keys of parseUpstreams are in lower case already, so that NewHostMap has
\* nothing to choose.
LEMMA HostMapIsTheMap ==
  ASSUME NEW raw \in Seq(Entry), parseUpstreams(raw).ok,
         NEW t \in NewHostMap(parseUpstreams(raw).map)
  PROVE  LET m == parseUpstreams(raw).map IN
         DOMAIN t = DOMAIN m /\ \A h \in DOMAIN m : t[h] = m[h]
<1>. DEFINE m == parseUpstreams(raw).map
            n == Len(raw)
<1>1. n \in Nat /\ \A i \in 1..n : raw[i] \in Entry OBVIOUS
<1>2. EntriesAre(parseUpstreams(raw), raw, n) BY <1>1, UpstreamsAreParsed
<1>3. ASSUME NEW h \in DOMAIN m PROVE ToLower(h) = h
  <2>1. PICK i \in 1..n : ~Blank(raw[i]) /\ EntryHost(raw[i]) = h BY <1>2 DEF EntriesAre
  <2>2. EntryOk(raw[i]) BY <1>2, <2>1 DEF EntriesAre
  <2>3. raw[i].host \in HostType BY <1>1, <2>2 DEF EntryOk, Entry
  <2>. QED BY <2>1, <2>3, RecordOfHost DEF EntryHost
<1>. HIDE DEF m
<1>4. t \in NewHostMap(m) BY DEF m
<1>5. {ToLower(h) : h \in DOMAIN m} = DOMAIN m BY <1>3
<1>6. t \in [DOMAIN m -> {m[h] : h \in DOMAIN m}] /\ \A k \in DOMAIN m : \E h \in DOMAIN m : ToLower(h) = k /\ t[k] = m[h]
  BY <1>4, <1>5 DEF NewHostMap
<1>7. DOMAIN t = DOMAIN m /\ \A h \in DOMAIN m : t[h] = m[h] BY <1>3, <1>6
<1>. QED BY <1>7 DEF m

\* A request is looked up under the line of its host, and there is one at
\* most (parseUpstreams, NewHostMap, NormalizeHost).
LEMMA LookedUp ==
  ASSUME EdgeInv, process = "serving", NEW host \in HostType
  PROVE  LET k == NormalizeHost(host) IN
         /\ k \notin DOMAIN table => Lines(host) = {}
         /\ k \in DOMAIN table => \E i \in DOMAIN env.upstreams :
              /\ Lines(host) = {i}
              /\ table[k] = [target |-> env.upstreams[i].url.host, roles |-> env.upstreams[i].roles]
<1>. DEFINE raw == env.upstreams
            n == Len(raw)
            k == NormalizeHost(host)
            p == parseUpstreams(raw)
            Named(i) == raw[i].host # None /\ raw[i].host.port = 0 /\ raw[i].host.name = host.name
<1>1. env \in Env /\ Load(env) /\ table \in NewHostMap(p.map) BY DEF EdgeInv, EdgeTypeOK, TableIsOfEnv
<1>2. raw \in Seq(Entry) /\ p.ok BY <1>1, EnvAssumption DEF Load
<1>3. n \in Nat /\ DOMAIN raw = 1..n /\ \A i \in 1..n : raw[i] \in Entry BY <1>2
<1>4. EntriesAre(p, raw, n) BY <1>2, <1>3, UpstreamsAreParsed
<1>5. DOMAIN table = DOMAIN p.map /\ \A h \in DOMAIN p.map : table[h] = p.map[h]
  BY <1>1, <1>2, HostMapIsTheMap
<1>6. Lines(host) = {i \in 1..n : Named(i)} BY <1>3 DEF Lines
<1>7. ASSUME NEW i \in 1..n, ~Blank(raw[i]), EntryOk(raw[i]) PROVE EntryHost(raw[i]) = k <=> Named(i)
  <2>. DEFINE g == raw[i].host
  <2>1. g \in HostType /\ g # None BY <1>3, <1>7 DEF EntryOk, Entry
  <2>2. EntryHost(raw[i]) = HostOf(g.name, Lower, g.port) BY <2>1, RecordOfHost DEF EntryHost
  <2>3. k = HostOf(host.name, Lower, 0) BY RecordOfHost
  <2>4. EntryHost(raw[i]) = k => g.name = host.name /\ g.port = 0
    <3>1. EntryHost(raw[i]).name = g.name /\ EntryHost(raw[i]).port = g.port BY <2>1, RecordOfHost DEF EntryHost
    <3>2. k.name = host.name /\ k.port = 0 BY RecordOfHost
    <3>. HIDE DEF k, g, raw
    <3>. QED BY <3>1, <3>2
  <2>5. g.name = host.name /\ g.port = 0 => EntryHost(raw[i]) = k
    <3>. HIDE DEF k, g, raw
    <3>. QED BY <2>2, <2>3
  <2>. QED BY <2>1, <2>4, <2>5
<1>8. \A i \in 1..n : Named(i) => ~Blank(raw[i]) BY DEF Blank
<1>. HIDE DEF k, p, n, raw
<1>9. \A i \in 1..n : ~Blank(raw[i]) => EntryOk(raw[i]) BY <1>2, <1>4 DEF EntriesAre
<1>10. ASSUME k \notin DOMAIN table PROVE Lines(host) = {}
  <2>1. \A i \in 1..n : ~Blank(raw[i]) => EntryHost(raw[i]) \in DOMAIN table BY <1>2, <1>4, <1>5 DEF EntriesAre
  <2>. HIDE DEF Named
  <2>2. \A i \in 1..n : ~Named(i) BY <1>7, <1>8, <1>9, <1>10, <2>1
  <2>. QED BY <1>6, <2>2
<1>11. ASSUME k \in DOMAIN table
       PROVE  \E i \in DOMAIN raw :
                Lines(host) = {i} /\ table[k] = [target |-> raw[i].url.host, roles |-> raw[i].roles]
  <2>1. PICK i \in 1..n : ~Blank(raw[i]) /\ EntryHost(raw[i]) = k BY <1>2, <1>4, <1>5, <1>11 DEF EntriesAre
  <2>2. EntryOk(raw[i]) /\ p.map[k] = [target |-> raw[i].url.host, roles |-> raw[i].roles] BY <1>2, <1>4, <2>1 DEF EntriesAre
  <2>3. ASSUME NEW j \in 1..n, Named(j) PROVE j = i
    <3>1. ~Blank(raw[j]) /\ EntryHost(raw[j]) = k BY <1>7, <1>8, <1>9, <2>3
    <3>. QED BY <1>2, <1>4, <2>1, <3>1 DEF EntriesAre
  <2>4. Named(i) BY <1>7, <2>1, <2>2
  <2>. HIDE DEF Named
  <2>5. Lines(host) = {i} BY <1>6, <2>3, <2>4
  <2>. QED BY <1>3, <1>5, <1>11, <2>1, <2>2, <2>5
<1>. QED BY <1>10, <1>11 DEF k, raw

-----------------------------------------------------------------------------
(* SSH_UPSTREAMS and the ports.                                            *)

PortsOf(e) == e.lo .. e.hi

SSHEntriesAre(r, raw, n) ==
  r.ok =>
    /\ \A i \in 1..n : \A p \in PortsOf(raw[i]) : p \in DOMAIN r.map /\ r.map[p] = SSHTarget(raw[i], p)
    /\ \A p \in DOMAIN r.map : \E i \in 1..n : p \in PortsOf(raw[i])
    /\ \A i, j \in 1..n : PortsOf(raw[i]) \cap PortsOf(raw[j]) # {} => i = j

LEMMA SSHEntryAdded ==
  ASSUME NEW raw, NEW n \in Nat, NEW r, SSHEntriesAre(r, raw, n)
  PROVE  SSHEntriesAre(AddSSHEntry(r, raw[n + 1]), raw, n + 1)
<1>. DEFINE e == raw[n + 1]
            s == AddSSHEntry(r, e)
            m == [k \in DOMAIN r.map \cup PortsOf(e) |-> IF k \in PortsOf(e) THEN SSHTarget(e, k) ELSE r.map[k]]
<1>0. \A i \in 1..(n + 1) : i \in 1..n \/ i = n + 1 OBVIOUS
<1>1. CASE ~r.ok
  <2>1. s = r BY <1>1 DEF AddSSHEntry
  <2>. HIDE DEF s
  <2>2. ~s.ok BY <1>1, <2>1
  <2>3. SSHEntriesAre(s, raw, n + 1) BY <2>2 DEF SSHEntriesAre
  <2>. QED BY <2>3 DEF s
<1>2. CASE r.ok /\ (~SSHEntryOk(e) \/ DOMAIN r.map \cap PortsOf(e) # {})
  <2>1. s = Failed BY <1>2, Zenon DEF AddSSHEntry, PortsOf
  <2>2. SSHEntriesAre(Failed, raw, n + 1) BY DEF SSHEntriesAre, Failed
  <2>. QED BY <2>1, <2>2
<1>3. CASE r.ok /\ SSHEntryOk(e) /\ DOMAIN r.map \cap PortsOf(e) = {}
  <2>1. s = Parsed(m) BY <1>3, Zenon DEF AddSSHEntry, Extend, PortsOf
  <2>2. /\ DOMAIN m = DOMAIN r.map \cup PortsOf(e) /\ \A p \in PortsOf(e) : m[p] = SSHTarget(e, p)
        /\ \A p \in DOMAIN r.map : m[p] = r.map[p]
    <3>. HIDE DEF e
    <3>. QED BY <1>3
  <2>3. Parsed(m).map = m /\ Parsed(m).ok BY DEF Parsed
  <2>4. ASSUME NEW i \in 1..(n + 1), NEW p \in PortsOf(raw[i])
        PROVE  p \in DOMAIN m /\ m[p] = SSHTarget(raw[i], p)
    <3>1. CASE i = n + 1
      <4>. HIDE DEF m
      <4>. QED BY <2>2, <2>4, <3>1
    <3>2. CASE i \in 1..n
      <4>1. p \in DOMAIN r.map /\ r.map[p] = SSHTarget(raw[i], p) BY <1>3, <2>4, <3>2 DEF SSHEntriesAre
      <4>. HIDE DEF m
      <4>. QED BY <2>2, <4>1
    <3>. QED BY <1>0, <3>1, <3>2
  <2>5. ASSUME NEW p \in DOMAIN m PROVE \E i \in 1..(n + 1) : p \in PortsOf(raw[i])
    <3>1. CASE p \in DOMAIN r.map BY <1>3, <3>1 DEF SSHEntriesAre
    <3>2. CASE p \in PortsOf(e) BY <3>2
    <3>. HIDE DEF m
    <3>. QED BY <2>2, <3>1, <3>2
  <2>6. ASSUME NEW i \in 1..(n + 1), NEW j \in 1..(n + 1), PortsOf(raw[i]) \cap PortsOf(raw[j]) # {}
        PROVE  i = j
    <3>1. \A k \in 1..n : PortsOf(raw[k]) \subseteq DOMAIN r.map BY <1>3 DEF SSHEntriesAre
    <3>2. CASE i \in 1..n /\ j \in 1..n BY <1>3, <2>6, <3>2 DEF SSHEntriesAre
    <3>3. CASE i = n + 1 /\ j \in 1..n BY <1>3, <2>6, <3>1, <3>3
    <3>4. CASE j = n + 1 /\ i \in 1..n BY <1>3, <2>6, <3>1, <3>4
    <3>. QED BY <1>0, <3>2, <3>3, <3>4
  <2>7. SSHEntriesAre(Parsed(m), raw, n + 1)
    <3>. HIDE DEF m
    <3>. QED BY <2>3, <2>4, <2>5, <2>6 DEF SSHEntriesAre
  <2>. QED BY <2>1, <2>7
<1>. QED BY <1>1, <1>2, <1>3

LEMMA SSHUpstreamsAreParsed ==
  ASSUME NEW raw, Len(raw) \in Nat, parseSSHUpstreams(raw).ok
  PROVE  SSHEntriesAre(parseSSHUpstreams(raw), raw, Len(raw))
<1>1. PICK f : SSHLoop(f, raw) /\ parseSSHUpstreams(raw) = NonEmpty(f[Len(raw)]) BY SSHLoopRuns
<1>2. f[0] = Parsed(<<>>) /\ \A i \in 1..Len(raw) : f[i] = AddSSHEntry(f[i - 1], raw[i])
  <2>. DEFINE Val(i) == IF i = 0 THEN Parsed(<<>>) ELSE AddSSHEntry(f[i - 1], raw[i])
  <2>1. f = [i \in 0..Len(raw) |-> Val(i)] BY <1>1 DEF SSHLoop
  <2>. HIDE DEF Val
  <2>2. \A i \in 0..Len(raw) : f[i] = Val(i) BY <2>1
  <2>. QED BY <2>2 DEF Val
<1>. DEFINE S == {n \in Nat : n <= Len(raw) => SSHEntriesAre(f[n], raw, n)}
<1>3. 0 \in S
  <2>1. DOMAIN Parsed(<<>>).map = {} BY DEF Parsed
  <2>2. SSHEntriesAre(Parsed(<<>>), raw, 0)
    <3>1. 1..0 = {} OBVIOUS
    <3>. QED BY <2>1, <3>1 DEF SSHEntriesAre
  <2>. QED BY <1>2, <2>2
<1>4. ASSUME NEW n \in Nat, n \in S PROVE n + 1 \in S
  <2>. SUFFICES ASSUME n + 1 <= Len(raw) PROVE SSHEntriesAre(f[n + 1], raw, n + 1) OBVIOUS
  <2>1. SSHEntriesAre(f[n], raw, n) BY <1>4
  <2>2. n + 1 \in 1..Len(raw) /\ (n + 1) - 1 = n OBVIOUS
  <2>3. f[n + 1] = AddSSHEntry(f[n], raw[n + 1]) BY <1>2, <2>2
  <2>. QED BY <2>1, <2>3, SSHEntryAdded
<1>5. SSHEntriesAre(f[Len(raw)], raw, Len(raw))
  <2>1. Len(raw) \in S
    <3>. HIDE DEF S
    <3>. QED BY <1>3, <1>4, NatSets
  <2>. QED BY <2>1
<1>6. parseSSHUpstreams(raw) = f[Len(raw)] BY <1>1 DEF NonEmpty, Failed
<1>. QED BY <1>5, <1>6

LEMMA PortsAreServed == EdgeInv => SshPortsAsConfigured
<1>. SUFFICES ASSUME EdgeInv, process = "serving", NEW p \in 0..(MaxPort + 1)
              PROVE  LET lines == {i \in DOMAIN env.ssh : p \in env.ssh[i].lo..env.ssh[i].hi} IN
                     /\ p \in DOMAIN ports <=> lines # {}
                     /\ p \in DOMAIN ports => \E i \in lines :
                          LET e == env.ssh[i] IN
                          /\ lines = {i}
                          /\ ports[p] = [host |-> e.target.host, roles |-> e.roles,
                                         port |-> IF e.isRange THEN p ELSE e.target.port]
  BY DEF SshPortsAsConfigured
<1>. DEFINE raw == env.ssh
            n == Len(raw)
            lines == {i \in DOMAIN raw : p \in PortsOf(raw[i])}
<1>1. env \in Env /\ Load(env) /\ ports = IF raw = <<>> THEN <<>> ELSE parseSSHUpstreams(raw).map
  BY DEF EdgeInv, EdgeTypeOK, TableIsOfEnv
<1>2. n \in Nat /\ DOMAIN raw = 1..n BY <1>1, EnvAssumption
<1>3. CASE raw = <<>>
  <2>1. DOMAIN ports = {} /\ lines = {} BY <1>1, <1>3
  <2>. QED BY <2>1 DEF PortsOf
<1>4. CASE raw # <<>>
  <2>. DEFINE r == parseSSHUpstreams(raw)
  <2>1. r.ok /\ ports = r.map BY <1>1, <1>4 DEF Load
  <2>2. SSHEntriesAre(r, raw, n) BY <1>2, <2>1, SSHUpstreamsAreParsed
  <2>. HIDE DEF r
  <2>3. ASSUME p \in DOMAIN ports PROVE \E i \in lines : lines = {i} /\ ports[p] = SSHTarget(raw[i], p)
    <3>1. PICK i \in 1..n : p \in PortsOf(raw[i]) BY <2>1, <2>2, <2>3 DEF SSHEntriesAre
    <3>2. ports[p] = SSHTarget(raw[i], p) BY <2>1, <2>2, <3>1 DEF SSHEntriesAre
    <3>3. \A j \in 1..n : p \in PortsOf(raw[j]) => j = i BY <2>1, <2>2, <3>1 DEF SSHEntriesAre
    <3>4. lines = {i}
      <4>. HIDE DEF n, raw
      <4>. QED BY <1>2, <3>1, <3>3
    <3>. QED BY <1>2, <3>1, <3>2, <3>4
  <2>4. ASSUME NEW i \in lines PROVE p \in DOMAIN ports
    BY <1>2, <2>1, <2>2, <2>4 DEF SSHEntriesAre
  <2>. QED BY <2>3, <2>4 DEF PortsOf, SSHTarget
<1>. QED BY <1>3, <1>4

-----------------------------------------------------------------------------
(* What the operator's lines say is what the server does.                  *)

RouteOk(c, a) ==
  a # None =>
    /\ a.kind = "unknown" => Lines(a.host) = {}
    /\ a.kind \in {"app", "denied"} => \E i \in DOMAIN env.upstreams :
         /\ Lines(a.host) = {i}
         /\ a.kind = "app" <=> Permits(env.upstreams[i], Person[c].roles)
         /\ a.kind = "app" => a.target = env.upstreams[i].url.host

LEMMA RoutesAreOk == RoutesAsConfigured <=> \A c \in Client : RouteOk(c, answer[c])
BY DEF RoutesAsConfigured, RouteOk

LEMMA SameRoutes ==
  ASSUME EdgeInv, EdgeInv', RoutesAsConfigured, env' = env,
         NEW c \in Client, NEW a, RouteOk(c, a), answer' = [answer EXCEPT ![c] = a] \/ answer' = answer
  PROVE  RoutesAsConfigured'
<1>1. Shaped(answer) BY ByBrowser DEF ServerOk
<1>2. ASSUME NEW d \in Client PROVE RouteOk(d, answer[d])'
  <2>1. RouteOk(d, answer[d]) BY RoutesAreOk
  <2>2. answer'[d] = answer[d] \/ (d = c /\ answer'[d] = a) BY <1>1 DEF Shaped
  <2>3. RouteOk(d, answer'[d]) BY <2>1, <2>2
  <2>. QED BY <2>3 DEF RouteOk, Lines
<1>. QED BY <1>2 DEF RoutesAsConfigured, RouteOk

LEMMA OtherPages ==
  ASSUME NEW c \in Client, NEW kind \in {"portal", "429"}, NEW h
  PROVE  RouteOk(c, Page(kind, h)) /\ RouteOk(c, None)
BY DEF RouteOk, Page

LEMMA RoutesStay == EdgeInv /\ EdgeInv' /\ RoutesAsConfigured /\ [Next]_vars => RoutesAsConfigured'
<1>. SUFFICES ASSUME EdgeInv, EdgeInv', RoutesAsConfigured, [Next]_vars PROVE RoutesAsConfigured' OBVIOUS
<1>1. CASE Start \/ RefusesToStart \/ Stop \/ Passes \/ UNCHANGED vars
  <2>1. answer' = answer /\ env' = env
    BY <1>1 DEF Start, RefusesToStart, Stop, Passes, vars, browserVars, serverVars
  <2>. QED BY <2>1 DEF RoutesAsConfigured, Lines
<1>2. ASSUME NEW c \in Client, Browses(c) PROVE RoutesAsConfigured'
  <2>. DEFINE host == Host(c)
              k == NormalizeHost(host)
  <2>0. ASSUME Serves(c) PROVE host \in HostType /\ process = "serving"
    <3>1. At(c, "request") /\ process = "serving" BY <2>0 DEF Serves
    <3>2. client[c].asked \in URLType BY <3>1, BrowserTyped DEF At, PlaceOk
    <3>. QED BY <3>1, <3>2 DEF URLType, Host
  <2>1. ASSUME NEW url \in URL, Visit(c, url) PROVE RoutesAsConfigured'
    BY <2>1, OtherPages, SameRoutes DEF Visit, serverVars
  <2>2. CASE Portal(c) BY <2>2, OtherPages, SameRoutes DEF Portal, Gets, serverVars
  <2>3. CASE writeUnknownHost(c)
    <3>1. Serves(c) /\ k \notin DOMAIN table BY <2>3 DEF writeUnknownHost, ToProxy, Resolves
    <3>2. Lines(host) = {} BY <2>0, <3>1, LookedUp
    <3>3. RouteOk(c, Page("unknown", host)) BY <3>2 DEF RouteOk, Page
    <3>. QED BY <2>3, <3>3, SameRoutes DEF writeUnknownHost, Gets, serverVars
  <2>4. CASE redirectToLogin(c) BY <2>4, OtherPages, SameRoutes DEF redirectToLogin, serverVars
  <2>5. ASSUME ToProxy(c), Resolves(c)
        PROVE  \E i \in DOMAIN env.upstreams :
                 /\ Lines(host) = {i} /\ Upstream(c).target = env.upstreams[i].url.host
                 /\ Permits(Upstream(c), Person[c].roles) <=> Permits(env.upstreams[i], Person[c].roles)
    <3>1. Serves(c) /\ k \in DOMAIN table BY <2>5 DEF ToProxy, Resolves
    <3>2. PICK i \in DOMAIN env.upstreams :
            /\ Lines(host) = {i}
            /\ table[k] = [target |-> env.upstreams[i].url.host, roles |-> env.upstreams[i].roles]
      BY <2>0, <3>1, LookedUp
    <3>3. Upstream(c).target = env.upstreams[i].url.host /\ Upstream(c).roles = env.upstreams[i].roles
      BY <3>2 DEF Upstream
    <3>. QED BY <3>2, <3>3 DEF Permits
  <2>6. CASE writeRoleDenied(c)
    <3>1. ToProxy(c) /\ Resolves(c) /\ ~Permits(Upstream(c), Person[c].roles) BY <2>6 DEF writeRoleDenied
    <3>2. Page("denied", host).kind = "denied" /\ Page("denied", host).host = host BY DEF Page
    <3>3. RouteOk(c, Page("denied", host)) BY <2>5, <3>1, <3>2 DEF RouteOk
    <3>. QED BY <2>6, <3>3, SameRoutes DEF writeRoleDenied, Gets, serverVars
  <2>7. ASSUME NEW in \in Inbound, Forward(c, in) PROVE RoutesAsConfigured'
    <3>. DEFINE a == [kind |-> "app", host |-> host, target |-> Upstream(c).target,
                      came |-> in, sent |-> rewrite(WithSession(in), Person[c])]
    <3>1. ToProxy(c) /\ Resolves(c) /\ Permits(Upstream(c), Person[c].roles) BY <2>7 DEF Forward
    <3>2. a.kind = "app" /\ a.host = host /\ a.target = Upstream(c).target OBVIOUS
    <3>3. answer' = [answer EXCEPT ![c] = a] /\ env' = env BY <2>7 DEF Forward, Gets, serverVars
    <3>. HIDE DEF a
    <3>4. RouteOk(c, a) BY <2>5, <3>1, <3>2 DEF RouteOk
    <3>. QED BY <3>3, <3>4, SameRoutes
  <2>. QED BY <1>2, <2>1, <2>2, <2>3, <2>4, <2>6, <2>7 DEF Browses
<1>3. ASSUME NEW c \in Client, SignsIn(c) PROVE RoutesAsConfigured'
  <2>1. CASE Continue(c) \/ Consent(c) \/ Abandon(c) \/ HandleLogout(c) \/ SessionEnds(c) \/ HandleLogin(c)
    <3>1. answer' = answer /\ env' = env
      BY <2>1 DEF Continue, Consent, Abandon, HandleLogout, SessionEnds, HandleLogin, serverVars
    <3>. QED BY <3>1, OtherPages, SameRoutes
  <2>2. CASE CardIsPortal(c) \/ TooManyRequests(c)
    BY <2>2, OtherPages, SameRoutes DEF CardIsPortal, TooManyRequests, Gets, serverVars
  <2>3. ASSUME NEW url \in ReturnTo, FollowLink(c, url) PROVE RoutesAsConfigured'
    BY <2>3, OtherPages, SameRoutes DEF FollowLink, serverVars
  <2>4. CASE HandleCallback(c)
    <3>. DEFINE a == [kind |-> "back", asked |-> client[c].asked, to |-> resolveReturnTo(client[c].to, env)]
    <3>1. answer' = [answer EXCEPT ![c] = a] /\ env' = env BY <2>4 DEF HandleCallback, serverVars
    <3>2. RouteOk(c, a) BY DEF RouteOk
    <3>. HIDE DEF a
    <3>. QED BY <3>1, <3>2, SameRoutes
  <2>. QED BY <1>3, <2>1, <2>2, <2>3, <2>4 DEF SignsIn
<1>. QED BY <1>1, <1>2, <1>3 DEF Next

\* For whatever lines, in whatever order and case and however many, that the
\* parsers let pass (parseUpstreams, NewHostMap, parseSSHUpstreams, Rewrite).
THEOREM LinesAreServed == Spec => []ServesAsConfigured
<1>1. Init => RoutesAsConfigured BY DEF Init, RoutesAsConfigured
<1>2. EdgeInv /\ RoutesAsConfigured => ServesAsConfigured BY PortsAreServed DEF ServesAsConfigured
<1>. QED BY <1>1, <1>2, RoutesStay, EdgeInductive, PTL DEF Spec
=============================================================================
