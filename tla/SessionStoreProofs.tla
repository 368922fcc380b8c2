------------------------- MODULE SessionStoreProofs -------------------------
(***************************************************************************)
(* The properties of SessionStore, proved for every set of sessions, users *)
(* and callers, every clock precision and every timeout the configuration  *)
(* accepts.                                                                *)
(***************************************************************************)
EXTENDS SessionStore, TLAPS

-----------------------------------------------------------------------------
(* Flooring to whole seconds.                                              *)

LEMMA FloorBounds ==
  ASSUME NEW t \in Nat
  PROVE  /\ Floor(t) \in Nat
         /\ Floor(t) <= t
         /\ t < Floor(t) + Res
BY TimeAssumption DEF Floor

\* A floored instant is a multiple of the second.
LEMMA FloorMultiple ==
  ASSUME NEW t \in Nat
  PROVE  \E q \in Nat : Floor(t) = Res * q
<1>1. t = Res * (t \div Res) + (t % Res) /\ t \div Res \in Nat
  BY TimeAssumption
<1> DEFINE q == t \div Res
<1>2. q \in Nat /\ t = Res * q + (t % Res)
  BY <1>1
<1> HIDE DEF q
<1>3. Res * q \in Nat /\ t % Res \in Nat
  BY <1>2, TimeAssumption
<1>4. Floor(t) = Res * q
  BY <1>2, <1>3 DEF Floor
<1> QED
  BY <1>2, <1>4

\* No floored instant lies strictly between a whole second and the next.
LEMMA FloorBelow ==
  ASSUME NEW t \in Nat, NEW x \in Nat, Floor(x) = x, t < x + Res
  PROVE  Floor(t) <= x
<1>1. PICK p \in Nat : Floor(t) = Res * p
  BY FloorMultiple
<1>2. PICK q \in Nat : x = Res * q
  BY FloorMultiple
<1>3. Res * p < Res * q + Res
  BY <1>1, <1>2, FloorBounds, TimeAssumption
<1>4. CASE p <= q
  BY <1>1, <1>2, <1>4, TimeAssumption
<1>5. CASE p >= q + 1
  <2>1. Res * p >= Res * q + Res
    BY <1>5, TimeAssumption
  <2> QED
    BY <1>3, <2>1, TimeAssumption
<1> QED
  BY <1>4, <1>5

LEMMA FloorIdempotent ==
  ASSUME NEW t \in Nat
  PROVE  Floor(Floor(t)) = Floor(t)
<1>1. PICK q \in Nat : Floor(t) = Res * q
  BY FloorMultiple
<1>2. (Res * q) % Res = 0 /\ Res * q \in Nat
  BY TimeAssumption
<1> QED
  BY <1>1, <1>2 DEF Floor

LEMMA FloorMonotone ==
  ASSUME NEW t \in Nat, NEW u \in Nat, t <= u
  PROVE  Floor(t) <= Floor(u)
<1>1. /\ Floor(u) \in Nat
      /\ Floor(Floor(u)) = Floor(u)
      /\ t < Floor(u) + Res
  BY FloorBounds, FloorIdempotent, TimeAssumption
<1> QED
  BY <1>1, FloorBelow

-----------------------------------------------------------------------------
(* The rows Create and Touch write.                                        *)

LEMMA NewRowFacts ==
  ASSUME NEW u \in User, NEW t \in Nat
  PROVE  /\ NewRow(u, t) \in Row
         /\ NewRow(u, t).created_at = Floor(t)
         /\ NewRow(u, t).last_seen_at = Floor(t)
         /\ Floor(NewRow(u, t).expires_at) = NewRow(u, t).expires_at
         /\ NewRow(u, t).expires_at < NewRow(u, t).last_seen_at + Res + IdleTimeout
         /\ NewRow(u, t).expires_at <= t + Lifetime
<1>1. t + IdleTimeout \in Nat
  BY TimeAssumption
<1>2. Floor(t) \in Nat /\ Floor(t + IdleTimeout) \in Nat
  BY <1>1, FloorBounds
<1>3. Floor(Floor(t + IdleTimeout)) = Floor(t + IdleTimeout)
  BY <1>1, FloorIdempotent
<1>4. /\ Floor(t + IdleTimeout) < Floor(t) + Res + IdleTimeout
      /\ Floor(t + IdleTimeout) <= t + Lifetime
  BY <1>1, <1>2, FloorBounds, TimeAssumption
<1> QED
  BY <1>2, <1>3, <1>4 DEF NewRow, Row

LEMMA SlideFacts ==
  ASSUME NEW r \in Row, NEW t \in Nat
  PROVE  /\ Slide(r, t) \in Row
         /\ Slide(r, t).created_at = r.created_at
         /\ Slide(r, t).last_seen_at = Floor(t)
         /\ Slide(r, t).expires_at =
              Floor(Earlier(t + IdleTimeout, r.created_at + Lifetime))
         /\ Floor(Slide(r, t).expires_at) = Slide(r, t).expires_at
         /\ Slide(r, t).expires_at < Floor(t) + Res + IdleTimeout
         /\ Slide(r, t).expires_at <= r.created_at + Lifetime
<1> DEFINE e == Earlier(t + IdleTimeout, r.created_at + Lifetime)
<1>1. /\ e \in Nat
      /\ e <= t + IdleTimeout
      /\ e <= r.created_at + Lifetime
      /\ r.created_at \in Nat
  BY TimeAssumption DEF Earlier, Row
<1>2. /\ Slide(r, t).created_at = r.created_at
      /\ Slide(r, t).user = r.user
      /\ Slide(r, t).last_seen_at = Floor(t)
      /\ Slide(r, t).expires_at = Floor(e)
      /\ Floor(t) \in Nat /\ Floor(e) \in Nat => Slide(r, t) \in Row
  BY DEF Slide, Row
<1> HIDE DEF e
<1>3. /\ Floor(t) \in Nat /\ t < Floor(t) + Res
      /\ Floor(e) \in Nat /\ Floor(e) <= e
      /\ Floor(Floor(e)) = Floor(e)
  BY <1>1, FloorBounds, FloorIdempotent
<1>4. /\ Floor(e) < Floor(t) + Res + IdleTimeout
      /\ Floor(e) <= r.created_at + Lifetime
  BY <1>1, <1>3, TimeAssumption
<1> QED
  BY <1>2, <1>3, <1>4 DEF e

-----------------------------------------------------------------------------
(* The inductive invariant.                                                *)

LEMMA InitIInv == Init => IInv
BY TimeAssumption, NoneAssumption
   DEF Init, IInv, TypeOK, CallsInv, RowsInv, SweepInv, HasRow, Time

LEMMA CallTypes ==
  ASSUME TypeOK, NEW c \in Caller, call[c] # None
  PROVE  /\ call[c].sid \in Sid
         /\ call[c].now \in Time
         /\ call[c].op = "create" => call[c] \in CreateCall
         /\ call[c].op \in {"touchRead", "touchWrite"} => call[c] \in TouchCall
BY DEF TypeOK, CreateCall, TouchCall

\* Deleting rows disturbs nothing else.
LEMMA EraseIInv ==
  ASSUME IInv, NEW S, Erase(S),
         UNCHANGED <<clock, call, minted, birth>>, sweep' \in {sweep, None}
  PROVE  IInv'
<1>1. \A s \in Sid : sessions'[s] \in {sessions[s], None}
  BY DEF Erase
<1>2. TypeOK'
  BY <1>1, NoneAssumption DEF IInv, TypeOK, Erase, Time
<1>3. CallsInv'
  BY <1>1 DEF IInv, CallsInv, TypeOK, CreateCall, TouchCall
<1>4. RowsInv'
  BY <1>1 DEF IInv, RowsInv, HasRow
<1>5. SweepInv'
  BY DEF IInv, SweepInv
<1> QED
  BY <1>2, <1>3, <1>4, <1>5 DEF IInv

\* So does dropping calls and abandoning a sweep.
LEMMA DropIInv ==
  ASSUME IInv, UNCHANGED <<clock, sessions, minted, birth>>,
         call' \in [Caller -> CreateCall \cup TouchCall \cup {None}],
         \A c \in Caller : call'[c] \in {call[c], None},
         sweep' \in {sweep, None}
  PROVE  IInv'
<1>1. TypeOK'
  BY DEF IInv, TypeOK
<1>2. CallsInv'
  BY DEF IInv, CallsInv
<1>3. RowsInv' /\ SweepInv'
  BY DEF IInv, RowsInv, SweepInv, HasRow
<1> QED
  BY <1>1, <1>2, <1>3 DEF IInv

LEMMA CreateBeginIInv ==
  ASSUME IInv, NEW c \in Caller, NEW s \in Sid, NEW u \in User,
         CreateBegin(c, s, u)
  PROVE  IInv'
<1> DEFINE new == [op |-> "create", sid |-> s, user |-> u, now |-> clock]
<1>1. new \in CreateCall /\ new # None
  BY NoneAssumption DEF CreateCall, IInv, TypeOK
<1>2. TypeOK'
  BY <1>1 DEF CreateBegin, IInv, TypeOK
<1>3. sessions[s] = None
  BY DEF CreateBegin, IInv, RowsInv, HasRow
<1>4. CallsInv'
  <2>1. \A d \in Caller : d # c => call'[d] = call[d]
    BY DEF CreateBegin, IInv, TypeOK
  <2>2. call'[c] = new
    BY DEF CreateBegin, IInv, TypeOK
  <2>3. \A d \in Caller : call[d] # None => call[d].sid # s
    BY DEF CreateBegin, IInv, CallsInv
  <2>4. /\ minted' = minted \cup {s} /\ birth'[s] = clock
        /\ \A t \in Sid : t # s => birth'[t] = birth[t]
        /\ clock' = clock /\ sessions' = sessions /\ clock \in Nat
    BY DEF CreateBegin, IInv, TypeOK, Time
  <2>5. \A d \in Caller : call[d] # None => call[d].sid \in Sid
    BY CallTypes DEF IInv
  <2> QED
    BY <2>1, <2>2, <2>3, <2>4, <2>5, <1>3 DEF IInv, CallsInv
<1>5. RowsInv'
  BY <1>3 DEF CreateBegin, IInv, TypeOK, RowsInv, HasRow
<1>6. SweepInv'
  BY DEF CreateBegin, IInv, SweepInv
<1> QED
  BY <1>2, <1>4, <1>5, <1>6 DEF IInv

LEMMA CreateWriteIInv ==
  ASSUME IInv, NEW c \in Caller, CreateWrite(c)
  PROVE  IInv'
<1> DEFINE s == call[c].sid
           row == NewRow(call[c].user, call[c].now)
<1>1. /\ call[c] \in CreateCall /\ s \in Sid /\ s \in minted
      /\ call[c].now \in Nat /\ call[c].user \in User
      /\ sessions[s] = None /\ birth[s] = call[c].now
  BY CallTypes DEF CreateWrite, IInv, CallsInv, CreateCall, Time
<1>2. /\ row \in Row
      /\ row.created_at = Floor(birth[s])
      /\ Floor(row.expires_at) = row.expires_at
      /\ row.expires_at < row.last_seen_at + Res + IdleTimeout
      /\ row.expires_at <= birth[s] + Lifetime
  BY <1>1, NewRowFacts
<1>3. /\ sessions' = [sessions EXCEPT ![s] = row]
      /\ call' = [call EXCEPT ![c] = None]
      /\ UNCHANGED <<clock, sweep, minted, birth>>
  BY DEF CreateWrite
<1>4. \A d \in Caller \ {c} : call[d] # None /\ call[d].op = "create" => call[d].sid # s
  BY DEF CreateWrite, IInv, CallsInv
<1> HIDE DEF row, s
<1>5. TypeOK'
  BY <1>1, <1>2, <1>3 DEF IInv, TypeOK
<1>6. CallsInv'
  <2>1. \A d \in Caller : call'[d] # None => d # c /\ call'[d] = call[d]
    BY <1>3 DEF IInv, TypeOK
  <2>2. \A t \in Sid : t # s => sessions'[t] = sessions[t]
    BY <1>3 DEF IInv, TypeOK
  <2>3. \A d \in Caller : call[d] # None => call[d].sid \in Sid
    BY CallTypes DEF IInv
  <2> QED
    BY <1>3, <1>4, <2>1, <2>2, <2>3 DEF IInv, CallsInv
<1>7. RowsInv'
  BY <1>1, <1>2, <1>3 DEF IInv, TypeOK, RowsInv, HasRow
<1>8. SweepInv'
  BY <1>3 DEF IInv, SweepInv
<1> QED
  BY <1>5, <1>6, <1>7, <1>8 DEF IInv

LEMMA TouchBeginIInv ==
  ASSUME IInv, NEW c \in Caller, NEW s \in Sid, TouchBegin(c, s)
  PROVE  IInv'
<1> DEFINE new == [op |-> "touchRead", sid |-> s, now |-> clock]
<1>1. new \in TouchCall
  BY DEF TouchCall, IInv, TypeOK
<1>2. /\ call' = [call EXCEPT ![c] = new]
      /\ UNCHANGED <<clock, sessions, sweep, minted, birth>>
      /\ s \in minted
      /\ new.op # "create" /\ new.sid = s /\ new.now = clock
  BY DEF TouchBegin
<1> HIDE DEF new
<1>3. TypeOK'
  BY <1>1, <1>2 DEF IInv, TypeOK
<1>4. CallsInv'
  BY <1>2 DEF IInv, TypeOK, CallsInv, Time
<1>5. RowsInv' /\ SweepInv'
  BY <1>2 DEF IInv, RowsInv, SweepInv, HasRow
<1> QED
  BY <1>3, <1>4, <1>5 DEF IInv

LEMMA TouchReadIInv ==
  ASSUME IInv, NEW c \in Caller, TouchRead(c)
  PROVE  IInv'
<1> DEFINE new == [call[c] EXCEPT !.op = "touchWrite"]
<1>1. /\ call[c] \in TouchCall
      /\ call[c].sid \in minted /\ call[c].now <= clock
  BY CallTypes DEF TouchRead, IInv, CallsInv
<1>2. /\ new \in TouchCall /\ new.op # "create"
      /\ new.sid = call[c].sid /\ new.now = call[c].now
  BY <1>1 DEF TouchCall
<1>3. /\ \/ call' = [call EXCEPT ![c] = new]
         \/ call' = [call EXCEPT ![c] = None]
      /\ UNCHANGED <<clock, sessions, sweep, minted, birth>>
  BY DEF TouchRead
<1> HIDE DEF new
<1>4. TypeOK'
  BY <1>2, <1>3 DEF IInv, TypeOK
<1>5. CallsInv'
  BY <1>1, <1>2, <1>3 DEF IInv, TypeOK, CallsInv
<1>6. RowsInv' /\ SweepInv'
  BY <1>3 DEF IInv, RowsInv, SweepInv, HasRow
<1> QED
  BY <1>4, <1>5, <1>6 DEF IInv

LEMMA TouchWriteIInv ==
  ASSUME IInv, NEW c \in Caller, TouchWrite(c)
  PROVE  IInv'
<1> DEFINE s == call[c].sid
           row == Slide(sessions[s], call[c].now)
<1>1. s \in Sid /\ call[c].now \in Nat /\ call[c].op = "touchWrite"
  BY CallTypes DEF TouchWrite, IInv, Time
<1>2. UNCHANGED <<clock, sweep, minted, birth>> /\ call' = [call EXCEPT ![c] = None]
  BY DEF TouchWrite
<1>3. CASE ~MaySlide(s, call[c].now)
  <2>1. sessions' = sessions
    BY <1>3 DEF TouchWrite
  <2>2. call' \in [Caller -> CreateCall \cup TouchCall \cup {None}]
    BY <1>2 DEF IInv, TypeOK
  <2>3. \A d \in Caller : call'[d] \in {call[d], None}
    BY <1>2 DEF IInv, TypeOK
  <2> QED
    BY <1>2, <2>1, <2>2, <2>3, DropIInv
<1>4. CASE MaySlide(s, call[c].now)
  <2>1. sessions' = [sessions EXCEPT ![s] = row]
    BY <1>4 DEF TouchWrite
  <2>2. sessions[s] \in Row /\ sessions[s] # None
    BY <1>1, <1>4 DEF MaySlide, HasRow, IInv, TypeOK
  <2>3. /\ row \in Row
        /\ row.created_at = sessions[s].created_at
        /\ Floor(row.expires_at) = row.expires_at
        /\ row.expires_at < row.last_seen_at + Res + IdleTimeout
        /\ row.expires_at <= sessions[s].created_at + Lifetime
    BY <1>1, <2>2, SlideFacts
  <2>4. sessions[s].created_at = Floor(birth[s]) /\ s \in minted
    BY <1>1, <2>2 DEF IInv, RowsInv, HasRow
  <2>5. row.expires_at <= birth[s] + Lifetime
    <3>1. birth[s] \in Nat
      BY <1>1 DEF IInv, TypeOK, Time
    <3> QED
      BY <2>3, <2>4, <3>1, FloorBounds, TimeAssumption DEF Row
  <2> HIDE DEF row, s
  <2>6. TypeOK'
    BY <1>1, <1>2, <2>1, <2>3 DEF IInv, TypeOK
  <2>7. CallsInv'
    <3>1. \A d \in Caller : call'[d] # None => d # c /\ call'[d] = call[d]
      BY <1>2 DEF IInv, TypeOK
    <3>2. \A d \in Caller : call[d] # None /\ call[d].op = "create" => call[d].sid # s
      BY <2>2 DEF IInv, CallsInv
    <3>3. \A t \in Sid : t # s => sessions'[t] = sessions[t]
      BY <2>1 DEF IInv, TypeOK
    <3>4. \A d \in Caller : call[d] # None => call[d].sid \in Sid
      BY CallTypes DEF IInv
    <3> QED
      BY <1>2, <3>1, <3>2, <3>3, <3>4 DEF IInv, CallsInv
  <2>8. RowsInv'
    BY <1>1, <1>2, <2>1, <2>3, <2>4, <2>5 DEF IInv, TypeOK, RowsInv, HasRow
  <2>9. SweepInv'
    BY <1>2 DEF IInv, SweepInv
  <2> QED
    BY <2>6, <2>7, <2>8, <2>9 DEF IInv
<1> QED
  BY <1>3, <1>4

LEMMA NextIInv == IInv /\ [Next]_vars => IInv'
<1> SUFFICES ASSUME IInv, [Next]_vars PROVE IInv'
  OBVIOUS
<1>1. ASSUME NEW c \in Caller, NEW s \in Sid, NEW u \in User, CreateBegin(c, s, u)
      PROVE  IInv'
  BY <1>1, CreateBeginIInv
<1>2. ASSUME NEW c \in Caller, NEW s \in Sid, TouchBegin(c, s)
      PROVE  IInv'
  BY <1>2, TouchBeginIInv
<1>3. ASSUME NEW c \in Caller, CreateWrite(c) \/ TouchRead(c) \/ TouchWrite(c)
      PROVE  IInv'
  BY <1>3, CreateWriteIInv, TouchReadIInv, TouchWriteIInv
<1>4. ASSUME NEW c \in Caller, CallFails(c)
      PROVE  IInv'
  <2>1. call' \in [Caller -> CreateCall \cup TouchCall \cup {None}]
    BY <1>4 DEF CallFails, IInv, TypeOK
  <2>2. \A d \in Caller : call'[d] \in {call[d], None}
    BY <1>4 DEF CallFails, IInv, TypeOK
  <2> QED
    BY <1>4, <2>1, <2>2, DropIInv DEF CallFails
<1>5. ASSUME NEW s \in Sid, Delete(s)
      PROVE  IInv'
  BY <1>5, EraseIInv DEF Delete
<1>6. ASSUME NEW u \in User, DeleteAllForUser(u)
      PROVE  IInv'
  BY <1>6, EraseIInv DEF DeleteAllForUser
<1>7. CASE DeleteAll
  BY <1>7, EraseIInv DEF DeleteAll
<1>8. CASE SweepBegin
  <2>1. sweep' = clock /\ UNCHANGED <<clock, sessions, call, minted, birth>>
    BY <1>8 DEF SweepBegin
  <2>2. TypeOK' /\ SweepInv'
    BY <2>1, TimeAssumption DEF IInv, TypeOK, SweepInv, Time
  <2>3. CallsInv' /\ RowsInv'
    BY <2>1 DEF IInv, CallsInv, RowsInv, HasRow
  <2> QED
    BY <2>2, <2>3 DEF IInv
<1>9. CASE SweepWrite
  BY <1>9, EraseIInv DEF SweepWrite
<1>10. CASE SweepFails \/ Restart
  <2>1. call' \in [Caller -> CreateCall \cup TouchCall \cup {None}]
    BY <1>10 DEF SweepFails, Restart, IInv, TypeOK
  <2>2. \A d \in Caller : call'[d] \in {call[d], None}
    BY <1>10 DEF SweepFails, Restart, IInv, TypeOK
  <2> QED
    BY <1>10, <2>1, <2>2, DropIInv DEF SweepFails, Restart
<1>11. CASE Tick
  <2>1. /\ clock' \in Time /\ clock <= clock' /\ clock \in Nat /\ clock' \in Nat
        /\ UNCHANGED <<sessions, call, sweep, minted, birth>>
    BY <1>11, TimeAssumption DEF Tick, IInv, TypeOK, Time
  <2>2. TypeOK'
    BY <2>1 DEF IInv, TypeOK
  <2>3. \A c \in Caller : call[c] # None => call[c].now \in Nat
    BY CallTypes DEF IInv, Time
  <2>4. CallsInv'
    BY <2>1, <2>3 DEF IInv, CallsInv
  <2>5. RowsInv'
    BY <2>1 DEF IInv, RowsInv, HasRow
  <2>6. SweepInv'
    BY <2>1 DEF IInv, TypeOK, SweepInv, Time
  <2> QED
    BY <2>2, <2>4, <2>5, <2>6 DEF IInv
<1>12. CASE UNCHANGED vars
  <2>1. call' \in [Caller -> CreateCall \cup TouchCall \cup {None}]
    BY <1>12 DEF vars, IInv, TypeOK
  <2> QED
    BY <1>12, <2>1, DropIInv DEF vars
<1> QED
  BY <1>1, <1>2, <1>3, <1>4, <1>5, <1>6, <1>7, <1>8, <1>9, <1>10, <1>11, <1>12
     DEF Next

-----------------------------------------------------------------------------
(* The safety properties.                                                  *)

\* IInv holds in every state of the store.
THEOREM Inductive == Spec => []IInv
BY InitIInv, NextIInv, PTL DEF Spec

\* The table and the calls in flight keep their types.
THEOREM TypeCorrect == Spec => []TypeOK
<1>1. IInv => TypeOK
  BY DEF IInv
<1> QED
  BY <1>1, Inductive, PTL

\* No session outlives Lifetime, counted from the instant its sign-in captured.
THEOREM Capped == Spec => []AbsoluteCap
<1>1. IInv => AbsoluteCap
  BY DEF IInv, RowsInv, AbsoluteCap
<1> QED
  BY <1>1, Inductive, PTL

\* A row nobody touches is dead IdleTimeout after its last recorded use.
THEOREM IdleBounded == Spec => []IdleBound
<1>1. IInv => IdleBound
  BY DEF IInv, RowsInv, IdleBound
<1> QED
  BY <1>1, Inductive, PTL

\* Which rows a step writes, and under which guard: everything the action
\* properties below need to know of Next.
LEMMA RowChanges ==
  ASSUME IInv, [Next]_vars, NEW s \in Sid, sessions'[s] # sessions[s]
  PROVE  \/ Creating(s) /\ ~HasRow(s) /\ sweep' = sweep
         \/ sessions'[s] = None /\ sweep' = sweep
         \/ sessions'[s] = None /\ sweep # None /\ s \in Sweepable(sweep)
         \/ \E c \in Caller : /\ call[c] \in TouchCall
                              /\ call[c].sid = s
                              /\ MaySlide(s, call[c].now)
                              /\ sessions'[s] = Slide(sessions[s], call[c].now)
                              /\ sweep' = sweep
<1>1. ASSUME NEW c \in Caller, CreateWrite(c)
      PROVE  Creating(s) /\ ~HasRow(s) /\ sweep' = sweep
  BY <1>1 DEF CreateWrite, Creating, HasRow, IInv, TypeOK, CallsInv
<1>2. ASSUME NEW c \in Caller, TouchWrite(c)
      PROVE  /\ call[c] \in TouchCall
             /\ call[c].sid = s
             /\ MaySlide(s, call[c].now)
             /\ sessions'[s] = Slide(sessions[s], call[c].now)
             /\ sweep' = sweep
  <2>1. call[c] \in TouchCall
    BY <1>2, CallTypes DEF TouchWrite, IInv
  <2> QED
    BY <1>2, <2>1 DEF TouchWrite, IInv, TypeOK
<1>3. ASSUME NEW S, Erase(S), sweep' = sweep
      PROVE  sessions'[s] = None /\ sweep' = sweep
  BY <1>3 DEF Erase
<1>4. ASSUME SweepWrite
      PROVE  sessions'[s] = None /\ sweep # None /\ s \in Sweepable(sweep)
  BY <1>4 DEF SweepWrite, Erase
<1> QED
  BY <1>1, <1>2, <1>3, <1>4
     DEF Next, vars, CreateBegin, TouchBegin, TouchRead, CallFails, Delete,
         DeleteAllForUser, DeleteAll, SweepBegin, SweepFails, Restart, Tick

\* What a step of the store does to a row that was there and still is.
LEMMA SlideOrSame ==
  ASSUME IInv, [Next]_vars, NEW s \in Sid, HasRow(s), HasRow(s)',
         sessions'[s] # sessions[s]
  PROVE  \E now \in Nat : /\ MaySlide(s, now)
                          /\ sessions'[s] = Slide(sessions[s], now)
BY RowChanges DEF HasRow, TouchCall, Time

\* Two writes of one session are touchThrottle apart, however they interleave.
THEOREM Throttling == Spec => ThrottleHolds
<1>1. IInv /\ [Next]_vars =>
        \A s \in Sid : HasRow(s) /\ HasRow(s)' /\ sessions'[s] # sessions[s] =>
          sessions'[s].last_seen_at + Res > sessions[s].last_seen_at + TouchThrottle
  <2> SUFFICES ASSUME IInv, [Next]_vars, NEW s \in Sid, HasRow(s), HasRow(s)',
                      sessions'[s] # sessions[s]
               PROVE  sessions'[s].last_seen_at + Res
                        > sessions[s].last_seen_at + TouchThrottle
    OBVIOUS
  <2>1. PICK now \in Nat : /\ MaySlide(s, now)
                           /\ sessions'[s] = Slide(sessions[s], now)
    BY SlideOrSame
  <2>2. sessions[s] \in Row /\ sessions[s].last_seen_at \in Nat
    BY DEF IInv, TypeOK, HasRow, Row
  <2>3. sessions'[s].last_seen_at = Floor(now) /\ Floor(now) \in Nat
        /\ now < Floor(now) + Res
    <3>1. Slide(sessions[s], now).last_seen_at = Floor(now)
      BY <2>2, SlideFacts
    <3>2. Floor(now) \in Nat /\ now < Floor(now) + Res
      BY FloorBounds
    <3> QED
      BY <2>1, <3>1, <3>2
  <2> QED
    BY <2>1, <2>2, <2>3, TimeAssumption DEF MaySlide, Throttled
<1> QED
  BY <1>1, Inductive, PTL DEF Spec, ThrottleHolds

\* A signed-out ID never gets a row again, whatever was in flight.
THEOREM SignOutFinal == Spec => SignOutIsFinal
<1>1. IInv /\ [Next]_vars =>
        \A s \in minted : ~HasRow(s) /\ ~Creating(s) => ~HasRow(s)'
  <2> SUFFICES ASSUME IInv, [Next]_vars, NEW s \in minted, ~HasRow(s), ~Creating(s)
               PROVE  sessions'[s] = None
    BY DEF HasRow
  <2>1. s \in Sid /\ sessions[s] = None
    BY DEF IInv, TypeOK, HasRow
  <2>2. CASE sessions'[s] = sessions[s]
    BY <2>1, <2>2
  <2>3. CASE sessions'[s] # sessions[s]
    BY <2>1, <2>3, RowChanges DEF MaySlide
  <2> QED
    BY <2>2, <2>3
<1> QED
  BY <1>1, Inductive, PTL DEF Spec, SignOutIsFinal

\* The sweeper never removes a row that Get would accept.
THEOREM SweepSound == Spec => NoEarlySweep
<1>1. IInv /\ [Next]_vars =>
        \A s \in Sid : Live(s) /\ ~HasRow(s)' => sweep' = sweep
  <2> SUFFICES ASSUME IInv, [Next]_vars, NEW s \in Sid, Live(s), ~HasRow(s)',
                      sweep' # sweep
               PROVE  FALSE
    OBVIOUS
  <2>1. sessions'[s] # sessions[s]
    BY DEF Live, HasRow
  <2>2. sweep # None /\ s \in Sweepable(sweep)
    BY <2>1, RowChanges
  <2>3. sweep \in Nat /\ clock \in Nat /\ sweep <= clock
        /\ sessions[s] \in Row /\ sessions[s].expires_at \in Nat
    BY <2>2 DEF IInv, TypeOK, SweepInv, Time, Live, HasRow, Row
  <2> QED
    BY <2>2, <2>3, FloorBounds DEF Sweepable, Live
<1> QED
  BY <1>1, Inductive, PTL DEF Spec, NoEarlySweep

-----------------------------------------------------------------------------
(* With a lifetime of whole seconds a row never goes back in time.         *)

RowCapInv ==
  \A s \in Sid :
    HasRow(s) => sessions[s].expires_at <= sessions[s].created_at + Lifetime

LEMMA WholeSum ==
  ASSUME WholeLifetime, NEW t \in Nat
  PROVE  Floor(Floor(t) + Lifetime) = Floor(t) + Lifetime
<1>1. Lifetime \in Nat /\ Floor(Lifetime) = Lifetime
  BY TimeAssumption DEF WholeLifetime, Floor
<1>2. PICK q \in Nat : Lifetime = Res * q
  BY <1>1, FloorMultiple
<1>3. PICK p \in Nat : Floor(t) = Res * p
  BY FloorMultiple
<1>4. Floor(t) + Lifetime = Res * (p + q)
  BY <1>2, <1>3, TimeAssumption
<1>5. p + q \in Nat
  OBVIOUS
<1>6. (Res * (p + q)) % Res = 0 /\ Res * (p + q) \in Nat
  BY <1>5, TimeAssumption
<1> QED
  BY <1>4, <1>6 DEF Floor

LEMMA NewRowCapped ==
  ASSUME WholeLifetime, NEW u \in User, NEW t \in Nat
  PROVE  NewRow(u, t).expires_at <= NewRow(u, t).created_at + Lifetime
<1>1. /\ Floor(t) \in Nat /\ t < Floor(t) + Res
      /\ Floor(Floor(t) + Lifetime) = Floor(t) + Lifetime
  BY FloorBounds, WholeSum
<1>2. /\ t + IdleTimeout \in Nat /\ Floor(t) + Lifetime \in Nat
      /\ t + IdleTimeout < Floor(t) + Lifetime + Res
  BY <1>1, TimeAssumption
<1>3. Floor(t + IdleTimeout) <= Floor(t) + Lifetime
  BY <1>1, <1>2, FloorBelow
<1> QED
  BY <1>3 DEF NewRow

THEOREM RowsCapped ==
  ASSUME WholeLifetime
  PROVE  Spec => []RowCapInv
<1>1. Init => RowCapInv
  BY DEF Init, RowCapInv, HasRow
<1>2. IInv /\ RowCapInv /\ [Next]_vars => RowCapInv'
  <2> SUFFICES ASSUME IInv, RowCapInv, [Next]_vars, NEW s \in Sid, HasRow(s)'
               PROVE  sessions'[s].expires_at <= sessions'[s].created_at + Lifetime
    BY DEF RowCapInv
  <2>1. CASE sessions'[s] = sessions[s]
    BY <2>1 DEF RowCapInv, HasRow
  <2>2. CASE sessions'[s] # sessions[s] /\ HasRow(s)
    <3>1. PICK now \in Nat : sessions'[s] = Slide(sessions[s], now)
      BY <2>2, SlideOrSame
    <3>2. sessions[s] \in Row
      BY <2>2 DEF IInv, TypeOK, HasRow
    <3> QED
      BY <3>1, <3>2, SlideFacts
  <2>3. CASE sessions'[s] # sessions[s] /\ ~HasRow(s)
    <3>1. PICK c \in Caller : CreateWrite(c) /\ call[c].sid = s
      BY <2>3
         DEF Next, vars, CreateBegin, CreateWrite, TouchBegin, TouchRead, TouchWrite,
             MaySlide, CallFails, Delete, DeleteAllForUser, DeleteAll, Erase,
             SweepBegin, SweepWrite, SweepFails, Restart, Tick, HasRow, IInv, TypeOK
    <3>2. call[c].user \in User /\ call[c].now \in Nat
      BY <3>1, CallTypes DEF CreateWrite, CreateCall, IInv, Time
    <3>3. sessions'[s] = NewRow(call[c].user, call[c].now)
      BY <3>1 DEF CreateWrite, IInv, TypeOK
    <3> QED
      BY <3>2, <3>3, NewRowCapped
  <2> QED
    BY <2>1, <2>2, <2>3
<1> QED
  BY <1>1, <1>2, Inductive, PTL DEF Spec

LEMMA SlideForward ==
  ASSUME IInv, RowCapInv, NEW s \in Sid, NEW now \in Nat, MaySlide(s, now)
  PROVE  /\ Slide(sessions[s], now).last_seen_at >= sessions[s].last_seen_at
         /\ Slide(sessions[s], now).expires_at >= sessions[s].expires_at
<1> DEFINE r == sessions[s]
           e == Earlier(now + IdleTimeout, r.created_at + Lifetime)
<1>1. /\ r \in Row /\ r.last_seen_at \in Nat /\ r.expires_at \in Nat
      /\ r.created_at \in Nat
      /\ r.last_seen_at + TouchThrottle <= now
      /\ Floor(r.expires_at) = r.expires_at
      /\ r.expires_at < r.last_seen_at + Res + IdleTimeout
      /\ r.expires_at <= r.created_at + Lifetime
  BY TimeAssumption
     DEF MaySlide, HasRow, Throttled, IInv, TypeOK, RowsInv, RowCapInv, Row
<1>2. /\ Slide(r, now).last_seen_at = Floor(now)
      /\ Slide(r, now).expires_at = Floor(e)
  BY <1>1, SlideFacts
<1> HIDE DEF r
<1>3. e \in Nat /\ r.expires_at <= e
  BY <1>1, TimeAssumption DEF Earlier
<1> HIDE DEF e
<1>4. r.expires_at <= Floor(e)
  BY <1>1, <1>3, FloorMonotone
<1>5. r.last_seen_at <= Floor(now)
  <2>1. Floor(now) \in Nat /\ now < Floor(now) + Res
    BY FloorBounds
  <2> QED
    BY <1>1, <2>1, TimeAssumption
<1> QED
  BY <1>2, <1>4, <1>5 DEF r

\* A touch never takes a row back, even one that was overtaken while it waited.
THEOREM Forward ==
  ASSUME WholeLifetime
  PROVE  Spec => NeverMovesBack
<1>1. IInv /\ RowCapInv /\ [Next]_vars =>
        \A s \in Sid : HasRow(s) /\ HasRow(s)' =>
          /\ sessions'[s].last_seen_at >= sessions[s].last_seen_at
          /\ sessions'[s].expires_at >= sessions[s].expires_at
  <2> SUFFICES ASSUME IInv, RowCapInv, [Next]_vars, NEW s \in Sid, HasRow(s), HasRow(s)'
               PROVE  /\ sessions'[s].last_seen_at >= sessions[s].last_seen_at
                      /\ sessions'[s].expires_at >= sessions[s].expires_at
    OBVIOUS
  <2>1. CASE sessions'[s] = sessions[s]
    BY <2>1 DEF IInv, TypeOK, HasRow, Row
  <2>2. CASE sessions'[s] # sessions[s]
    BY <2>2, SlideOrSame, SlideForward
  <2> QED
    BY <2>1, <2>2
<1> QED
  BY <1>1, Inductive, RowsCapped, PTL DEF Spec, NeverMovesBack

-----------------------------------------------------------------------------
(* The store implements SessionPromise.                                    *)

DeadlineOf(s) == IF HasRow(s) THEN sessions[s].expires_at ELSE 0

LEMMA PhaseFacts ==
  ASSUME IInv, NEW s \in Sid
  PROVE  /\ PhaseOf(s) = "unissued" <=> s \notin minted
         /\ PhaseOf(s) = "open" <=> HasRow(s)
         /\ PhaseOf(s) = "issued" <=> Creating(s)
         /\ PhaseOf(s) = "closed" <=> s \in minted /\ ~HasRow(s) /\ ~Creating(s)
         /\ PhaseOf(s) \in {"unissued", "open", "issued", "closed"}
<1>1. HasRow(s) => s \in minted /\ ~Creating(s)
  BY DEF IInv, RowsInv, CallsInv, Creating, HasRow
<1>2. Creating(s) => s \in minted
  BY DEF IInv, CallsInv, Creating
<1> QED
  BY <1>1, <1>2 DEF PhaseOf

\* The phase of an ID depends on the table, on the calls and on minted only.
LEMMA PhaseSame ==
  ASSUME NEW s \in Sid, HasRow(s)' <=> HasRow(s), Creating(s)' <=> Creating(s),
         s \in minted' <=> s \in minted
  PROVE  PhaseOf(s)' = PhaseOf(s)
BY DEF PhaseOf

LEMMA CreateBeginRefines ==
  ASSUME IInv, IInv', NEW c \in Caller, NEW s \in Sid, NEW u \in User,
         CreateBegin(c, s, u)
  PROVE  Promise!Issue(s)
<1>1. /\ call' = [call EXCEPT ![c] =
                    [op |-> "create", sid |-> s, user |-> u, now |-> clock]]
      /\ s \notin minted /\ minted' = minted \cup {s}
      /\ birth' = [birth EXCEPT ![s] = clock]
      /\ UNCHANGED <<clock, sessions, sweep>> /\ call[c] = None
  BY DEF CreateBegin
<1>2. call'[c] # None /\ call'[c].op = "create" /\ call'[c].sid = s
  <2>1. call'[c] = [op |-> "create", sid |-> s, user |-> u, now |-> clock]
    BY <1>1 DEF IInv, TypeOK
  <2>2. call'[c] \in CreateCall
    BY <2>1 DEF IInv, TypeOK, CreateCall
  <2> QED
    BY <2>1, <2>2, NoneAssumption
<1>3. Creating(s)'
  BY <1>2 DEF Creating
<1>4. PhaseOf(s) = "unissued" /\ PhaseOf(s)' = "issued"
  <2>1. PhaseOf(s) = "unissued"
    BY <1>1, PhaseFacts
  <2>2. ~HasRow(s)' /\ s \in minted'
    BY <1>1, <1>3 DEF IInv, RowsInv, HasRow
  <2> QED
    BY <1>3, <2>1, <2>2 DEF PhaseOf
<1>5. \A t \in Sid : t # s => PhaseOf(t)' = PhaseOf(t)
  <2> SUFFICES ASSUME NEW t \in Sid, t # s PROVE PhaseOf(t)' = PhaseOf(t)
    OBVIOUS
  <2>1. Creating(t)' <=> Creating(t)
    BY <1>1, <1>2 DEF Creating, IInv, TypeOK
  <2> QED
    BY <1>1, <2>1, PhaseSame DEF HasRow
<1>6. \A t \in Sid : DeadlineOf(t)' = DeadlineOf(t)
  BY <1>1 DEF DeadlineOf, HasRow
<1> QED
  BY <1>1, <1>4, <1>5, <1>6 DEF Promise!Issue, DeadlineOf

LEMMA CreateWriteRefines ==
  ASSUME IInv, IInv', NEW c \in Caller, CreateWrite(c),
         NEW s \in Sid, call[c].sid = s
  PROVE  Promise!Open(s)
<1>1. /\ call[c] \in CreateCall /\ ~HasRow(s) /\ Creating(s)
  BY CallTypes DEF CreateWrite, IInv, CallsInv, HasRow, Creating
<1>2. /\ sessions' = [sessions EXCEPT ![s] = NewRow(call[c].user, call[c].now)]
      /\ call' = [call EXCEPT ![c] = None]
      /\ UNCHANGED <<clock, sweep, minted, birth>>
  BY DEF CreateWrite
<1>3. HasRow(s)'
  <2>1. NewRow(call[c].user, call[c].now) \in Row
    BY <1>1, NewRowFacts DEF CreateCall, Time
  <2> QED
    BY <1>1, <1>2, <2>1, NoneAssumption DEF HasRow, IInv, TypeOK
<1>4. PhaseOf(s) = "issued" /\ PhaseOf(s)' = "open"
  <2>1. s \in minted'
    BY <1>1, <1>3 DEF IInv, RowsInv
  <2> QED
    BY <1>1, <1>3, <2>1, PhaseFacts DEF PhaseOf
<1>5. \A t \in Sid : t # s => PhaseOf(t)' = PhaseOf(t) /\ DeadlineOf(t)' = DeadlineOf(t)
  <2> SUFFICES ASSUME NEW t \in Sid, t # s
               PROVE  PhaseOf(t)' = PhaseOf(t) /\ DeadlineOf(t)' = DeadlineOf(t)
    OBVIOUS
  <2>1. sessions'[t] = sessions[t]
    BY <1>2 DEF IInv, TypeOK
  <2>2. Creating(t)' <=> Creating(t)
    BY <1>2 DEF Creating, IInv, TypeOK
  <2> QED
    BY <1>2, <2>1, <2>2, PhaseSame DEF HasRow, DeadlineOf
<1>6. DeadlineOf(s)' <= birth[s] + Lifetime
  BY <1>1, <1>2, <1>3 DEF DeadlineOf, IInv, RowsInv
<1>7. UNCHANGED <<clock, sweep, birth>>
  BY <1>2
<1> QED
  BY <1>1, <1>4, <1>5, <1>6, <1>7 DEF Promise!Open, Promise!MoveDeadline, DeadlineOf

\* A step that keeps clock, births, phases, deadlines and sweep is invisible.
LEMMA Invisible ==
  ASSUME UNCHANGED <<clock, birth, sweep>>,
         \A t \in Sid : PhaseOf(t)' = PhaseOf(t) /\ DeadlineOf(t)' = DeadlineOf(t)
  PROVE  UNCHANGED Promise!promiseVars
BY DEF Promise!promiseVars, DeadlineOf

LEMMA TouchWriteRefines ==
  ASSUME IInv, IInv', RowCapInv, NEW c \in Caller, TouchWrite(c),
         NEW s \in Sid, call[c].sid = s
  PROVE  Promise!Extend(s) \/ UNCHANGED Promise!promiseVars
<1>1. call[c].now \in Nat
  BY CallTypes DEF TouchWrite, IInv, Time
<1>2. /\ call' = [call EXCEPT ![c] = None]
      /\ UNCHANGED <<clock, sweep, minted, birth>>
      /\ call[c].op = "touchWrite"
  BY DEF TouchWrite
<1>3. \A t \in Sid : Creating(t)' <=> Creating(t)
  BY <1>2 DEF Creating, IInv, TypeOK
<1>4. CASE ~MaySlide(s, call[c].now)
  <2>1. sessions' = sessions
    BY <1>4 DEF TouchWrite
  <2> QED
    BY <1>2, <1>3, <2>1, PhaseSame, Invisible DEF HasRow, DeadlineOf
<1>5. CASE MaySlide(s, call[c].now)
  <2>1. sessions' = [sessions EXCEPT ![s] = Slide(sessions[s], call[c].now)]
    BY <1>5 DEF TouchWrite
  <2>2. HasRow(s) /\ HasRow(s)'
    <3>1. sessions[s] \in Row
      BY <1>1, <1>5 DEF MaySlide, HasRow, IInv, TypeOK
    <3>2. Slide(sessions[s], call[c].now) \in Row
      BY <1>1, <3>1, SlideFacts
    <3> QED
      BY <1>1, <1>5, <2>1, <3>2, NoneAssumption DEF MaySlide, HasRow, IInv, TypeOK
  <2>3. sessions'[s] = Slide(sessions[s], call[c].now)
    BY <1>1, <2>1 DEF IInv, TypeOK
  <2>4. DeadlineOf(s)' >= DeadlineOf(s)
    BY <1>1, <1>5, <2>2, <2>3, SlideForward DEF DeadlineOf
  <2>5. DeadlineOf(s)' <= birth[s] + Lifetime
    BY <1>1, <1>2, <2>2 DEF DeadlineOf, IInv, RowsInv
  <2>6. \A t \in Sid : t # s => DeadlineOf(t)' = DeadlineOf(t)
    BY <2>1 DEF DeadlineOf, HasRow, IInv, TypeOK
  <2>7. \A t \in Sid : HasRow(t)' <=> HasRow(t)
    BY <2>1, <2>2 DEF HasRow, IInv, TypeOK
  <2>8. \A t \in Sid : PhaseOf(t)' = PhaseOf(t)
    BY <1>2, <1>3, <2>7, PhaseSame
  <2>9. PhaseOf(s) = "open"
    BY <1>1, <2>2, PhaseFacts
  <2>10. UNCHANGED <<clock, sweep, birth>>
    BY <1>2
  <2>11. Promise!Extend(s)
    BY <1>1, <2>4, <2>5, <2>6, <2>8, <2>9, <2>10
       DEF Promise!Extend, Promise!MoveDeadline, DeadlineOf
  <2> QED
    BY <2>11
<1> QED
  BY <1>4, <1>5

LEMMA EraseCloses ==
  ASSUME IInv, IInv', NEW S \in SUBSET Sid, Erase(S),
         UNCHANGED <<clock, call, minted, birth>>
  PROVE  Promise!Close({t \in S : HasRow(t)})
<1>1. \A t \in Sid : Creating(t)' <=> Creating(t)
  BY DEF Creating
<1>2. ASSUME NEW t \in Sid, t \in S, HasRow(t)
      PROVE  PhaseOf(t)' = "closed" /\ DeadlineOf(t)' = 0
  <2>1. ~HasRow(t)' /\ t \in minted'
    BY <1>2 DEF Erase, HasRow, IInv, RowsInv
  <2>2. ~Creating(t)
    BY <1>2, PhaseFacts
  <2> QED
    BY <1>1, <2>1, <2>2 DEF PhaseOf, DeadlineOf
<1>3. ASSUME NEW t \in Sid, ~(t \in S /\ HasRow(t))
      PROVE  PhaseOf(t)' = PhaseOf(t) /\ DeadlineOf(t)' = DeadlineOf(t)
  <2>1. sessions'[t] = sessions[t]
    BY <1>3 DEF Erase, HasRow
  <2> QED
    BY <1>1, <2>1, PhaseSame DEF HasRow, DeadlineOf
<1> QED
  BY <1>2, <1>3 DEF Promise!Close, DeadlineOf

LEMMA DropAbandons ==
  ASSUME IInv, IInv', UNCHANGED <<clock, sessions, minted, birth>>,
         \A c \in Caller : call'[c] \in {call[c], None},
         sweep' \in {sweep, None}
  PROVE  Promise!Abandon
<1> DEFINE S == {t \in Sid : Creating(t) /\ ~Creating(t)'}
<1>1. \A t \in Sid : Creating(t)' => Creating(t)
  BY DEF Creating
<1>2. ASSUME NEW t \in Sid, t \in S
      PROVE  PhaseOf(t) = "issued" /\ PhaseOf(t)' = "closed" /\ DeadlineOf(t) = 0
  <2>1. PhaseOf(t) = "issued" /\ ~HasRow(t) /\ t \in minted
    BY <1>2, PhaseFacts
  <2> QED
    BY <1>2, <2>1 DEF PhaseOf, HasRow, DeadlineOf
<1>3. ASSUME NEW t \in Sid, t \notin S
      PROVE  PhaseOf(t)' = PhaseOf(t)
  BY <1>1, <1>3, PhaseSame DEF HasRow
<1>4. \A t \in Sid : DeadlineOf(t)' = DeadlineOf(t)
  BY DEF DeadlineOf, HasRow
<1> HIDE DEF S
<1>5. S \in SUBSET Promise!InPhase("issued")
  <2>1. S \subseteq Sid
    BY DEF S
  <2> QED
    BY <1>2, <2>1 DEF Promise!InPhase
<1>6. Promise!Close(S)
  BY <1>2, <1>3, <1>4 DEF Promise!Close, DeadlineOf
<1>7. \E T \in SUBSET Promise!InPhase("issued") : Promise!Close(T)
  BY <1>5, <1>6 DEF Promise!Close
<1>8. (sweep # None)' \in {sweep # None, FALSE}
  OBVIOUS
<1> QED
  BY <1>7, <1>8 DEF Promise!Abandon

\* The initial table is the promise's initial state.
LEMMA InitRefines == Init => Promise!PromiseInit
BY DEF Init, Promise!PromiseInit, PhaseOf, HasRow

\* Every step is a step of the promise, or invisible to it.
LEMMA StepRefines ==
  ASSUME IInv, IInv', RowCapInv, [Next]_vars
  PROVE  [Promise!PromiseNext]_(Promise!promiseVars)
<1>1. ASSUME NEW c \in Caller, NEW s \in Sid, NEW u \in User, CreateBegin(c, s, u)
      PROVE  Promise!PromiseNext
  BY <1>1, CreateBeginRefines DEF Promise!PromiseNext
<1>2. ASSUME NEW c \in Caller, CreateWrite(c)
      PROVE  Promise!PromiseNext
  <2>1. call[c].sid \in Sid
    BY <1>2, CallTypes DEF CreateWrite, IInv
  <2> QED
    BY <1>2, <2>1, CreateWriteRefines DEF Promise!PromiseNext
<1>3. ASSUME NEW c \in Caller, TouchWrite(c)
      PROVE  Promise!PromiseNext \/ UNCHANGED Promise!promiseVars
  <2>1. call[c].sid \in Sid
    BY <1>3, CallTypes DEF TouchWrite, IInv
  <2> QED
    BY <1>3, <2>1, TouchWriteRefines DEF Promise!PromiseNext
<1>4. ASSUME UNCHANGED <<clock, sessions, sweep, minted, birth>>,
             \A t \in Sid : Creating(t)' <=> Creating(t)
      PROVE  UNCHANGED Promise!promiseVars
  BY <1>4, PhaseSame, Invisible DEF HasRow, DeadlineOf
<1>5. ASSUME NEW c \in Caller, NEW s \in Sid, TouchBegin(c, s)
      PROVE  UNCHANGED Promise!promiseVars
  <2>1. \A t \in Sid : Creating(t)' <=> Creating(t)
    BY <1>5 DEF TouchBegin, Creating, IInv, TypeOK
  <2> QED
    BY <1>4, <1>5, <2>1 DEF TouchBegin
<1>6. ASSUME NEW c \in Caller, TouchRead(c)
      PROVE  UNCHANGED Promise!promiseVars
  <2>1. call[c] \in TouchCall
    BY <1>6, CallTypes DEF TouchRead, IInv
  <2>2. \/ call' = [call EXCEPT ![c] = [call[c] EXCEPT !.op = "touchWrite"]]
        \/ call' = [call EXCEPT ![c] = None]
    BY <1>6 DEF TouchRead
  <2>3. \A t \in Sid : Creating(t)' <=> Creating(t)
    BY <1>6, <2>1, <2>2 DEF TouchRead, TouchCall, Creating, IInv, TypeOK
  <2> QED
    BY <1>4, <1>6, <2>3 DEF TouchRead
<1>7. ASSUME \/ \E c \in Caller : CallFails(c)
             \/ SweepFails \/ Restart \/ UNCHANGED vars
      PROVE  Promise!PromiseNext
  <2>1. /\ UNCHANGED <<clock, sessions, minted, birth>>
        /\ \A c \in Caller : call'[c] \in {call[c], None}
        /\ sweep' \in {sweep, None}
    BY <1>7 DEF CallFails, SweepFails, Restart, vars, IInv, TypeOK
  <2> QED
    BY <2>1, DropAbandons DEF Promise!PromiseNext
<1>8. ASSUME NEW S \in SUBSET Sid, Erase(S),
             UNCHANGED <<clock, call, sweep, minted, birth>>
      PROVE  Promise!PromiseNext
  <2>1. Promise!Close({t \in S : HasRow(t)})
    BY <1>8, EraseCloses
  <2>2. {t \in S : HasRow(t)} \in SUBSET Promise!InPhase("open")
    BY PhaseFacts DEF Promise!InPhase
  <2>3. (sweep # None)' = (sweep # None)
    BY <1>8
  <2>4. \E T \in SUBSET Promise!InPhase("open") : Promise!Close(T)
    BY <2>1, <2>2 DEF Promise!Close
  <2> QED
    BY <2>3, <2>4 DEF Promise!SignOut, Promise!PromiseNext
<1>9. ASSUME (\E s \in Sid : Delete(s)) \/ (\E u \in User : DeleteAllForUser(u))
               \/ DeleteAll
      PROVE  Promise!PromiseNext
  BY <1>8, <1>9 DEF Delete, DeleteAllForUser, DeleteAll, RowsOf
<1>10. ASSUME SweepBegin
       PROVE  Promise!PromiseNext
  <2>1. UNCHANGED <<clock, sessions, call, minted, birth>> /\ sweep' = clock
    BY <1>10 DEF SweepBegin
  <2>2. (sweep # None)'
    BY <2>1, NoneAssumption DEF IInv, TypeOK, Time
  <2>3. \A t \in Sid : PhaseOf(t)' = PhaseOf(t) /\ DeadlineOf(t)' = DeadlineOf(t)
    BY <2>1, PhaseSame DEF HasRow, Creating, DeadlineOf
  <2>4. Promise!StartJanitor
    BY <2>1, <2>2, <2>3 DEF Promise!StartJanitor, DeadlineOf
  <2> QED
    BY <2>4 DEF Promise!PromiseNext
<1>11. ASSUME SweepWrite
       PROVE  Promise!PromiseNext
  <2> DEFINE S == Sweepable(sweep)
  <2>1. /\ sweep # None /\ Erase(S) /\ sweep' = None
        /\ UNCHANGED <<clock, call, minted, birth>>
    BY <1>11 DEF SweepWrite
  <2>2. Promise!Close({t \in S : HasRow(t)})
    <3>1. S \in SUBSET Sid
      BY DEF Sweepable
    <3> HIDE DEF S
    <3> QED
      BY <2>1, <3>1, EraseCloses
  <2>3. \A t \in S : t \in Sid /\ HasRow(t) /\ DeadlineOf(t) < clock
    <3> SUFFICES ASSUME NEW t \in S
                 PROVE  t \in Sid /\ HasRow(t) /\ sessions[t].expires_at < clock
      BY DEF DeadlineOf
    <3>1. sweep \in Nat /\ clock \in Nat /\ sweep <= clock
      BY <2>1 DEF IInv, TypeOK, SweepInv, Time
    <3>2. t \in Sid /\ HasRow(t) /\ sessions[t].expires_at < Floor(sweep)
      BY DEF Sweepable
    <3>3. sessions[t].expires_at \in Nat
      BY <3>2 DEF IInv, TypeOK, HasRow, Row
    <3> QED
      BY <3>1, <3>2, <3>3, FloorBounds
  <2>4. \A t \in S : PhaseOf(t) = "open"
    BY <2>3, PhaseFacts
  <2>5. {t \in S : HasRow(t)}
          \in SUBSET {t \in Promise!InPhase("open") :
                        (IF HasRow(t) THEN sessions[t].expires_at ELSE 0) < clock}
    BY <2>3, <2>4 DEF Promise!InPhase, DeadlineOf
  <2> HIDE DEF S
  <2>6. \E T \in SUBSET {t \in Promise!InPhase("open") :
                        (IF HasRow(t) THEN sessions[t].expires_at ELSE 0) < clock} :
          Promise!Close(T)
    BY <2>2, <2>5 DEF Promise!Close
  <2>7. (sweep # None) /\ (sweep # None)' = FALSE
    BY <2>1
  <2>8. Promise!Expire
    BY <2>6, <2>7 DEF Promise!Expire, Promise!InPhase
  <2> QED
    BY <2>8 DEF Promise!PromiseNext
<1>12. ASSUME Tick
       PROVE  Promise!PromiseNext
  <2>1. clock' = clock + 1 /\ UNCHANGED <<sessions, call, sweep, minted, birth>>
    BY <1>12 DEF Tick
  <2>2. \A t \in Sid : PhaseOf(t)' = PhaseOf(t) /\ DeadlineOf(t)' = DeadlineOf(t)
    BY <2>1, PhaseSame DEF HasRow, Creating, DeadlineOf
  <2>3. Promise!Pass
    BY <2>1, <2>2 DEF Promise!Pass, DeadlineOf
  <2> QED
    BY <2>3 DEF Promise!PromiseNext
<1>13. CASE Next
  BY <1>13, <1>1, <1>2, <1>3, <1>5, <1>6, <1>7, <1>9, <1>10, <1>11, <1>12 DEF Next
<1>14. CASE UNCHANGED vars
  BY <1>14, <1>7
<1> QED
  BY <1>13, <1>14

\* The session store implements the promise for every instance: an ID is
\* issued once, opened at most once, extended only within its cap, and closed
\* for ever.
THEOREM StoreImplementsPromise ==
  ASSUME WholeLifetime
  PROVE  Spec => ImplementsPromise
<1>1. Init => Promise!PromiseInit
  BY InitRefines
<1>2. IInv /\ IInv' /\ RowCapInv /\ [Next]_vars
        => [Promise!PromiseNext]_(Promise!promiseVars)
  BY StepRefines
<1> QED
  BY <1>1, <1>2, Inductive, RowsCapped, PTL
     DEF Spec, ImplementsPromise, Promise!PromiseSpec
=============================================================================
