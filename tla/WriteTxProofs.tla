--------------------------- MODULE WriteTxProofs ---------------------------
(***************************************************************************)
(* For every number of processes and calls: a connection in the pool is    *)
(* clean, and WithWriteTx implements WritePromise.                         *)
(***************************************************************************)
EXTENDS WriteTx, TLAPS

USE CallerAssumption, NoneAssumption

-----------------------------------------------------------------------------
(* The parts of the invariant, for one call.                               *)

ConnOk(c) ==
  /\ Holds(c) <=> My(c).owner = c
  /\ Holds(c) =>
       /\ At(c, "begin") => ~My(c).tx
       /\ call[c].at \in {"read", "write", "commit"} => My(c).tx
       /\ At(c, "close") /\ My(c).tx => My(c).interrupted

PoolOk(p) ==
  /\ conn[p].owner # None => Caller[conn[p].owner] = p
  /\ conn[p].tx <=> lock = p
  /\ conn[p].owner = None => conn[p] = Fresh

CallLogOk(c) ==
  /\ call[c].at \in {"write", "commit"} => base[c] = Len(log)
  /\ call[c].at \in {"idle", "pool", "begin", "read", "write", "commit"} =>
       ~InLog(c) /\ call[c].result = "none"
  /\ call[c].result = "ok" => InLog(c)
  /\ call[c].at \in {"rollback", "close"} => call[c].result # "none"

BaseOk == \A i \in DOMAIN log : base[log[i]] = i - 1

LEMMA Parts ==
  IInv <=> /\ TypeOK /\ BaseOk
           /\ \A c \in Call : ConnOk(c) /\ CallLogOk(c)
           /\ \A p \in Process : PoolOk(p)
BY DEF IInv, ConnsOk, LockOk, PoolClean, LogOk, ConnOk, PoolOk, CallLogOk, BaseOk

LEMMA InitInv == Init => IInv
BY DEF Init, IInv, TypeOK, ConnsOk, LockOk, PoolClean, LogOk, Fresh, Conn, WithWriteTx,
       Holds, At, My, InLog

-----------------------------------------------------------------------------
(* A step of one call.  What it does to the connection, the lock and the   *)
(* call's own state is checked on that connection and call alone.          *)

\* A step of c that changes its process's connection, which is c's before
\* or is nobody's, and leaves the log alone.
LEMMA CallStep ==
  ASSUME IInv, NEW c \in Call,
         NEW k \in Conn, NEW w \in WithWriteTx,
         conn' = [conn EXCEPT ![Caller[c]] = k],
         call' = [call EXCEPT ![c] = w],
         lock' \in Process \cup {None},
         \A p \in Process : p # Caller[c] => (lock' = p <=> lock = p),
         k.tx <=> lock' = Caller[c],
         My(c).owner \in {c, None}, k.owner \in {c, None},
         k.owner = None => k = Fresh,
         ConnOk(c)'
  PROVE  /\ conn' \in [Process -> Conn] /\ call' \in [Call -> WithWriteTx]
         /\ \A d \in Call : ConnOk(d)'
         /\ \A p \in Process : PoolOk(p)'
<1>1. TypeOK /\ Caller[c] \in Process BY DEF IInv
<1>2. conn' \in [Process -> Conn] /\ call' \in [Call -> WithWriteTx] BY <1>1 DEF TypeOK
<1>3. ASSUME NEW d \in Call, d # c PROVE ConnOk(d)'
  <2>1. call'[d] = call[d] /\ Caller[d] \in Process /\ ConnOk(d) BY <1>1, <1>3, Parts DEF TypeOK
  <2>2. CASE Caller[d] # Caller[c]
    <3>1. conn'[Caller[d]] = conn[Caller[d]] BY <1>1, <2>1, <2>2 DEF TypeOK
    <3>. QED BY <2>1, <3>1 DEF ConnOk, Holds, At, My
  <2>3. CASE Caller[d] = Caller[c]
    <3>1. conn[Caller[d]].owner # d BY <1>3, <2>3 DEF My
    <3>2. conn'[Caller[d]].owner # d BY <1>1, <1>3, <2>3 DEF TypeOK
    <3>. QED BY <2>1, <3>1, <3>2 DEF ConnOk, Holds, At, My
  <2>. QED BY <2>2, <2>3
<1>4. ASSUME NEW p \in Process PROVE PoolOk(p)'
  <2>1. CASE p # Caller[c]
    <3>1. conn'[p] = conn[p] /\ PoolOk(p) BY <1>1, <2>1, Parts DEF TypeOK
    <3>. QED BY <2>1, <3>1 DEF PoolOk, Fresh
  <2>2. CASE p = Caller[c]
    <3>1. conn'[p] = k BY <1>1, <2>2 DEF TypeOK
    <3>. QED BY <2>2, <3>1 DEF PoolOk, Fresh
  <2>. QED BY <2>1, <2>2
<1>. QED BY <1>2, <1>3, <1>4

\* A call that has the connection is the only one of its process.
LEMMA Owns ==
  ASSUME IInv, NEW c \in Call, Holds(c)
  PROVE  /\ My(c).owner = c /\ My(c) \in Conn /\ Caller[c] \in Process
         /\ My(c).tx <=> lock = Caller[c]
         /\ call[c] \in WithWriteTx /\ lock \in Process \cup {None}
BY DEF IInv, ConnsOk, LockOk, TypeOK, My

\* Leaves, with the lock as the transaction has it.
LEMMA LeavesStep ==
  ASSUME IInv, NEW c \in Call, Holds(c), NEW tx \in BOOLEAN, NEW cut \in BOOLEAN,
         NEW w \in WithWriteTx, Leaves(c, tx, cut), call' = [call EXCEPT ![c] = w],
         lock' \in Process \cup {None},
         \A p \in Process : p # Caller[c] => (lock' = p <=> lock = p),
         tx <=> lock' = Caller[c],
         w.at \in {"read", "write", "commit", "rollback", "close"},
         w.at \in {"read", "write", "commit"} => tx,
         w.at = "close" /\ tx => cut
  PROVE  /\ conn' \in [Process -> Conn] /\ call' \in [Call -> WithWriteTx]
         /\ \A d \in Call : ConnOk(d)'
         /\ \A p \in Process : PoolOk(p)'
<1>. DEFINE k == [owner |-> c, tx |-> tx, interrupted |-> cut]
<1>1. k \in Conn BY DEF Conn
<1>2. conn' = [conn EXCEPT ![Caller[c]] = k] BY DEF Leaves
<1>3. My(c).owner = c /\ k.owner = c /\ (k.tx <=> tx) /\ c # None BY Owns
<1>4. conn'[Caller[c]] = k /\ call'[c] = w BY <1>2 DEF IInv, TypeOK
<1>5. ConnOk(c)' BY <1>4 DEF ConnOk, Holds, At, My
<1>. HIDE DEF k
<1>. QED BY <1>1, <1>2, <1>3, <1>5, CallStep

\* A step that leaves the connection alone.
LEMMA StaysStep ==
  ASSUME IInv, NEW c \in Call, Holds(c), UNCHANGED <<conn, lock>>,
         NEW w \in WithWriteTx, call' = [call EXCEPT ![c] = w],
         w.at \in {"read", "write", "commit", "rollback", "close"},
         w.at \in {"read", "write", "commit"} => My(c).tx,
         w.at = "close" /\ My(c).tx => My(c).interrupted
  PROVE  /\ conn' \in [Process -> Conn] /\ call' \in [Call -> WithWriteTx]
         /\ \A d \in Call : ConnOk(d)'
         /\ \A p \in Process : PoolOk(p)'
<1>1. conn' = [conn EXCEPT ![Caller[c]] = My(c)] BY DEF IInv, TypeOK, My
<1>2. My(c) \in Conn /\ My(c).owner = c /\ (My(c).tx <=> lock = Caller[c]) /\ c # None BY Owns
<1>3. conn'[Caller[c]] = My(c) /\ call'[c] = w BY DEF IInv, TypeOK, My
<1>4. ConnOk(c)' BY <1>2, <1>3 DEF ConnOk, Holds, At, My
<1>5. lock' = lock /\ lock' \in Process \cup {None} BY DEF IInv, TypeOK
<1>. QED BY <1>1, <1>2, <1>4, <1>5, CallStep

\* Goes, written as Ends is.
LEMMA GoesKeeps ==
  ASSUME TypeOK, NEW c \in Call, NEW a, Goes(c, a)
  PROVE  call' = [call EXCEPT ![c] = [at |-> a, result |-> call[c].result]]
<1>1. call[c] \in WithWriteTx BY DEF TypeOK
<1>2. [call[c] EXCEPT !.at = a] = [at |-> a, result |-> call[c].result] BY <1>1 DEF WithWriteTx
<1>3. call' = [call EXCEPT ![c] = [call[c] EXCEPT !.at = a]] BY DEF Goes, TypeOK
<1>. QED BY <1>2, <1>3

-----------------------------------------------------------------------------
(* The log.                                                                *)

\* A step of c that leaves the log alone.
LEMMA LogKept ==
  ASSUME IInv, NEW c \in Call, log' = log,
         \A d \in Call : d # c => base'[d] = base[d] /\ call'[d] = call[d],
         InLog(c) => base'[c] = base[c],
         CallLogOk(c)'
  PROVE  BaseOk' /\ \A d \in Call : CallLogOk(d)'
<1>1. TypeOK /\ BaseOk BY Parts
<1>2. BaseOk'
  <2>1. \A i \in DOMAIN log : log[i] \in Call BY <1>1 DEF TypeOK
  <2>2. \A i \in DOMAIN log : base'[log[i]] = base[log[i]] BY <2>1 DEF InLog
  <2>. QED BY <1>1, <2>2 DEF BaseOk
<1>3. ASSUME NEW d \in Call, d # c PROVE CallLogOk(d)'
  <2>1. CallLogOk(d) /\ call'[d] = call[d] /\ base'[d] = base[d] BY <1>3, Parts
  <2>. QED BY <2>1 DEF CallLogOk, InLog
<1>. QED BY <1>2, <1>3

LEMMA LogStays ==
  ASSUME IInv, NEW c \in Call, log' = log, base' = base,
         NEW w \in WithWriteTx, call' = [call EXCEPT ![c] = w], CallLogOk(c)'
  PROVE  base' \in [Call -> Nat] /\ BaseOk' /\ \A d \in Call : CallLogOk(d)'
<1>1. base' \in [Call -> Nat] BY DEF IInv, TypeOK
<1>2. \A d \in Call : d # c => base'[d] = base[d] /\ call'[d] = call[d] BY DEF IInv, TypeOK
<1>. QED BY <1>1, <1>2, LogKept

\* A commit: nobody else has read and not yet written, for nobody else has
\* the lock.
LEMMA LogGrows ==
  ASSUME IInv, NEW c \in Call, At(c, "commit"), log' = Append(log, c), base' = base,
         NEW w \in WithWriteTx, call' = [call EXCEPT ![c] = w], w.at \in {"close", "rollback"},
         w.result # "none"
  PROVE  log' \in Seq(Call) /\ BaseOk' /\ \A d \in Call : CallLogOk(d)'
<1>1. TypeOK /\ BaseOk /\ log \in Seq(Call) /\ Len(log) \in Nat BY Parts DEF TypeOK
<1>2. log' \in Seq(Call) /\ Len(log') = Len(log) + 1 /\ log'[Len(log) + 1] = c BY <1>1
<1>3. \A i \in DOMAIN log : log'[i] = log[i] /\ i \in DOMAIN log' BY <1>1, <1>2
<1>4. DOMAIN log' = 1..(Len(log) + 1) /\ DOMAIN log = 1..Len(log) BY <1>1, <1>2
<1>5. base[c] = Len(log) BY DEF IInv, LogOk, At
<1>6. BaseOk' BY <1>1, <1>2, <1>3, <1>4, <1>5 DEF BaseOk
<1>7. InLog(c)' BY <1>2, <1>4 DEF InLog
<1>8. call'[c] = w BY <1>1 DEF TypeOK
<1>9. CallLogOk(c)' BY <1>7, <1>8 DEF CallLogOk
<1>10. ASSUME NEW d \in Call, d # c PROVE CallLogOk(d)'
  <2>1. CallLogOk(d) /\ call'[d] = call[d] BY <1>1, <1>10, Parts DEF TypeOK
  <2>2. InLog(d)' <=> InLog(d) BY <1>2, <1>3, <1>4, <1>10 DEF InLog
  <2>3. call[d].at \notin {"write", "commit"}
    <3>1. SUFFICES ASSUME call[d].at \in {"write", "commit"} PROVE FALSE OBVIOUS
    <3>2. Holds(c) /\ Holds(d) BY <3>1 DEF Holds, At
    <3>3. My(c).tx /\ My(d).tx BY <3>1, <3>2 DEF IInv, ConnsOk, At
    <3>4. Caller[c] = Caller[d] BY <3>2, <3>3, Owns
    <3>. QED BY <1>10, <3>2, <3>4, Owns DEF My
  <2>. QED BY <2>1, <2>2, <2>3 DEF CallLogOk
<1>. QED BY <1>2, <1>6, <1>9, <1>10

-----------------------------------------------------------------------------
(* Every step preserves the invariant.                                     *)

LEMMA StepInv == IInv /\ [Next]_vars => IInv'
<1>. SUFFICES ASSUME IInv, [Next]_vars PROVE IInv' OBVIOUS
<1>t. TypeOK /\ BaseOk BY Parts
<1>w. \A a \in {"idle", "pool", "begin", "read", "write", "commit", "rollback", "close", "over"},
         r \in {"none", "ok", "failed"} :
        /\ [at |-> a, result |-> r] \in WithWriteTx
        /\ [at |-> a, result |-> r].at = a /\ [at |-> a, result |-> r].result = r
  BY DEF WithWriteTx
<1>1. ASSUME NEW c \in Call, Start(c) PROVE IInv'
  <2>. DEFINE w == [at |-> "pool", result |-> "none"]
  <2>1. call[c].result = "none" /\ ~InLog(c) BY <1>1 DEF Start, At, IInv, LogOk
  <2>2. call' = [call EXCEPT ![c] = w] BY <1>1, <1>t, GoesKeeps, <2>1 DEF Start
  <2>3. w \in WithWriteTx /\ call'[c] = w BY <1>t, <1>w, <2>2 DEF TypeOK
  <2>4. CallLogOk(c)' BY <1>1, <2>1, <2>3 DEF CallLogOk, Start, InLog
  <2>5. base' \in [Call -> Nat] /\ BaseOk' /\ \A d \in Call : CallLogOk(d)'
    <3>. HIDE DEF w
    <3>. QED BY <1>1, <2>2, <2>3, <2>4, LogStays DEF Start
  <2>6. ASSUME NEW d \in Call PROVE ConnOk(d)'
    <3>1. ConnOk(d) /\ (d # c => call'[d] = call[d]) BY <1>t, <2>2, Parts DEF TypeOK
    <3>2. d = c => ~Holds(c) /\ ~Holds(c)' BY <1>1, <2>3 DEF Holds, Start, At
    <3>. QED BY <1>1, <3>1, <3>2 DEF ConnOk, Start, Holds, At, My
  <2>7. ASSUME NEW p \in Process PROVE PoolOk(p)'
    <3>1. PoolOk(p) BY Parts
    <3>. QED BY <1>1, <3>1 DEF PoolOk, Start, Fresh
  <2>8. TypeOK' BY <1>1, <1>t, <2>2, <2>3 DEF Start, TypeOK
  <2>9. (\A d \in Call : ConnOk(d) /\ CallLogOk(d))' BY <2>5, <2>6
  <2>10. (\A p \in Process : PoolOk(p))' BY <2>7
  <2>. QED BY <2>5, <2>8, <2>9, <2>10
       DEF IInv, ConnsOk, LockOk, PoolClean, LogOk, ConnOk, PoolOk, CallLogOk, BaseOk
<1>2. ASSUME NEW c \in Call, ContextEnds(c) PROVE IInv'
  BY <1>2 DEF ContextEnds, IInv, TypeOK, ConnsOk, LockOk, PoolClean, LogOk, Fresh, Holds, At, My, InLog
\* What is left of a step, once its connection and its call are known to be
\* as they should.
<1>z. ASSUME NEW c \in Call, conn' \in [Process -> Conn], call' \in [Call -> WithWriteTx],
             \A d \in Call : ConnOk(d)', \A p \in Process : PoolOk(p)',
             lock' \in Process \cup {None}, ended' = ended,
             log' \in Seq(Call), base' \in [Call -> Nat], BaseOk',
             \A d \in Call : CallLogOk(d)'
      PROVE  IInv'
  <2>1. TypeOK' BY <1>t, <1>z DEF TypeOK
  <2>2. (\A d \in Call : ConnOk(d) /\ CallLogOk(d))' BY <1>z
  <2>3. (\A p \in Process : PoolOk(p))' BY <1>z
  <2>. QED BY <1>z, <2>1, <2>2, <2>3
       DEF IInv, ConnsOk, LockOk, PoolClean, LogOk, ConnOk, PoolOk, CallLogOk, BaseOk
<1>3. ASSUME NEW c \in Call, Acquire(c) PROVE IInv'
  <2>. DEFINE w == [at |-> "begin", result |-> "none"]
              k == [owner |-> c, tx |-> FALSE, interrupted |-> FALSE]
  <2>1. call[c].result = "none" /\ ~InLog(c) BY <1>3 DEF Acquire, At, IInv, LogOk
  <2>2. call' = [call EXCEPT ![c] = w] BY <1>3, <1>t, GoesKeeps, <2>1 DEF Acquire
  <2>3. w \in WithWriteTx /\ call'[c] = w BY <1>t, <1>w, <2>2 DEF TypeOK
  <2>4. conn[Caller[c]] = Fresh /\ Caller[c] \in Process BY <1>3 DEF Acquire, My, IInv, PoolClean
  <2>5. conn' = [conn EXCEPT ![Caller[c]] = k]
    <3>1. [Fresh EXCEPT !.owner = c] = k
      <4>1. Fresh \in Conn /\ Fresh.tx = FALSE /\ Fresh.interrupted = FALSE BY DEF Fresh, Conn
      <4>2. [Fresh EXCEPT !.owner = c]
              = [owner |-> c, tx |-> Fresh.tx, interrupted |-> Fresh.interrupted]
        BY <4>1 DEF Conn
      <4>. QED BY <4>1, <4>2
    <3>2. conn' = [conn EXCEPT ![Caller[c]] = [Fresh EXCEPT !.owner = c]] BY <1>3, <1>t, <2>4 DEF Acquire, TypeOK
    <3>. QED BY <3>1, <3>2
  <2>6. k \in Conn /\ conn'[Caller[c]] = k BY <1>t, <2>4, <2>5 DEF Conn, TypeOK
  <2>7. ConnOk(c)' BY <2>3, <2>6 DEF ConnOk, Holds, At, My
  <2>8. lock # Caller[c] /\ lock' = lock /\ lock \in Process \cup {None}
    BY <1>3, <1>t, <2>4 DEF Acquire, IInv, LockOk, Fresh, TypeOK
  <2>9. My(c).owner = None /\ k.owner = c /\ c # None /\ k.tx = FALSE BY <2>4 DEF My, Fresh
  <2>10. CallLogOk(c)' BY <1>3, <2>1, <2>3 DEF CallLogOk, Acquire, InLog
  <2>11. log' = log /\ base' = base /\ ended' = ended BY <1>3 DEF Acquire
  <2>. HIDE DEF w, k
  <2>12. /\ conn' \in [Process -> Conn] /\ call' \in [Call -> WithWriteTx]
         /\ \A d \in Call : ConnOk(d)'
         /\ \A p \in Process : PoolOk(p)'
    BY <2>2, <2>3, <2>5, <2>6, <2>7, <2>8, <2>9, CallStep
  <2>13. base' \in [Call -> Nat] /\ BaseOk' /\ \A d \in Call : CallLogOk(d)'
    BY <2>2, <2>3, <2>10, <2>11, LogStays
  <2>. QED BY <1>t, <1>z, <2>8, <2>11, <2>12, <2>13 DEF TypeOK
<1>4. ASSUME NEW c \in Call, AcquireFails(c) PROVE IInv'
  <2>. DEFINE w == [at |-> "over", result |-> "failed"]
  <2>1. call' = [call EXCEPT ![c] = w] /\ w \in WithWriteTx BY <1>4, <1>w DEF AcquireFails, Ends
  <2>2. call'[c] = w BY <1>t, <2>1 DEF TypeOK
  <2>3. CallLogOk(c)' BY <2>2 DEF CallLogOk
  <2>4. ASSUME NEW d \in Call PROVE ConnOk(d)'
    <3>1. ConnOk(d) /\ (d # c => call'[d] = call[d]) BY <1>t, <2>1, Parts DEF TypeOK
    <3>2. d = c => ~Holds(c) /\ ~Holds(c)' BY <1>4, <2>2 DEF Holds, AcquireFails, At
    <3>. QED BY <1>4, <3>1, <3>2 DEF ConnOk, AcquireFails, Holds, At, My
  <2>5. ASSUME NEW p \in Process PROVE PoolOk(p)'
    <3>1. PoolOk(p) BY Parts
    <3>. QED BY <1>4, <3>1 DEF PoolOk, AcquireFails, Fresh
  <2>6. UNCHANGED <<conn, lock, log, ended, base>> BY <1>4 DEF AcquireFails
  <2>. HIDE DEF w
  <2>7. base' \in [Call -> Nat] /\ BaseOk' /\ \A d \in Call : CallLogOk(d)'
    BY <2>1, <2>3, <2>6, LogStays
  <2>8. call' \in [Call -> WithWriteTx] BY <1>t, <2>1 DEF TypeOK
  <2>. QED BY <1>t, <1>z, <2>4, <2>5, <2>6, <2>7, <2>8 DEF TypeOK
\* A step of a call that has the connection and leaves the log alone.
<1>h. ASSUME NEW c \in Call, Holds(c), NEW w \in WithWriteTx, call' = [call EXCEPT ![c] = w],
             w.at \in {"read", "write", "commit", "rollback", "close"},
             \/ /\ UNCHANGED <<conn, lock>>
                /\ w.at \in {"read", "write", "commit"} => My(c).tx
                /\ w.at = "close" /\ My(c).tx => My(c).interrupted
             \/ \E tx, cut \in BOOLEAN :
                  /\ Leaves(c, tx, cut)
                  /\ lock' = IF tx THEN Caller[c] ELSE Free(Caller[c])
                  /\ tx => lock \in {None, Caller[c]}
                  /\ w.at \in {"read", "write", "commit"} => tx
                  /\ w.at = "close" /\ tx => cut
      PROVE  /\ conn' \in [Process -> Conn] /\ call' \in [Call -> WithWriteTx]
             /\ lock' \in Process \cup {None}
             /\ \A d \in Call : ConnOk(d)'
             /\ \A p \in Process : PoolOk(p)'
  <2>1. CASE /\ UNCHANGED <<conn, lock>>
             /\ w.at \in {"read", "write", "commit"} => My(c).tx
             /\ w.at = "close" /\ My(c).tx => My(c).interrupted
    <3>1. lock' \in Process \cup {None} BY <1>t, <2>1 DEF TypeOK
    <3>. QED BY <1>h, <2>1, <3>1, StaysStep
  <2>2. ASSUME NEW tx \in BOOLEAN, NEW cut \in BOOLEAN, Leaves(c, tx, cut),
               lock' = IF tx THEN Caller[c] ELSE Free(Caller[c]),
               tx => lock \in {None, Caller[c]},
               w.at \in {"read", "write", "commit"} => tx,
               w.at = "close" /\ tx => cut
        PROVE  /\ conn' \in [Process -> Conn] /\ call' \in [Call -> WithWriteTx]
               /\ lock' \in Process \cup {None}
               /\ \A d \in Call : ConnOk(d)'
               /\ \A p \in Process : PoolOk(p)'
    <3>1. Caller[c] \in Process /\ lock \in Process \cup {None} BY <1>t DEF TypeOK
    <3>2. lock' \in Process \cup {None} BY <2>2, <3>1 DEF Free
    <3>3. \A p \in Process : p # Caller[c] => (lock' = p <=> lock = p) BY <2>2, <3>1 DEF Free
    <3>4. tx <=> lock' = Caller[c] BY <2>2, <3>1 DEF Free
    <3>. QED BY <1>h, <2>2, <3>2, <3>3, <3>4, LeavesStep
  <2>. QED BY <1>h, <2>1, <2>2
\* The same, where the call ends or has not written: its log conjuncts.
<1>q. ASSUME NEW c \in Call, Holds(c), NEW w \in WithWriteTx, call' = [call EXCEPT ![c] = w],
             log' = log, base' = base, ended' = ended,
             w.at \in {"rollback", "close"}, w.result = "failed" \/ w.result = call[c].result,
             w.result # "none",
             conn' \in [Process -> Conn] /\ call' \in [Call -> WithWriteTx],
             lock' \in Process \cup {None},
             \A d \in Call : ConnOk(d)', \A p \in Process : PoolOk(p)'
      PROVE  IInv'
  <2>1. call'[c] = w /\ CallLogOk(c) BY <1>t, <1>q, Parts DEF TypeOK
  <2>2. CallLogOk(c)' BY <1>q, <2>1 DEF CallLogOk, InLog
  <2>3. base' \in [Call -> Nat] /\ BaseOk' /\ \A d \in Call : CallLogOk(d)' BY <1>q, <2>2, LogStays
  <2>. QED BY <1>t, <1>z, <1>q, <2>3 DEF TypeOK
<1>5. ASSUME NEW c \in Call, Begin(c) PROVE IInv'
  <2>. DEFINE w == [at |-> "read", result |-> "none"]
  <2>1. call[c].result = "none" /\ ~InLog(c) /\ Holds(c) BY <1>5 DEF Begin, At, Holds, IInv, LogOk
  <2>2. call' = [call EXCEPT ![c] = w] BY <1>5, <1>t, GoesKeeps, <2>1 DEF Begin
  <2>3. w \in WithWriteTx /\ call'[c] = w /\ w.at = "read" BY <1>t, <1>w, <2>2 DEF TypeOK
  <2>4. CallLogOk(c)' BY <1>5, <2>1, <2>3 DEF CallLogOk, Begin, InLog
  <2>5. log' = log /\ base' = base /\ ended' = ended /\ Leaves(c, TRUE, FALSE) /\ lock = None /\ lock' = Caller[c]
    BY <1>5 DEF Begin
  <2>. HIDE DEF w
  <2>6. /\ conn' \in [Process -> Conn] /\ call' \in [Call -> WithWriteTx]
        /\ lock' \in Process \cup {None}
        /\ \A d \in Call : ConnOk(d)' /\ \A p \in Process : PoolOk(p)'
    BY <1>h, <2>1, <2>2, <2>3, <2>5
  <2>7. base' \in [Call -> Nat] /\ BaseOk' /\ \A d \in Call : CallLogOk(d)'
    BY <2>2, <2>3, <2>4, <2>5, LogStays
  <2>. QED BY <1>t, <1>z, <2>5, <2>6, <2>7 DEF TypeOK
<1>6. ASSUME NEW c \in Call, BeginCut(c) \/ BeginFails(c) PROVE IInv'
  <2>. DEFINE w == [at |-> "close", result |-> "failed"]
  <2>1. Holds(c) /\ ~My(c).tx BY <1>6 DEF BeginCut, BeginFails, At, Holds, IInv, ConnsOk
  <2>2. call' = [call EXCEPT ![c] = w] /\ w \in WithWriteTx /\ w.at = "close" /\ w.result = "failed"
    BY <1>6, <1>w DEF BeginCut, BeginFails, Ends
  <2>3. log' = log /\ base' = base /\ ended' = ended BY <1>6 DEF BeginCut, BeginFails
  <2>4. \/ UNCHANGED <<conn, lock>>
        \/ Leaves(c, TRUE, TRUE) /\ lock' = Caller[c] /\ lock = None
    BY <1>6 DEF BeginCut, BeginFails
  <2>. HIDE DEF w
  <2>5. /\ conn' \in [Process -> Conn] /\ call' \in [Call -> WithWriteTx]
        /\ lock' \in Process \cup {None}
        /\ \A d \in Call : ConnOk(d)' /\ \A p \in Process : PoolOk(p)'
    BY <1>h, <2>1, <2>2, <2>4
  <2>. QED BY <1>q, <2>1, <2>2, <2>3, <2>5
<1>7. ASSUME NEW c \in Call, FnReads(c) PROVE IInv'
  <2>. DEFINE w == [at |-> "write", result |-> "none"]
  <2>1. call[c].result = "none" /\ ~InLog(c) /\ Holds(c) /\ My(c).tx
    BY <1>7 DEF FnReads, At, Holds, IInv, LogOk, ConnsOk
  <2>2. call' = [call EXCEPT ![c] = w] BY <1>7, <1>t, GoesKeeps, <2>1 DEF FnReads
  <2>3. w \in WithWriteTx /\ call'[c] = w /\ w.at = "write" BY <1>t, <1>w, <2>2 DEF TypeOK
  <2>4. base'[c] = Len(log) /\ base' = [base EXCEPT ![c] = Len(log)] BY <1>7, <1>t DEF FnReads, TypeOK
  <2>5. log' = log /\ ended' = ended /\ UNCHANGED <<conn, lock>> BY <1>7 DEF FnReads
  <2>6. CallLogOk(c)' BY <2>1, <2>3, <2>4, <2>5 DEF CallLogOk, InLog
  <2>. HIDE DEF w
  <2>7. /\ conn' \in [Process -> Conn] /\ call' \in [Call -> WithWriteTx]
        /\ lock' \in Process \cup {None}
        /\ \A d \in Call : ConnOk(d)' /\ \A p \in Process : PoolOk(p)'
    BY <1>h, <2>1, <2>2, <2>3, <2>5
  <2>8. base' \in [Call -> Nat] /\ BaseOk' /\ \A d \in Call : CallLogOk(d)'
    <3>1. \A d \in Call : d # c => base'[d] = base[d] /\ call'[d] = call[d] BY <1>t, <2>2, <2>4 DEF TypeOK
    <3>2. base' \in [Call -> Nat] BY <1>t, <2>4 DEF TypeOK
    <3>. QED BY <2>1, <2>5, <2>6, <3>1, <3>2, LogKept
  <2>. QED BY <1>t, <1>z, <2>5, <2>7, <2>8 DEF TypeOK
<1>8. ASSUME NEW c \in Call, FnWrites(c) PROVE IInv'
  <2>. DEFINE w == [at |-> "commit", result |-> "none"]
  <2>1. call[c].result = "none" /\ ~InLog(c) /\ Holds(c) /\ My(c).tx /\ base[c] = Len(log)
    BY <1>8 DEF FnWrites, At, Holds, IInv, LogOk, ConnsOk
  <2>2. call' = [call EXCEPT ![c] = w] BY <1>8, <1>t, GoesKeeps, <2>1 DEF FnWrites
  <2>3. w \in WithWriteTx /\ call'[c] = w /\ w.at = "commit" BY <1>t, <1>w, <2>2 DEF TypeOK
  <2>4. log' = log /\ base' = base /\ ended' = ended /\ UNCHANGED <<conn, lock>> BY <1>8 DEF FnWrites
  <2>5. CallLogOk(c)' BY <2>1, <2>3, <2>4 DEF CallLogOk, InLog
  <2>. HIDE DEF w
  <2>6. /\ conn' \in [Process -> Conn] /\ call' \in [Call -> WithWriteTx]
        /\ lock' \in Process \cup {None}
        /\ \A d \in Call : ConnOk(d)' /\ \A p \in Process : PoolOk(p)'
    BY <1>h, <2>1, <2>2, <2>3, <2>4
  <2>7. base' \in [Call -> Nat] /\ BaseOk' /\ \A d \in Call : CallLogOk(d)'
    BY <2>2, <2>3, <2>4, <2>5, LogStays
  <2>. QED BY <1>t, <1>z, <2>4, <2>6, <2>7 DEF TypeOK
<1>9. ASSUME NEW c \in Call, FnFails(c) \/ CommitFails(c) PROVE IInv'
  <2>. DEFINE w == [at |-> "rollback", result |-> "failed"]
  <2>1. Holds(c) /\ My(c).tx BY <1>9 DEF FnFails, CommitFails, At, Holds, IInv, ConnsOk
  <2>2. call' = [call EXCEPT ![c] = w] /\ w \in WithWriteTx /\ w.at = "rollback" /\ w.result = "failed"
    BY <1>9, <1>w DEF FnFails, CommitFails, Ends
  <2>3. log' = log /\ base' = base /\ ended' = ended BY <1>9 DEF FnFails, CommitFails
  <2>4. lock = Caller[c] BY <2>1, Owns
  <2>5. \/ UNCHANGED <<conn, lock>>
        \/ Leaves(c, FALSE, TRUE) /\ lock' = Free(Caller[c])
        \/ \E cut \in BOOLEAN : Leaves(c, TRUE, cut) /\ lock' = Caller[c]
    BY <1>9, <2>4 DEF FnFails, CommitFails
  <2>. HIDE DEF w
  <2>6. /\ conn' \in [Process -> Conn] /\ call' \in [Call -> WithWriteTx]
        /\ lock' \in Process \cup {None}
        /\ \A d \in Call : ConnOk(d)' /\ \A p \in Process : PoolOk(p)'
    <3>1. CASE UNCHANGED <<conn, lock>> BY <1>h, <2>1, <2>2, <3>1
    <3>2. CASE Leaves(c, FALSE, TRUE) /\ lock' = Free(Caller[c]) BY <1>h, <2>1, <2>2, <3>2
    <3>3. CASE \E cut \in BOOLEAN : Leaves(c, TRUE, cut) /\ lock' = Caller[c]
      BY <1>h, <2>1, <2>2, <2>4, <3>3
    <3>. QED BY <2>5, <3>1, <3>2, <3>3
  <2>. QED BY <1>q, <2>1, <2>2, <2>3, <2>6
<1>10. ASSUME NEW c \in Call, Commit(c) \/ CommitCut(c) PROVE IInv'
  <2>1. PICK w \in WithWriteTx, cut \in BOOLEAN :
          /\ call' = [call EXCEPT ![c] = w] /\ w.at \in {"close", "rollback"} /\ w.result # "none"
          /\ Leaves(c, FALSE, cut)
    <3>1. CASE Commit(c) BY <1>w, <3>1 DEF Commit, Ends
    <3>2. CASE CommitCut(c) BY <1>w, <3>2 DEF CommitCut, Ends
    <3>. QED BY <1>10, <3>1, <3>2
  <2>2. /\ At(c, "commit") /\ log' = Append(log, c) /\ base' = base /\ ended' = ended
        /\ lock' = Free(Caller[c])
    BY <1>10 DEF Commit, CommitCut
  <2>3. Holds(c) BY <2>2 DEF Holds, At
  <2>4. /\ conn' \in [Process -> Conn] /\ call' \in [Call -> WithWriteTx]
        /\ lock' \in Process \cup {None}
        /\ \A d \in Call : ConnOk(d)' /\ \A p \in Process : PoolOk(p)'
    BY <1>h, <2>1, <2>2, <2>3
  <2>5. log' \in Seq(Call) /\ BaseOk' /\ \A d \in Call : CallLogOk(d)' BY <2>1, <2>2, LogGrows
  <2>. QED BY <1>t, <1>z, <2>2, <2>4, <2>5 DEF TypeOK
<1>11. ASSUME NEW c \in Call, Rollback(c) PROVE IInv'
  <2>. DEFINE w == [at |-> "close", result |-> call[c].result]
  <2>1. Holds(c) /\ call[c].result # "none" /\ call[c].result \in {"none", "ok", "failed"}
    BY <1>11, <1>t DEF Rollback, At, Holds, IInv, LogOk, TypeOK, WithWriteTx
  <2>2. call' = [call EXCEPT ![c] = w] BY <1>11, <1>t, GoesKeeps DEF Rollback
  <2>3. w \in WithWriteTx /\ w.at = "close" /\ w.result = call[c].result BY <1>w, <2>1
  <2>4. /\ log' = log /\ base' = base /\ ended' = ended
        /\ Leaves(c, FALSE, FALSE) /\ lock' = Free(Caller[c])
    BY <1>11 DEF Rollback
  <2>. HIDE DEF w
  <2>5. /\ conn' \in [Process -> Conn] /\ call' \in [Call -> WithWriteTx]
        /\ lock' \in Process \cup {None}
        /\ \A d \in Call : ConnOk(d)' /\ \A p \in Process : PoolOk(p)'
    BY <1>h, <2>1, <2>2, <2>3, <2>4
  <2>. QED BY <1>q, <2>1, <2>2, <2>3, <2>4, <2>5
<1>12. ASSUME NEW c \in Call, Close(c) PROVE IInv'
  <2>. DEFINE w == [at |-> "over", result |-> call[c].result]
  <2>1. Holds(c) /\ call[c].result \in {"none", "ok", "failed"} /\ CallLogOk(c)
    BY <1>12, <1>t, Parts DEF Close, At, Holds, TypeOK, WithWriteTx
  <2>2. call' = [call EXCEPT ![c] = w] BY <1>12, <1>t, GoesKeeps DEF Close
  <2>3. w \in WithWriteTx /\ call'[c] = w /\ w.at = "over" /\ w.result = call[c].result
    BY <1>w, <1>t, <2>1, <2>2 DEF TypeOK
  <2>4. log' = log /\ base' = base /\ ended' = ended /\ Caller[c] \in Process BY <1>12 DEF Close
  <2>5. My(c).owner = c /\ My(c) \in Conn /\ (My(c).tx <=> lock = Caller[c]) /\ lock \in Process \cup {None}
    BY <2>1, Owns
  <2>6. conn' = [conn EXCEPT ![Caller[c]] = Fresh] /\ lock' = Free(Caller[c])
    <3>1. CASE My(c).interrupted BY <1>12, <3>1 DEF Close
    <3>2. CASE ~My(c).interrupted
      <4>1. ~My(c).tx BY <1>12, <2>1, <3>2, Parts DEF ConnOk, Close
      <4>2. [My(c) EXCEPT !.owner = None] = Fresh
        <5>1. My(c).tx = FALSE /\ My(c).interrupted = FALSE BY <2>5, <3>2, <4>1 DEF Conn
        <5>2. [My(c) EXCEPT !.owner = None]
                = [owner |-> None, tx |-> My(c).tx, interrupted |-> My(c).interrupted]
          BY <2>5 DEF Conn
        <5>. QED BY <5>1, <5>2 DEF Fresh
      <4>3. conn' = [conn EXCEPT ![Caller[c]] = [My(c) EXCEPT !.owner = None]] /\ lock' = lock
        BY <1>12, <1>t, <3>2 DEF Close, My, TypeOK
      <4>4. Free(Caller[c]) = lock BY <2>5, <4>1 DEF Free
      <4>. QED BY <4>2, <4>3, <4>4
    <3>. QED BY <3>1, <3>2
  <2>7. conn'[Caller[c]] = Fresh BY <1>t, <2>4, <2>6 DEF TypeOK
  <2>8. Fresh \in Conn /\ Fresh.owner = None /\ Fresh.tx = FALSE /\ c # None BY DEF Fresh, Conn
  <2>9. ConnOk(c)' BY <2>3, <2>7, <2>8 DEF ConnOk, Holds, At, My
  <2>10. CallLogOk(c)' BY <2>1, <2>3, <2>4 DEF CallLogOk, InLog
  <2>11. /\ lock' \in Process \cup {None} /\ lock' # Caller[c]
         /\ \A p \in Process : p # Caller[c] => (lock' = p <=> lock = p)
    BY <2>4, <2>5, <2>6 DEF Free
  <2>. HIDE DEF w
  <2>12. /\ conn' \in [Process -> Conn] /\ call' \in [Call -> WithWriteTx]
         /\ \A d \in Call : ConnOk(d)'
         /\ \A p \in Process : PoolOk(p)'
    BY <2>2, <2>3, <2>5, <2>6, <2>8, <2>9, <2>11, CallStep
  <2>13. base' \in [Call -> Nat] /\ BaseOk' /\ \A d \in Call : CallLogOk(d)'
    BY <2>2, <2>3, <2>4, <2>10, LogStays
  <2>. QED BY <1>t, <1>z, <2>4, <2>11, <2>12, <2>13 DEF TypeOK
<1>13. ASSUME NEW p \in Process, Die(p) PROVE IInv'
  <2>. DEFINE hit(d) == Caller[d] = p /\ ~At(d, "idle") /\ ~At(d, "over")
  <2>1. /\ conn' = [conn EXCEPT ![p] = Fresh] /\ lock' = Free(p)
        /\ log' = log /\ base' = base /\ ended' = ended
    BY <1>13 DEF Die
  <2>2. \A d \in Call : call'[d] = IF hit(d) THEN [at |-> "over", result |-> "none"] ELSE call[d]
    BY <1>13 DEF Die
  <2>3. call' \in [Call -> WithWriteTx] BY <1>13, <1>t, <1>w DEF Die, TypeOK
  <2>4. Fresh \in Conn BY DEF Fresh, Conn
  <2>5. conn' \in [Process -> Conn] /\ lock' \in Process \cup {None} BY <1>t, <2>1, <2>4 DEF TypeOK, Free
  <2>6. TypeOK' BY <1>t, <2>1, <2>3, <2>5 DEF TypeOK
  <2>7. ASSUME NEW d \in Call PROVE ConnOk(d)'
    <3>1. ConnOk(d) /\ Caller[d] \in Process BY Parts
    <3>2. CASE Caller[d] = p
      <4>1. conn'[Caller[d]] = Fresh /\ d # None BY <1>t, <2>1, <3>2 DEF TypeOK
      <4>2. call'[d].at \in {"idle", "over"} BY <2>2, <3>2 DEF At
      <4>. QED BY <4>1, <4>2 DEF ConnOk, Holds, At, My, Fresh
    <3>3. CASE Caller[d] # p
      <4>1. conn'[Caller[d]] = conn[Caller[d]] /\ call'[d] = call[d] BY <1>t, <2>1, <2>2, <3>1, <3>3 DEF TypeOK
      <4>. QED BY <3>1, <4>1 DEF ConnOk, Holds, At, My
    <3>. QED BY <3>2, <3>3
  <2>8. ASSUME NEW q \in Process PROVE PoolOk(q)'
    <3>1. PoolOk(q) BY Parts
    <3>2. CASE q = p
      <4>1. conn'[q] = Fresh BY <1>t, <2>1, <3>2 DEF TypeOK
      <4>. QED BY <2>1, <3>2, <4>1 DEF PoolOk, Fresh, Free
    <3>3. CASE q # p
      <4>1. conn'[q] = conn[q] BY <1>t, <2>1, <3>3 DEF TypeOK
      <4>. QED BY <2>1, <3>1, <3>3, <4>1 DEF PoolOk, Fresh, Free
    <3>. QED BY <3>2, <3>3
  <2>9. ASSUME NEW d \in Call PROVE CallLogOk(d)'
    <3>1. CallLogOk(d) BY Parts
    <3>2. CASE hit(d)
      <4>1. call'[d].at = "over" /\ call'[d].result = "none" BY <2>2, <3>2
      <4>. QED BY <4>1 DEF CallLogOk
    <3>3. CASE ~hit(d)
      <4>1. call'[d] = call[d] BY <2>2, <3>3
      <4>. QED BY <2>1, <3>1, <4>1 DEF CallLogOk, InLog
    <3>. QED BY <3>2, <3>3
  <2>10. BaseOk' BY <1>t, <2>1 DEF BaseOk
  <2>11. (\A d \in Call : ConnOk(d) /\ CallLogOk(d))' BY <2>7, <2>9
  <2>12. (\A q \in Process : PoolOk(q))' BY <2>8
  <2>. QED BY <2>6, <2>10, <2>11, <2>12
       DEF IInv, ConnsOk, LockOk, PoolClean, LogOk, ConnOk, PoolOk, CallLogOk, BaseOk
<1>14. CASE UNCHANGED vars
  BY <1>14 DEF vars, IInv, TypeOK, ConnsOk, LockOk, PoolClean, LogOk, Fresh, Holds, At, My, InLog
<1>. QED BY <1>1, <1>2, <1>3, <1>4, <1>5, <1>6, <1>7, <1>8, <1>9, <1>10, <1>11, <1>12, <1>13, <1>14
     DEF Next, Runs

\* Connections, lock and log agree, whatever statement a context cuts short
\* (WithWriteTx).
THEOREM Inductive == Spec => []IInv
BY InitInv, StepInv, PTL DEF Spec

\* No connection goes back to the pool inside a transaction, and nobody
\* keeps the write lock ("leaving an open SQLite transaction would hold the
\* write lock for the next caller").
THEOREM LockIsGivenBack == Spec => []LockIsOwned
<1>1. IInv => LockIsOwned
  <2>. SUFFICES ASSUME IInv, NEW p \in Process
                PROVE  /\ conn[p].owner = None => conn[p] = Fresh
                       /\ lock = p => conn[p].owner # None
    BY DEF LockIsOwned
  <2>1. PoolOk(p) BY Parts
  <2>2. Fresh.tx = FALSE BY DEF Fresh
  <2>. QED BY <2>1, <2>2 DEF PoolOk
<1>. QED BY <1>1, Inductive, PTL

-----------------------------------------------------------------------------
(* WithWriteTx implements WritePromise.                                    *)

LEMMA PromiseInit == Init => Promise!PromiseInit
<1>. SUFFICES ASSUME Init PROVE Promise!PromiseInit OBVIOUS
<1>1. base \in [Call -> {0}] BY DEF Init
<1>2. \A c \in Call : Told(c) = "nothing" BY DEF Init, Told, At
<1>. QED BY <1>1, <1>2 DEF Init, Promise!PromiseInit

LEMMA HappenedIsInLog == \A c : Promise!Happened(c) <=> InLog(c)
BY DEF Promise!Happened, InLog

\* A step that changes nothing the promise speaks of.
LEMMA ToldStays ==
  ASSUME log' = log, base' = base, \A d \in Call : Told(d)' = Told(d)
  PROVE  UNCHANGED Promise!promiseVars
BY DEF Promise!promiseVars

\* A call that is not over, or a killed one, tells nothing.
LEMMA Untold ==
  ASSUME NEW c \in Call, ~At(c, "over") \/ call[c].result \notin {"ok", "failed"}
  PROVE  Told(c) = "nothing"
BY DEF Told, At

\* One call's end is told; the others' are as they were.
LEMMA ToldAtTheEnd ==
  ASSUME TypeOK, NEW c \in Call, ~At(c, "over"), NEW r \in {"ok", "failed"},
         call' = [call EXCEPT ![c] = [at |-> "over", result |-> r]]
  PROVE  /\ Told(c) = "nothing"
         /\ [d \in Call |-> Told(d)]' =
              [[d \in Call |-> Told(d)] EXCEPT ![c] = IF r = "ok" THEN "done" ELSE "failed"]
<1>1. Told(c) = "nothing" BY Untold
<1>2. call'[c] = [at |-> "over", result |-> r] /\ \A d \in Call : d # c => call'[d] = call[d] BY DEF TypeOK
<1>3. Told(c)' = IF r = "ok" THEN "done" ELSE "failed" BY <1>2 DEF Told, At
<1>4. \A d \in Call : d # c => Told(d)' = Told(d) BY <1>2 DEF Told, At
<1>. QED BY <1>1, <1>3, <1>4

LEMMA PromiseStep == IInv /\ IInv' /\ [Next]_vars => [Promise!PromiseNext]_(Promise!promiseVars)
<1>. SUFFICES ASSUME IInv, IInv', [Next]_vars PROVE [Promise!PromiseNext]_(Promise!promiseVars) OBVIOUS
<1>t. TypeOK BY DEF IInv
\* A step of a call from a place that is not its end to another.
<1>s. ASSUME NEW c \in Call, ~At(c, "over"), ~At(c, "over")',
             \A d \in Call : d # c => call'[d] = call[d]
      PROVE  \A d \in Call : Told(d)' = Told(d)
  <2>1. Told(c) = "nothing" /\ Told(c)' = "nothing" BY <1>s DEF Told, At
  <2>2. \A d \in Call : d # c => Told(d)' = Told(d) BY <1>s DEF Told, At
  <2>. QED BY <2>1, <2>2
<1>1. ASSUME NEW c \in Call,
             \/ Start(c) \/ ContextEnds(c) \/ Acquire(c) \/ Begin(c) \/ BeginCut(c) \/ BeginFails(c)
             \/ FnWrites(c) \/ FnFails(c) \/ CommitFails(c) \/ Rollback(c)
      PROVE  UNCHANGED Promise!promiseVars
  <2>1. log' = log /\ base' = base
    BY <1>1 DEF Start, ContextEnds, Acquire, Begin, BeginCut, BeginFails, FnWrites, FnFails, CommitFails, Rollback
  <2>2. CASE ContextEnds(c)
    <3>1. call' = call BY <2>2 DEF ContextEnds
    <3>2. \A d \in Call : Told(d)' = Told(d) BY <3>1 DEF Told, At
    <3>. QED BY <2>1, <3>2, ToldStays
  <2>3. CASE \/ Start(c) \/ Acquire(c) \/ Begin(c) \/ BeginCut(c) \/ BeginFails(c)
             \/ FnWrites(c) \/ FnFails(c) \/ CommitFails(c) \/ Rollback(c)
    <3>1. \E a \in {"pool", "begin", "read", "close", "commit", "rollback"}, r \in {"none", "ok", "failed"} :
             call' = [call EXCEPT ![c] = [at |-> a, result |-> r]]
      <4>2. call[c].result \in {"none", "ok", "failed"} BY <1>t DEF TypeOK, WithWriteTx
      <4>3. CASE Start(c) \/ Acquire(c) \/ Begin(c) \/ FnWrites(c) \/ Rollback(c)
        <5>1. PICK a \in {"pool", "begin", "read", "close", "commit"} : Goes(c, a)
          BY <4>3 DEF Start, Acquire, Begin, FnWrites, Rollback
        <5>. QED BY <1>t, <4>2, <5>1, GoesKeeps
      <4>4. CASE BeginCut(c) \/ BeginFails(c) \/ FnFails(c) \/ CommitFails(c)
        BY <4>4 DEF BeginCut, BeginFails, FnFails, CommitFails, Ends
      <4>. QED BY <2>3, <4>3, <4>4
    <3>2. ~At(c, "over")
      BY <2>3 DEF Start, Acquire, Begin, BeginCut, BeginFails, FnWrites, FnFails, CommitFails, Rollback, At
    <3>3. ~At(c, "over")' /\ \A d \in Call : d # c => call'[d] = call[d] BY <1>t, <3>1 DEF At, TypeOK
    <3>. QED BY <1>s, <2>1, <3>2, <3>3, ToldStays
  <2>. QED BY <1>1, <2>2, <2>3
<1>2. ASSUME NEW c \in Call, AcquireFails(c) PROVE Promise!TellFailed(c)
  <2>1. ~At(c, "over") /\ log' = log /\ base' = base BY <1>2 DEF AcquireFails, At
  <2>2. call' = [call EXCEPT ![c] = [at |-> "over", result |-> "failed"]] BY <1>2 DEF AcquireFails, Ends
  <2>3. /\ Told(c) = "nothing"
        /\ [d \in Call |-> Told(d)]' = [[d \in Call |-> Told(d)] EXCEPT ![c] = "failed"]
    BY <1>t, <2>1, <2>2, ToldAtTheEnd
  <2>. QED BY <2>1, <2>3 DEF Promise!TellFailed
<1>3. ASSUME NEW c \in Call, FnReads(c) PROVE Promise!Decide(c)
  <2>1. ~At(c, "over") /\ ~InLog(c) BY <1>3 DEF FnReads, At, IInv, LogOk
  <2>2. Told(c) = "nothing" BY <2>1, Untold
  <2>3. call' = [call EXCEPT ![c].at = "write"] BY <1>3 DEF FnReads, Goes
  <2>4. ~At(c, "over")' /\ \A d \in Call : d # c => call'[d] = call[d] BY <1>t, <2>3 DEF At, TypeOK, WithWriteTx
  <2>5. \A d \in Call : Told(d)' = Told(d) BY <1>s, <2>1, <2>4
  <2>6. log' = log /\ base' = [base EXCEPT ![c] = Len(log)] BY <1>3 DEF FnReads
  <2>. QED BY <2>1, <2>2, <2>5, <2>6, HappenedIsInLog DEF Promise!Decide
<1>4. ASSUME NEW c \in Call, Commit(c) \/ CommitCut(c) PROVE Promise!Happen(c)
  <2>1. ~At(c, "over") /\ ~InLog(c) /\ base[c] = Len(log) BY <1>4 DEF Commit, CommitCut, At, IInv, LogOk
  <2>2. Told(c) = "nothing" BY <2>1, Untold
  <2>3. \E a \in {"close", "rollback"}, r \in {"ok", "failed"} :
          call' = [call EXCEPT ![c] = [at |-> a, result |-> r]]
    BY <1>4 DEF Commit, CommitCut, Ends
  <2>4. ~At(c, "over")' /\ \A d \in Call : d # c => call'[d] = call[d] BY <1>t, <2>3 DEF At, TypeOK
  <2>5. \A d \in Call : Told(d)' = Told(d) BY <1>s, <2>1, <2>4
  <2>6. log' = Append(log, c) /\ base' = base BY <1>4 DEF Commit, CommitCut
  <2>. QED BY <2>1, <2>2, <2>5, <2>6, HappenedIsInLog DEF Promise!Happen
<1>5. ASSUME NEW c \in Call, Close(c) PROVE Promise!TellDone(c) \/ Promise!TellFailed(c)
  <2>1. ~At(c, "over") /\ log' = log /\ base' = base BY <1>5 DEF Close, At
  <2>2. call' = [call EXCEPT ![c] = [at |-> "over", result |-> call[c].result]]
    BY <1>5, <1>t, GoesKeeps DEF Close
  <2>3. call[c].result \in {"ok", "failed"} BY <1>5, <1>t DEF Close, At, IInv, LogOk, TypeOK, WithWriteTx
  <2>4. CASE call[c].result = "ok"
    <3>1. InLog(c) BY <2>4 DEF IInv, LogOk
    <3>2. /\ Told(c) = "nothing"
          /\ [d \in Call |-> Told(d)]' = [[d \in Call |-> Told(d)] EXCEPT ![c] = "done"]
      BY <1>t, <2>1, <2>2, <2>4, ToldAtTheEnd
    <3>. QED BY <2>1, <3>1, <3>2, HappenedIsInLog DEF Promise!TellDone
  <2>5. CASE call[c].result = "failed"
    <3>1. /\ Told(c) = "nothing"
          /\ [d \in Call |-> Told(d)]' = [[d \in Call |-> Told(d)] EXCEPT ![c] = "failed"]
      BY <1>t, <2>1, <2>2, <2>5, ToldAtTheEnd
    <3>. QED BY <2>1, <3>1 DEF Promise!TellFailed
  <2>. QED BY <2>3, <2>4, <2>5
<1>6. ASSUME NEW p \in Process, Die(p) PROVE UNCHANGED Promise!promiseVars
  <2>1. log' = log /\ base' = base BY <1>6 DEF Die
  <2>2. ASSUME NEW d \in Call PROVE Told(d)' = Told(d)
    <3>1. CASE Caller[d] = p /\ ~At(d, "idle") /\ ~At(d, "over")
      <4>1. call'[d] = [at |-> "over", result |-> "none"] BY <1>6, <3>1 DEF Die
      <4>. QED BY <3>1, <4>1 DEF Told, At
    <3>2. CASE ~(Caller[d] = p /\ ~At(d, "idle") /\ ~At(d, "over"))
      <4>1. call'[d] = call[d] BY <1>6, <3>2 DEF Die
      <4>. QED BY <4>1 DEF Told, At
    <3>. QED BY <3>1, <3>2
  <2>. QED BY <2>1, <2>2, ToldStays
<1>7. CASE UNCHANGED vars
  <2>1. log' = log /\ base' = base /\ call' = call BY <1>7 DEF vars
  <2>2. \A d \in Call : Told(d)' = Told(d) BY <2>1 DEF Told, At
  <2>. QED BY <2>1, <2>2, ToldStays
<1>. QED BY <1>1, <1>2, <1>3, <1>4, <1>5, <1>6, <1>7 DEF Next, Runs, Promise!PromiseNext

\* A caller who is told that its write is done has written once, on top of
\* all it read, for every pattern of cancelled contexts and killed processes
\* (WithWriteTx).
THEOREM Implements == Spec => ImplementsPromise
BY Inductive, PromiseInit, PromiseStep, PTL DEF Spec, ImplementsPromise, Promise!PromiseSpec
=============================================================================
