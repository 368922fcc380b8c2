--------------------------- MODULE SshEnrollProofs ---------------------------
(***************************************************************************)
(* Authentication and enrollment, for every number of keys, accounts,      *)
(* tokens, handshakes and completion requests: the inductive invariant,    *)
(* whose identity a connection gets, how often a token works, which keys   *)
(* are enrolled and how a key changes hands.                               *)
(***************************************************************************)
EXTENDS SshEnroll, TLAPS

-----------------------------------------------------------------------------
(* Types.                                                                  *)

LEMMA InitTypes == Init => TypeOK
BY DEF Init, TypeOK

\* What a handshake's fields are while it exists.
LEMMA ConnTypes ==
  ASSUME TypeOK, NEW c \in Conn, conn[c] # None
  PROVE  conn[c] \in Handshake
BY DEF TypeOK

LEMMA NextTypes == TypeOK /\ [Next]_vars => TypeOK'
<1> SUFFICES ASSUME TypeOK, [Next]_vars PROVE TypeOK'
  OBVIOUS
<1>1. ASSUME NEW c \in Conn, Connect(c) PROVE TypeOK'
  <2>1. conn' \in [Conn -> Handshake \cup {None}]
    BY <1>1 DEF TypeOK, Connect, Handshake
  <2>2. owners' \in [Conn -> SUBSET (Key \X (User \cup {None}))]
    <3>1. Pairs(keys) \in SUBSET (Key \X (User \cup {None}))
      BY DEF TypeOK, Pairs
    <3> QED
      BY <1>1, <3>1 DEF TypeOK, Connect
  <2> QED
    BY <1>1, <2>1, <2>2 DEF TypeOK, Connect
<1>2. ASSUME NEW c \in Conn, KeyboardInteractive(c) PROVE TypeOK'
  <2>1. pending' \in [Conn -> Pending \cup {None}]
    BY <1>2 DEF TypeOK, KeyboardInteractive
  <2>2. tokens' \in [Token -> Enrollment \cup {None}] /\ minted' \in SUBSET Token
    <3>1. CASE Kept(c) /\ \E t \in Token : Mint(t, pending[c].key)
      <4>1. PICK t \in Token : Mint(t, pending[c].key)
        BY <3>1
      <4>2. pending[c].key \in Key
        BY <3>1 DEF Kept, TypeOK, Pending
      <4>3. [key |-> pending[c].key, expired |-> FALSE] \in Enrollment
        BY <4>2 DEF Enrollment
      <4> QED
        BY <4>1, <4>3 DEF TypeOK, Mint
    <3> QED
      BY <1>2, <3>1 DEF TypeOK, KeyboardInteractive
  <2> QED
    BY <1>2, <2>1, <2>2 DEF TypeOK, KeyboardInteractive
<1>3. ASSUME NEW c \in Conn, GiveUp(c) PROVE TypeOK'
  <2>1. conn' \in [Conn -> Handshake \cup {None}]
    BY <1>3 DEF TypeOK, GiveUp, Handshaking, Handshake
  <2> QED
    BY <1>3, <2>1 DEF TypeOK, GiveUp
<1>4. ASSUME NEW c \in Conn, PendingAges(c) PROVE TypeOK'
  <2>1. pending' \in [Conn -> Pending \cup {None}]
    BY <1>4 DEF TypeOK, PendingAges, Kept, Pending
  <2> QED
    BY <1>4, <2>1 DEF TypeOK, PendingAges
<1>5. ASSUME NEW c \in Conn, NEW k \in Key, Offer(c, k) PROVE TypeOK'
  <2>1. Answer(c, k) \in User \cup {Unknown}
    BY DEF Answer, TypeOK
  <2>2. offer' \in [Conn -> Offered \cup {None}]
    BY <1>5, <2>1 DEF TypeOK, Offer, Offered
  <2>3. pending' \in [Conn -> Pending \cup {None}]
    <3>1. [key |-> k, old |-> FALSE] \in Pending
      BY DEF Pending
    <3>2. pending' = pending \/ Remember(c, k)
      BY <1>5 DEF Offer
    <3> QED
      BY <3>1, <3>2 DEF TypeOK, Remember
  <2> QED
    BY <1>5, <2>2, <2>3 DEF TypeOK, Offer
<1>6. ASSUME NEW c \in Conn, NEW k \in Key, Prove(c, k) PROVE TypeOK'
  <2>1. offer[c] \in Offered /\ offer[c].answer # Unknown
    BY <1>6 DEF TypeOK, Prove
  <2>2. offer[c].answer \in User /\ conn[c] \in Handshake
    BY <1>6, <2>1 DEF TypeOK, Prove, Handshaking, Offered
  <2>3. [conn[c] EXCEPT !.pc = "in", !.user = offer[c].answer, !.key = k] \in Handshake
    BY <2>2 DEF Handshake
  <2>4. conn' = [conn EXCEPT ![c] = [conn[c] EXCEPT !.pc = "in", !.user = offer[c].answer, !.key = k]]
    BY <1>6 DEF Prove, TypeOK
  <2>5. conn' \in [Conn -> Handshake \cup {None}]
    BY <2>3, <2>4 DEF TypeOK
  <2> QED
    BY <1>6, <2>5 DEF TypeOK, Prove
<1>7. ASSUME NEW t \in Token, TokenExpires(t) PROVE TypeOK'
  <2>1. tokens' \in [Token -> Enrollment \cup {None}]
    BY <1>7 DEF TypeOK, TokenExpires, Enrollment
  <2> QED
    BY <1>7, <2>1 DEF TypeOK, TokenExpires
<1>8. ASSUME NEW b \in Browser, NEW t \in Token, NEW u \in User, Open(b, t, u) PROVE TypeOK'
  <2>1. browser' \in [Browser -> Completion \cup {None}]
    BY <1>8 DEF TypeOK, Open, Completion
  <2> QED
    BY <1>8, <2>1 DEF TypeOK, Open, Elsewhere
<1>9. ASSUME NEW b \in Browser, Consume(b) PROVE TypeOK'
  <2>1. browser[b] \in Completion /\ browser[b].token \in Token
    BY <1>9 DEF TypeOK, Consume, At, Completion
  <2>2. tokens' \in [Token -> Enrollment \cup {None}]
    BY <1>9 DEF TypeOK, Consume, Take
  <2>3. uses' \in [Token -> Nat]
    BY <1>9, <2>1 DEF TypeOK, Consume
  <2>4. browser' \in [Browser -> Completion \cup {None}]
    <3>1. tokens[browser[b].token] # None => tokens[browser[b].token].key \in Key
      BY <2>1 DEF TypeOK, Enrollment
    <3> QED
      BY <1>9, <2>1, <3>1 DEF TypeOK, Consume, Respond, Completion
  <2> QED
    BY <1>9, <2>2, <2>3, <2>4 DEF TypeOK, Consume, Elsewhere
<1>10. ASSUME NEW b \in Browser, Add(b) PROVE TypeOK'
  <2>1. browser[b] \in Completion /\ browser[b].user \in User
    BY <1>10 DEF TypeOK, Add, At, Completion
  <2>2. keys' \in [Key -> User \cup {None}]
    BY <1>10, <2>1 DEF TypeOK, Add, AddKey
  <2>3. browser' \in [Browser -> Completion \cup {None}]
    BY <1>10, <2>1 DEF TypeOK, Add, Respond, Completion
  <2>4. owners' \in [Conn -> SUBSET (Key \X (User \cup {None}))]
    BY <1>10, <2>2 DEF TypeOK, Add, Observe, Pairs
  <2> QED
    BY <1>10, <2>2, <2>3, <2>4 DEF TypeOK, Add, Elsewhere
<1>11. ASSUME NEW b \in Browser, Conflict(b) PROVE TypeOK'
  BY <1>11 DEF TypeOK, Conflict, Respond, Elsewhere
<1>12. ASSUME NEW k \in Key, RemoveLookup(k) PROVE TypeOK'
  BY <1>12 DEF TypeOK, RemoveLookup
<1>13. CASE RemoveWrite
  <2>1. keys' \in [Key -> User \cup {None}]
    BY <1>13 DEF TypeOK, RemoveWrite
  <2>2. owners' \in [Conn -> SUBSET (Key \X (User \cup {None}))]
    BY <1>13, <2>1 DEF TypeOK, RemoveWrite, Observe, Pairs
  <2> QED
    BY <1>13, <2>1, <2>2 DEF TypeOK, RemoveWrite
<1>14. CASE RemoveFails
  BY <1>14 DEF TypeOK, RemoveFails
<1>15. CASE Restart
  <2>1. conn' \in [Conn -> Handshake \cup {None}]
    BY <1>15 DEF TypeOK, Restart, Handshake
  <2> QED
    BY <1>15, <2>1 DEF TypeOK, Restart
<1>16. CASE UNCHANGED vars
  BY <1>16 DEF TypeOK, vars
<1> QED
  BY <1>1, <1>2, <1>3, <1>4, <1>5, <1>6, <1>7, <1>8, <1>9, <1>10, <1>11, <1>12, <1>13,
     <1>14, <1>15, <1>16 DEF Next

-----------------------------------------------------------------------------
(* What a handshake holds was true of the keys table while it ran.         *)

LEMMA PairIn ==
  ASSUME NEW k \in Key
  PROVE  <<k, keys[k]>> \in Pairs(keys)
BY DEF Pairs

\* A step that changes the table shows the new one to every handshake.
LEMMA ObserveGrows ==
  ASSUME Observe, NEW c \in Conn, conn[c] # None
  PROVE  owners[c] \cup Pairs(keys') = owners'[c]
BY DEF Observe

\* The obligations of one handshake, as a formula of its own.
HandshakeInv(c) ==
  /\ conn[c] # None => Pairs(keys) \subseteq owners[c]
  /\ offer[c] # None =>
       /\ conn[c] # None
       /\ offer[c].answer # Unknown => <<offer[c].key, offer[c].answer>> \in owners[c]
  /\ conn[c] # None /\ conn[c].pc = "in" =>
       /\ conn[c].key \in Holds[c] /\ conn[c].user \in User
       /\ <<conn[c].key, conn[c].user>> \in owners[c]
  /\ pending[c] # None => conn[c] # None /\ <<pending[c].key, None>> \in owners[c]

LEMMA HandshakesInv == OffersInv /\ PendingInv <=> \A c \in Conn : HandshakeInv(c)
BY DEF OffersInv, PendingInv, HandshakeInv

LEMMA ConnectInv ==
  ASSUME IInv, NEW d \in Conn, Connect(d), NEW c \in Conn, HandshakeInv(c)
  PROVE  HandshakeInv(c)'
<1>1. CASE c # d
  <2>1. conn'[c] = conn[c] /\ owners'[c] = owners[c]
    BY <1>1 DEF Connect, IInv, TypeOK
  <2> QED
    BY <2>1 DEF Connect, HandshakeInv
<1>2. CASE c = d
  <2>1. /\ owners'[c] = Pairs(keys)
        /\ conn'[c] = [pc |-> "auth", user |-> None, key |-> None]
        /\ offer[c] = None /\ pending[c] = None
    BY <1>2 DEF Connect, IInv, TypeOK, HandshakeInv
  <2> QED
    BY <2>1 DEF Connect, HandshakeInv, Pairs
<1> QED
  BY <1>1, <1>2

LEMMA OfferInv ==
  ASSUME IInv, NEW d \in Conn, NEW k \in Key, Offer(d, k), NEW c \in Conn, HandshakeInv(c)
  PROVE  HandshakeInv(c)'
<1>1. UNCHANGED <<keys, conn, owners>>
  BY DEF Offer
<1>2. CASE c # d
  <2>1. offer'[c] = offer[c] /\ pending'[c] = pending[c]
    BY <1>2 DEF Offer, Remember, IInv, TypeOK
  <2> QED
    BY <1>1, <2>1 DEF HandshakeInv, Pairs
<1>3. CASE c = d
  <2>1. conn[c] # None /\ <<k, keys[k]>> \in owners[c]
    BY <1>3, PairIn DEF Offer, Handshaking, HandshakeInv
  <2>2. \/ offer'[c] = [key |-> k, answer |-> Answer(c, k)] /\ Remember(c, k)
        \/ offer'[c] = [key |-> k, answer |-> Unknown] /\ UNCHANGED pending
    BY <1>3 DEF Offer, IInv, TypeOK
  <2>3. offer'[c].answer # Unknown => <<offer'[c].key, offer'[c].answer>> \in owners[c]
    BY <2>1, <2>2 DEF Answer
  <2>4. pending'[c] # None => <<pending'[c].key, None>> \in owners[c]
    BY <2>1, <2>2 DEF Remember, IInv, TypeOK, HandshakeInv
  <2> QED
    BY <1>1, <2>1, <2>3, <2>4 DEF HandshakeInv, Pairs
<1> QED
  BY <1>2, <1>3

LEMMA ProveInv ==
  ASSUME IInv, NEW d \in Conn, NEW k \in Key, Prove(d, k), NEW c \in Conn, HandshakeInv(c)
  PROVE  HandshakeInv(c)'
<1>1. UNCHANGED <<keys, offer, owners>>
  BY DEF Prove
<1>2. CASE c # d
  <2>1. conn'[c] = conn[c] /\ pending'[c] = pending[c]
    BY <1>2 DEF Prove, IInv, TypeOK
  <2> QED
    BY <1>1, <2>1 DEF HandshakeInv, Pairs
<1>3. CASE c = d
  <2>1. /\ conn[c] # None /\ conn[c] \in Handshake
        /\ offer[c] # None /\ offer[c] \in Offered /\ offer[c].key = k /\ offer[c].answer # Unknown
        /\ k \in Holds[c]
    BY <1>3 DEF Prove, Handshaking, IInv, TypeOK
  <2>2. conn'[c] = [conn[c] EXCEPT !.pc = "in", !.user = offer[c].answer, !.key = k]
    BY <1>3 DEF Prove, IInv, TypeOK
  <2>4. offer[c].answer \in User /\ <<k, offer[c].answer>> \in owners[c]
    BY <2>1 DEF Offered, HandshakeInv
  <2>3. conn'[c].user = offer[c].answer /\ conn'[c].key = k
    BY <2>1, <2>2 DEF Handshake
  <2>7. conn'[c] \in Handshake
    <3>1. [conn[c] EXCEPT !.pc = "in", !.user = offer[c].answer, !.key = k] \in Handshake
      BY <2>1, <2>4 DEF Handshake
    <3> QED
      BY <2>2, <3>1
  <2>5. pending'[c] = None
    BY <1>3 DEF Prove, IInv, TypeOK
  <2>6. conn'[c] # None
    BY <2>7, NoneAssumption
  <2> QED
    BY <1>1, <2>1, <2>3, <2>4, <2>5, <2>6 DEF HandshakeInv, Pairs
<1> QED
  BY <1>2, <1>3

\* A step that adds to what the handshakes have seen and leaves the rest.
LEMMA ObserveInv ==
  ASSUME IInv, Observe, UNCHANGED <<conn, offer, pending>>, NEW c \in Conn, HandshakeInv(c)
  PROVE  HandshakeInv(c)'
<1>1. CASE conn[c] = None
  BY <1>1 DEF HandshakeInv
<1>2. CASE conn[c] # None
  <2>1. owners[c] \subseteq owners'[c] /\ Pairs(keys)' \subseteq owners'[c]
    BY <1>2, ObserveGrows DEF Pairs
  <2> QED
    BY <2>1 DEF HandshakeInv
<1> QED
  BY <1>1, <1>2

\* A step of one handshake that ends it or lets its record go.
LEMMA DropInv ==
  ASSUME IInv, UNCHANGED <<keys, offer, owners>>, NEW c \in Conn, HandshakeInv(c),
         conn'[c] = conn[c] \/ (conn'[c] # None /\ conn[c] # None /\ conn'[c].pc # "in"),
         pending'[c] \in {pending[c], None} \/
           (pending[c] # None /\ pending'[c] # None /\ pending'[c].key = pending[c].key)
  PROVE  HandshakeInv(c)'
BY DEF HandshakeInv, Pairs

LEMMA NextHandshakes ==
  ASSUME IInv, [Next]_vars
  PROVE  OffersInv' /\ PendingInv'
<1> SUFFICES ASSUME NEW c \in Conn PROVE HandshakeInv(c)'
  BY DEF OffersInv, PendingInv, HandshakeInv
<1>0. HandshakeInv(c)
  BY HandshakesInv DEF IInv
<1>1. ASSUME NEW d \in Conn, Connect(d) PROVE HandshakeInv(c)'
  BY <1>0, <1>1, ConnectInv
<1>2. ASSUME NEW d \in Conn, KeyboardInteractive(d) PROVE HandshakeInv(c)'
  <2>1. UNCHANGED <<keys, conn, offer, owners>> /\ pending'[c] \in {pending[c], None}
    BY <1>2 DEF KeyboardInteractive
  <2> QED
    BY <1>0, <2>1, DropInv
<1>3. ASSUME NEW d \in Conn, GiveUp(d) PROVE HandshakeInv(c)'
  <2>1. UNCHANGED <<keys, offer, owners, pending>>
    BY <1>3 DEF GiveUp
  <2>2. conn'[c] = conn[c] \/ (conn'[c] # None /\ conn[c] # None /\ conn'[c].pc # "in")
    <3>1. CASE c # d
      BY <1>3, <3>1 DEF GiveUp, IInv, TypeOK
    <3>2. CASE c = d
      <4>1. conn[c] \in Handshake /\ conn'[c] = [conn[c] EXCEPT !.pc = "out"]
        BY <1>3, <3>2 DEF GiveUp, Handshaking, IInv, TypeOK
      <4>2. [conn[c] EXCEPT !.pc = "out"] \in Handshake
        BY <4>1 DEF Handshake
      <4>3. conn'[c].pc = "out"
        BY <4>1 DEF Handshake
      <4> QED
        BY <4>1, <4>2, <4>3, NoneAssumption
    <3> QED
      BY <3>1, <3>2
  <2> QED
    BY <1>0, <2>1, <2>2, DropInv
<1>4. ASSUME NEW d \in Conn, PendingAges(d) PROVE HandshakeInv(c)'
  <2>1. UNCHANGED <<keys, offer, owners, conn>>
    BY <1>4 DEF PendingAges
  <2>2. CASE c # d
    <3>1. pending'[c] = pending[c]
      BY <1>4, <2>2 DEF PendingAges, IInv, TypeOK
    <3> QED
      BY <1>0, <2>1, <3>1, DropInv
  <2>3. CASE c = d
    <3>1. /\ pending[c] # None /\ pending[c] \in Pending
          /\ pending'[c] = [pending[c] EXCEPT !.old = TRUE]
      BY <1>4, <2>3 DEF PendingAges, Kept, IInv, TypeOK
    <3>2. [pending[c] EXCEPT !.old = TRUE] \in Pending
      BY <3>1 DEF Pending
    <3>3. pending'[c].key = pending[c].key
      BY <3>1 DEF Pending
    <3>4. pending'[c] # None
      BY <3>1, <3>2, NoneAssumption
    <3> QED
      BY <1>0, <2>1, <3>1, <3>3, <3>4, DropInv
  <2> QED
    BY <2>2, <2>3
<1>5. ASSUME NEW d \in Conn, NEW k \in Key, Offer(d, k) PROVE HandshakeInv(c)'
  BY <1>0, <1>5, OfferInv
<1>6. ASSUME NEW d \in Conn, NEW k \in Key, Prove(d, k) PROVE HandshakeInv(c)'
  BY <1>0, <1>6, ProveInv
<1>7. ASSUME NEW b \in Browser, Add(b) PROVE HandshakeInv(c)'
  BY <1>0, <1>7, ObserveInv DEF Add, Elsewhere
<1>8. CASE RemoveWrite
  BY <1>0, <1>8, ObserveInv DEF RemoveWrite
<1>9. CASE Restart
  <2>1. UNCHANGED <<keys, offer, owners>> /\ pending'[c] = None
    BY <1>9 DEF Restart
  <2>2. conn'[c] = conn[c] \/ (conn'[c] # None /\ conn[c] # None /\ conn'[c].pc # "in")
    <3>1. CASE conn[c] = None
      BY <1>9, <3>1 DEF Restart
    <3>2. CASE conn[c] # None
      <4>1. conn[c] \in Handshake /\ conn'[c] = [conn[c] EXCEPT !.pc = "out"]
        BY <1>9, <3>2 DEF Restart, IInv, TypeOK
      <4>2. [conn[c] EXCEPT !.pc = "out"] \in Handshake
        BY <4>1 DEF Handshake
      <4>3. conn'[c].pc = "out"
        BY <4>1 DEF Handshake
      <4> QED
        BY <3>2, <4>1, <4>2, <4>3, NoneAssumption
    <3> QED
      BY <3>1, <3>2
  <2> QED
    BY <1>0, <2>1, <2>2, DropInv
<1>10. ASSUME UNCHANGED <<keys, conn, offer, pending, owners>> PROVE HandshakeInv(c)'
  BY <1>0, <1>10, DropInv
<1>11. ASSUME NEW t \in Token, TokenExpires(t) PROVE HandshakeInv(c)'
  BY <1>10, <1>11 DEF TokenExpires
<1>12. ASSUME NEW b \in Browser, Consume(b) \/ Conflict(b) PROVE HandshakeInv(c)'
  BY <1>10, <1>12 DEF Consume, Conflict, Elsewhere
<1>13. ASSUME NEW b \in Browser, NEW t \in Token, NEW u \in User, Open(b, t, u) PROVE HandshakeInv(c)'
  BY <1>10, <1>13 DEF Open, Elsewhere
<1>14. ASSUME NEW k \in Key, RemoveLookup(k) PROVE HandshakeInv(c)'
  BY <1>10, <1>14 DEF RemoveLookup
<1>15. CASE RemoveFails
  BY <1>10, <1>15 DEF RemoveFails
<1>16. CASE UNCHANGED vars
  BY <1>10, <1>16 DEF vars
<1> QED
  BY <1>1, <1>2, <1>3, <1>4, <1>5, <1>6, <1>7, <1>8, <1>9, <1>11, <1>12, <1>13,
     <1>14, <1>15, <1>16 DEF Next

-----------------------------------------------------------------------------
(* Tokens.                                                                 *)

LEMMA NextTokens ==
  ASSUME IInv, [Next]_vars
  PROVE  TokensInv'
<1> USE DEF IInv, TypeOK, TokensInv
<1>1. ASSUME UNCHANGED <<minted, uses>>,
             \A t \in Token : tokens[t] = None => tokens'[t] = None
      PROVE  TokensInv'
  BY <1>1
<1>2. ASSUME NEW c \in Conn, KeyboardInteractive(c) PROVE TokensInv'
  <2>1. CASE ~Kept(c)
    BY <1>2, <2>1 DEF KeyboardInteractive
  <2>2. CASE Kept(c)
    <3>1. PICK t \in Token : Mint(t, pending[c].key)
      BY <1>2, <2>2 DEF KeyboardInteractive
    <3>2. UNCHANGED uses /\ uses[t] = 0
      BY <1>2, <3>1 DEF KeyboardInteractive, Mint
    <3>3. \A u \in Token \ {t} : tokens'[u] \in {tokens[u], None} /\ (u \in minted' <=> u \in minted)
      BY <3>1 DEF Mint
    <3>4. t \in minted'
      BY <3>1 DEF Mint
    <3> QED
      BY <3>2, <3>3, <3>4
  <2> QED
    BY <2>1, <2>2
<1>3. ASSUME NEW b \in Browser, Consume(b) PROVE TokensInv'
  <2> DEFINE t == browser[b].token
  <2>1. t \in Token /\ UNCHANGED minted
    BY <1>3 DEF Consume, At, Completion, Elsewhere
  <2>2. CASE tokens[t] # None /\ ~tokens[t].expired /\ uses' = [uses EXCEPT ![t] = @ + 1] /\ Take(t)
    <3>1. t \in minted /\ uses[t] = 0
      BY <2>1, <2>2
    <3>2. uses'[t] = 1 /\ tokens'[t] = None
      BY <2>1, <2>2, <3>1 DEF Take
    <3>3. \A u \in Token \ {t} : uses'[u] = uses[u] /\ tokens'[u] = tokens[u]
      BY <2>1, <2>2 DEF Take
    <3> QED
      BY <2>1, <3>1, <3>2, <3>3
  <2>3. CASE Take(t) /\ UNCHANGED uses
    BY <1>1, <2>1, <2>3 DEF Take
  <2>4. CASE UNCHANGED <<tokens, uses>>
    BY <1>1, <2>1, <2>4
  <2> QED
    BY <1>3, <2>2, <2>3, <2>4 DEF Consume
<1>4. ASSUME NEW t \in Token, TokenExpires(t) PROVE TokensInv'
  BY <1>1, <1>4 DEF TokenExpires
<1>5. CASE Restart
  BY <1>1, <1>5 DEF Restart
<1>6. ASSUME UNCHANGED <<tokens, minted, uses>> PROVE TokensInv'
  BY <1>1, <1>6
<1>7. ASSUME NEW c \in Conn, Connect(c) \/ GiveUp(c) \/ PendingAges(c) PROVE TokensInv'
  BY <1>6, <1>7 DEF Connect, GiveUp, PendingAges
<1>8. ASSUME NEW c \in Conn, NEW k \in Key, Offer(c, k) \/ Prove(c, k) PROVE TokensInv'
  BY <1>6, <1>8 DEF Offer, Prove
<1>9. ASSUME NEW b \in Browser, Add(b) \/ Conflict(b) PROVE TokensInv'
  BY <1>6, <1>9 DEF Add, Conflict, Elsewhere
<1>10. ASSUME NEW b \in Browser, NEW t \in Token, NEW u \in User, Open(b, t, u) PROVE TokensInv'
  BY <1>6, <1>10 DEF Open, Elsewhere
<1>11. ASSUME NEW k \in Key, RemoveLookup(k) PROVE TokensInv'
  BY <1>6, <1>11 DEF RemoveLookup
<1>12. CASE RemoveWrite \/ RemoveFails
  BY <1>6, <1>12 DEF RemoveWrite, RemoveFails
<1>13. CASE UNCHANGED vars
  BY <1>6, <1>13 DEF vars
<1> QED
  BY <1>2, <1>3, <1>4, <1>5, <1>7, <1>8, <1>9, <1>10, <1>11, <1>12, <1>13 DEF Next

-----------------------------------------------------------------------------
(* The theorems.                                                           *)

LEMMA InitIInv == Init => IInv
BY InitTypes DEF Init, IInv, OffersInv, TokensInv, PendingInv

LEMMA NextIInv == IInv /\ [Next]_vars => IInv'
BY NextTypes, NextHandshakes, NextTokens DEF IInv

\* The invariant of authentication and enrollment is inductive.
THEOREM Inductive == Spec => []IInv
BY InitIInv, NextIInv, PTL DEF Spec

\* A connection is authenticated as the owner of a key it signed with.
THEOREM IdentityIsTheSigners == Spec => []RightIdentity
<1>1. IInv => RightIdentity
  BY DEF IInv, OffersInv, RightIdentity
<1> QED
  BY <1>1, Inductive, PTL

\* A link works at most once.
THEOREM LinksWorkOnce == Spec => []SingleUse
<1>1. IInv => SingleUse
  BY DEF IInv, TokensInv, SingleUse
<1> QED
  BY <1>1, Inductive, PTL

\* A registered key changes hands only through ssh-remove-key.
THEOREM KeysKeepTheirOwner == Spec => OneOwner
<1>1. TypeOK /\ [Next]_vars =>
        \A k \in Key : keys[k] # None /\ keys'[k] # keys[k] => keys'[k] = None /\ removal = k
  <2> SUFFICES ASSUME TypeOK, [Next]_vars, NEW k \in Key, keys[k] # None, keys'[k] # keys[k]
               PROVE  keys'[k] = None /\ removal = k
    OBVIOUS
  <2>1. ASSUME NEW b \in Browser, Add(b) PROVE FALSE
    BY <2>1 DEF TypeOK, Add, AddKey
  <2>2. RemoveWrite
    BY <2>1 DEF Next, vars, Connect, KeyboardInteractive, GiveUp, PendingAges, Offer, Prove,
                TokenExpires, Open, Consume, Conflict, RemoveLookup, RemoveFails, Restart
  <2> QED
    BY <2>2 DEF RemoveWrite, TypeOK
<1>2. IInv => TypeOK
  BY DEF IInv
<1> QED
  BY <1>1, <1>2, Inductive, PTL DEF Spec, OneOwner

\* A link is handed out only for a key that was nobody's during the handshake.
THEOREM EnrolledWereUnknown == Spec => OnlyUnknownEnrolled
<1>1. IInv /\ [Next]_vars =>
        \A c \in Conn : \A t \in Token :
          t \notin minted /\ t \in minted' /\ pending[c] # None /\ pending'[c] = None /\ ~pending[c].old
            => <<tokens'[t].key, None>> \in owners[c]
  <2> SUFFICES ASSUME IInv, [Next]_vars, NEW c \in Conn, NEW t \in Token,
                      t \notin minted, t \in minted',
                      pending[c] # None, pending'[c] = None, ~pending[c].old
               PROVE  <<tokens'[t].key, None>> \in owners[c]
    OBVIOUS
  <2>1. PICK d \in Conn : KeyboardInteractive(d)
    BY DEF Next, vars, Connect, GiveUp, PendingAges, Offer, Prove, TokenExpires, Open,
           Consume, Add, Conflict, RemoveLookup, RemoveWrite, RemoveFails, Restart, Elsewhere
  <2>2. c = d
    BY <2>1 DEF KeyboardInteractive, Kept
  <2>3. PICK u \in Token : Mint(u, pending[c].key)
    BY <2>1, <2>2 DEF KeyboardInteractive
  <2>4. u = t
    BY <2>3 DEF Mint
  <2>5. tokens'[t].key = pending[c].key
    BY <2>3, <2>4 DEF Mint
  <2> QED
    BY <2>5 DEF IInv, PendingInv
<1> QED
  BY <1>1, Inductive, PTL DEF Spec, OnlyUnknownEnrolled
=============================================================================
