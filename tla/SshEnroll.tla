----------------------------- MODULE SshEnroll -----------------------------
(***************************************************************************)
(* Authentication and enrollment on the SSH side: the callbacks of         *)
(* internal/sshproxy that run during a handshake, the in-memory token      *)
(* store and the completion handler of internal/sshenroll, the ssh_keys    *)
(* table, and ssh-remove-key of the admin CLI.                             *)
(*                                                                         *)
(* A client offers keys one by one; an unknown one is remembered, and when *)
(* it falls through to keyboard-interactive it is given a URL with a token *)
(* bound to that key.  Whoever opens the URL signed in becomes the owner.  *)
(***************************************************************************)
EXTENDS Naturals, FiniteSets

CONSTANTS
  Key,     \* public keys, which are their fingerprints
  User,    \* accounts
  Token,   \* enrollment tokens: 32 random bytes, never drawn twice
  Conn,    \* handshakes
  Holds,   \* per handshake, the keys its client can sign with
  Browser, \* completion requests in flight
  None, Unknown

ASSUME HoldsAssumption == Holds \in [Conn -> SUBSET Key]

VARIABLES
  keys,     \* the ssh_keys table: per fingerprint, its owner
  tokens,   \* sshenroll.Store: per token, its key and whether its TTL is over
  minted,   \* history: the tokens drawn
  uses,     \* history: how often a token was consumed
  conn,     \* per handshake, what it is and who it authenticated as
  offer,    \* per handshake, the latest key and what PublicKeyCallback answered
  pending,  \* Server.pending: the last unknown key, and whether it is past its TTL
  browser,  \* per completion request, how far it is
  removal,  \* the key ssh-remove-key is about to remove
  owners    \* history: per handshake, the <<key, owner>> pairs since it began

vars == <<keys, tokens, minted, uses, conn, offer, pending, browser,
          removal, owners>>

Pending == [key : Key, old : BOOLEAN]
Offered == [key : Key, answer : User \cup {Unknown}]
Enrollment == [key : Key, expired : BOOLEAN]
Handshake ==
  [pc : {"auth", "in", "out"}, user : User \cup {None}, key : Key \cup {None}]
Completion ==
  [pc : {"consume", "add", "conflict"}, user : User, token : Token, key : Key \cup {None}]

ASSUME NoneAssumption ==
  /\ None \notin User \cup Key \cup Pending \cup Offered \cup Enrollment \cup Handshake \cup Completion
  /\ Unknown \notin User \cup {None}

TypeOK ==
  /\ keys \in [Key -> User \cup {None}]
  /\ tokens \in [Token -> Enrollment \cup {None}]
  /\ minted \in SUBSET Token
  /\ uses \in [Token -> Nat]
  /\ conn \in [Conn -> Handshake \cup {None}]
  /\ offer \in [Conn -> Offered \cup {None}]
  /\ pending \in [Conn -> Pending \cup {None}]
  /\ browser \in [Browser -> Completion \cup {None}]
  /\ removal \in Key \cup {None}
  /\ owners \in [Conn -> SUBSET (Key \X (User \cup {None}))]

Init ==
  /\ keys = [k \in Key |-> None]
  /\ tokens = [t \in Token |-> None]
  /\ minted = {} /\ uses = [t \in Token |-> 0]
  /\ conn = [c \in Conn |-> None]
  /\ offer = [c \in Conn |-> None]
  /\ pending = [c \in Conn |-> None]
  /\ browser = [b \in Browser |-> None]
  /\ removal = None
  /\ owners = [c \in Conn |-> {}]

Handshaking(c) == conn[c] # None /\ conn[c].pc = "auth"
Pairs(table) == {<<k, table[k]>> : k \in Key}
Observe == owners' = [c \in Conn |-> IF conn[c] = None THEN {} ELSE owners[c] \cup Pairs(keys')]

-----------------------------------------------------------------------------
(* Mutants: plausible bugs the properties must notice.                     *)

\* A failed lookup leaves the identity an earlier key of the handshake set.
BugAnswer(c, k) ==
  IF keys[k] # None THEN keys[k]
  ELSE IF offer[c] # None THEN offer[c].answer ELSE Unknown

\* Registration overwrites the owner.
BugAddKey(k, u) == keys' = [keys EXCEPT ![k] = u]

\* Every offered key is remembered for enrollment, known ones too.
BugRemember(c, k) == pending' = [pending EXCEPT ![c] = [key |-> k, old |-> FALSE]]

-----------------------------------------------------------------------------
(* The handshake, as x/crypto/ssh drives it.                               *)

Connect(c) ==
  /\ conn[c] = None
  /\ conn' = [conn EXCEPT ![c] = [pc |-> "auth", user |-> None, key |-> None]]
  /\ owners' = [owners EXCEPT ![c] = Pairs(keys)]
  /\ UNCHANGED <<keys, tokens, minted, uses, offer, pending, browser, removal>>

\* PublicKeyCallback.  The library remembers the answer for the latest key
\* only: a client that goes back to an earlier key, to sign with it or to ask
\* again, has it looked up again.  A known key clears the pending record before
\* possession is proven; an unknown one replaces it.
Answer(c, k) == IF keys[k] = None THEN Unknown ELSE keys[k]
Remember(c, k) ==
  pending' = [pending EXCEPT ![c] =
    IF keys[k] = None THEN [key |-> k, old |-> FALSE] ELSE None]

Offer(c, k) ==
  /\ Handshaking(c) /\ (offer[c] # None => offer[c].key # k)
  /\ \/ /\ offer' = [offer EXCEPT ![c] = [key |-> k, answer |-> Answer(c, k)]]
        /\ Remember(c, k)
     \/ /\ offer' = [offer EXCEPT ![c] = [key |-> k, answer |-> Unknown]]
        /\ UNCHANGED pending   \* the query fails: refused, and not remembered
  /\ UNCHANGED <<keys, tokens, minted, uses, conn, browser, removal, owners>>

\* The signature: possession of a key the callback accepted; the Permissions
\* handed over are that key's.  handleConn then drops the pending record.
Prove(c, k) ==
  /\ Handshaking(c) /\ k \in Holds[c]
  /\ offer[c] # None /\ offer[c].key = k /\ offer[c].answer # Unknown
  /\ conn' = [conn EXCEPT ![c].pc = "in", ![c].user = offer[c].answer, ![c].key = k]
  /\ pending' = [pending EXCEPT ![c] = None]
  /\ UNCHANGED <<keys, tokens, minted, uses, offer, browser, removal, owners>>

\* keyboardInteractiveCallback: sweep every record past its TTL, one's own
\* included, then take one's own and mint a token for it, sweeping the
\* expired tokens on the way.
Kept(d) == pending[d] # None /\ ~pending[d].old
Mint(t, k) ==
  /\ t \notin minted
  /\ minted' = minted \cup {t}
  /\ tokens' = [u \in Token |->
       IF u = t THEN [key |-> k, expired |-> FALSE]
       ELSE IF tokens[u] # None /\ tokens[u].expired THEN None ELSE tokens[u]]

KeyboardInteractive(c) ==
  /\ Handshaking(c)
  /\ pending' = [d \in Conn |-> IF Kept(d) /\ d # c THEN pending[d] ELSE None]
  /\ \/ Kept(c) /\ \E t \in Token : Mint(t, pending[c].key)
     \/ ~Kept(c) /\ UNCHANGED <<tokens, minted>>
  /\ UNCHANGED <<keys, uses, conn, offer, browser, removal, owners>>

\* The client gives up, or runs out of attempts; its pending record stays
\* until somebody's keyboard-interactive sweeps it.
GiveUp(c) ==
  /\ Handshaking(c)
  /\ conn' = [conn EXCEPT ![c].pc = "out"]
  /\ UNCHANGED <<keys, tokens, minted, uses, offer, pending, browser, removal, owners>>

\* Ten seconds, ten minutes.
PendingAges(c) ==
  /\ Kept(c)
  /\ pending' = [pending EXCEPT ![c].old = TRUE]
  /\ UNCHANGED <<keys, tokens, minted, uses, conn, offer, browser, removal, owners>>

TokenExpires(t) ==
  /\ tokens[t] # None /\ ~tokens[t].expired
  /\ tokens' = [tokens EXCEPT ![t].expired = TRUE]
  /\ UNCHANGED <<keys, minted, uses, conn, offer, pending, browser, removal, owners>>

\* The tokens and the handshakes are in memory.
Restart ==
  /\ tokens' = [t \in Token |-> None]
  /\ conn' = [c \in Conn |-> IF conn[c] = None THEN None ELSE [conn[c] EXCEPT !.pc = "out"]]
  /\ pending' = [c \in Conn |-> None]
  /\ browser' = [b \in Browser |-> None]
  /\ UNCHANGED <<keys, minted, uses, offer, removal, owners>>

-----------------------------------------------------------------------------
(* HandleComplete.                                                         *)

At(b, pc) == browser[b] # None /\ browser[b].pc = pc
Elsewhere == <<minted, conn, offer, pending, removal>>

\* The session and the user are read first; a request without either never
\* gets to the token.
Open(b, t, u) ==
  /\ browser[b] = None /\ t \in minted
  /\ browser' = [browser EXCEPT ![b] = [pc |-> "consume", user |-> u, token |-> t, key |-> None]]
  /\ UNCHANGED <<keys, tokens, uses, owners>> /\ UNCHANGED Elsewhere

\* Store.Consume removes the entry whether or not it has expired.
Take(t) == tokens' = [tokens EXCEPT ![t] = None]

\* The page is rendered: registered, taken, or "this link is invalid".
Respond(b) == browser' = [browser EXCEPT ![b] = None]

Consume(b) ==
  /\ At(b, "consume")
  /\ LET t == browser[b].token IN
     \/ /\ tokens[t] # None /\ ~tokens[t].expired
        /\ browser' = [browser EXCEPT ![b].pc = "add", ![b].key = tokens[t].key]
        /\ uses' = [uses EXCEPT ![t] = @ + 1]
        /\ Take(t)
     \/ /\ tokens[t] # None /\ tokens[t].expired
        /\ Take(t) /\ Respond(b)
        /\ UNCHANGED uses
     \/ /\ tokens[t] = None
        /\ Respond(b)
        /\ UNCHANGED <<tokens, uses>>
  /\ UNCHANGED <<keys, owners>> /\ UNCHANGED Elsewhere

\* INSERT under the UNIQUE fingerprint.
AddKey(k, u) == keys[k] = None /\ keys' = [keys EXCEPT ![k] = u]

Add(b) ==
  /\ At(b, "add")
  /\ LET k == browser[b].key IN
     \/ AddKey(k, browser[b].user) /\ Respond(b)
     \/ /\ keys[k] # None
        /\ browser' = [browser EXCEPT ![b].pc = "conflict"]
        /\ UNCHANGED keys
     \/ Respond(b) /\ UNCHANGED keys   \* the write fails; the token is spent
  /\ Observe
  /\ UNCHANGED <<tokens, uses>> /\ UNCHANGED Elsewhere

\* On a conflict the owner is read by a query of its own, and the page says
\* whether it is the caller; nothing else depends on it.
Conflict(b) ==
  /\ At(b, "conflict")
  /\ Respond(b)
  /\ UNCHANGED <<keys, tokens, uses, owners>> /\ UNCHANGED Elsewhere

-----------------------------------------------------------------------------
(* forge-proxy admin ssh-remove-key: look the key up, then delete it.      *)

RemoveLookup(k) ==
  /\ removal = None /\ keys[k] # None
  /\ removal' = k
  /\ UNCHANGED <<keys, tokens, minted, uses, conn, offer, pending, browser, owners>>

RemoveWrite ==
  /\ removal # None
  /\ keys' = [keys EXCEPT ![removal] = None]
  /\ removal' = None
  /\ Observe
  /\ UNCHANGED <<tokens, minted, uses, conn, offer, pending, browser>>

RemoveFails ==
  /\ removal # None
  /\ removal' = None
  /\ UNCHANGED <<keys, tokens, minted, uses, conn, offer, pending, browser, owners>>

Next ==
  \/ \E c \in Conn : \/ Connect(c) \/ KeyboardInteractive(c) \/ GiveUp(c) \/ PendingAges(c)
                     \/ \E k \in Key : Offer(c, k) \/ Prove(c, k)
  \/ \E t \in Token : TokenExpires(t)
  \/ \E b \in Browser : \/ \E t \in Token, u \in User : Open(b, t, u)
                        \/ Consume(b) \/ Add(b) \/ Conflict(b)
  \/ \E k \in Key : RemoveLookup(k)
  \/ RemoveWrite \/ RemoveFails \/ Restart

Spec == Init /\ [][Next]_vars

-----------------------------------------------------------------------------
(* The inductive invariant.                                                *)

\* What a handshake holds was true of the keys table at some instant of it.
OffersInv ==
  \A c \in Conn :
    /\ conn[c] # None => Pairs(keys) \subseteq owners[c]
    /\ offer[c] # None =>
         /\ conn[c] # None
         /\ offer[c].answer # Unknown => <<offer[c].key, offer[c].answer>> \in owners[c]
    /\ conn[c] # None /\ conn[c].pc = "in" =>
         /\ conn[c].key \in Holds[c] /\ conn[c].user \in User
         /\ <<conn[c].key, conn[c].user>> \in owners[c]

\* A token is drawn once, and gone once it has been used.
TokensInv ==
  \A t \in Token :
    /\ t \notin minted => tokens[t] = None /\ uses[t] = 0
    /\ uses[t] <= 1
    /\ uses[t] = 1 => tokens[t] = None

PendingInv ==
  \A c \in Conn : pending[c] # None => /\ conn[c] # None
                                      /\ <<pending[c].key, None>> \in owners[c]

IInv == TypeOK /\ OffersInv /\ TokensInv /\ PendingInv

-----------------------------------------------------------------------------
(* Properties.                                                             *)

\* Whatever keys a client offers without being able to sign, and in whatever
\* order, a connection is authenticated as the owner of a key it signed with,
\* an owner that key had since the connection began.
RightIdentity ==
  \A c \in Conn : conn[c] # None /\ conn[c].pc = "in" =>
    /\ conn[c].key \in Holds[c]
    /\ conn[c].user \in User
    /\ <<conn[c].key, conn[c].user>> \in owners[c]

\* A registered key changes hands only through ssh-remove-key, however many
\* URLs for it are being completed.
OneOwner ==
  [][\A k \in Key : keys[k] # None /\ keys'[k] # keys[k] => keys'[k] = None /\ removal = k]_vars

\* A token lets one completion through, concurrent ones included, and after
\* that no other, expiry and restarts notwithstanding.
SingleUse == \A t \in Token : uses[t] <= 1

\* A URL is only ever handed out for a key that was nobody's at some instant of
\* the handshake that asks for it.
OnlyUnknownEnrolled ==
  [][\A c \in Conn : \A t \in Token :
       t \notin minted /\ t \in minted' /\ pending[c] # None /\ pending'[c] = None /\ ~pending[c].old
         => <<tokens'[t].key, None>> \in owners[c]]_vars
=============================================================================
