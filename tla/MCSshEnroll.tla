---------------------------- MODULE MCSshEnroll ----------------------------
(* The first handshake's client can sign with one of the keys it offers,   *)
(* the other's with both.                                                  *)
EXTENDS SshEnroll, TLC

CONSTANTS c1, c2, k1, k2
MCConn == {c1, c2}
MCKey == {k1, k2}
MCHolds == [c \in Conn |-> IF c = c1 THEN {k1} ELSE Key]
Interchange == Permutations(User) \cup Permutations(Token) \cup Permutations(Browser)
=============================================================================
