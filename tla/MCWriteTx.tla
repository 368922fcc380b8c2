----------------------------- MODULE MCWriteTx -----------------------------
(***************************************************************************)
(* Two calls of the server and one of the admin CLI.                       *)
(***************************************************************************)
EXTENDS WriteTx

CONSTANTS c1, c2, c3, server, admin

CallerOf == [c \in {c1, c2, c3} |-> IF c = c3 THEN admin ELSE server]
=============================================================================
