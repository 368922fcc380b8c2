----------------------------- MODULE MCHotPath -----------------------------
(* One upstream behind an allowlist and one open to every member.          *)
EXTENDS HotPath, TLC

CONSTANTS gated, open, r1
MCRole == {r1}
MCHost == {gated, open}
MCRequired == [h \in Host |-> IF h = gated THEN {r1} ELSE {}]
=============================================================================
