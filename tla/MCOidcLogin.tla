---------------------------- MODULE MCOidcLogin ----------------------------
(***************************************************************************)
(* Two browsers, two sign-ins and three callbacks of a member of the       *)
(* workspace and a stranger.                                               *)
(***************************************************************************)
EXTENDS OidcLogin, TLC

Symmetry == Permutations(Browser) \cup Permutations(Attempt) \cup Permutations(Request)
=============================================================================
