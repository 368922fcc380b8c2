---------------------------- MODULE MCSshServer ----------------------------
(* One listener, two connections, two users.  No symmetry: the run checks    *)
(* liveness.                                                                 *)
EXTENDS SshServer, TLC
=============================================================================
