---------------------------- MODULE MCHostSetup ----------------------------
(* Two process numbers, so that two starts can overlap.                     *)
EXTENDS HostSetup, TLC

CONSTANTS p1, p2, k1, k2, k3, o1
\* A set-up command touches what no server reads until its last step, so the
\* servers run between commands, on a host without a set-up or with a
\* complete one, and commands are given where no server runs.
Quiet == setup = 0 /\ (host = {} \/ "enable" \in host)
Idle == (\A p \in Pid : pc[p] = "free") /\ (\A o \in Shell : sh[o] = IdleShell)
MCNext ==
  \/ Quiet /\ StartUpNext /\ UNCHANGED hostVars
  \/ Idle /\ BeginSetup
  \/ DoStep \/ StepFails \/ Reboot
MCSpec == HostInit /\ [][MCNext]_allVars /\ StartUpFairness

MCKeyFile == <<"host">>
=============================================================================
