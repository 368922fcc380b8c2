----------------------------- MODULE HostSetup -----------------------------
(* `forge-proxy setup systemd`: one command, run as root, that prepares the *)
(* host step by step and hands the server to systemd.  Each step may fail   *)
(* and end the command; the operator runs it again; the machine may restart *)
(* in between.  The server it starts is StartUp's.                          *)
EXTENDS StartUp

VARIABLES
  host,       \* the steps whose effect the host has
  setup       \* the step a running command is at, 0 without one

hostVars == <<host, setup>>
allVars == <<startUpVars, hostVars>>

\* runSetupSystemd, in its order.
Step == <<"group", "user", "data", "perms", "unit", "reload", "enable">>

\* What the unit file relies on: User=, Group=, ReadWritePaths=.
Needed == {"group", "user", "data", "unit"}

HostTypeOK ==
  /\ StartUpTypeOK
  /\ host \subseteq {Step[i] : i \in DOMAIN Step}
  /\ setup \in 0..Len(Step)

HostInit == StartUpInit /\ host = {} /\ setup = 0

\* The command gets past its checks (root, systemctl on the path).
BeginSetup ==
  /\ setup = 0 /\ ~Calm
  /\ setup' = 1
  /\ UNCHANGED <<startUpVars, host>>

\* After the last step the command is done.
Onward == IF setup = Len(Step) THEN 0 ELSE setup + 1

\* A step does its work, or finds it done; the last one also starts the
\* service.
DoStep ==
  /\ setup # 0
  /\ host' = host \cup {Step[setup]}
  /\ setup' = Onward
  /\ service' = [service EXCEPT !.active = @ \/ Step[setup] = "enable"]
  /\ UNCHANGED <<server, file, pidFile, sh, phase>>

\* Mutant: every failure is a warning.
BugStepFails ==
  /\ setup # 0 /\ ~Calm
  /\ setup' = Onward
  /\ UNCHANGED <<startUpVars, host>>

\* A step fails: the command ends, except that the env file's permissions
\* are worth a warning only.
StepFails ==
  /\ setup # 0 /\ ~Calm
  /\ setup' = IF Step[setup] = "perms" THEN Onward ELSE 0
  /\ UNCHANGED <<startUpVars, host>>

\* The machine restarts: what is on disk stays, /var/run may be emptied,
\* systemd loads the units it finds and runs the enabled ones.
Reboot ==
  /\ ~Calm
  /\ End(Pid)
  /\ sh' = [o \in Shell |-> IdleShell]
  /\ pidFile' \in {pidFile, Nil}
  /\ service' = [active |-> "enable" \in host, main |-> Nil]
  /\ host' = host \cup (IF "unit" \in host THEN {"reload"} ELSE {})
  /\ setup' = 0
  /\ UNCHANGED <<file, phase>>

HostNext ==
  \/ StartUpNext /\ UNCHANGED hostVars
  \/ BeginSetup \/ DoStep \/ StepFails \/ Reboot

HostSpec == HostInit /\ [][HostNext]_allVars /\ StartUpFairness

\* A command at a step has the effects of the steps before it, but for the
\* permissions that it may fail to set.
StepsBehind ==
  \A i \in DOMAIN Step : i < setup /\ Step[i] # "perms" => Step[i] \in host

\* The service is enabled last, and runs only where it is enabled.
EnabledLast ==
  /\ "enable" \in host => Needed \subseteq host
  /\ service.active => "enable" \in host

HostInv == HostTypeOK /\ StartUpInv /\ StepsBehind /\ EnabledLast

\* systemd never runs a service whose user, group or data directory it would
\* not find, however often the set-up failed half way, was run again or the
\* machine restarted (setup.go, runSetupSystemd: the unit comes after them).
ServiceHasItsHost == service.active => Needed \subseteq host
=============================================================================
