--------------------------- MODULE SessionPromise ---------------------------
(***************************************************************************)
(* What the session store promises its callers, without the table, the     *)
(* throttle, the flooring or the calls in flight: an ID is issued once,    *)
(* opened at most once, its deadline only moves forward and never beyond   *)
(* the cap fixed when it was issued, and it closes for ever - by sign-out  *)
(* at any time, by the janitor only once the deadline is past.             *)
(***************************************************************************)
EXTENDS Naturals

CONSTANTS Sid, Lifetime

VARIABLES
  now,      \* the wall clock
  phase,    \* where in its life each ID is
  born,     \* when it was issued
  deadline, \* the instant from which it no longer authenticates
  janitor   \* whether the janitor is at work

promiseVars == <<now, phase, born, deadline, janitor>>

PromiseInit ==
  /\ now = 0
  /\ phase = [s \in Sid |-> "unissued"]
  /\ born = [s \in Sid |-> 0]
  /\ deadline = [s \in Sid |-> 0]
  /\ janitor = FALSE

Issue(s) ==
  /\ phase[s] = "unissued"
  /\ phase' = [phase EXCEPT ![s] = "issued"]
  /\ born' = [born EXCEPT ![s] = now]
  /\ UNCHANGED <<now, deadline, janitor>>

\* The deadline of s alone moves, to any instant its cap allows.
MoveDeadline(s) ==
  /\ deadline' = [deadline EXCEPT ![s] = deadline'[s]]
  /\ deadline'[s] <= born[s] + Lifetime

Open(s) ==
  /\ phase[s] = "issued"
  /\ phase' = [phase EXCEPT ![s] = "open"]
  /\ MoveDeadline(s)
  /\ UNCHANGED <<now, born, janitor>>

Extend(s) ==
  /\ phase[s] = "open"
  /\ MoveDeadline(s)
  /\ deadline'[s] >= deadline[s]
  /\ UNCHANGED <<now, phase, born, janitor>>

Close(S) ==
  /\ phase' = [s \in Sid |-> IF s \in S THEN "closed" ELSE phase[s]]
  /\ deadline' = [s \in Sid |-> IF s \in S THEN 0 ELSE deadline[s]]
  /\ UNCHANGED <<now, born>>

InPhase(p) == {s \in Sid : phase[s] = p}

\* Sign-outs and the admin commands close what is open.
SignOut ==
  /\ \E S \in SUBSET InPhase("open") : Close(S)
  /\ UNCHANGED janitor

StartJanitor ==
  /\ janitor' = TRUE
  /\ UNCHANGED <<now, phase, born, deadline>>

\* The janitor closes only what is past its deadline.
Expire ==
  /\ janitor
  /\ \E S \in SUBSET {s \in InPhase("open") : deadline[s] < now} : Close(S)
  /\ janitor' = FALSE

\* A creation that fails, or that a crash cuts short, burns its ID; a crash
\* also stops the janitor.
Abandon ==
  /\ \E S \in SUBSET InPhase("issued") : Close(S)
  /\ janitor' \in {janitor, FALSE}

Pass ==
  /\ now' = now + 1
  /\ UNCHANGED <<phase, born, deadline, janitor>>

PromiseNext ==
  \/ \E s \in Sid : Issue(s) \/ Open(s) \/ Extend(s)
  \/ SignOut
  \/ StartJanitor
  \/ Expire
  \/ Abandon
  \/ Pass

PromiseSpec == PromiseInit /\ [][PromiseNext]_promiseVars
=============================================================================
