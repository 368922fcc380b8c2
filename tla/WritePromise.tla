---------------------------- MODULE WritePromise ----------------------------
(***************************************************************************)
(* What the stores take WithWriteTx to be: one step that happens whole, on *)
(* top of everything that has happened before, or does not happen; and a   *)
(* caller who is told that it did.  A caller who is told of a failure may  *)
(* have been heard all the same.                                           *)
(***************************************************************************)
EXTENDS Naturals, Sequences

CONSTANTS Call

VARIABLES
  log,   \* the writes, in the order they happened
  base,  \* per call, how many writes it had seen when it decided what to write
  told   \* per call, what its caller knows

promiseVars == <<log, base, told>>

PromiseInit ==
  /\ log = <<>>
  /\ base \in [Call -> {0}]
  /\ told = [c \in Call |-> "nothing"]

Happened(c) == \E i \in DOMAIN log : log[i] = c

\* c reads: what it writes depends on all that has happened.
Decide(c) ==
  /\ told[c] = "nothing" /\ ~Happened(c)
  /\ base' = [base EXCEPT ![c] = Len(log)]
  /\ UNCHANGED <<log, told>>

Happen(c) ==
  /\ told[c] = "nothing" /\ ~Happened(c)
  /\ base[c] = Len(log)
  /\ log' = Append(log, c)
  /\ UNCHANGED <<base, told>>

TellDone(c) ==
  /\ told[c] = "nothing" /\ Happened(c)
  /\ told' = [told EXCEPT ![c] = "done"]
  /\ UNCHANGED <<log, base>>

TellFailed(c) ==
  /\ told[c] = "nothing"
  /\ told' = [told EXCEPT ![c] = "failed"]
  /\ UNCHANGED <<log, base>>

PromiseNext == \E c \in Call : Decide(c) \/ Happen(c) \/ TellDone(c) \/ TellFailed(c)

PromiseSpec == PromiseInit /\ [][PromiseNext]_promiseVars
=============================================================================
