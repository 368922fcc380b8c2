------------------------------ MODULE StartUp ------------------------------
(* How a server process comes up, and how two of them can meet.  main() is  *)
(* run by an operator's --daemon command or by a service manager; run()     *)
(* loads the configuration, opens the database, loads or creates the SSH    *)
(* host and CA keys, reads known_hosts and binds its listeners.  Nothing    *)
(* but the pid file and the ports keeps two servers apart, and the key      *)
(* files are written without a lock or a rename.                            *)
(*                                                                          *)
(* Abstracted: the HTTP listener and the SSH listeners are two ports; a key *)
(* is a model value; opening the database (with its migrations) either      *)
(* succeeds or ends the process.  Not covered: a deployment without SSH,    *)
(* which loads no keys and binds one port.                                  *)
EXTENDS Naturals, FiniteSets, Sequences

CONSTANTS
  Pid,        \* process numbers
  Shell,      \* operators running `forge-proxy --daemon`
  KeyFile,    \* the private key files, in the order run() loads them
  Key,        \* Ed25519 keys
  Nil

\* run() loads at least one key; keys do not run out, however many servers die
\* with a key of their own.
ASSUME StartUpAssumption ==
  /\ IsFiniteSet(Pid) /\ IsFiniteSet(Key) /\ KeyFile \in Seq(STRING) /\ KeyFile # <<>>
  /\ Cardinality(Key) >= Len(KeyFile) * (Cardinality(Pid) + 1)
  /\ Nil \notin Pid \cup Key

VARIABLES
  pc,         \* what each process number is doing
  at,         \* which key file a starting server is at
  signer,     \* the keys a server holds in memory
  held,       \* the ports a server has bound
  alone,      \* history: no other start has overlapped this server's
  file,       \* the private key files on disk
  pidFile,    \* the pid file
  sh,         \* the operators' commands: stage and child
  service,    \* the service manager: told to run it, and the process it started
  phase       \* "bare" until the env file is in place,
              \* "calm" once nothing fails and nobody interferes any more

server == <<pc, at, signer, held, alone>>
startUpVars == <<server, file, pidFile, sh, service, phase>>

Calm == phase = "calm"

Listeners == {"http", "ssh"}
Loading == {"load", "read", "create", "write", "publish", "known"}
Files == DOMAIN KeyFile

Server(p) == pc[p] \in Loading \cup {"up"}
Starting(p) == pc[p] \in Loading
Serving(p) == pc[p] = "up" /\ held[p] = Listeners

\* A process number that no process has, living or not yet waited for.
Unused(p) ==
  /\ pc[p] = "free" /\ service.main # p
  /\ \A o \in Shell : sh[o].child # p

StartUpTypeOK ==
  /\ pc \in [Pid -> Loading \cup {"free", "other", "up"}]
  /\ at \in [Pid -> Files]
  /\ signer \in [Pid -> [Files -> Key \cup {Nil}]]
  /\ held \in [Pid -> SUBSET Listeners]
  /\ alone \in [Pid -> BOOLEAN]
  /\ file \in [Files -> Key \cup {Nil, "torn"}]
  /\ pidFile \in Pid \cup {Nil, "torn"}
  /\ sh \in [Shell -> [stage: {"idle", "checked", "forked", "emptied"},
                       child: Pid \cup {Nil}]]
  /\ service \in [active: BOOLEAN, main: Pid \cup {Nil}]
  /\ phase \in {"bare", "prepared", "calm"}
  \* a port has one owner, and only a server past its start has one
  /\ \A p \in Pid : held[p] # {} => pc[p] = "up"
  /\ \A p, q \in Pid : p # q => held[p] \cap held[q] = {}

NoKeys == [f \in Files |-> Nil]
IdleShell == [stage |-> "idle", child |-> Nil]

StartUpInit ==
  /\ pc = [p \in Pid |-> "free"]
  /\ at = [p \in Pid |-> 1]
  /\ signer = [p \in Pid |-> NoKeys]
  /\ held = [p \in Pid |-> {}]
  /\ alone = [p \in Pid |-> FALSE]
  /\ file = NoKeys
  /\ pidFile = Nil
  /\ sh = [o \in Shell |-> IdleShell]
  /\ service = [active |-> FALSE, main |-> Nil]
  /\ phase = "bare"

---------------------------------------------------------------------------
(* A server's life.                                                         *)

\* main() in a process of its own: run() begins.
Spawn(p) ==
  /\ Unused(p)
  /\ pc' = [pc EXCEPT ![p] = "load"]
  /\ alone' = [q \in Pid |-> IF q = p THEN \A r \in Pid : ~Starting(r)
                             ELSE alone[q] /\ ~Starting(q)]
  /\ UNCHANGED <<at, signer, held>>

\* The processes in gone are no more: what they held in memory and their
\* ports are gone with them, what they wrote stays.
End(gone) ==
  /\ pc' = [p \in Pid |-> IF p \in gone THEN "free" ELSE pc[p]]
  /\ at' = [p \in Pid |-> IF p \in gone THEN 1 ELSE at[p]]
  /\ signer' = [p \in Pid |-> IF p \in gone THEN NoKeys ELSE signer[p]]
  /\ held' = [p \in Pid |-> IF p \in gone THEN {} ELSE held[p]]
  /\ alone' = [p \in Pid |-> p \notin gone /\ alone[p]]

\* config.Load and db.Open succeed.
LoadStores(p) ==
  /\ pc[p] = "load" /\ phase # "bare"
  /\ pc' = [pc EXCEPT ![p] = "read"]
  /\ UNCHANGED <<at, signer, held, alone, file, pidFile, sh, service, phase>>

\* Without its environment file the process gives up.
Unprepared(p) ==
  /\ pc[p] = "load" /\ phase = "bare"
  /\ End({p})
  /\ UNCHANGED <<file, pidFile, sh, service, phase>>

\* The key of the current file is in hand: on to the next file, if any.
HaveKey(p, k) ==
  /\ signer' = [signer EXCEPT ![p][at[p]] = k]
  /\ IF at[p] = Len(KeyFile)
     THEN pc' = [pc EXCEPT ![p] = "known"] /\ UNCHANGED at
     ELSE pc' = [pc EXCEPT ![p] = "read"] /\ at' = [at EXCEPT ![p] = @ + 1]

\* LoadOrGenerate finds a key and keeps it.
LoadKey(p) ==
  /\ pc[p] = "read" /\ file[at[p]] \in Key
  /\ HaveKey(p, file[at[p]])
  /\ UNCHANGED <<held, alone, file, pidFile, sh, service, phase>>

\* LoadOrGenerate finds a file that does not parse: the process gives up.
RefuseKey(p) ==
  /\ pc[p] = "read" /\ file[at[p]] = "torn"
  /\ End({p})
  /\ UNCHANGED <<file, pidFile, sh, service, phase>>

\* A key that no file and no process has.
Held == {signer[q][f] : q \in Pid, f \in Files} \cup {file[f] : f \in Files}
NewKey == CHOOSE k \in Key : k \notin Held

\* LoadOrGenerate finds no file and makes a key.
GenerateKey(p) ==
  /\ pc[p] = "read" /\ file[at[p]] = Nil
  /\ signer' = [signer EXCEPT ![p][at[p]] = NewKey]
  /\ pc' = [pc EXCEPT ![p] = "create"]
  /\ UNCHANGED <<at, held, alone, file, pidFile, sh, service, phase>>

\* os.WriteFile opens the private key file, emptying it ...
CreateFile(p) ==
  /\ pc[p] = "create"
  /\ file' = [file EXCEPT ![at[p]] = "torn"]
  /\ pc' = [pc EXCEPT ![p] = "write"]
  /\ UNCHANGED <<at, signer, held, alone, pidFile, sh, service, phase>>

\* ... and writes it.
WriteKey(p) ==
  /\ pc[p] = "write"
  /\ file' = [file EXCEPT ![at[p]] = signer[p][at[p]]]
  /\ pc' = [pc EXCEPT ![p] = "publish"]
  /\ UNCHANGED <<at, signer, held, alone, pidFile, sh, service, phase>>

\* Mutant: the process goes on with the key it has in memory.
BugKeyWriteFails(p) ==
  /\ pc[p] \in {"create", "write"} /\ ~Calm
  /\ HaveKey(p, signer[p][at[p]])
  /\ UNCHANGED <<held, alone, file, pidFile, sh, service, phase>>

\* The write of the private key fails: the process gives up.
KeyWriteFails(p) ==
  /\ pc[p] \in {"create", "write"} /\ ~Calm
  /\ End({p})
  /\ UNCHANGED <<file, pidFile, sh, service, phase>>

\* The public half is written next to it.
WritePublic(p) ==
  /\ pc[p] = "publish"
  /\ HaveKey(p, signer[p][at[p]])
  /\ UNCHANGED <<held, alone, file, pidFile, sh, service, phase>>

\* Mutant: the half that was written is taken back.
BugPublicFails(p) ==
  /\ pc[p] = "publish" /\ ~Calm
  /\ file' = [file EXCEPT ![at[p]] = Nil]
  /\ End({p})
  /\ UNCHANGED <<pidFile, sh, service, phase>>

\* The public half cannot be written: the process gives up, the private half
\* stays.
PublicFails(p) ==
  /\ pc[p] = "publish" /\ ~Calm
  /\ End({p})
  /\ UNCHANGED <<file, pidFile, sh, service, phase>>

\* known_hosts is read; the HTTP and the SSH listeners start side by side.
ReadKnownHosts(p) ==
  /\ pc[p] = "known"
  /\ pc' = [pc EXCEPT ![p] = "up"]
  /\ UNCHANGED <<at, signer, held, alone, file, pidFile, sh, service, phase>>

\* Mutant: the listeners share their ports (SO_REUSEPORT).
BugBindListener(p, port) ==
  /\ pc[p] = "up" /\ port \notin held[p]
  /\ held' = [held EXCEPT ![p] = @ \cup {port}]
  /\ UNCHANGED <<pc, at, signer, alone, file, pidFile, sh, service, phase>>

\* A listener gets a port nobody listens on.
BindListener(p, port) ==
  /\ pc[p] = "up" /\ \A q \in Pid : port \notin held[q]
  /\ held' = [held EXCEPT ![p] = @ \cup {port}]
  /\ UNCHANGED <<pc, at, signer, alone, file, pidFile, sh, service, phase>>

\* Mutant: the process goes on with the listeners it has.
BugPortTaken(p, port) ==
  /\ pc[p] = "up" /\ \E q \in Pid \ {p} : port \in held[q]
  /\ UNCHANGED startUpVars

\* A listener that cannot bind ends the process, with the other listener.
PortTaken(p, port) ==
  /\ pc[p] = "up" /\ \E q \in Pid \ {p} : port \in held[q]
  /\ End({p})
  /\ UNCHANGED <<file, pidFile, sh, service, phase>>

\* A server is killed, crashes, or fails at anything it needs to start: the
\* configuration, the database, known_hosts.
Dies(p) ==
  /\ Server(p) /\ ~Calm
  /\ End({p})
  /\ UNCHANGED <<file, pidFile, sh, service, phase>>

---------------------------------------------------------------------------
(* forge-proxy --daemon.                                                    *)

\* Mutant: only a malformed file or a missing one is looked at.
BugStale(pid) == TRUE

\* What checkExistingPIDFile accepts: no file, no number in it, or no
\* process that answers signal 0.  A process of somebody else may refuse the
\* signal, which the code takes for an absent one.
Stale(pid) == pid \in Pid => pc[pid] = "other" \/ Unused(pid)

CheckPidFile(o) ==
  /\ sh[o].stage = "idle" /\ ~Calm
  /\ Stale(pidFile)
  /\ sh' = [sh EXCEPT ![o].stage = "checked"]
  /\ UNCHANGED <<server, file, pidFile, service, phase>>

\* The log file opens and the child starts.
Fork(o, p) ==
  /\ sh[o].stage = "checked"
  /\ Spawn(p)
  /\ sh' = [sh EXCEPT ![o] = [stage |-> "forked", child |-> p]]
  /\ UNCHANGED <<file, pidFile, service, phase>>

\* os.WriteFile empties the pid file ...
EmptyPidFile(o) ==
  /\ sh[o].stage = "forked"
  /\ pidFile' = "torn"
  /\ sh' = [sh EXCEPT ![o].stage = "emptied"]
  /\ UNCHANGED <<server, file, service, phase>>

\* ... writes it, and the command is done.
WritePidFile(o) ==
  /\ sh[o].stage = "emptied"
  /\ pidFile' = sh[o].child
  /\ sh' = [sh EXCEPT ![o] = IdleShell]
  /\ UNCHANGED <<server, file, service, phase>>

\* The pid file cannot be written: the command kills its child.
PidFileFails(o) ==
  /\ sh[o].stage \in {"forked", "emptied"} /\ ~Calm
  /\ End({sh[o].child})
  /\ sh' = [sh EXCEPT ![o] = IdleShell]
  /\ UNCHANGED <<file, pidFile, service, phase>>

\* The log file does not open, or the command is interrupted.
CutShort(o) ==
  /\ sh[o].stage # "idle" /\ ~Calm
  /\ sh' = [sh EXCEPT ![o] = IdleShell]
  /\ UNCHANGED <<server, file, pidFile, service, phase>>

---------------------------------------------------------------------------
(* The service manager, with Restart=on-failure.                            *)

\* It starts the service when it is told to run it and it does not run.
ServiceStarts(p) ==
  /\ service.active /\ service.main = Nil
  /\ Spawn(p)
  /\ service' = [service EXCEPT !.main = p]
  /\ UNCHANGED <<file, pidFile, sh, phase>>

\* It notices that the service has ended.
ServiceEnded ==
  /\ service.main # Nil /\ pc[service.main] = "free"
  /\ service' = [service EXCEPT !.main = Nil]
  /\ UNCHANGED <<server, file, pidFile, sh, phase>>

\* The service is stopped, or ends on a signal with nothing to restart.
ServiceStopped ==
  /\ service.active /\ ~Calm
  /\ service' = [active |-> FALSE, main |-> Nil]
  /\ End({service.main})
  /\ UNCHANGED <<file, pidFile, sh, phase>>

Manages == (\E p \in Pid : ServiceStarts(p)) \/ ServiceEnded

---------------------------------------------------------------------------
(* Around them.                                                             *)

\* Another program gets the process number the pid file names.  One at a
\* time: process numbers do not run out.
OtherProgram(p) ==
  /\ ~Calm /\ Unused(p) /\ pidFile = p
  /\ \A q \in Pid : pc[q] # "other"
  /\ pc' = [pc EXCEPT ![p] = "other"]
  /\ UNCHANGED <<at, signer, held, alone, file, pidFile, sh, service, phase>>

OtherEnds(p) ==
  /\ pc[p] = "other"
  /\ pc' = [pc EXCEPT ![p] = "free"]
  /\ UNCHANGED <<at, signer, held, alone, file, pidFile, sh, service, phase>>

\* The operator installs the environment file.
Prepare ==
  /\ phase = "bare" /\ phase' = "prepared"
  /\ UNCHANGED <<server, file, pidFile, sh, service>>

\* From now on nothing fails and no new command is given.
CalmDown ==
  /\ phase = "prepared" /\ phase' = "calm"
  /\ UNCHANGED <<server, file, pidFile, sh, service>>

\* What a server does by itself.
Runs(p) ==
  \/ LoadStores(p) \/ Unprepared(p)
  \/ LoadKey(p) \/ RefuseKey(p) \/ GenerateKey(p)
  \/ CreateFile(p) \/ WriteKey(p) \/ WritePublic(p)
  \/ ReadKnownHosts(p)

\* What an operator's command does by itself.
Commands(o) == (\E p \in Pid : Fork(o, p)) \/ EmptyPidFile(o) \/ WritePidFile(o)

StartUpNext ==
  \/ \E p \in Pid :
       \/ Runs(p) \/ KeyWriteFails(p) \/ PublicFails(p) \/ Dies(p)
       \/ OtherProgram(p) \/ OtherEnds(p)
       \/ \E port \in Listeners : BindListener(p, port) \/ PortTaken(p, port)
  \/ \E o \in Shell : CheckPidFile(o) \/ Commands(o) \/ PidFileFails(o) \/ CutShort(o)
  \/ Manages \/ ServiceStopped
  \/ Prepare \/ CalmDown

\* The goroutines of a live process run; a listener either binds or fails.
StartUpFairness ==
  /\ \A p \in Pid :
       /\ WF_startUpVars(Runs(p))
       /\ \A port \in Listeners : WF_startUpVars(BindListener(p, port) \/ PortTaken(p, port))
  /\ \A o \in Shell : WF_startUpVars(Commands(o))
  /\ WF_startUpVars(Manages)

---------------------------------------------------------------------------
(* The inductive invariant: what a start that no other overlapped has made  *)
(* of the key files, and why no later start undoes it.                      *)

\* A process that has not begun to load is at the first file.
AtFirst == \A p \in Pid : pc[p] \in {"free", "other", "load"} => at[p] = 1

Generating(p) == pc[p] \in {"create", "write"}

\* While a start is alone nobody else starts; once it has come up, nobody
\* else can be on the way to make a key.
AloneIsAlone ==
  \A p, q \in Pid : alone[p] /\ p # q =>
    /\ Starting(p) => ~Starting(q)
    /\ pc[p] = "up" => ~Generating(q)

\* The files a server has behind it: it holds their key.
Behind(p, f) ==
  \/ pc[p] \in {"known", "up"}
  \/ pc[p] = "publish" /\ f <= at[p]
  \/ Starting(p) /\ f < at[p]

KeysBehind ==
  \A p \in Pid :
    /\ Generating(p) => signer[p][at[p]] \in Key
    /\ alone[p] => \A f \in Files : Behind(p, f) => file[f] \in Key /\ signer[p][f] = file[f]

StartUpInv == StartUpTypeOK /\ AtFirst /\ AloneIsAlone /\ KeysBehind

---------------------------------------------------------------------------
(* What may never happen.                                                   *)

\* A server whose start no other start overlapped holds the keys that are on
\* disk, so the next start will hold them too: the CA key the upstreams were
\* told to trust, and the host key the clients remember (ca.go, generate).
ServedKeyIsOnDisk ==
  \A p \in Pid : Serving(p) /\ alone[p] => signer[p] = file

\* Key files that are whole, with no server between its decision to make a
\* key and the write of it.
Settled ==
  /\ \A f \in Files : file[f] \in Key
  /\ \A p \in Pid : ~Generating(p)

\* Once the keys are settled no crash, restart or overlapping start changes
\* them (ca.go, LoadOrGenerate).
KeysAreForever == [][Settled => Settled' /\ file' = file]_startUpVars

\* The pid file names a living server and no command is past its check.
Recorded(p) ==
  /\ pidFile = p /\ Server(p)
  /\ \A o \in Shell : sh[o].stage = "idle"

\* A server that is on record stays on record while it lives: a second
\* --daemon command neither takes its place nor spoils the file
\* (daemon.go, checkExistingPIDFile).
StaysOnRecord == [][\A p \in Pid : Recorded(p) /\ Server(p)' => Recorded(p)']_startUpVars

\* A process never stays with some of its listeners: it gets the others or
\* it ends (main.go, the select over the listeners' errors).
NoHalfService == \A p \in Pid : held[p] # {} ~> Serving(p) \/ held[p] = {}

\* A key file left half written: every start from now on is refused.
Spoilt(f) ==
  file[f] = "torn" /\ \A p \in Pid : ~(pc[p] = "write" /\ at[p] = f)

\* A service that is to run, with its files in place, is served in the end,
\* by its own process or by one that was there before it, whatever overlaps
\* with its start (Restart=on-failure in the unit, and the fatal errors of
\* run()).
ServiceComesUp ==
  Calm /\ service.active /\ (\A f \in Files : ~Spoilt(f))
    ~> \E p \in Pid : Serving(p)
=============================================================================
