----------------------------- MODULE SshServer -----------------------------
(***************************************************************************)
(* internal/sshproxy, Server: the listeners, the goroutine each connection *)
(* gets, the registry of live connections that Shutdown and force-close    *)
(* work from, and the shutdown sequence of cmd/forge-proxy that stops it.  *)
(*                                                                         *)
(* Only what happens under s.mu is one step.  Shutdown and forceClose copy *)
(* what they need out of the registry under the lock and act on the copy   *)
(* after it, while connections come, register, and go.                     *)
(***************************************************************************)
EXTENDS Naturals, FiniteSets

CONSTANTS
  Port,   \* the configured upstreams, one listener each
  Conn,   \* TCP connections
  User,   \* accounts
  None

VARIABLES
  main,     \* where run() of cmd/forge-proxy is
  sshCtx,   \* whether sshStop has cancelled the context Run was given
  run,      \* where Server.Run is
  listener, \* per port, the socket
  loop,     \* per port, the accept loop
  shut,     \* where Server.Shutdown is
  ports,    \* the listeners Shutdown copied
  copied,   \* the connections Shutdown copied
  conn,     \* per connection, where handleConn is
  port,     \* ... the listener it came in on
  user,     \* ... who authenticated
  closed,   \* ... whether its transport is closed
  cancelled,\* ... whether its own context is cancelled
  reg,      \* the registry: not in it, in it without identity, with identity
  victims,  \* what a force-close in progress has still to tear down
  sweeper   \* the session sweeper's goroutine

vars == <<main, sshCtx, run, listener, loop, shut, ports, copied, conn, port,
          user, closed, cancelled, reg, victims, sweeper>>

mainVars == <<main, sshCtx, sweeper>>
listenVars == <<run, listener, loop>>
shutVars == <<shut, ports, copied>>
connVars == <<conn, port, user, closed, cancelled, reg>>

Stage == {"none", "handshake", "accepted", "registered", "vetted", "dialing",
          "bridged", "leaving", "gone"}

TypeOK ==
  /\ main \in {"serving", "draining", "sshStop", "sshShutdown", "joinRun",
               "joinSweeper", "closed", "exited"}
  /\ sshCtx \in BOOLEAN
  /\ run \in {"binding", "waiting", "failed", "returned"}
  /\ listener \in [Port -> {"unbound", "open", "closed"}]
  /\ loop \in [Port -> {"none", "accepting", "broken", "stopped"}]
  /\ shut \in {"no", "copied", "closing", "waiting", "clean", "timeout"}
  /\ ports \in SUBSET Port
  /\ copied \in SUBSET Conn
  /\ conn \in [Conn -> Stage]
  /\ port \in [Conn -> Port \cup {None}]
  /\ user \in [Conn -> User \cup {None}]
  /\ closed \in [Conn -> BOOLEAN]
  /\ cancelled \in [Conn -> BOOLEAN]
  /\ reg \in [Conn -> {"out", "anonymous", "named"}]
  /\ victims \in SUBSET Conn
  /\ sweeper \in {"running", "stopping", "stopped"}

Init ==
  /\ main = "serving" /\ sshCtx = FALSE /\ sweeper = "running"
  /\ run = "binding"
  /\ listener = [p \in Port |-> "unbound"]
  /\ loop = [p \in Port |-> "none"]
  /\ shut = "no" /\ ports = {} /\ copied = {}
  /\ conn = [c \in Conn |-> "none"]
  /\ port = [c \in Conn |-> None]
  /\ user = [c \in Conn |-> None]
  /\ closed = [c \in Conn |-> FALSE]
  /\ cancelled = [c \in Conn |-> FALSE]
  /\ reg = [c \in Conn |-> "out"]
  /\ victims = {}

Up == main # "exited"

\* A handler's goroutine is counted in s.wg from Accept until handleConn returns.
Handling(c) == conn[c] \notin {"none", "gone"}
Registered(c) == reg[c] # "out"

-----------------------------------------------------------------------------
(* Mutants: plausible bugs the properties must notice.                     *)

\* Only the accept loops are counted in the wait group.
BugDrained == \A p \in Port : loop[p] # "accepting"

\* Shutdown waits for the handlers without a deadline.
BugShutdownDeadline == FALSE /\ UNCHANGED vars

\* force-close matches by what the connection authenticated as, registered or not.
BugNamed(u) == {c \in Conn : user[c] = u /\ Handling(c)}

\* force-close takes the victims out of the registry instead of ending them.
BugTearDown(c) ==
  /\ reg' = [reg EXCEPT ![c] = "out"]
  /\ UNCHANGED <<closed, cancelled>>

-----------------------------------------------------------------------------
(* Server.Run and the accept loops.                                        *)

\* net.Listen, appended to s.listeners, its accept loop started.  Run looks
\* at neither its context nor s.closed here.
Bind(p) ==
  /\ Up /\ run = "binding" /\ listener[p] = "unbound"
  /\ listener' = [listener EXCEPT ![p] = "open"]
  /\ loop' = [loop EXCEPT ![p] = "accepting"]
  /\ UNCHANGED <<run, victims>> /\ UNCHANGED mainVars
  /\ UNCHANGED shutVars /\ UNCHANGED connVars

BindFails ==
  /\ Up /\ run = "binding" /\ \E p \in Port : listener[p] = "unbound"
  /\ run' = IF shut = "no" THEN "failed" ELSE "returned"
  /\ UNCHANGED <<listener, loop, victims>> /\ UNCHANGED mainVars
  /\ UNCHANGED shutVars /\ UNCHANGED connVars

\* Once all are bound Run only waits for its context.
RunWaits ==
  /\ Up /\ run = "binding" /\ \A p \in Port : listener[p] # "unbound"
  /\ run' = "waiting"
  /\ UNCHANGED <<listener, loop, victims>> /\ UNCHANGED mainVars
  /\ UNCHANGED shutVars /\ UNCHANGED connVars

RunReturns ==
  /\ Up /\ run = "waiting" /\ sshCtx
  /\ run' = "returned"
  /\ UNCHANGED <<listener, loop, victims>> /\ UNCHANGED mainVars
  /\ UNCHANGED shutVars /\ UNCHANGED connVars

Accept(c, p) ==
  /\ Up /\ loop[p] = "accepting" /\ listener[p] = "open" /\ conn[c] = "none"
  /\ conn' = [conn EXCEPT ![c] = "handshake"]
  /\ port' = [port EXCEPT ![c] = p]
  /\ UNCHANGED <<user, closed, cancelled, reg, victims>> /\ UNCHANGED mainVars
  /\ UNCHANGED listenVars /\ UNCHANGED shutVars

\* Accept fails: because the listener was closed, or on a hard error (a full
\* file table), which ends the loop and leaves the socket listening.  Before a
\* shutdown the error is logged, and that is all.
LoopStops(p) ==
  /\ Up /\ loop[p] = "accepting" /\ listener[p] = "closed"
  /\ loop' = [loop EXCEPT ![p] = "stopped"]
  /\ UNCHANGED <<run, listener, victims>> /\ UNCHANGED mainVars
  /\ UNCHANGED shutVars /\ UNCHANGED connVars

LoopBreaks(p) ==
  /\ Up /\ loop[p] = "accepting" /\ listener[p] = "open"
  /\ loop' = [loop EXCEPT ![p] = IF shut = "no" /\ ~sshCtx THEN "broken" ELSE "stopped"]
  /\ UNCHANGED <<run, listener, victims>> /\ UNCHANGED mainVars
  /\ UNCHANGED shutVars /\ UNCHANGED connVars

-----------------------------------------------------------------------------
(* handleConn.                                                             *)

Go(c, from, to) ==
  /\ Up /\ conn[c] = from
  /\ conn' = [conn EXCEPT ![c] = to]
  /\ UNCHANGED <<port, victims>> /\ UNCHANGED mainVars
  /\ UNCHANGED listenVars /\ UNCHANGED shutVars

\* ssh.NewServerConn has no deadline: it returns when the client lets it.
HandshakeOk(c, u) ==
  /\ Go(c, "handshake", "accepted")
  /\ ~closed[c]
  /\ user' = [user EXCEPT ![c] = u]
  /\ UNCHANGED <<closed, cancelled, reg>>

HandshakeFails(c) ==
  /\ Go(c, "handshake", "leaving")
  /\ UNCHANGED <<user, closed, cancelled, reg>>

Register(c) ==
  /\ Go(c, "accepted", "registered")
  /\ reg' = [reg EXCEPT ![c] = "anonymous"]
  /\ UNCHANGED <<user, closed, cancelled>>

\* The user lookup and the role check, on the row as it is now; either may
\* refuse, and the lookup fails once Run's context is cancelled.
Vet(c) ==
  /\ \/ Go(c, "registered", "vetted") /\ ~sshCtx
     \/ Go(c, "registered", "leaving")
  /\ UNCHANGED <<user, closed, cancelled, reg>>

AttachIdentity(c) ==
  /\ Go(c, "vetted", "dialing")
  /\ reg' = [reg EXCEPT ![c] = "named"]
  /\ UNCHANGED <<user, closed, cancelled>>

\* The forwarder dials and shakes hands with the upstream.  Nothing cancels it
\* and the handshake has no deadline either.
Dialed(c) ==
  /\ Go(c, "dialing", "bridged") \/ Go(c, "dialing", "leaving")
  /\ UNCHANGED <<user, closed, cancelled, reg>>

\* Once it bridges, the forwarder returns when the client has gone or the
\* connection's context, a child of Run's, is cancelled.
HandleReturns(c) ==
  /\ closed[c] \/ cancelled[c] \/ sshCtx
  /\ Go(c, "bridged", "leaving")
  /\ UNCHANGED <<user, closed, cancelled, reg>>

Forget(c) == reg' = [reg EXCEPT ![c] = "out"]

\* The deferred calls: cancel, unregister, close both connections.
Leave(c) ==
  /\ Go(c, "leaving", "gone")
  /\ Forget(c)
  /\ closed' = [closed EXCEPT ![c] = TRUE]
  /\ cancelled' = [cancelled EXCEPT ![c] = TRUE]
  /\ UNCHANGED user

ClientDrops(c) ==
  /\ Up /\ Handling(c) /\ ~closed[c]
  /\ closed' = [closed EXCEPT ![c] = TRUE]
  /\ UNCHANGED <<conn, port, user, cancelled, reg, victims>> /\ UNCHANGED mainVars
  /\ UNCHANGED listenVars /\ UNCHANGED shutVars

-----------------------------------------------------------------------------
(* Server.forceClose: match under the lock, tear down after it.            *)

\* Entries without a cancel function have no identity yet and are skipped.
Named(u) == {c \in Conn : reg[c] = "named" /\ user[c] = u}

ForceClose(u) ==
  /\ Up /\ victims = {} /\ Named(u) # {}
  /\ victims' = Named(u)
  /\ UNCHANGED mainVars /\ UNCHANGED listenVars /\ UNCHANGED shutVars /\ UNCHANGED connVars

TearDown(c) ==
  /\ closed' = [closed EXCEPT ![c] = TRUE]
  /\ cancelled' = [cancelled EXCEPT ![c] = TRUE]
  /\ UNCHANGED reg

ForceCloseNext(c) ==
  /\ Up /\ c \in victims
  /\ TearDown(c)
  /\ victims' = victims \ {c}
  /\ UNCHANGED <<conn, port, user>>
  /\ UNCHANGED mainVars /\ UNCHANGED listenVars /\ UNCHANGED shutVars

-----------------------------------------------------------------------------
(* Server.Shutdown.                                                        *)

ShutdownCopies ==
  /\ main = "sshShutdown" /\ shut = "no"
  /\ shut' = "copied"
  /\ ports' = {p \in Port : listener[p] = "open"}
  /\ copied' = {c \in Conn : Registered(c)}
  /\ UNCHANGED victims /\ UNCHANGED mainVars /\ UNCHANGED listenVars /\ UNCHANGED connVars

ShutdownClosesListeners ==
  /\ shut = "copied" /\ Up
  /\ shut' = "closing"
  /\ listener' = [p \in Port |-> IF p \in ports THEN "closed" ELSE listener[p]]
  /\ UNCHANGED <<run, loop, ports, copied, victims>> /\ UNCHANGED mainVars /\ UNCHANGED connVars

ShutdownClosesConns ==
  /\ shut = "closing" /\ Up
  /\ shut' = "waiting"
  /\ closed' = [c \in Conn |-> closed[c] \/ c \in copied]
  /\ UNCHANGED <<ports, copied, conn, port, user, cancelled, reg, victims>>
  /\ UNCHANGED mainVars /\ UNCHANGED listenVars

\* s.wg counts the accept loops and the handlers.
Drained ==
  /\ \A p \in Port : loop[p] # "accepting"
  /\ \A c \in Conn : ~Handling(c)

ShutdownReturns(result) ==
  /\ Up /\ shut = "waiting"
  /\ shut' = result
  /\ UNCHANGED <<ports, copied, victims>>
  /\ UNCHANGED mainVars /\ UNCHANGED listenVars /\ UNCHANGED connVars

ShutdownClean == Drained /\ ShutdownReturns("clean")
ShutdownDeadline == ~Drained /\ ShutdownReturns("timeout")

-----------------------------------------------------------------------------
(* run() of cmd/forge-proxy.                                               *)

MainTo(from, to) ==
  /\ main = from
  /\ main' = to
  /\ UNCHANGED <<victims>> /\ UNCHANGED listenVars /\ UNCHANGED shutVars /\ UNCHANGED connVars

Signal == MainTo("serving", "draining") /\ UNCHANGED <<sshCtx, sweeper>>

\* A return ends in the deferred calls: sshStop and sweeperStop, then the
\* database is closed; nothing is waited for.
ReturnNow(from) ==
  /\ MainTo(from, "closed")
  /\ sshCtx' = TRUE
  /\ sweeper' = IF sweeper = "running" THEN "stopping" ELSE sweeper

\* The HTTP server fails, or Run reports that a port cannot be bound.
ServeFails == ReturnNow("serving")

\* The HTTP server drained, or its 30 seconds are over: run() returns an error.
Drain == MainTo("draining", "sshStop") /\ UNCHANGED <<sshCtx, sweeper>>
DrainDeadline == ReturnNow("draining")

SshStop == MainTo("sshStop", "sshShutdown") /\ sshCtx' = TRUE /\ UNCHANGED sweeper

\* A timeout of Shutdown is logged and the sequence goes on.
ShutdownDone ==
  /\ shut \in {"clean", "timeout"}
  /\ MainTo("sshShutdown", "joinRun")
  /\ UNCHANGED <<sshCtx, sweeper>>

JoinRun ==
  /\ run \in {"returned", "failed"}
  /\ MainTo("joinRun", "joinSweeper")
  /\ sweeper' = IF sweeper = "running" THEN "stopping" ELSE sweeper
  /\ UNCHANGED sshCtx

SweeperJoined == sweeper = "stopped"

JoinSweeper ==
  /\ SweeperJoined
  /\ MainTo("joinSweeper", "closed")
  /\ UNCHANGED <<sshCtx, sweeper>>

SweeperStops ==
  /\ Up /\ sweeper = "stopping"
  /\ sweeper' = "stopped"
  /\ UNCHANGED <<main, sshCtx, victims>>
  /\ UNCHANGED listenVars /\ UNCHANGED shutVars /\ UNCHANGED connVars

Exit == MainTo("closed", "exited") /\ UNCHANGED <<sshCtx, sweeper>>

Next ==
  \/ \E p \in Port : Bind(p) \/ LoopStops(p) \/ LoopBreaks(p) \/ \E c \in Conn : Accept(c, p)
  \/ BindFails \/ RunWaits \/ RunReturns
  \/ \E c \in Conn : \/ \E u \in User : HandshakeOk(c, u)
                     \/ HandshakeFails(c) \/ Register(c) \/ Vet(c) \/ AttachIdentity(c)
                     \/ Dialed(c) \/ HandleReturns(c) \/ Leave(c) \/ ClientDrops(c)
                     \/ ForceCloseNext(c)
  \/ \E u \in User : ForceClose(u)
  \/ ShutdownCopies \/ ShutdownClosesListeners \/ ShutdownClosesConns
  \/ ShutdownClean \/ ShutdownDeadline
  \/ Signal \/ ServeFails \/ Drain \/ DrainDeadline \/ SshStop \/ ShutdownDone
  \/ JoinRun \/ JoinSweeper \/ SweeperStops \/ Exit

Spec == Init /\ [][Next]_vars

\* What the runtime schedules and what a deadline ends.  Not fair: clients,
\* upstreams (a handshake with either may take for ever), the signal.
Fairness ==
  /\ \A p \in Port : WF_vars(Bind(p)) /\ WF_vars(LoopStops(p))
  /\ WF_vars(RunWaits) /\ WF_vars(RunReturns)
  /\ \A c \in Conn : /\ WF_vars(Register(c)) /\ WF_vars(Vet(c)) /\ WF_vars(AttachIdentity(c))
                     /\ WF_vars(HandleReturns(c)) /\ WF_vars(Leave(c))
                     /\ WF_vars(ForceCloseNext(c))
  /\ WF_vars(ShutdownCopies) /\ WF_vars(ShutdownClosesListeners) /\ WF_vars(ShutdownClosesConns)
  /\ WF_vars(ShutdownClean) /\ WF_vars(ShutdownDeadline)
  /\ WF_vars(DrainDeadline) /\ WF_vars(SshStop) /\ WF_vars(ShutdownDone)
  /\ WF_vars(JoinRun) /\ WF_vars(JoinSweeper) /\ WF_vars(SweeperStops) /\ WF_vars(Exit)

FairSpec == Spec /\ Fairness

-----------------------------------------------------------------------------
(* The inductive invariant.                                                *)

ConnInv ==
  \A c \in Conn :
    /\ conn[c] \in {"registered", "vetted"} => reg[c] = "anonymous"
    /\ conn[c] \in {"dialing", "bridged"} => reg[c] = "named"
    /\ conn[c] \in {"none", "handshake", "accepted", "gone"} => reg[c] = "out"
    /\ reg[c] = "named" => conn[c] \in {"dialing", "bridged", "leaving"}
    /\ conn[c] # "none" => port[c] \in Port
    /\ c \in victims => conn[c] \in {"dialing", "bridged", "leaving", "gone"}

\* What Shutdown copied stays closed, and once it is drained nothing refills it.
ShutInv ==
  /\ shut \in {"closing", "waiting", "clean", "timeout"} =>
       \A p \in ports : listener[p] = "closed"
  /\ shut \in {"copied", "closing", "waiting", "clean", "timeout"} =>
       \A p \in ports : listener[p] # "unbound"
  /\ shut = "clean" => /\ \A p \in ports : loop[p] # "accepting"
                       /\ \A c \in Conn : Handling(c) => port[c] \notin ports

MainInv ==
  /\ shut # "no" => main \in {"sshShutdown", "joinRun", "joinSweeper", "closed", "exited"}
  /\ shut = "no" => main \notin {"joinRun", "joinSweeper"}
  /\ main = "joinSweeper" \/ (main \in {"closed", "exited"} /\ shut # "no") =>
       run \in {"returned", "failed"}
  /\ main \in {"closed", "exited"} /\ shut # "no" => sweeper = "stopped"

IInv == TypeOK /\ ConnInv /\ ShutInv /\ MainInv

-----------------------------------------------------------------------------
(* Properties.                                                             *)

\* The registry, the handlers and the transports agree at every instant: an
\* entry lives exactly as long as its handler is between registerConn and its
\* deferred calls, it has an identity only after the role check, and no early
\* return leaves one behind.
RegistryExact ==
  \A c \in Conn :
    /\ conn[c] \in {"registered", "vetted"} => reg[c] = "anonymous"
    /\ conn[c] \in {"dialing", "bridged"} => reg[c] = "named"
    /\ conn[c] \in {"none", "handshake", "accepted", "gone"} => reg[c] = "out"

\* force-close never touches a connection that had not passed the role check,
\* however many connect and leave while it tears down its copy.
OnlyNamedAreForced ==
  \A c \in victims : conn[c] \in {"dialing", "bridged", "leaving", "gone"}

\* When Shutdown has returned without error, nothing that came in through a
\* listener it closed is running, or will be.
CleanMeansQuiet ==
  shut = "clean" =>
    /\ \A p \in ports : loop[p] # "accepting"
    /\ \A c \in Conn : Handling(c) => port[c] \notin ports

\* In the orderly sequence the stores are closed last: Run has returned and
\* no sweep is running on the writer connection.
StoresCloseLast ==
  main = "closed" /\ shut # "no" => run \in {"returned", "failed"} /\ sweeper = "stopped"

\* Whatever hangs in a handshake, the process ends after the signal.
SignalEnds == main = "draining" ~> main = "exited"

\* A session that force-close took on ends while the process lives.
ForcedEnds ==
  \A c \in Conn : (c \in victims /\ conn[c] = "bridged") ~> (conn[c] = "gone" \/ ~Up)
=============================================================================
