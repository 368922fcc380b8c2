---------------------------- MODULE ProcessProofs ----------------------------
(***************************************************************************)
(* The life of the process, as run() of cmd/forge-proxy has it.            *)
(*                                                                         *)
(* Its end: the SSH server and the shutdown sequence, for any number of    *)
(* ports, connections and accounts.  The registry is exact, force-close    *)
(* takes only connections that have an identity, a Shutdown without error  *)
(* leaves nothing running, and the stores are closed last.                 *)
(*                                                                         *)
(* Its beginning: start-ups that overlap, crash and are run again, and the *)
(* set-up of the host, for any number of processes, commands and key       *)
(* files.  A server that started alone serves with the keys on disk, keys  *)
(* that are settled stay, the pid file stays a living server's, and the    *)
(* service runs only on a host that is ready for it.                       *)
(***************************************************************************)
EXTENDS SshServer, HostSetup, TLAPS, FiniteSetTheorems

-----------------------------------------------------------------------------
(* The end: SshServer.                                                     *)


LEMMA InitIInv == Init => IInv
<1> SUFFICES ASSUME Init PROVE IInv
  OBVIOUS
<1>1. TypeOK
  BY DEF Init, TypeOK, Stage
<1>2. ConnInv
  BY DEF Init, ConnInv
<1>3. ShutInv /\ MainInv
  BY DEF Init, ShutInv, MainInv
<1> QED
  BY <1>1, <1>2, <1>3 DEF IInv

\* The main sequence looks at s, not at a single connection: each group of
\* variables that a step leaves alone keeps its part of the invariant.
LEMMA ConnKept ==
  ASSUME ConnInv, UNCHANGED <<conn, port, reg>>, victims' \subseteq victims
  PROVE  ConnInv'
BY DEF ConnInv

LEMMA ShutKept ==
  ASSUME ShutInv, UNCHANGED <<shut, ports, listener, loop, conn, port>>
  PROVE  ShutInv'
BY DEF ShutInv, Handling

LEMMA MainKept ==
  ASSUME MainInv, UNCHANGED <<main, shut, run, sweeper>>
  PROVE  MainInv'
BY DEF MainInv

\* A step of handleConn: the stages it goes through and what the registry says.
LEMMA GoIInv ==
  ASSUME IInv, NEW c \in Conn, NEW from \in Stage, NEW to \in Stage, Go(c, from, to),
         from \notin {"none", "gone"}, to # "none",
         user' \in [Conn -> User \cup {None}], closed' \in [Conn -> BOOLEAN],
         cancelled' \in [Conn -> BOOLEAN], reg' \in [Conn -> {"out", "anonymous", "named"}],
         \A d \in Conn \ {c} : reg'[d] = reg[d],
         to \in {"registered", "vetted"} => reg'[c] = "anonymous",
         to \in {"dialing", "bridged"} => reg'[c] = "named",
         to \in {"accepted", "gone"} => reg'[c] = "out",
         to # "handshake",
         reg'[c] = "named" => to \in {"dialing", "bridged", "leaving"},
         c \in victims => to \in {"dialing", "bridged", "leaving", "gone"}
  PROVE  IInv'
<1>1. /\ conn' = [conn EXCEPT ![c] = to] /\ conn[c] = from
      /\ UNCHANGED <<port, victims, main, sshCtx, sweeper, run, listener, loop, shut, ports, copied>>
  BY DEF Go, mainVars, listenVars, shutVars
<1>2. TypeOK'
  BY <1>1 DEF IInv, TypeOK
<1>3. conn'[c] = to /\ \A d \in Conn \ {c} : conn'[d] = conn[d]
  BY <1>1 DEF IInv, TypeOK
<1>4. ConnInv'
  BY <1>1, <1>3 DEF IInv, ConnInv
<1>5. ShutInv'
  BY <1>1, <1>3 DEF IInv, ShutInv, Handling
<1>6. MainInv'
  BY <1>1 DEF IInv, MainInv
<1> QED
  BY <1>2, <1>4, <1>5, <1>6 DEF IInv

LEMMA HandlerIInv ==
  ASSUME IInv, NEW c \in Conn,
         \/ \E u \in User : HandshakeOk(c, u)
         \/ HandshakeFails(c) \/ Register(c) \/ Vet(c) \/ AttachIdentity(c)
         \/ Dialed(c) \/ HandleReturns(c) \/ Leave(c)
  PROVE  IInv'
<1> USE DEF Stage
<1>0. /\ reg \in [Conn -> {"out", "anonymous", "named"}] /\ user \in [Conn -> User \cup {None}]
      /\ closed \in [Conn -> BOOLEAN] /\ cancelled \in [Conn -> BOOLEAN]
  BY DEF IInv, TypeOK
<1>1. ASSUME NEW u \in User, HandshakeOk(c, u) PROVE IInv'
  <2>1. /\ Go(c, "handshake", "accepted") /\ UNCHANGED <<closed, cancelled, reg>>
        /\ user' \in [Conn -> User \cup {None}]
    BY <1>0, <1>1 DEF HandshakeOk
  <2>2. reg[c] = "out" /\ c \notin victims
    BY <2>1 DEF Go, IInv, ConnInv
  <2> QED
    BY <1>0, <2>1, <2>2, GoIInv
<1>2. CASE HandshakeFails(c)
  <2>1. Go(c, "handshake", "leaving") /\ UNCHANGED <<user, closed, cancelled, reg>>
    BY <1>2 DEF HandshakeFails
  <2> QED
    BY <1>0, <2>1, GoIInv
<1>3. CASE Register(c)
  <2>1. /\ Go(c, "accepted", "registered") /\ UNCHANGED <<user, closed, cancelled>>
        /\ reg' = [reg EXCEPT ![c] = "anonymous"]
    BY <1>3 DEF Register
  <2>2. reg' \in [Conn -> {"out", "anonymous", "named"}] /\ reg'[c] = "anonymous"
        /\ \A d \in Conn \ {c} : reg'[d] = reg[d]
    BY <1>0, <2>1
  <2>3. c \notin victims
    BY <2>1 DEF Go, IInv, ConnInv
  <2> QED
    BY <1>0, <2>1, <2>2, <2>3, GoIInv
<1>4. CASE Vet(c)
  <2>1. UNCHANGED <<user, closed, cancelled, reg>>
    BY <1>4 DEF Vet
  <2>2. conn[c] = "registered"
    BY <1>4 DEF Vet, Go
  <2>3. reg[c] = "anonymous" /\ c \notin victims
    BY <2>2 DEF IInv, ConnInv
  <2>4. CASE Go(c, "registered", "vetted")
    BY <1>0, <2>1, <2>3, <2>4, GoIInv
  <2>5. CASE Go(c, "registered", "leaving")
    BY <1>0, <2>1, <2>3, <2>5, GoIInv
  <2> QED
    BY <1>4, <2>4, <2>5 DEF Vet
<1>5. CASE AttachIdentity(c)
  <2>1. /\ Go(c, "vetted", "dialing") /\ UNCHANGED <<user, closed, cancelled>>
        /\ reg' = [reg EXCEPT ![c] = "named"]
    BY <1>5 DEF AttachIdentity
  <2>2. reg' \in [Conn -> {"out", "anonymous", "named"}] /\ reg'[c] = "named"
        /\ \A d \in Conn \ {c} : reg'[d] = reg[d]
    BY <1>0, <2>1
  <2> QED
    BY <1>0, <2>1, <2>2, GoIInv
<1>6. CASE Dialed(c)
  <2>1. UNCHANGED <<user, closed, cancelled, reg>>
    BY <1>6 DEF Dialed
  <2>2. conn[c] = "dialing"
    BY <1>6 DEF Dialed, Go
  <2>3. reg[c] = "named"
    BY <2>2 DEF IInv, ConnInv
  <2>4. CASE Go(c, "dialing", "bridged")
    BY <1>0, <2>1, <2>3, <2>4, GoIInv
  <2>5. CASE Go(c, "dialing", "leaving")
    BY <1>0, <2>1, <2>3, <2>5, GoIInv
  <2> QED
    BY <1>6, <2>4, <2>5 DEF Dialed
<1>7. CASE HandleReturns(c)
  <2>1. Go(c, "bridged", "leaving") /\ UNCHANGED <<user, closed, cancelled, reg>>
    BY <1>7 DEF HandleReturns
  <2> QED
    BY <1>0, <2>1, GoIInv
<1>8. CASE Leave(c)
  <2>1. /\ Go(c, "leaving", "gone") /\ UNCHANGED user
        /\ closed' \in [Conn -> BOOLEAN] /\ cancelled' \in [Conn -> BOOLEAN]
        /\ reg' = [reg EXCEPT ![c] = "out"]
    BY <1>0, <1>8 DEF Leave, Forget
  <2>2. reg' \in [Conn -> {"out", "anonymous", "named"}] /\ reg'[c] = "out"
        /\ \A d \in Conn \ {c} : reg'[d] = reg[d]
    BY <1>0, <2>1
  <2> QED
    BY <1>0, <2>1, <2>2, GoIInv
<1> QED
  BY <1>1, <1>2, <1>3, <1>4, <1>5, <1>6, <1>7, <1>8

\* Steps that concern the listeners and Run.
LEMMA ListenIInv ==
  ASSUME IInv,
         \/ \E p \in Port : Bind(p) \/ LoopStops(p) \/ LoopBreaks(p)
         \/ BindFails \/ RunWaits \/ RunReturns
  PROVE  IInv'
<1>1. UNCHANGED <<victims, main, sshCtx, sweeper, shut, ports, copied, conn, port, user,
                  closed, cancelled, reg>>
  BY DEF Bind, LoopStops, LoopBreaks, BindFails, RunWaits, RunReturns, mainVars, shutVars, connVars
<1>2. ConnInv'
  BY <1>1, ConnKept DEF IInv
<1>3. TypeOK'
  BY <1>1 DEF IInv, TypeOK, Bind, LoopStops, LoopBreaks, BindFails, RunWaits, RunReturns
<1>4. run \in {"returned", "failed"} => run' = run
  BY DEF Bind, LoopStops, LoopBreaks, BindFails, RunWaits, RunReturns
<1>5. MainInv'
  BY <1>1, <1>4 DEF IInv, MainInv
<1>6. ShutInv'
  <2>1. ASSUME NEW p \in Port, Bind(p) PROVE ShutInv'
    BY <1>1, <2>1 DEF IInv, TypeOK, ShutInv, Bind, Handling
  <2>2. ASSUME NEW p \in Port, LoopStops(p) \/ LoopBreaks(p) PROVE ShutInv'
    BY <1>1, <2>2 DEF IInv, TypeOK, ShutInv, LoopStops, LoopBreaks, Handling
  <2>3. CASE BindFails \/ RunWaits \/ RunReturns
    BY <1>1, <2>3, ShutKept DEF IInv, BindFails, RunWaits, RunReturns
  <2> QED
    BY <2>1, <2>2, <2>3
<1> QED
  BY <1>2, <1>3, <1>5, <1>6 DEF IInv

LEMMA AcceptIInv ==
  ASSUME IInv, NEW c \in Conn, NEW p \in Port, Accept(c, p)
  PROVE  IInv'
<1>1. /\ conn[c] = "none" /\ loop[p] = "accepting"
      /\ conn' = [conn EXCEPT ![c] = "handshake"] /\ port' = [port EXCEPT ![c] = p]
      /\ UNCHANGED <<user, closed, cancelled, reg, victims, main, sshCtx, sweeper, run, listener,
                     loop, shut, ports, copied>>
  BY DEF Accept, mainVars, listenVars, shutVars
<1>2. TypeOK'
  BY <1>1 DEF IInv, TypeOK, Stage
<1>3. /\ conn'[c] = "handshake" /\ port'[c] = p
      /\ \A d \in Conn \ {c} : conn'[d] = conn[d] /\ port'[d] = port[d]
  BY <1>1 DEF IInv, TypeOK
<1>4. ConnInv'
  BY <1>1, <1>3 DEF IInv, ConnInv
<1>5. ShutInv'
  BY <1>1, <1>3 DEF IInv, ShutInv, Handling
<1>6. MainInv'
  BY <1>1, MainKept DEF IInv
<1> QED
  BY <1>2, <1>4, <1>5, <1>6 DEF IInv

\* Force-close, and clients that drop.
LEMMA ForceIInv ==
  ASSUME IInv,
         \/ \E c \in Conn : ClientDrops(c) \/ ForceCloseNext(c)
         \/ \E u \in User : ForceClose(u)
  PROVE  IInv'
<1>1. UNCHANGED <<main, sshCtx, sweeper, run, listener, loop, shut, ports, copied, conn, port,
                  user, reg>>
  BY DEF ClientDrops, ForceCloseNext, TearDown, ForceClose, mainVars, listenVars, shutVars, connVars
<1>2. TypeOK'
  <2>1. ASSUME NEW c \in Conn, ClientDrops(c) PROVE TypeOK'
    BY <1>1, <2>1 DEF IInv, TypeOK, ClientDrops
  <2>2. ASSUME NEW c \in Conn, ForceCloseNext(c) PROVE TypeOK'
    BY <1>1, <2>2 DEF IInv, TypeOK, ForceCloseNext, TearDown
  <2>3. ASSUME NEW u \in User, ForceClose(u) PROVE TypeOK'
    BY <1>1, <2>3 DEF IInv, TypeOK, ForceClose, Named, connVars
  <2> QED
    BY <2>1, <2>2, <2>3
<1>3. ShutInv' /\ MainInv'
  BY <1>1, ShutKept, MainKept DEF IInv
<1>4. ConnInv'
  <2>1. ASSUME NEW u \in User, ForceClose(u) PROVE ConnInv'
    BY <1>1, <2>1 DEF IInv, ConnInv, ForceClose, Named
  <2>2. ASSUME NEW c \in Conn, ClientDrops(c) \/ ForceCloseNext(c) PROVE ConnInv'
    BY <1>1, <2>2, ConnKept DEF IInv, ClientDrops, ForceCloseNext
  <2> QED
    BY <2>1, <2>2
<1> QED
  BY <1>2, <1>3, <1>4 DEF IInv

LEMMA ShutdownIInv ==
  ASSUME IInv,
         \/ ShutdownCopies \/ ShutdownClosesListeners \/ ShutdownClosesConns
         \/ ShutdownClean \/ ShutdownDeadline
  PROVE  IInv'
<1>1. UNCHANGED <<main, sshCtx, sweeper, run, loop, victims, conn, port, user, cancelled, reg>>
  BY DEF ShutdownCopies, ShutdownClosesListeners, ShutdownClosesConns, ShutdownClean,
         ShutdownDeadline, ShutdownReturns, mainVars, listenVars, connVars
<1>2. TypeOK'
  <2>1. CASE ShutdownCopies
    BY <1>1, <2>1 DEF IInv, TypeOK, ShutdownCopies, listenVars, connVars
  <2>2. CASE ShutdownClosesListeners
    BY <1>1, <2>2 DEF IInv, TypeOK, ShutdownClosesListeners, connVars
  <2>3. CASE ShutdownClosesConns
    BY <1>1, <2>3 DEF IInv, TypeOK, ShutdownClosesConns, listenVars
  <2>4. CASE ShutdownClean \/ ShutdownDeadline
    BY <1>1, <2>4 DEF IInv, TypeOK, ShutdownClean, ShutdownDeadline, ShutdownReturns, listenVars, connVars
  <2> QED
    BY <2>1, <2>2, <2>3, <2>4
<1>3. ConnInv'
  BY <1>1, ConnKept DEF IInv
<1>4. shut = "no" => main = "sshShutdown"
  BY DEF IInv, MainInv, ShutdownCopies, ShutdownClosesListeners, ShutdownClosesConns,
         ShutdownClean, ShutdownDeadline, ShutdownReturns
<1>5. shut' # "no"
  BY DEF ShutdownCopies, ShutdownClosesListeners, ShutdownClosesConns,
         ShutdownClean, ShutdownDeadline, ShutdownReturns
<1>6. MainInv'
  BY <1>1, <1>4, <1>5 DEF IInv, MainInv
<1>7. ShutInv'
  <2>1. CASE ShutdownCopies
    BY <2>1 DEF IInv, TypeOK, ShutInv, ShutdownCopies, listenVars, connVars, Handling
  <2>2. CASE ShutdownClosesListeners
    BY <2>2 DEF IInv, TypeOK, ShutInv, ShutdownClosesListeners, connVars, Handling
  <2>3. CASE ShutdownClosesConns
    BY <2>3 DEF IInv, TypeOK, ShutInv, ShutdownClosesConns, listenVars, Handling
  <2>4. CASE ShutdownClean
    BY <2>4 DEF IInv, TypeOK, ShutInv, ShutdownClean, ShutdownReturns, Drained, listenVars, connVars, Handling
  <2>5. CASE ShutdownDeadline
    BY <2>5 DEF IInv, TypeOK, ShutInv, ShutdownDeadline, ShutdownReturns, listenVars, connVars, Handling
  <2> QED
    BY <2>1, <2>2, <2>3, <2>4, <2>5
<1> QED
  BY <1>2, <1>3, <1>6, <1>7 DEF IInv

LEMMA MainIInv ==
  ASSUME IInv,
         \/ Signal \/ ServeFails \/ Drain \/ DrainDeadline \/ SshStop \/ ShutdownDone
         \/ JoinRun \/ JoinSweeper \/ SweeperStops \/ Exit
  PROVE  IInv'
<1>1. UNCHANGED <<run, listener, loop, shut, ports, copied, conn, port, user, closed, cancelled,
                  reg, victims>>
  BY DEF Signal, ServeFails, Drain, DrainDeadline, SshStop, ShutdownDone, JoinRun, JoinSweeper,
         SweeperStops, Exit, MainTo, ReturnNow, listenVars, shutVars, connVars
<1>2. TypeOK'
  <2>1. CASE Signal \/ ServeFails \/ Drain \/ DrainDeadline \/ SshStop
    BY <1>1, <2>1 DEF IInv, TypeOK, Signal, ServeFails, Drain, DrainDeadline, SshStop, MainTo, ReturnNow
  <2>2. CASE ShutdownDone \/ JoinRun \/ JoinSweeper \/ SweeperStops \/ Exit
    BY <1>1, <2>2 DEF IInv, TypeOK, ShutdownDone, JoinRun, JoinSweeper, SweeperStops, Exit, MainTo, ReturnNow
  <2> QED
    BY <2>1, <2>2
<1>3. ConnInv' /\ ShutInv'
  BY <1>1, ConnKept, ShutKept DEF IInv
<1>4. MainInv'
  <2>1. CASE Signal \/ Drain \/ SshStop \/ Exit
    BY <1>1, <2>1 DEF IInv, MainInv, Signal, Drain, SshStop, Exit, MainTo
  <2>2. CASE ServeFails \/ DrainDeadline
    BY <1>1, <2>2 DEF IInv, MainInv, ServeFails, DrainDeadline, ReturnNow, MainTo
  <2>3. CASE ShutdownDone
    BY <1>1, <2>3 DEF IInv, MainInv, ShutdownDone, MainTo
  <2>4. CASE JoinRun
    BY <1>1, <2>4 DEF IInv, MainInv, JoinRun, MainTo
  <2>5. CASE JoinSweeper
    BY <1>1, <2>5 DEF IInv, MainInv, JoinSweeper, SweeperJoined, MainTo
  <2>6. CASE SweeperStops
    BY <1>1, <2>6 DEF IInv, MainInv, SweeperStops
  <2> QED
    BY <2>1, <2>2, <2>3, <2>4, <2>5, <2>6
<1> QED
  BY <1>2, <1>3, <1>4 DEF IInv

LEMMA NextIInv == IInv /\ [Next]_vars => IInv'
<1> SUFFICES ASSUME IInv, [Next]_vars PROVE IInv'
  OBVIOUS
<1>1. CASE UNCHANGED vars
  BY <1>1 DEF vars, IInv, TypeOK, ConnInv, ShutInv, MainInv, Handling
<1> QED
  BY <1>1, HandlerIInv, ListenIInv, AcceptIInv, ForceIInv, ShutdownIInv, MainIInv DEF Next

-----------------------------------------------------------------------------
(* The theorems.                                                           *)

\* Connections, registry, Shutdown and the main sequence fit together.
THEOREM Inductive == Spec => []IInv
BY InitIInv, NextIInv, PTL DEF Spec

\* The registry says exactly which handlers are between registerConn and
\* their deferred calls, and which of them have an identity.
THEOREM RegistryIsExact == Spec => []RegistryExact
<1>1. IInv => RegistryExact
  BY DEF IInv, ConnInv, RegistryExact
<1> QED
  BY <1>1, Inductive, PTL

\* force-close never touches a connection that has not passed the role check.
THEOREM ForcedHaveIdentity == Spec => []OnlyNamedAreForced
<1>1. IInv => OnlyNamedAreForced
  BY DEF IInv, TypeOK, ConnInv, OnlyNamedAreForced
<1> QED
  BY <1>1, Inductive, PTL

\* A Shutdown without error leaves nothing running behind its listeners.
THEOREM CleanShutdownIsQuiet == Spec => []CleanMeansQuiet
<1>1. IInv => CleanMeansQuiet
  BY DEF IInv, ShutInv, CleanMeansQuiet
<1> QED
  BY <1>1, Inductive, PTL

\* In the orderly sequence Run and the sweeper have ended before the stores close.
THEOREM StoresAreLast == Spec => []StoresCloseLast
<1>1. IInv => StoresCloseLast
  BY DEF IInv, MainInv, StoresCloseLast
<1> QED
  BY <1>1, Inductive, PTL

-----------------------------------------------------------------------------
(* The beginning: StartUp.                                                 *)

LEMMA FilesFact == Files = 1 .. Len(KeyFile) /\ Len(KeyFile) \in Nat /\ 1 \in Files /\ Len(KeyFile) \in Files
<1>1. KeyFile \in Seq(STRING) /\ KeyFile # <<>>
  BY StartUpAssumption
<1>2. Len(KeyFile) \in Nat /\ DOMAIN KeyFile = 1 .. Len(KeyFile) /\ Len(KeyFile) # 0
  BY <1>1
<1> QED
  BY <1>2 DEF Files

\* There is always a key that no file and no process has: of the places for
\* one, the file that is missing what none.
LEMMA FreshKey ==
  ASSUME StartUpTypeOK, NEW g \in Files, file[g] = Nil
  PROVE  NewKey \in Key
<1> DEFINE place == Files \X (Pid \cup {Nil})
           full == place \ {<<g, Nil>>}
           what == [x \in full |-> IF x[2] = Nil THEN file[x[1]] ELSE signer[x[2]][x[1]]]
           kept == {what[x] : x \in full}
<1>1. Nil \notin Pid /\ Nil \notin Key /\ IsFiniteSet(Pid) /\ IsFiniteSet(Key)
      /\ Cardinality(Key) >= Len(KeyFile) * (Cardinality(Pid) + 1)
  BY StartUpAssumption
<1>2. IsFiniteSet(Files) /\ Cardinality(Files) = Len(KeyFile)
  <2>1. IsFiniteSet(1 .. Len(KeyFile)) /\ Cardinality(1 .. Len(KeyFile)) = Len(KeyFile)
    <3> DEFINE n == Len(KeyFile)
    <3>1. n \in Nat /\ n # 0
      BY FilesFact
    <3> HIDE DEF n
    <3>2. IsFiniteSet(1 .. n) /\ Cardinality(1 .. n) = IF 1 > n THEN 0 ELSE n - 1 + 1
      BY <3>1, FS_Interval
    <3>3. IsFiniteSet(1 .. n) /\ Cardinality(1 .. n) = n
      BY <3>1, <3>2
    <3> QED
      BY <3>3 DEF n
  <2> QED
    BY <2>1, FilesFact
<1>3. IsFiniteSet(Pid \cup {Nil}) /\ Cardinality(Pid \cup {Nil}) = Cardinality(Pid) + 1
  BY <1>1, FS_AddElement
<1>4. IsFiniteSet(place) /\ Cardinality(place) = Len(KeyFile) * (Cardinality(Pid) + 1)
  BY <1>2, <1>3, FS_Product
<1>5. IsFiniteSet(full) /\ Cardinality(full) = Cardinality(place) - 1
  <2>1. <<g, Nil>> \in place
    OBVIOUS
  <2> HIDE DEF place
  <2>2. /\ IsFiniteSet(place \ {<<g, Nil>>})
        /\ Cardinality(place \ {<<g, Nil>>}) =
             IF <<g, Nil>> \in place THEN Cardinality(place) - 1 ELSE Cardinality(place)
    BY <1>4, FS_RemoveElement
  <2> QED
    BY <2>1, <2>2
<1>6. what \in Surjection(full, kept)
  BY DEF Surjection
<1>7. IsFiniteSet(kept) /\ Cardinality(kept) <= Cardinality(full)
  <2> HIDE DEF what, full, kept
  <2> QED
    BY <1>5, <1>6, FS_Surjection
<1>8. Held \cap Key \subseteq kept
  <2>1. ASSUME NEW q \in Pid, NEW f \in Files PROVE signer[q][f] \in kept
    <3>1. <<f, q>> \in full /\ what[<<f, q>>] = signer[q][f]
      BY <1>1
    <3> HIDE DEF full, what
    <3> QED
      BY <3>1
  <2>2. ASSUME NEW f \in Files, file[f] \in Key PROVE file[f] \in kept
    <3>1. f # g
      BY <1>1, <2>2
    <3>2. <<f, Nil>> \in full /\ what[<<f, Nil>>] = file[f]
      BY <3>1
    <3> HIDE DEF full, what
    <3> QED
      BY <3>2
  <2> HIDE DEF kept
  <2> QED
    BY <2>1, <2>2 DEF Held
<1>9. Cardinality(Key) \in Nat /\ Cardinality(kept) \in Nat /\ Cardinality(place) \in Nat
      /\ Cardinality(Pid) \in Nat
  BY <1>1, <1>4, <1>7, FS_CardinalityType
<1>10. ASSUME Key \subseteq Held PROVE FALSE
  <2> HIDE DEF kept, place
  <2>1. Key \subseteq kept
    BY <1>8, <1>10
  <2>2. Cardinality(Key) <= Cardinality(kept)
    BY <1>7, <2>1, FS_Subset
  <2>3. Cardinality(Key) >= Cardinality(place)
    BY <1>1, <1>4
  <2> QED
    BY <1>5, <1>7, <1>9, <2>2, <2>3
<1> QED
  BY <1>10 DEF NewKey

ShellType == [stage: {"idle", "checked", "forked", "emptied"}, child: Pid \cup {Nil}]
ServiceType == [active: BOOLEAN, main: Pid \cup {Nil}]

LEMMA StartUpInitInv == StartUpInit => StartUpInv
<1> SUFFICES ASSUME StartUpInit PROVE StartUpInv
  OBVIOUS
<1>1. StartUpTypeOK
  BY FilesFact, Zenon DEF StartUpInit, StartUpTypeOK, NoKeys, IdleShell
<1>2. AtFirst /\ AloneIsAlone /\ KeysBehind
  BY DEF StartUpInit, AtFirst, AloneIsAlone, KeysBehind, Generating, Starting, Loading
<1> QED
  BY <1>1, <1>2 DEF StartUpInv

\* A step outside the servers.
LEMMA AroundInv ==
  ASSUME StartUpInv, UNCHANGED <<server, file>>,
         pidFile' \in Pid \cup {Nil, "torn"}, sh' \in [Shell -> ShellType],
         service' \in ServiceType, phase' \in {"bare", "prepared", "calm"}
  PROVE  StartUpInv'
<1>1. StartUpTypeOK'
  BY DEF StartUpInv, StartUpTypeOK, server, ShellType, ServiceType, Loading
<1>2. AtFirst' /\ AloneIsAlone' /\ KeysBehind'
  BY DEF StartUpInv, AtFirst, AloneIsAlone, KeysBehind, Behind, Generating, Starting, server
<1> QED
  BY <1>1, <1>2 DEF StartUpInv

\* Processes end.
LEMMA EndInv ==
  ASSUME StartUpInv, NEW gone, End(gone), file' = file,
         pidFile' \in Pid \cup {Nil, "torn"}, sh' \in [Shell -> ShellType],
         service' \in ServiceType, phase' \in {"bare", "prepared", "calm"}
  PROVE  StartUpInv'
<1>1. StartUpTypeOK'
  <2>1. pc' \in [Pid -> Loading \cup {"free", "other", "up"}]
    BY DEF StartUpInv, StartUpTypeOK, End
  <2>2. at' \in [Pid -> Files]
    BY FilesFact, Zenon DEF StartUpInv, StartUpTypeOK, End
  <2>3. signer' \in [Pid -> [Files -> Key \cup {Nil}]]
    <3>1. NoKeys \in [Files -> Key \cup {Nil}]
      BY DEF NoKeys
    <3> QED
      BY <3>1, Zenon DEF StartUpInv, StartUpTypeOK, End
  <2>4. /\ held' \in [Pid -> SUBSET Listeners]
        /\ \A p \in Pid : held'[p] # {} => pc'[p] = "up"
        /\ \A p, q \in Pid : p # q => held'[p] \cap held'[q] = {}
    BY DEF StartUpInv, StartUpTypeOK, End
  <2>5. alone' \in [Pid -> BOOLEAN]
    BY Zenon DEF StartUpInv, StartUpTypeOK, End
  <2>6. file' \in [Files -> Key \cup {Nil, "torn"}]
    BY DEF StartUpInv, StartUpTypeOK
  <2> QED
    BY <2>1, <2>2, <2>3, <2>4, <2>5, <2>6 DEF StartUpTypeOK, ShellType, ServiceType
<1>2. \A p \in Pid : p \notin gone => pc'[p] = pc[p] /\ at'[p] = at[p] /\ signer'[p] = signer[p]
  BY DEF End
<1>3. \A p \in Pid : alone'[p] => p \notin gone /\ alone[p]
  BY DEF End
<1>4. \A p \in Pid : p \in gone => pc'[p] = "free" /\ at'[p] = 1
  BY DEF End
<1>5. AtFirst'
  BY <1>2, <1>4 DEF AtFirst, StartUpInv
<1>6. AloneIsAlone'
  BY <1>2, <1>3, <1>4 DEF AloneIsAlone, StartUpInv, Starting, Generating, Loading
<1>7. KeysBehind'
  BY <1>2, <1>3, <1>4 DEF KeysBehind, StartUpInv, Starting, Generating, Loading, Behind
<1> QED
  BY <1>1, <1>5, <1>6, <1>7 DEF StartUpInv

\* A process begins.
LEMMA SpawnInv ==
  ASSUME StartUpInv, NEW p \in Pid, Spawn(p), UNCHANGED <<file, pidFile, phase>>,
         sh' \in [Shell -> ShellType], service' \in ServiceType
  PROVE  StartUpInv'
<1>1. pc[p] = "free" /\ at[p] = 1
  BY DEF Spawn, Unused, StartUpInv, AtFirst
<1>2. /\ pc' \in [Pid -> Loading \cup {"free", "other", "up"}]
      /\ pc'[p] = "load" /\ \A q \in Pid : q # p => pc'[q] = pc[q]
  BY DEF Spawn, StartUpInv, StartUpTypeOK, Loading
<1>3. alone' \in [Pid -> BOOLEAN]
  BY Zenon DEF Spawn, StartUpInv, StartUpTypeOK
<1>4. StartUpTypeOK'
  BY <1>1, <1>2, <1>3 DEF Spawn, StartUpInv, StartUpTypeOK, ShellType, ServiceType
<1>5. AtFirst'
  BY <1>1, <1>2 DEF Spawn, StartUpInv, AtFirst
<1>6. /\ alone'[p] => \A r \in Pid : ~Starting(r)
      /\ \A q \in Pid : q # p /\ alone'[q] => alone[q] /\ ~Starting(q)
  BY DEF Spawn
<1>7. AloneIsAlone'
  BY <1>1, <1>2, <1>6 DEF StartUpInv, AloneIsAlone, Starting, Generating, Loading
<1>8. KeysBehind'
  <2>1. ASSUME NEW q \in Pid PROVE Generating(q)' => signer'[q][at'[q]] \in Key
    BY <1>2, <2>1 DEF Spawn, StartUpInv, KeysBehind, Generating
  <2>2. ASSUME NEW q \in Pid, alone'[q], NEW f \in Files, Behind(q, f)'
        PROVE  file'[f] \in Key /\ signer'[q][f] = file'[f]
    <3>1. q # p
      BY <1>1, <1>2, <2>2, FilesFact DEF Spawn, Behind, Starting, Loading
    <3> QED
      BY <1>2, <1>6, <2>2, <3>1 DEF Spawn, StartUpInv, KeysBehind, Behind, Starting
  <2> QED
    BY <2>1, <2>2 DEF KeysBehind
<1> QED
  BY <1>4, <1>5, <1>7, <1>8 DEF StartUpInv

\* A key is in hand and, for a start that is alone, in the file.
LEMMA HaveKeyInv ==
  ASSUME StartUpInv, NEW p \in Pid, pc[p] \in {"read", "publish"},
         NEW k \in Key \cup {Nil}, HaveKey(p, k),
         alone[p] => k \in Key /\ file[at[p]] = k,
         UNCHANGED <<held, alone, file, pidFile, sh, service, phase>>
  PROVE  StartUpInv'
<1>1. signer' \in [Pid -> [Files -> Key \cup {Nil}]]
  BY DEF HaveKey, StartUpInv, StartUpTypeOK
<1>2. /\ signer'[p][at[p]] = k
      /\ \A f \in Files : f # at[p] => signer'[p][f] = signer[p][f]
      /\ \A q \in Pid : q # p => signer'[q] = signer[q]
  BY DEF HaveKey, StartUpInv, StartUpTypeOK
<1>3. /\ pc' \in [Pid -> Loading \cup {"free", "other", "up"}]
      /\ pc'[p] \in {"known", "read"} /\ \A q \in Pid : q # p => pc'[q] = pc[q]
  BY DEF HaveKey, StartUpInv, StartUpTypeOK, Loading
<1>4. /\ at' \in [Pid -> Files] /\ \A q \in Pid : q # p => at'[q] = at[q]
      /\ pc'[p] = "known" => at[p] = Len(KeyFile)
      /\ pc'[p] = "read" => at'[p] = at[p] + 1
  <2>1. at \in [Pid -> Files] /\ pc \in [Pid -> Loading \cup {"free", "other", "up"}] /\ at[p] \in Files
    BY DEF StartUpInv, StartUpTypeOK
  <2>2. CASE at[p] = Len(KeyFile)
    BY <2>1, <2>2 DEF HaveKey
  <2>3. CASE at[p] # Len(KeyFile)
    <3>1. at[p] + 1 \in Files
      BY <2>1, <2>3, FilesFact
    <3>2. pc'[p] = "read" /\ at' = [at EXCEPT ![p] = at[p] + 1]
      BY <2>1, <2>3 DEF HaveKey
    <3> QED
      BY <2>1, <3>1, <3>2
  <2> QED
    BY <2>2, <2>3
<1>5. StartUpTypeOK'
  BY <1>1, <1>3, <1>4 DEF StartUpInv, StartUpTypeOK
<1>6. AtFirst'
  BY <1>3, <1>4 DEF StartUpInv, AtFirst
<1>7. AloneIsAlone'
  BY <1>3 DEF StartUpInv, AloneIsAlone, Starting, Generating, Loading
<1>8. KeysBehind'
  <2>1. ASSUME NEW q \in Pid PROVE Generating(q)' => signer'[q][at'[q]] \in Key
    BY <1>2, <1>3, <1>4 DEF StartUpInv, KeysBehind, Generating
  <2>2. ASSUME NEW q \in Pid, alone'[q], NEW f \in Files, Behind(q, f)'
        PROVE  file'[f] \in Key /\ signer'[q][f] = file'[f]
    <3>1. CASE q # p
      BY <1>2, <1>3, <1>4, <2>2, <3>1 DEF StartUpInv, KeysBehind, Behind, Starting
    <3>2. CASE q = p
      <4>1. f <= at[p]
        BY <1>3, <1>4, <2>2, <3>2, FilesFact DEF Behind, Starting, Loading, StartUpInv, StartUpTypeOK
      <4>2. CASE f = at[p]
        BY <1>2, <2>2, <3>2, <4>2
      <4>3. CASE f # at[p]
        <5>1. Behind(p, f)
          BY <4>1, <4>3, FilesFact DEF Behind, Starting, Loading, StartUpInv, StartUpTypeOK
        <5> QED
          BY <1>2, <2>2, <3>2, <4>3, <5>1 DEF StartUpInv, KeysBehind
      <4> QED
        BY <4>2, <4>3
    <3> QED
      BY <3>1, <3>2
  <2> QED
    BY <2>1, <2>2 DEF KeysBehind
<1> QED
  BY <1>5, <1>6, <1>7, <1>8 DEF StartUpInv
\* A process moves on and does nothing else.
LEMMA MoveInv ==
  ASSUME StartUpInv, NEW p \in Pid,
         \/ pc[p] = "load" /\ pc' = [pc EXCEPT ![p] = "read"]
         \/ pc[p] = "known" /\ pc' = [pc EXCEPT ![p] = "up"]
         \/ pc[p] = "free" /\ pc' = [pc EXCEPT ![p] = "other"]
         \/ pc[p] = "other" /\ pc' = [pc EXCEPT ![p] = "free"],
         UNCHANGED <<at, signer, held, alone, file, pidFile, sh, service, phase>>
  PROVE  StartUpInv'
<1>1. /\ pc' \in [Pid -> Loading \cup {"free", "other", "up"}]
      /\ \A q \in Pid : q # p => pc'[q] = pc[q]
      /\ \/ pc[p] = "load" /\ pc'[p] = "read"
         \/ pc[p] = "known" /\ pc'[p] = "up"
         \/ pc[p] = "free" /\ pc'[p] = "other"
         \/ pc[p] = "other" /\ pc'[p] = "free"
  BY DEF StartUpInv, StartUpTypeOK, Loading
<1>2. StartUpTypeOK'
  BY <1>1 DEF StartUpInv, StartUpTypeOK
<1>3. AtFirst'
  BY <1>1 DEF StartUpInv, AtFirst
<1>4. AloneIsAlone'
  BY <1>1 DEF StartUpInv, AloneIsAlone, Starting, Generating, Loading
<1>5. KeysBehind'
  <2>1. ASSUME NEW q \in Pid PROVE Generating(q)' => signer'[q][at'[q]] \in Key
    BY <1>1, <2>1 DEF StartUpInv, KeysBehind, Generating
  <2>2. ASSUME NEW q \in Pid, alone'[q], NEW f \in Files, Behind(q, f)'
        PROVE  Behind(q, f)
    <3>1. pc[p] = "load" => at[p] = 1
      BY DEF StartUpInv, AtFirst
    <3> QED
      BY <1>1, <2>2, <3>1, FilesFact DEF Behind, Starting, Loading
  <2> QED
    BY <2>1, <2>2 DEF StartUpInv, KeysBehind
<1> QED
  BY <1>2, <1>3, <1>4, <1>5 DEF StartUpInv

\* A key is made only where a file is missing: no server that came up alone
\* is there, whose keys are all in their files.
LEMMA GenerateInv ==
  ASSUME StartUpInv, NEW p \in Pid, GenerateKey(p)
  PROVE  StartUpInv'
<1>1. pc[p] = "read" /\ at[p] \in Files /\ file[at[p]] = Nil
  BY DEF GenerateKey, StartUpInv, StartUpTypeOK
<1>2. NewKey \in Key
  BY <1>1, FreshKey DEF StartUpInv
<1>3. /\ signer' \in [Pid -> [Files -> Key \cup {Nil}]]
      /\ signer'[p][at[p]] = NewKey
      /\ \A f \in Files : f # at[p] => signer'[p][f] = signer[p][f]
      /\ \A q \in Pid : q # p => signer'[q] = signer[q]
  BY <1>1, <1>2 DEF GenerateKey, StartUpInv, StartUpTypeOK
<1>4. /\ pc' \in [Pid -> Loading \cup {"free", "other", "up"}]
      /\ pc'[p] = "create" /\ \A q \in Pid : q # p => pc'[q] = pc[q]
  BY DEF GenerateKey, StartUpInv, StartUpTypeOK, Loading
<1> USE DEF GenerateKey
<1>5. StartUpTypeOK'
  BY <1>1, <1>3, <1>4 DEF StartUpInv, StartUpTypeOK
<1>6. AtFirst'
  BY <1>4 DEF StartUpInv, AtFirst
<1>7. \A q \in Pid : alone[q] => pc[q] # "up"
  BY <1>1, StartUpAssumption DEF StartUpInv, KeysBehind, Behind
<1>8. AloneIsAlone'
  BY <1>1, <1>4, <1>7 DEF StartUpInv, AloneIsAlone, Starting, Generating, Loading
<1>9. KeysBehind'
  <2>1. ASSUME NEW q \in Pid PROVE Generating(q)' => signer'[q][at'[q]] \in Key
    BY <1>2, <1>3, <1>4 DEF StartUpInv, KeysBehind, Generating
  <2>2. ASSUME NEW q \in Pid, alone'[q], NEW f \in Files, Behind(q, f)'
        PROVE  Behind(q, f) /\ signer'[q][f] = signer[q][f]
    BY <1>1, <1>3, <1>4, <2>2, FilesFact DEF Behind, Starting, Loading
  <2> QED
    BY <2>1, <2>2 DEF StartUpInv, KeysBehind
<1> QED
  BY <1>5, <1>6, <1>8, <1>9 DEF StartUpInv

\* A key file is emptied or written: by a process no lone server overlaps,
\* itself excepted, and it has that file still before it.
LEMMA WriteInv ==
  ASSUME StartUpInv, NEW p \in Pid, CreateFile(p) \/ WriteKey(p)
  PROVE  StartUpInv'
<1>1. Generating(p) /\ at[p] \in Files /\ signer[p][at[p]] \in Key
  BY DEF CreateFile, WriteKey, Generating, StartUpInv, StartUpTypeOK, KeysBehind
<1>2. /\ file' \in [Files -> Key \cup {Nil, "torn"}]
      /\ \A f \in Files : f # at[p] => file'[f] = file[f]
      /\ pc'[p] = "publish" => file'[at[p]] = signer[p][at[p]]
  BY <1>1 DEF CreateFile, WriteKey, StartUpInv, StartUpTypeOK, Loading
<1>3. /\ pc' \in [Pid -> Loading \cup {"free", "other", "up"}]
      /\ pc'[p] \in {"write", "publish"} /\ \A q \in Pid : q # p => pc'[q] = pc[q]
      /\ UNCHANGED <<at, signer, held, alone, pidFile, sh, service, phase>>
  BY DEF CreateFile, WriteKey, StartUpInv, StartUpTypeOK, Loading
<1>4. StartUpTypeOK'
  BY <1>1, <1>2, <1>3 DEF StartUpInv, StartUpTypeOK, Generating
<1>5. AtFirst'
  BY <1>3 DEF StartUpInv, AtFirst
<1>6. AloneIsAlone'
  BY <1>1, <1>3 DEF StartUpInv, AloneIsAlone, Starting, Generating, Loading
<1>7. KeysBehind'
  <2>1. ASSUME NEW q \in Pid PROVE Generating(q)' => signer'[q][at'[q]] \in Key
    BY <1>1, <1>3 DEF StartUpInv, KeysBehind, Generating
  <2>2. ASSUME NEW q \in Pid, alone'[q], NEW f \in Files, Behind(q, f)'
        PROVE  file'[f] \in Key /\ signer'[q][f] = file'[f]
    <3>1. CASE q # p
      <4>1. pc[q] = pc'[q] /\ Behind(q, f) /\ alone[q]
        BY <1>3, <2>2, <3>1 DEF Behind, Starting
      <4>2. FALSE
        BY <1>1, <3>1, <4>1 DEF StartUpInv, AloneIsAlone, Behind, Starting, Generating, Loading
      <4> QED
        BY <4>2
    <3>2. CASE q = p /\ f = at[p]
      BY <1>1, <1>2, <1>3, <2>2, <3>2, FilesFact DEF Behind, Starting, Loading
    <3>3. CASE q = p /\ f # at[p]
      <4>1. Behind(p, f)
        BY <1>1, <1>3, <2>2, <3>3, FilesFact DEF Behind, Starting, Generating, Loading
      <4> QED
        BY <1>2, <1>3, <2>2, <3>3, <4>1 DEF StartUpInv, KeysBehind
    <3> QED
      BY <3>1, <3>2, <3>3
  <2> QED
    BY <2>1, <2>2 DEF KeysBehind
<1> QED
  BY <1>4, <1>5, <1>6, <1>7 DEF StartUpInv

LEMMA BindInv ==
  ASSUME StartUpInv, NEW p \in Pid, NEW l \in Listeners, BindListener(p, l)
  PROVE  StartUpInv'
<1>1. StartUpTypeOK'
  BY DEF BindListener, StartUpInv, StartUpTypeOK
<1>2. AtFirst' /\ AloneIsAlone' /\ KeysBehind'
  BY DEF BindListener, StartUpInv, AtFirst, AloneIsAlone, KeysBehind, Behind, Starting, Generating
<1> QED
  BY <1>1, <1>2 DEF StartUpInv
LEMMA StartUpNextInv ==
  ASSUME StartUpInv, [StartUpNext]_startUpVars
  PROVE  StartUpInv'
<1>0. /\ pidFile \in Pid \cup {Nil, "torn"} /\ sh \in [Shell -> ShellType]
      /\ service \in ServiceType /\ phase \in {"bare", "prepared", "calm"}
  BY DEF StartUpInv, StartUpTypeOK, ShellType, ServiceType
<1>1. CASE UNCHANGED startUpVars
  BY <1>0, <1>1, AroundInv DEF startUpVars
<1>2. ASSUME NEW p \in Pid, Runs(p) PROVE StartUpInv'
  <2>1. CASE LoadStores(p) \/ ReadKnownHosts(p)
    BY <2>1, MoveInv DEF LoadStores, ReadKnownHosts
  <2>2. CASE Unprepared(p) \/ RefuseKey(p)
    BY <1>0, <2>2, EndInv DEF Unprepared, RefuseKey
  <2>3. CASE LoadKey(p)
    BY <2>3, HaveKeyInv DEF LoadKey
  <2>4. CASE WritePublic(p)
    <3>1. at[p] \in Files /\ signer[p][at[p]] \in Key \cup {Nil}
      BY DEF StartUpInv, StartUpTypeOK
    <3>2. alone[p] => signer[p][at[p]] \in Key /\ file[at[p]] = signer[p][at[p]]
      BY <2>4, <3>1, FilesFact DEF WritePublic, StartUpInv, KeysBehind, Behind
    <3> QED
      BY <2>4, <3>1, <3>2, HaveKeyInv DEF WritePublic
  <2> QED
    BY <1>2, <2>1, <2>2, <2>3, <2>4, GenerateInv, WriteInv DEF Runs
<1>3. ASSUME NEW p \in Pid, KeyWriteFails(p) \/ PublicFails(p) \/ Dies(p)
      PROVE  StartUpInv'
  BY <1>0, <1>3, EndInv DEF KeyWriteFails, PublicFails, Dies
<1>4. ASSUME NEW p \in Pid, OtherProgram(p) \/ OtherEnds(p) PROVE StartUpInv'
  BY <1>4, MoveInv DEF OtherProgram, OtherEnds, Unused
<1>5. ASSUME NEW p \in Pid, NEW l \in Listeners, BindListener(p, l) \/ PortTaken(p, l)
      PROVE  StartUpInv'
  BY <1>0, <1>5, BindInv, EndInv DEF PortTaken
<1>6. ASSUME NEW o \in Shell, CheckPidFile(o) \/ EmptyPidFile(o) \/ WritePidFile(o) \/ CutShort(o)
      PROVE  StartUpInv'
  <2>1. IdleShell \in ShellType
    BY DEF IdleShell, ShellType
  <2>2. sh' \in [Shell -> ShellType]
    BY <1>0, <1>6, <2>1 DEF CheckPidFile, EmptyPidFile, WritePidFile, CutShort, ShellType
  <2>3. pidFile' \in Pid \cup {Nil, "torn"}
    BY <1>0, <1>6 DEF CheckPidFile, EmptyPidFile, WritePidFile, CutShort, ShellType
  <2> QED
    BY <1>0, <1>6, <2>2, <2>3, AroundInv DEF CheckPidFile, EmptyPidFile, WritePidFile, CutShort
<1>7. ASSUME NEW o \in Shell, NEW p \in Pid, Fork(o, p) PROVE StartUpInv'
  <2>1. sh' \in [Shell -> ShellType]
    BY <1>0, <1>7 DEF Fork, ShellType
  <2> QED
    BY <1>0, <1>7, <2>1, SpawnInv DEF Fork
<1>8. ASSUME NEW o \in Shell, PidFileFails(o) PROVE StartUpInv'
  <2>1. sh' \in [Shell -> ShellType]
    BY <1>0, <1>8 DEF PidFileFails, ShellType, IdleShell
  <2> QED
    BY <1>0, <1>8, <2>1, EndInv DEF PidFileFails
<1>9. CASE Manages
  <2>1. ASSUME NEW p \in Pid, ServiceStarts(p) PROVE StartUpInv'
    <3>1. service' \in ServiceType
      BY <1>0, <2>1 DEF ServiceStarts, ServiceType
    <3> QED
      BY <1>0, <2>1, <3>1, SpawnInv DEF ServiceStarts
  <2>2. CASE ServiceEnded
    <3>1. service' \in ServiceType
      BY <1>0, <2>2 DEF ServiceEnded, ServiceType
    <3> QED
      BY <1>0, <2>2, <3>1, AroundInv DEF ServiceEnded
  <2> QED
    BY <1>9, <2>1, <2>2 DEF Manages
<1>10. CASE ServiceStopped
  <2>1. service' \in ServiceType
    BY <1>10 DEF ServiceStopped, ServiceType
  <2> QED
    BY <1>0, <1>10, <2>1, EndInv DEF ServiceStopped
<1>11. CASE Prepare \/ CalmDown
  BY <1>0, <1>11, AroundInv DEF Prepare, CalmDown
<1> QED
  BY <1>1, <1>2, <1>3, <1>4, <1>5, <1>6, <1>7, <1>8, <1>9, <1>10, <1>11 DEF StartUpNext, Commands

-----------------------------------------------------------------------------
(* The set-up command around it.                                           *)

LEMMA Steps == Len(Step) = 7 /\ DOMAIN Step = 1 .. 7
BY DEF Step

LEMMA HostInitInv == HostInit => HostInv
BY StartUpInitInv, Steps
   DEF HostInit, HostInv, HostTypeOK, StartUpInv, StartUpInit, StepsBehind, EnabledLast, Step

\* The servers and their managers neither add a step nor take one back.
LEMMA ActiveIsOld ==
  ASSUME [StartUpNext]_startUpVars, service \in ServiceType
  PROVE  service'.active => service.active
BY DEF StartUpNext, startUpVars, Runs, Commands, Manages, LoadStores, Unprepared, LoadKey, RefuseKey,
       GenerateKey, CreateFile, WriteKey, WritePublic, ReadKnownHosts, KeyWriteFails, PublicFails, Dies,
       OtherProgram, OtherEnds, BindListener, PortTaken, CheckPidFile, Fork, EmptyPidFile, WritePidFile,
       PidFileFails, CutShort, ServiceStarts, ServiceEnded, ServiceStopped, Prepare, CalmDown, ServiceType

LEMMA HostNextInv == HostInv /\ [HostNext]_allVars => HostInv'
<1> SUFFICES ASSUME HostInv, [HostNext]_allVars PROVE HostInv'
  OBVIOUS
<1>0. /\ pidFile \in Pid \cup {Nil, "torn"} /\ sh \in [Shell -> ShellType]
      /\ service \in ServiceType /\ phase \in {"bare", "prepared", "calm"}
      /\ setup \in 0 .. 7 /\ host \subseteq {Step[i] : i \in DOMAIN Step}
  BY Steps DEF HostInv, HostTypeOK, StartUpTypeOK, ShellType, ServiceType
<1>1. CASE [StartUpNext]_startUpVars /\ UNCHANGED hostVars
  <2>1. StartUpInv'
    BY <1>1, StartUpNextInv DEF HostInv
  <2>2. EnabledLast'
    BY <1>0, <1>1, ActiveIsOld DEF hostVars, HostInv, EnabledLast
  <2> QED
    BY <1>1, <2>1, <2>2 DEF hostVars, HostInv, HostTypeOK, StartUpInv, StepsBehind
<1>2. CASE BeginSetup
  <2>1. StartUpInv'
    BY <1>0, <1>2, AroundInv DEF BeginSetup, startUpVars, HostInv
  <2> QED
    BY <1>0, <1>2, <2>1, Steps
       DEF BeginSetup, startUpVars, HostInv, HostTypeOK, StartUpInv, StepsBehind, EnabledLast
<1>3. CASE DoStep
  <2>1. service' \in ServiceType
    BY <1>0, <1>3 DEF DoStep, ServiceType
  <2>2. StartUpInv'
    BY <1>0, <1>3, <2>1, AroundInv DEF DoStep, HostInv
  <2>3. setup \in 1 .. 7 /\ host' = host \cup {Step[setup]}
        /\ setup' = IF setup = 7 THEN 0 ELSE setup + 1
    BY <1>0, <1>3, Steps DEF DoStep, Onward
  <2>4. host' \subseteq {Step[i] : i \in DOMAIN Step} /\ setup' \in 0 .. 7
    BY <1>0, <2>3, Steps
  <2>5. StepsBehind'
    BY <2>3, Steps DEF StepsBehind, HostInv
  <2>6. Step[setup] = "enable" => Needed \subseteq host
    BY <2>3, Steps DEF HostInv, StepsBehind, Step, Needed
  <2>7. service'.active => service.active \/ Step[setup] = "enable"
    BY <1>0, <1>3 DEF DoStep, ServiceType
  <2>8. EnabledLast'
    BY <2>3, <2>6, <2>7 DEF HostInv, EnabledLast
  <2> QED
    BY <2>2, <2>4, <2>5, <2>8, Steps DEF HostInv, HostTypeOK, StartUpInv
<1>4. CASE StepFails
  <2>1. StartUpInv'
    BY <1>0, <1>4, AroundInv DEF StepFails, startUpVars, HostInv
  <2>2. setup' \in 0 .. 7 /\ host' = host
    BY <1>0, <1>4, Steps DEF StepFails, Onward
  <2>3. StepsBehind'
    BY <1>0, <1>4, Steps DEF StepFails, Onward, StepsBehind, HostInv
  <2>4. EnabledLast'
    BY <1>4 DEF StepFails, startUpVars, HostInv, EnabledLast
  <2> QED
    BY <1>0, <2>1, <2>2, <2>3, <2>4, Steps DEF HostInv, HostTypeOK, StartUpInv
<1>5. CASE Reboot
  <2>1. service' \in ServiceType /\ sh' \in [Shell -> ShellType]
    BY <1>5 DEF Reboot, ServiceType, ShellType, IdleShell
  <2>2. StartUpInv'
    BY <1>0, <1>5, <2>1, EndInv DEF Reboot, HostInv
  <2>3. host' \subseteq {Step[i] : i \in DOMAIN Step} /\ setup' \in 0 .. 7
    BY <1>0, <1>5, Steps DEF Reboot, Step
  <2>4. StepsBehind'
    BY <1>5, Steps DEF Reboot, StepsBehind
  <2>5. EnabledLast'
    BY <1>5 DEF Reboot, HostInv, EnabledLast
  <2> QED
    BY <2>2, <2>3, <2>4, <2>5, Steps DEF HostInv, HostTypeOK, StartUpInv
<1> QED
  BY <1>1, <1>2, <1>3, <1>4, <1>5 DEF HostNext, allVars, hostVars

\* What the files, the servers and the set-up have to do with each other, for
\* any number of processes, commands and key files.
THEOREM HostInductive == HostSpec => []HostInv
BY HostInitInv, HostNextInv, PTL DEF HostSpec

\* A server whose start nothing overlapped serves with the keys on disk.
THEOREM ServesWithKeysOnDisk == HostSpec => []ServedKeyIsOnDisk
<1>1. HostInv => ServedKeyIsOnDisk
  <2> SUFFICES ASSUME HostInv, NEW p \in Pid, Serving(p), alone[p] PROVE signer[p] = file
    BY DEF ServedKeyIsOnDisk
  <2>1. \A f \in Files : signer[p][f] = file[f]
    BY DEF HostInv, StartUpInv, KeysBehind, Behind, Serving
  <2>2. signer[p] \in [Files -> Key \cup {Nil}] /\ file \in [Files -> Key \cup {Nil, "torn"}]
    BY DEF HostInv, HostTypeOK, StartUpTypeOK
  <2> QED
    BY <2>1, <2>2
<1> QED
  BY <1>1, HostInductive, PTL

\* systemd runs the service only on a host that has what the unit names.
THEOREM HostComesBeforeService == HostSpec => []ServiceHasItsHost
<1>1. HostInv => ServiceHasItsHost
  BY DEF HostInv, EnabledLast, ServiceHasItsHost
<1> QED
  BY <1>1, HostInductive, PTL

\* Keys that are settled are settled for good: no crash, no reboot, no second
\* start and no failed write touches a key file again.
THEOREM SettledKeysStay == HostSpec => KeysAreForever
<1>1. HostInv /\ [HostNext]_allVars => (Settled => Settled' /\ file' = file)
  <2> SUFFICES ASSUME HostInv, [HostNext]_allVars, Settled PROVE Settled' /\ file' = file
    OBVIOUS
  <2>1. \A p \in Pid : at[p] \in Files /\ file[at[p]] # Nil
    BY StartUpAssumption DEF HostInv, HostTypeOK, StartUpTypeOK, Settled
  <2>2. pc \in [Pid -> Loading \cup {"free", "other", "up"}]
    BY DEF HostInv, HostTypeOK, StartUpTypeOK
  <2>3. ASSUME NEW p \in Pid, Runs(p)
        PROVE  file' = file /\ \A q \in Pid : Generating(q)' => Generating(q)
    <3>1. ~GenerateKey(p) /\ ~CreateFile(p) /\ ~WriteKey(p)
      BY <2>1 DEF GenerateKey, CreateFile, WriteKey, Settled, Generating
    <3> QED
      BY <2>2, <2>3, <3>1
         DEF Runs, LoadStores, Unprepared, LoadKey, HaveKey, RefuseKey, WritePublic, ReadKnownHosts,
             End, Generating
  <2> DEFINE Quiet == file' = file /\ \A q \in Pid : pc'[q] \in {pc[q], "free", "load", "other"}
  <2>4. Quiet => file' = file /\ \A q \in Pid : Generating(q)' => Generating(q)
    BY DEF Generating
  <2>5. ASSUME NEW gone, End(gone), file' = file PROVE Quiet
    BY <2>5 DEF End
  <2>6. ASSUME NEW p \in Pid, Spawn(p), file' = file PROVE Quiet
    BY <2>2, <2>6 DEF Spawn
  <2>7. ASSUME UNCHANGED <<pc, file>> PROVE Quiet
    BY <2>7
  <2>8. ASSUME StartUpNext, ~\E p \in Pid : Runs(p) PROVE Quiet
    <3>1. ASSUME NEW p \in Pid,
                 \/ KeyWriteFails(p) \/ PublicFails(p) \/ Dies(p)
                 \/ \E l \in Listeners : BindListener(p, l) \/ PortTaken(p, l)
          PROVE  Quiet
      <4> HIDE DEF Quiet
      <4> QED
        BY <2>5, <2>7, <3>1 DEF KeyWriteFails, PublicFails, Dies, BindListener, PortTaken
    <3>2. ASSUME NEW p \in Pid, OtherProgram(p) \/ OtherEnds(p) PROVE Quiet
      BY <2>2, <3>2 DEF OtherProgram, OtherEnds
    <3>3. ASSUME NEW o \in Shell, CheckPidFile(o) \/ Commands(o) \/ PidFileFails(o) \/ CutShort(o)
          PROVE  Quiet
      <4> HIDE DEF Quiet
      <4>1. ASSUME NEW p \in Pid, Fork(o, p) PROVE Quiet
        BY <2>6, <4>1 DEF Fork
      <4>2. CASE PidFileFails(o)
        BY <2>5, <4>2 DEF PidFileFails
      <4>3. CASE CheckPidFile(o) \/ EmptyPidFile(o) \/ WritePidFile(o) \/ CutShort(o)
        BY <2>7, <4>3 DEF server, CheckPidFile, EmptyPidFile, WritePidFile, CutShort
      <4> QED
        BY <3>3, <4>1, <4>2, <4>3 DEF Commands
    <3>4. ASSUME Manages \/ ServiceStopped \/ Prepare \/ CalmDown PROVE Quiet
      <4> HIDE DEF Quiet
      <4>1. ASSUME NEW p \in Pid, ServiceStarts(p) PROVE Quiet
        BY <2>6, <4>1 DEF ServiceStarts
      <4>2. CASE ServiceStopped
        BY <2>5, <4>2 DEF ServiceStopped
      <4>3. CASE ServiceEnded \/ Prepare \/ CalmDown
        BY <2>7, <4>3 DEF server, ServiceEnded, Prepare, CalmDown
      <4> QED
        BY <3>4, <4>1, <4>2, <4>3 DEF Manages
    <3> HIDE DEF Quiet
    <3> QED
      BY <2>8, <3>1, <3>2, <3>3, <3>4 DEF StartUpNext
  <2>9. ASSUME ~StartUpNext PROVE Quiet
    <3> HIDE DEF Quiet
    <3>1. CASE Reboot
      BY <2>5, <3>1 DEF Reboot
    <3>2. CASE ~Reboot
      BY <2>7, <2>9, <3>2
         DEF HostNext, allVars, hostVars, startUpVars, server, BeginSetup, DoStep, StepFails
    <3> QED
      BY <3>1, <3>2
  <2>10. file' = file /\ \A q \in Pid : Generating(q)' => Generating(q)
    BY <2>3, <2>4, <2>8, <2>9
  <2> QED
    BY <2>10 DEF Settled
<1> QED
  BY <1>1, HostInductive, PTL DEF HostSpec, KeysAreForever

\* While a server that is on record lives, no second command spoils the pid
\* file or starts one beside it.
THEOREM RecordHolds == HostSpec => StaysOnRecord
<1>1. HostInv /\ [HostNext]_allVars =>
        \A p \in Pid : Recorded(p) /\ Server(p)' => Recorded(p)'
  <2> SUFFICES ASSUME HostInv, [HostNext]_allVars, NEW p \in Pid, Recorded(p), Server(p)'
               PROVE  pidFile' = p /\ \A o \in Shell : sh'[o].stage = "idle"
    BY DEF Recorded
  <2>1. /\ pidFile = p /\ pc[p] \notin {"free", "other"}
        /\ \A o \in Shell : sh[o].stage = "idle"
    BY DEF Recorded, Server, Loading
  <2>2. ~Stale(pidFile)
    BY <2>1 DEF Stale, Unused
  <2>3. ~Reboot
    BY DEF Reboot, End, Server, Loading
  <2> QED
    BY <2>1, <2>2, <2>3
       DEF HostNext, allVars, hostVars, StartUpNext, startUpVars, server, Runs, Commands, Manages,
           LoadStores, Unprepared, LoadKey, RefuseKey, GenerateKey, CreateFile, WriteKey,
           WritePublic, ReadKnownHosts, KeyWriteFails, PublicFails, Dies, OtherProgram, OtherEnds,
           BindListener, PortTaken, CheckPidFile, Fork, EmptyPidFile, WritePidFile,
           PidFileFails, CutShort, ServiceStarts, ServiceEnded, ServiceStopped, Prepare, CalmDown,
           BeginSetup, DoStep, StepFails
<1> QED
  BY <1>1, HostInductive, PTL DEF HostSpec, StaysOnRecord
=============================================================================
