------------------------------ MODULE WriteTx ------------------------------
(***************************************************************************)
(* DB.WithWriteTx of internal/db: the write transactions of two processes, *)
(* the server and the admin CLI, on one SQLite file.  Each has a writer    *)
(* pool of one connection; SQLite has one write lock, which BEGIN          *)
(* IMMEDIATE takes and the end of the transaction gives back.              *)
(*                                                                         *)
(* A context may end while a statement is at work.  The driver then        *)
(* reports the context's error whether or not the statement has had its    *)
(* effect, and has marked the connection as interrupted: database/sql      *)
(* discards such a connection when it is given back, and the next          *)
(* statement clears the mark.                                              *)
(***************************************************************************)
EXTENDS Naturals, Sequences

CONSTANTS
  Process,
  Call,     \* calls of WithWriteTx, and the writes of their fn
  Caller,   \* per call, the process it is made in
  None

ASSUME CallerAssumption == Caller \in [Call -> Process]
ASSUME NoneAssumption == None \notin Process \cup Call

VARIABLES
  conn,   \* per process, the one connection of DB.Writer
  lock,   \* SQLite's write lock: the process that holds it
  log,    \* the committed writes
  call,   \* per call, how far WithWriteTx is, and what it returns
  ended,  \* the calls whose context has ended
  base    \* per call, how many committed writes its fn has read

vars == <<conn, lock, log, call, ended, base>>

Conn == [owner : Call \cup {None}, tx : BOOLEAN, interrupted : BOOLEAN]
WithWriteTx ==
  [at : {"idle", "pool", "begin", "read", "write", "commit", "rollback", "close", "over"},
   result : {"none", "ok", "failed"}]

TypeOK ==
  /\ conn \in [Process -> Conn]
  /\ lock \in Process \cup {None}
  /\ log \in Seq(Call)
  /\ call \in [Call -> WithWriteTx]
  /\ ended \in SUBSET Call
  /\ base \in [Call -> Nat]

\* openWriter: SetMaxOpenConns(1).
Fresh == [owner |-> None, tx |-> FALSE, interrupted |-> FALSE]

Init ==
  /\ conn = [p \in Process |-> Fresh]
  /\ lock = None
  /\ log = <<>>
  /\ call = [c \in Call |-> [at |-> "idle", result |-> "none"]]
  /\ ended = {}
  /\ base = [c \in Call |-> 0]

-----------------------------------------------------------------------------
My(c) == conn[Caller[c]]
At(c, where) == call[c].at = where
Goes(c, where) == call' = [call EXCEPT ![c].at = where]
Ends(c, where, result) == call' = [call EXCEPT ![c] = [at |-> where, result |-> result]]

\* The connection of c's process after a statement.
Leaves(c, tx, interrupted) ==
  conn' = [conn EXCEPT ![Caller[c]] = [owner |-> c, tx |-> tx, interrupted |-> interrupted]]
Free(p) == IF lock = p THEN None ELSE lock

Start(c) ==
  /\ At(c, "idle")
  /\ Goes(c, "pool")
  /\ UNCHANGED <<conn, lock, log, ended, base>>

\* The request is cancelled, or its deadline passes.
ContextEnds(c) ==
  /\ ~At(c, "idle") /\ ~At(c, "over") /\ c \notin ended
  /\ ended' = ended \cup {c}
  /\ UNCHANGED <<conn, lock, log, call, base>>

\* d.Writer.Conn(ctx).
Acquire(c) ==
  /\ At(c, "pool") /\ My(c).owner = None
  /\ conn' = [conn EXCEPT ![Caller[c]].owner = c]
  /\ Goes(c, "begin")
  /\ UNCHANGED <<lock, log, ended, base>>

AcquireFails(c) ==
  /\ At(c, "pool") /\ c \in ended
  /\ Ends(c, "over", "failed")
  /\ UNCHANGED <<conn, lock, log, ended, base>>

\* BEGIN IMMEDIATE; SQLite has no transaction within a transaction.
BugBegin(c) ==
  /\ At(c, "begin") /\ ~My(c).tx
  /\ lock' = IF lock = None THEN Caller[c] ELSE lock
  /\ Leaves(c, TRUE, FALSE)
  /\ Goes(c, "read")
  /\ UNCHANGED <<log, ended, base>>
Begin(c) ==
  /\ At(c, "begin") /\ ~My(c).tx /\ lock = None
  /\ lock' = Caller[c]
  /\ Leaves(c, TRUE, FALSE)
  /\ Goes(c, "read")
  /\ UNCHANGED <<log, ended, base>>

\* The context ends, the transaction has begun: the deferred rollback is not
\* yet in place.
BeginCut(c) ==
  /\ At(c, "begin") /\ ~My(c).tx /\ lock = None /\ c \in ended
  /\ lock' = Caller[c]
  /\ Leaves(c, TRUE, TRUE)
  /\ Ends(c, "close", "failed")
  /\ UNCHANGED <<log, ended, base>>

\* SQLITE_BUSY after five seconds, a context that ended before, an error.
BeginFails(c) ==
  /\ At(c, "begin")
  /\ Ends(c, "close", "failed")
  /\ UNCHANGED <<conn, lock, log, ended, base>>

\* fn reads what it is going to change, and changes it.
FnReads(c) ==
  /\ At(c, "read")
  /\ base' = [base EXCEPT ![c] = Len(log)]
  /\ Goes(c, "write")
  /\ UNCHANGED <<conn, lock, log, ended>>

FnWrites(c) ==
  /\ At(c, "write")
  /\ Goes(c, "commit")
  /\ UNCHANGED <<conn, lock, log, ended, base>>

\* fn returns an error, or panics; SQLite ends the transaction by itself when
\* a write is interrupted.
FnFails(c) ==
  /\ At(c, "read") \/ At(c, "write") \/ At(c, "commit")
  /\ Ends(c, "rollback", "failed")
  /\ \/ UNCHANGED <<conn, lock>>
     \/ c \in ended /\ Leaves(c, FALSE, TRUE) /\ lock' = Free(Caller[c])
  /\ UNCHANGED <<log, ended, base>>

Commit(c) ==
  /\ At(c, "commit")
  /\ log' = Append(log, c)
  /\ Leaves(c, FALSE, FALSE) /\ lock' = Free(Caller[c])
  /\ Ends(c, "close", "ok")
  /\ UNCHANGED <<ended, base>>

\* The context ends, the transaction is committed.
CommitCut(c) ==
  /\ At(c, "commit") /\ c \in ended
  /\ log' = Append(log, c)
  /\ Leaves(c, FALSE, TRUE) /\ lock' = Free(Caller[c])
  /\ Ends(c, "rollback", "failed")
  /\ UNCHANGED <<ended, base>>

CommitFails(c) ==
  /\ At(c, "commit")
  /\ \E cut \in BOOLEAN : (cut => c \in ended) /\ Leaves(c, TRUE, cut)
  /\ Ends(c, "rollback", "failed")
  /\ UNCHANGED <<lock, log, ended, base>>

\* "Use a fresh context so we don't fail the rollback when the caller's
\* context was already cancelled."
Rollback(c) ==
  /\ At(c, "rollback")
  /\ Leaves(c, FALSE, FALSE) /\ lock' = Free(Caller[c])
  /\ Goes(c, "close")
  /\ UNCHANGED <<log, ended, base>>

BugClose(c) ==
  /\ At(c, "close")
  /\ Goes(c, "over")
  /\ UNCHANGED <<conn, lock, log, ended, base>>
\* conn.Close: back to the pool, or discarded, which ends its transaction.
Close(c) ==
  /\ At(c, "close")
  /\ IF My(c).interrupted
     THEN conn' = [conn EXCEPT ![Caller[c]] = Fresh] /\ lock' = Free(Caller[c])
     ELSE conn' = [conn EXCEPT ![Caller[c]].owner = None] /\ UNCHANGED lock
  /\ Goes(c, "over")
  /\ UNCHANGED <<log, ended, base>>

\* The process is killed: nobody is told anything.
Die(p) ==
  /\ conn' = [conn EXCEPT ![p] = Fresh]
  /\ lock' = Free(p)
  /\ call' = [c \in Call |->
       IF Caller[c] = p /\ ~At(c, "idle") /\ ~At(c, "over")
       THEN [at |-> "over", result |-> "none"] ELSE call[c]]
  /\ UNCHANGED <<log, ended, base>>

Runs(c) ==
  \/ Acquire(c) \/ AcquireFails(c) \/ Begin(c) \/ BeginCut(c) \/ BeginFails(c)
  \/ FnReads(c) \/ FnWrites(c) \/ FnFails(c)
  \/ Commit(c) \/ CommitCut(c) \/ CommitFails(c) \/ Rollback(c) \/ Close(c)

Next ==
  \/ \E c \in Call : Start(c) \/ ContextEnds(c) \/ Runs(c)
  \/ \E p \in Process : Die(p)

Spec == Init /\ [][Next]_vars

\* Statements end: SQLite waits at most its five seconds for the lock.
FairSpec == Spec /\ \A c \in Call : WF_vars(Runs(c))

-----------------------------------------------------------------------------
(* The inductive invariant.                                                *)

Holds(c) == call[c].at \in {"begin", "read", "write", "commit", "rollback", "close"}

\* The connection is its owner's, and a transaction of one that is not
\* interrupted is the one its owner is in.
ConnsOk ==
  /\ \A c \in Call : Holds(c) <=> My(c).owner = c
  /\ \A p \in Process : conn[p].owner # None => Caller[conn[p].owner] = p
  /\ \A c \in Call : Holds(c) =>
       /\ At(c, "begin") => ~My(c).tx
       /\ call[c].at \in {"read", "write", "commit"} => My(c).tx
       /\ At(c, "close") /\ My(c).tx => My(c).interrupted

LockOk == \A p \in Process : conn[p].tx <=> lock = p

\* A connection in the pool has no transaction and no mark: the next caller
\* finds it as a new one.
PoolClean == \A p \in Process : conn[p].owner = None => conn[p] = Fresh

InLog(c) == \E i \in DOMAIN log : log[i] = c

LogOk ==
  /\ \A i \in DOMAIN log : base[log[i]] = i - 1
  /\ \A c \in Call :
       /\ call[c].at \in {"write", "commit"} => base[c] = Len(log)
       /\ call[c].at \in {"idle", "pool", "begin", "read", "write", "commit"} =>
            ~InLog(c) /\ call[c].result = "none"
       /\ call[c].result = "ok" => InLog(c)
       /\ call[c].at \in {"rollback", "close"} => call[c].result # "none"

IInv == TypeOK /\ ConnsOk /\ LockOk /\ PoolClean /\ LogOk

-----------------------------------------------------------------------------
(* Properties.                                                             *)

\* Told by its return value; a killed process tells nothing.
Told(c) ==
  CASE At(c, "over") /\ call[c].result = "ok" -> "done"
    [] At(c, "over") /\ call[c].result = "failed" -> "failed"
    [] OTHER -> "nothing"

Promise == INSTANCE WritePromise WITH told <- [c \in Call |-> Told(c)]

\* WithWriteTx keeps the promise the stores are built on, whatever contexts
\* end during whatever statements: a caller told "done" has written, once,
\* on top of everything it read.
ImplementsPromise == Promise!PromiseSpec

\* "Leaving an open SQLite transaction would hold the write lock for the
\* next caller": nobody is left with the lock but a call at work, and a
\* connection that is given back is as good as a new one.
LockIsOwned ==
  \A p \in Process :
    /\ conn[p].owner = None => conn[p] = Fresh
    /\ lock = p => conn[p].owner # None

\* Every call returns, or its process is killed.
CallsReturn == \A c \in Call : At(c, "pool") ~> At(c, "over")
=============================================================================
