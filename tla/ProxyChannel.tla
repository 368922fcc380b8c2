---------------------------- MODULE ProxyChannel ----------------------------
(***************************************************************************)
(* internal/sshproxy, proxyChannel: one SSH channel of the client joined   *)
(* to one of the upstream by six goroutines, and the teardown that must    *)
(* neither hang, nor cut off stderr, the exit status, or a reply the       *)
(* client is waiting for.                                                  *)
(*                                                                         *)
(* The channel of golang.org/x/crypto/ssh, external: a peer's close lets   *)
(* what it sent before be read to the end and then ends its request        *)
(* channel and its streams; our own Close only tells the peer, and the     *)
(* peer's close in return is what ends the reads on our side.              *)
(***************************************************************************)
EXTENDS Naturals

CONSTANTS
  Chunks,   \* bound: pieces of data the upstream writes on each stream
  Requests  \* bound: channel requests the client makes

ASSUME BoundsAssumption == Chunks \in Nat /\ Requests \in Nat

Stream == {"stdout", "stderr"}
Copier == {"stdout", "stderr", "stdin", "stdinExt"}

VARIABLES
  up,        \* the upstream's end: open, at end of file, closed
  toWrite,   \* per stream, what the upstream program has still to write
  pipe,      \* per stream, what the upstream has written and nobody has read
  upReqs,    \* requests of the upstream (exit-status) not yet forwarded
  exitSent,  \* whether the upstream has sent its exit-status
  cl,        \* the client's end: open, at end of file, told to close, closed
  toAsk,     \* requests the client has still to make
  clReqs,    \* requests of the client not yet taken by the loop
  stdin,     \* client data: not written, written, copied to the upstream
  fwd,       \* the client's request loop
  back,      \* whether the upstream's request loop runs
  copying,   \* per copier, whether its goroutine runs
  replying,  \* the mutex
  main       \* proxyChannel itself

channelVars == <<up, toWrite, pipe, upReqs, exitSent, cl, toAsk, clReqs, stdin,
          fwd, back, copying, replying, main>>

upVars == <<up, toWrite, exitSent>>
clVars == <<toAsk>>

ChannelTypeOK ==
  /\ up \in {"open", "eof", "closed"}
  /\ toWrite \in [Stream -> 0 .. Chunks]
  /\ pipe \in [Stream -> 0 .. Chunks]
  /\ upReqs \in 0 .. 1
  /\ exitSent \in BOOLEAN
  /\ cl \in {"open", "eof", "told", "closed"}
  /\ toAsk \in 0 .. Requests
  /\ clReqs \in 0 .. Requests
  /\ stdin \in {"unwritten", "written", "copied"}
  /\ fwd \in {"idle", "taken", "forwarding", "answered", "done"}
  /\ back \in BOOLEAN
  /\ copying \in [Copier -> BOOLEAN]
  /\ replying \in {"free", "loop", "main"}
  /\ main \in {"waitReqs", "waitStreams", "close", "drain", "returned"}

ChannelInit ==
  /\ up = "open" /\ exitSent = FALSE
  /\ toWrite \in [Stream -> 0 .. Chunks]
  /\ pipe = [s \in Stream |-> 0]
  /\ upReqs = 0
  /\ cl = "open" /\ toAsk = Requests /\ clReqs = 0 /\ stdin = "unwritten"
  /\ fwd = "idle" /\ back = TRUE
  /\ copying = [c \in Copier |-> TRUE]
  /\ replying = "free"
  /\ main = "waitReqs"

\* The client can still be written to.
ClientListens == cl \in {"open", "eof"}

-----------------------------------------------------------------------------
(* Mutants: the teardown orders the comment on proxyChannel rules out, and *)
(* slips of the loops.                                                     *)

\* Close as soon as stdout is through.
BugDrainedFromUpstream == ~copying["stdout"]

\* Wait for every goroutine before closing.
BugMayClose == \A c \in Copier : ~copying[c]

\* The loop goes on after its channel has closed and forwards empty requests.
BugBackForwards ==
  /\ back
  /\ upReqs' = upReqs - 1
  /\ UNCHANGED <<pipe, cl, stdin, clReqs, fwd, back, copying, replying, main>>
  /\ UNCHANGED upVars /\ UNCHANGED clVars

\* Half-close the upstream without having copied what came before.
BugInputOver(c) == cl # "open"

-----------------------------------------------------------------------------
(* The two ends, external.                                                 *)

UpstreamWrites(s) ==
  /\ up = "open" /\ toWrite[s] > 0
  /\ toWrite' = [toWrite EXCEPT ![s] = @ - 1]
  /\ pipe' = [pipe EXCEPT ![s] = @ + 1]
  /\ UNCHANGED <<up, upReqs, exitSent, cl, stdin, clReqs, fwd, back, copying, replying, main>>
  /\ UNCHANGED clVars

UpstreamEof ==
  /\ up = "open" /\ \A s \in Stream : toWrite[s] = 0
  /\ up' = "eof"
  /\ UNCHANGED <<toWrite, pipe, upReqs, exitSent, cl, stdin, clReqs, fwd, back, copying, replying, main>>
  /\ UNCHANGED clVars

\* The exit status follows end of file.
UpstreamExits ==
  /\ up = "eof" /\ ~exitSent
  /\ exitSent' = TRUE /\ upReqs' = upReqs + 1
  /\ UNCHANGED <<up, toWrite, pipe, cl, stdin, clReqs, fwd, back, copying, replying, main>>
  /\ UNCHANGED clVars

\* A close, an upstream that dies included.
UpstreamCloses ==
  /\ up # "closed"
  /\ up' = "closed"
  /\ UNCHANGED <<toWrite, pipe, upReqs, exitSent, cl, stdin, clReqs, fwd, back, copying, replying, main>>
  /\ UNCHANGED clVars

ClientAsks ==
  /\ ClientListens /\ toAsk > 0
  /\ toAsk' = toAsk - 1 /\ clReqs' = clReqs + 1
  /\ UNCHANGED <<pipe, upReqs, cl, stdin, fwd, back, copying, replying, main>>
  /\ UNCHANGED upVars

ClientWrites ==
  /\ cl = "open" /\ stdin = "unwritten"
  /\ stdin' = "written"
  /\ UNCHANGED <<pipe, upReqs, cl, clReqs, fwd, back, copying, replying, main>>
  /\ UNCHANGED upVars /\ UNCHANGED clVars

ClientEof ==
  /\ cl = "open"
  /\ cl' = "eof"
  /\ UNCHANGED <<pipe, upReqs, stdin, clReqs, fwd, back, copying, replying, main>>
  /\ UNCHANGED upVars /\ UNCHANGED clVars

\* Of its own accord, because its connection dies, or in answer to our close.
ClientCloses ==
  /\ cl # "closed"
  /\ cl' = "closed"
  /\ UNCHANGED <<pipe, upReqs, stdin, clReqs, fwd, back, copying, replying, main>>
  /\ UNCHANGED upVars /\ UNCHANGED clVars

-----------------------------------------------------------------------------
(* The client's request loop: forwardClientRequest under the reply lock.   *)

LoopTakes ==
  /\ fwd = "idle" /\ clReqs > 0
  /\ clReqs' = clReqs - 1
  /\ fwd' = "taken"
  /\ UNCHANGED <<pipe, upReqs, cl, stdin, back, copying, replying, main>>
  /\ UNCHANGED upVars /\ UNCHANGED clVars

LoopLocks ==
  /\ fwd = "taken" /\ replying = "free"
  /\ replying' = "loop"
  /\ fwd' = "forwarding"
  /\ UNCHANGED <<pipe, upReqs, cl, stdin, clReqs, back, copying, main>>
  /\ UNCHANGED upVars /\ UNCHANGED clVars

\* The upstream answers, or its channel closes under SendRequest.  Agent
\* forwarding is declined without asking it.
LoopAnswered ==
  /\ fwd = "forwarding"
  /\ fwd' = "answered"
  /\ UNCHANGED <<pipe, upReqs, cl, stdin, clReqs, back, copying, replying, main>>
  /\ UNCHANGED upVars /\ UNCHANGED clVars

LoopReplies ==
  /\ fwd = "answered"
  /\ fwd' = "idle" /\ replying' = "free"
  /\ UNCHANGED <<pipe, upReqs, cl, stdin, clReqs, back, copying, main>>
  /\ UNCHANGED upVars /\ UNCHANGED clVars

LoopEnds ==
  /\ fwd = "idle" /\ clReqs = 0 /\ cl = "closed"
  /\ fwd' = "done"
  /\ UNCHANGED <<pipe, upReqs, cl, stdin, clReqs, back, copying, replying, main>>
  /\ UNCHANGED upVars /\ UNCHANGED clVars

-----------------------------------------------------------------------------
(* The upstream's request loop and the four copies.                        *)

BackForwards ==
  /\ back /\ upReqs > 0
  /\ upReqs' = upReqs - 1
  /\ UNCHANGED <<pipe, cl, stdin, clReqs, fwd, back, copying, replying, main>>
  /\ UNCHANGED upVars /\ UNCHANGED clVars

BackEnds ==
  /\ back /\ upReqs = 0 /\ up = "closed"
  /\ back' = FALSE
  /\ UNCHANGED <<pipe, upReqs, cl, stdin, clReqs, fwd, copying, replying, main>>
  /\ UNCHANGED upVars /\ UNCHANGED clVars

\* Delivering needs a client that reads.
CopyOut(s) ==
  /\ copying[s] /\ pipe[s] > 0 /\ ClientListens
  /\ pipe' = [pipe EXCEPT ![s] = @ - 1]
  /\ UNCHANGED <<upReqs, cl, stdin, clReqs, fwd, back, copying, replying, main>>
  /\ UNCHANGED upVars /\ UNCHANGED clVars

\* io.Copy returns at end of file, or when the write to the client fails.
CopyOutEnds(s) ==
  /\ copying[s]
  /\ \/ pipe[s] = 0 /\ up # "open"
     \/ pipe[s] > 0 /\ ~ClientListens
  /\ copying' = [copying EXCEPT ![s] = FALSE]
  /\ UNCHANGED <<pipe, upReqs, cl, stdin, clReqs, fwd, back, replying, main>>
  /\ UNCHANGED upVars /\ UNCHANGED clVars

CopyIn ==
  /\ copying["stdin"] /\ stdin = "written" /\ up # "closed"
  /\ stdin' = "copied"
  /\ UNCHANGED <<pipe, upReqs, cl, clReqs, fwd, back, copying, replying, main>>
  /\ UNCHANGED upVars /\ UNCHANGED clVars

\* What the client sent is copied to its end before end of file shows; a
\* write to a closed upstream fails.  CloseWrite follows on stdin.
InputOver(c) ==
  \/ cl \in {"eof", "closed"} /\ (c = "stdin" => stdin # "written")
  \/ c = "stdin" /\ stdin = "written" /\ up = "closed"

CopyInEnds(c) ==
  /\ c \in {"stdin", "stdinExt"} /\ copying[c]
  /\ InputOver(c)
  /\ copying' = [copying EXCEPT ![c] = FALSE]
  /\ UNCHANGED <<pipe, upReqs, cl, stdin, clReqs, fwd, back, replying, main>>
  /\ UNCHANGED upVars /\ UNCHANGED clVars

-----------------------------------------------------------------------------
(* proxyChannel: three stages and the drain.                               *)

MainTo(from, to) ==
  /\ main = from
  /\ main' = to
  /\ UNCHANGED <<pipe, upReqs, stdin, clReqs, fwd, back, copying>>
  /\ UNCHANGED upVars /\ UNCHANGED clVars

\* The upstream's request channel has closed: the one sure end of the session.
SessionOver == ~back
Stage1 == SessionOver /\ MainTo("waitReqs", "waitStreams") /\ UNCHANGED <<cl, replying>>

DrainedFromUpstream == \A s \in Stream : ~copying[s]
Stage2 == DrainedFromUpstream /\ MainTo("waitStreams", "close") /\ UNCHANGED <<cl, replying>>

\* replying.Lock, both Closes, replying.Unlock.
LockFree == replying = "free"
MayClose == TRUE
Stage3 ==
  /\ LockFree /\ MayClose
  /\ MainTo("close", "drain")
  /\ cl' = IF cl = "closed" THEN cl ELSE "told"
  /\ UNCHANGED replying

MainReturns ==
  /\ fwd = "done" /\ ~back /\ ~copying["stdin"] /\ ~copying["stdinExt"]
  /\ MainTo("drain", "returned")
  /\ UNCHANGED <<cl, replying>>

ChannelNext ==
  \/ \E s \in Stream : UpstreamWrites(s) \/ CopyOut(s) \/ CopyOutEnds(s)
  \/ UpstreamEof \/ UpstreamExits \/ UpstreamCloses
  \/ ClientAsks \/ ClientWrites \/ ClientEof \/ ClientCloses
  \/ LoopTakes \/ LoopLocks \/ LoopAnswered \/ LoopReplies \/ LoopEnds
  \/ BackForwards \/ BackEnds
  \/ CopyIn \/ \E c \in {"stdin", "stdinExt"} : CopyInEnds(c)
  \/ Stage1 \/ Stage2 \/ Stage3 \/ MainReturns

ChannelSpec == ChannelInit /\ [][ChannelNext]_channelVars

\* The goroutines run; a client reads what it is sent and answers a close; an
\* upstream that has closed answers nothing more, so SendRequest returns.
ChannelFairness ==
  /\ WF_channelVars(LoopTakes) /\ WF_channelVars(LoopLocks) /\ WF_channelVars(LoopReplies) /\ WF_channelVars(LoopEnds)
  /\ WF_channelVars(up = "closed" /\ LoopAnswered)
  /\ WF_channelVars(BackForwards) /\ WF_channelVars(BackEnds)
  /\ \A s \in Stream : WF_channelVars(CopyOut(s)) /\ WF_channelVars(CopyOutEnds(s))
  /\ WF_channelVars(CopyIn)
  /\ \A c \in {"stdin", "stdinExt"} : WF_channelVars(CopyInEnds(c))
  /\ WF_channelVars(Stage1) /\ WF_channelVars(Stage2) /\ WF_channelVars(Stage3) /\ WF_channelVars(MainReturns)
  /\ WF_channelVars(cl = "told" /\ ClientCloses)

FairChannelSpec == ChannelSpec /\ ChannelFairness

-----------------------------------------------------------------------------
(* The inductive invariant.  Each stage of the teardown is a fact about    *)
(* the two loops and the copies that later steps cannot undo.              *)

\* What is still to come stays within what there was.
Conserved ==
  /\ \A s \in Stream : toWrite[s] + pipe[s] <= Chunks
  /\ toAsk + clReqs <= Requests
  /\ upReqs = 1 => exitSent

\* The reply lock is held by the loop exactly while a request is between its
\* upstream and its reply; main takes it and gives it back in one step.
LockIsTheLoops ==
  replying = IF fwd \in {"forwarding", "answered"} THEN "loop" ELSE "free"

\* The upstream's loop ends only when there is nothing left to forward.
UpstreamIsThrough == ~back => up = "closed" /\ upReqs = 0

\* A copy that has ended while the client listens has delivered everything.
Delivered ==
  \A s \in Stream : ~copying[s] /\ ClientListens => pipe[s] = 0 /\ up # "open"

StagesInOrder ==
  /\ main # "waitReqs" => ~back
  /\ main \in {"close", "drain", "returned"} => \A s \in Stream : ~copying[s]
  /\ cl = "told" => main \in {"drain", "returned"}
  /\ fwd = "done" => cl = "closed" /\ clReqs = 0
  /\ main = "returned" => fwd = "done" /\ \A c \in Copier : ~copying[c]

ChannelInv ==
  /\ ChannelTypeOK /\ Conserved /\ LockIsTheLoops /\ UpstreamIsThrough
  /\ Delivered /\ StagesInOrder

-----------------------------------------------------------------------------
(* Properties.                                                             *)

Cutting == ClientListens /\ cl' = "told"

\* Our close of the client's side cuts nothing off: it comes after the
\* upstream has closed ("Closing when the upstream's streams reach EOF closes
\* a LIVE SESSION"), after the last byte of stdout and stderr and the exit
\* status ("Closing as soon as the byte-stream copies finish TRUNCATES
\* STDERR"; golang/go#29733), and not between the upstream's answer to a
\* request and the reply to the client.
NothingTruncated ==
  [][Cutting =>
       /\ up = "closed"
       /\ \A s \in Stream : pipe[s] = 0
       /\ upReqs = 0
       /\ fwd \notin {"forwarding", "answered"}]_channelVars

\* The upstream is told end of input only after all the input.
InputComplete ==
  [][copying["stdin"] /\ ~copying'["stdin"] /\ up # "closed" => stdin # "written"]_channelVars

\* No order of closes, requests and copies leaves a goroutine behind once the
\* upstream has closed: "Waiting on all six goroutines before closing DEADLOCKS".
NoneLeftBehind == up = "closed" ~> main = "returned"
=============================================================================
