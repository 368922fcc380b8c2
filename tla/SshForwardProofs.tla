-------------------------- MODULE SshForwardProofs --------------------------
(***************************************************************************)
(* The two levels of internal/sshproxy/forward.go.  The joins of           *)
(* ChannelForwarder.Handle, for any number of channels: it never returns   *)
(* with a goroutine or a channel at work, and no channel is opened between *)
(* ends that are not both there.  The teardown of one channel, for any     *)
(* amount of data and any number of requests: it cuts nothing off, and it  *)
(* is over only when nothing is left at work.                              *)
(***************************************************************************)
EXTENDS SshForward, ProxyChannel, TLAPS

LEMMA InitIInv == Init => IInv
BY DEF Init, IInv, TypeOK, Proxying, Opening

\* A step that leaves Handle, its goroutines and its channels alone.
LEMMA EnvironmentIInv ==
  ASSUME IInv, UNCHANGED <<stage, closer, globals, upWait, pump, channel>>,
         ctx' \in BOOLEAN, sess' \in BOOLEAN,
         client' \in {"open", "closed"}, upstream' \in {"none", "connected", "open", "closed"},
         client = "closed" => client' = "closed"
  PROVE  IInv'
BY DEF IInv, TypeOK, Proxying, Opening

\* A step of one channel.
LEMMA ChannelIInv ==
  ASSUME IInv, NEW c \in Channel, NEW to \in {"asked", "opening", "proxied", "rejected", "ended"},
         channel' = [channel EXCEPT ![c] = to],
         UNCHANGED <<stage, ctx, sess, client, upstream, closer, globals, upWait, pump>>,
         to \in {"opening", "proxied"} => pump
  PROVE  IInv'
<1>1. channel' \in [Channel -> {"none", "asked", "opening", "proxied", "rejected", "ended"}]
  BY DEF IInv, TypeOK
<1>2. to = "opening" \/ (Opening' => Opening)
  BY DEF IInv, TypeOK, Opening
<1>3. to = "proxied" \/ (Proxying' => Proxying)
  BY DEF IInv, TypeOK, Proxying
<1> QED
  BY <1>1, <1>2, <1>3 DEF IInv, TypeOK

LEMMA NextIInv == IInv /\ [Next]_vars => IInv'
<1> SUFFICES ASSUME IInv, [Next]_vars PROVE IInv'
  OBVIOUS
<1>1. CASE Cancel \/ ClientGoes \/ UpstreamGoes \/ Mint \/ UNCHANGED vars
  <2>1. CASE Mint
    BY <2>1 DEF IInv, TypeOK, Mint, Goroutines, Ends, Proxying, Opening
  <2>2. CASE ~Mint
    BY <1>1, <2>2, EnvironmentIInv
       DEF IInv, TypeOK, Cancel, ClientGoes, UpstreamGoes, Goroutines, Ends, vars
  <2> QED
    BY <2>1, <2>2
<1>2. CASE MintFails \/ DialFails \/ HandshakeFails
  BY <1>2 DEF IInv, TypeOK, MintFails, DialFails, HandshakeFails, Fail, Goroutines, Proxying, Opening
<1>3. CASE Dial
  BY <1>3 DEF IInv, TypeOK, Dial, Goroutines, Proxying, Opening
<1>4. CASE Join
  BY <1>4 DEF IInv, TypeOK, Join, Proxying, Opening
<1>5. CASE Closer
  BY <1>5 DEF IInv, TypeOK, Closer, CloserActs, Proxying, Opening
<1>6. CASE GlobalsEnd
  BY <1>6 DEF IInv, TypeOK, GlobalsEnd, Ends, Proxying, Opening
<1>16. CASE UpWaitEnds
  BY <1>16 DEF IInv, TypeOK, UpWaitEnds, Ends, Proxying, Opening
<1>7. CASE PumpEnds
  BY <1>7 DEF IInv, TypeOK, PumpEnds, Ends, Proxying, Opening
<1>8. ASSUME NEW c \in Channel, ClientOpens(c) PROVE IInv'
  BY <1>8, ChannelIInv DEF ClientOpens, Goroutines, Ends
<1>9. ASSUME NEW c \in Channel, PumpTakes(c) PROVE IInv'
  BY <1>9, ChannelIInv DEF PumpTakes, Step, Goroutines, Ends
<1>10. ASSUME NEW c \in Channel, OpenAnswered(c) PROVE IInv'
  BY <1>10, ChannelIInv DEF OpenAnswered, Bridge, Reject, Goroutines, Ends
<1>11. ASSUME NEW c \in Channel, ChannelEnds(c) PROVE IInv'
  BY <1>11, ChannelIInv DEF ChannelEnds, Step, Goroutines, Ends
<1>12. CASE Select
  BY <1>12 DEF IInv, TypeOK, Select, To, Goroutines, Ends, Proxying, Opening
<1>13. CASE JoinPump
  BY <1>13 DEF IInv, TypeOK, JoinPump, To, Goroutines, Ends, Proxying, Opening
<1>14. CASE JoinChannels
  BY <1>14 DEF IInv, TypeOK, JoinChannels, ChannelsJoined, To, Goroutines, Ends, Proxying, Opening
<1>15. CASE Return
  BY <1>15 DEF IInv, TypeOK, Return, To, Goroutines, Proxying, Opening
<1> QED
  BY <1>1, <1>2, <1>3, <1>4, <1>5, <1>6, <1>7, <1>8, <1>9, <1>10, <1>11, <1>12, <1>13,
     <1>14, <1>15, <1>16 DEF Next

\* What Handle has started and joined is accounted for at every instant.
THEOREM Inductive == Spec => []IInv
BY InitIInv, NextIInv, PTL DEF Spec

\* Handle returns to the deferred Close with nothing left at work.
THEOREM ReturnsAlone == Spec => []NothingYanked
<1>1. IInv => NothingYanked
  BY DEF IInv, TypeOK, NothingYanked
<1> QED
  BY <1>1, Inductive, PTL

\* A channel is proxied between two open ends only, before the pump is joined.
THEOREM OpensBetweenOpenEnds == Spec => NoOpenAfterJoin
<1>1. IInv /\ [Next]_vars =>
        \A c \in Channel : channel[c] # "proxied" /\ channel'[c] = "proxied" =>
          upstream = "open" /\ stage \in {"bridged", "joinPump"}
  <2> SUFFICES ASSUME IInv, [Next]_vars, NEW c \in Channel,
                      channel[c] # "proxied", channel'[c] = "proxied"
               PROVE  upstream = "open" /\ stage \in {"bridged", "joinPump"}
    OBVIOUS
  <2>1. PICK d \in Channel : OpenAnswered(d)
    BY DEF Next, vars, Cancel, ClientGoes, UpstreamGoes, Mint, MintFails, Dial, DialFails, Join,
           HandshakeFails, Fail, Closer, GlobalsEnd, UpWaitEnds, PumpEnds, ClientOpens, PumpTakes,
           ChannelEnds, Step, Select, JoinPump, JoinChannels, Return, To, Goroutines, Ends, IInv, TypeOK
  <2>2. pump
    BY <2>1 DEF OpenAnswered
  <2>3. upstream = "open"
    BY <2>1 DEF OpenAnswered, Bridge, Reject, IInv, TypeOK
  <2> QED
    BY <2>2, <2>3 DEF IInv, TypeOK
<1> QED
  BY <1>1, Inductive, PTL DEF Spec, NoOpenAfterJoin

-----------------------------------------------------------------------------
(* Inside one channel: ProxyChannel.                                       *)

LEMMA ChannelInitInv == ChannelInit => ChannelInv
<1> SUFFICES ASSUME ChannelInit PROVE ChannelInv
  OBVIOUS
<1> USE BoundsAssumption DEF ChannelInit
<1>1. pipe \in [Stream -> 0 .. Chunks] /\ copying \in [Copier -> BOOLEAN]
  OBVIOUS
<1>5. toWrite \in [Stream -> 0 .. Chunks] /\ toAsk \in 0 .. Requests /\ clReqs \in 0 .. Requests
  OBVIOUS
<1>2. ChannelTypeOK
  <2>1. upReqs \in 0 .. 1
    OBVIOUS
  <2> QED
    BY <1>1, <1>5, <2>1, Zenon DEF ChannelTypeOK
<1>3. Conserved
  <2>1. ASSUME NEW s \in Stream PROVE toWrite[s] + pipe[s] <= Chunks
    OBVIOUS
  <2> QED
    BY <2>1 DEF Conserved
<1>4. Delivered
  BY DEF Delivered, Stream, Copier
<1> QED
  BY <1>2, <1>3, <1>4 DEF ChannelInv, LockIsTheLoops, UpstreamIsThrough, StagesInOrder

\* The ends of the channel, whatever they do and whenever.
LEMMA EndsInv ==
  ASSUME ChannelInv,
         \/ \E s \in Stream : UpstreamWrites(s)
         \/ UpstreamEof \/ UpstreamExits \/ UpstreamCloses
         \/ ClientAsks \/ ClientWrites \/ ClientEof \/ ClientCloses
  PROVE  ChannelInv'
<1> USE BoundsAssumption DEF ChannelInv, upVars, clVars
<1>1. CASE \E s \in Stream : UpstreamWrites(s)
  <2> PICK s \in Stream : UpstreamWrites(s)
    BY <1>1
  <2>1. ChannelTypeOK'
    BY DEF UpstreamWrites, ChannelTypeOK, Conserved
  <2>2. Conserved'
    BY DEF UpstreamWrites, ChannelTypeOK, Conserved
  <2>3. Delivered'
    BY DEF UpstreamWrites, ChannelTypeOK, Delivered, ClientListens
  <2> QED
    BY <2>1, <2>2, <2>3 DEF UpstreamWrites, LockIsTheLoops, UpstreamIsThrough, StagesInOrder
<1>2. CASE UpstreamEof
  BY <1>2 DEF UpstreamEof, ChannelTypeOK, Conserved, LockIsTheLoops, UpstreamIsThrough, Delivered,
              StagesInOrder, ClientListens
<1>3. CASE UpstreamExits
  BY <1>3 DEF UpstreamExits, ChannelTypeOK, Conserved, LockIsTheLoops, UpstreamIsThrough, Delivered,
              StagesInOrder, ClientListens
<1>4. CASE UpstreamCloses
  BY <1>4 DEF UpstreamCloses, ChannelTypeOK, Conserved, LockIsTheLoops, UpstreamIsThrough, Delivered,
              StagesInOrder, ClientListens
<1>5. CASE ClientAsks
  BY <1>5 DEF ClientAsks, ChannelTypeOK, Conserved, LockIsTheLoops, UpstreamIsThrough, Delivered,
              StagesInOrder, ClientListens
<1>6. CASE ClientWrites
  BY <1>6 DEF ClientWrites, ChannelTypeOK, Conserved, LockIsTheLoops, UpstreamIsThrough, Delivered,
              StagesInOrder, ClientListens
<1>7. CASE ClientEof \/ ClientCloses
  BY <1>7 DEF ClientEof, ClientCloses, ChannelTypeOK, Conserved, LockIsTheLoops, UpstreamIsThrough,
              Delivered, StagesInOrder, ClientListens
<1> QED
  BY <1>1, <1>2, <1>3, <1>4, <1>5, <1>6, <1>7

\* The two request loops, and the lock one of them takes.
LEMMA LoopsInv ==
  ASSUME ChannelInv,
         \/ LoopTakes \/ LoopLocks \/ LoopAnswered \/ LoopReplies \/ LoopEnds
         \/ BackForwards \/ BackEnds
  PROVE  ChannelInv'
<1> USE BoundsAssumption DEF ChannelInv, upVars, clVars
<1>1. CASE LoopTakes
  BY <1>1 DEF LoopTakes, ChannelTypeOK, Conserved, LockIsTheLoops, UpstreamIsThrough, Delivered,
              StagesInOrder, ClientListens
<1>2. CASE LoopLocks \/ LoopAnswered \/ LoopReplies \/ LoopEnds
  BY <1>2 DEF LoopLocks, LoopAnswered, LoopReplies, LoopEnds, ChannelTypeOK, Conserved, LockIsTheLoops,
              UpstreamIsThrough, Delivered, StagesInOrder, ClientListens
<1>3. CASE BackForwards
  BY <1>3 DEF BackForwards, ChannelTypeOK, Conserved, LockIsTheLoops, UpstreamIsThrough, Delivered,
              StagesInOrder, ClientListens
<1>4. CASE BackEnds
  BY <1>4 DEF BackEnds, ChannelTypeOK, Conserved, LockIsTheLoops, UpstreamIsThrough, Delivered,
              StagesInOrder, ClientListens
<1> QED
  BY <1>1, <1>2, <1>3, <1>4

\* The four copies.
LEMMA CopiesInv ==
  ASSUME ChannelInv,
         \/ \E s \in Stream : CopyOut(s) \/ CopyOutEnds(s)
         \/ CopyIn \/ \E c \in {"stdin", "stdinExt"} : CopyInEnds(c)
  PROVE  ChannelInv'
<1> USE BoundsAssumption DEF ChannelInv, upVars, clVars
<1>1. ASSUME NEW s \in Stream, CopyOut(s) PROVE ChannelInv'
  <2>1. ChannelTypeOK'
    BY <1>1 DEF CopyOut, ChannelTypeOK
  <2>2. Conserved' /\ Delivered'
    BY <1>1 DEF CopyOut, ChannelTypeOK, Conserved, Delivered, ClientListens
  <2> QED
    BY <1>1, <2>1, <2>2 DEF CopyOut, LockIsTheLoops, UpstreamIsThrough, StagesInOrder
<1>2. ASSUME NEW s \in Stream, CopyOutEnds(s) PROVE ChannelInv'
  <2>1. ChannelTypeOK'
    <3>1. copying' \in [Copier -> BOOLEAN]
      BY <1>2, Zenon DEF CopyOutEnds, ChannelTypeOK
    <3>2. UNCHANGED <<up, toWrite, pipe, upReqs, exitSent, cl, toAsk, clReqs, stdin,
                      fwd, back, replying, main>>
      BY <1>2 DEF CopyOutEnds
    <3> QED
      BY <3>1, <3>2 DEF ChannelTypeOK
  <2>4. Conserved'
    BY <1>2 DEF CopyOutEnds, Conserved
  <2>2. Delivered'
    BY <1>2 DEF CopyOutEnds, ChannelTypeOK, Delivered, ClientListens
  <2>3. StagesInOrder'
    BY <1>2 DEF CopyOutEnds, ChannelTypeOK, StagesInOrder, Copier, Stream
  <2> QED
    BY <1>2, <2>1, <2>2, <2>3, <2>4 DEF CopyOutEnds, LockIsTheLoops, UpstreamIsThrough
<1>3. CASE CopyIn
  BY <1>3 DEF CopyIn, ChannelTypeOK, Conserved, LockIsTheLoops, UpstreamIsThrough, Delivered,
              StagesInOrder, ClientListens
<1>4. ASSUME NEW c \in {"stdin", "stdinExt"}, CopyInEnds(c) PROVE ChannelInv'
  <2>1. /\ copying' \in [Copier -> BOOLEAN]
        /\ \A s \in Stream : copying'[s] = copying[s]
    BY <1>4 DEF CopyInEnds, ChannelTypeOK, Copier, Stream
  <2>2. ChannelTypeOK'
    BY <1>4, <2>1 DEF CopyInEnds, ChannelTypeOK
  <2>3. Conserved' /\ LockIsTheLoops' /\ UpstreamIsThrough'
    BY <1>4 DEF CopyInEnds, Conserved, LockIsTheLoops, UpstreamIsThrough
  <2>4. Delivered' /\ StagesInOrder'
    BY <1>4, <2>1 DEF CopyInEnds, Delivered, StagesInOrder, ClientListens
  <2> QED
    BY <2>2, <2>3, <2>4
<1> QED
  BY <1>1, <1>2, <1>3, <1>4

\* The stages of the teardown.
LEMMA StagesInv ==
  ASSUME ChannelInv, Stage1 \/ Stage2 \/ Stage3 \/ MainReturns
  PROVE  ChannelInv'
<1> USE DEF ChannelInv, MainTo, upVars, clVars
<1>1. CASE Stage1 \/ Stage2
  BY <1>1 DEF Stage1, SessionOver, Stage2, DrainedFromUpstream, ChannelTypeOK, Conserved, LockIsTheLoops,
              UpstreamIsThrough, Delivered, StagesInOrder, ClientListens
<1>2. CASE Stage3
  BY <1>2 DEF Stage3, LockFree, MayClose, ChannelTypeOK, Conserved, LockIsTheLoops, UpstreamIsThrough,
              Delivered, StagesInOrder, ClientListens
<1>3. CASE MainReturns
  <2>1. \A c \in Copier : ~copying'[c]
    BY <1>3 DEF MainReturns, StagesInOrder, Copier, Stream
  <2> QED
    BY <1>3, <2>1 DEF MainReturns, ChannelTypeOK, Conserved, LockIsTheLoops, UpstreamIsThrough,
                      Delivered, StagesInOrder, ClientListens
<1> QED
  BY <1>1, <1>2, <1>3

LEMMA ChannelNextInv == ChannelInv /\ [ChannelNext]_channelVars => ChannelInv'
<1> SUFFICES ASSUME ChannelInv, [ChannelNext]_channelVars PROVE ChannelInv'
  OBVIOUS
<1>1. CASE UNCHANGED channelVars
  BY <1>1 DEF channelVars, ChannelInv, ChannelTypeOK, Conserved, LockIsTheLoops, UpstreamIsThrough,
              Delivered, StagesInOrder, ClientListens
<1>2. CASE ChannelNext
  BY <1>2, EndsInv, LoopsInv, CopiesInv, StagesInv DEF ChannelNext
<1> QED
  BY <1>1, <1>2

\* What each stage of the teardown waited for stays true after it, in every
\* order of writes, closes, requests and copies.
THEOREM ChannelInductive == ChannelSpec => []ChannelInv
BY ChannelInitInv, ChannelNextInv, PTL DEF ChannelSpec

\* The client's side is closed only when the upstream has closed, its last
\* byte on either stream and its exit status are through, and no reply is due.
THEOREM TeardownCutsNothing == ChannelSpec => NothingTruncated
<1>1. ChannelInv /\ [ChannelNext]_channelVars =>
        (Cutting => /\ up = "closed"
                    /\ \A s \in Stream : pipe[s] = 0
                    /\ upReqs = 0
                    /\ fwd \notin {"forwarding", "answered"})
  <2> SUFFICES ASSUME ChannelInv, [ChannelNext]_channelVars, Cutting
               PROVE  /\ up = "closed"
                      /\ \A s \in Stream : pipe[s] = 0
                      /\ upReqs = 0
                      /\ fwd \notin {"forwarding", "answered"}
    OBVIOUS
  <2>1. Stage3
    BY DEF ChannelNext, channelVars, Cutting, ClientListens, UpstreamWrites, CopyOut, CopyOutEnds,
           UpstreamEof, UpstreamExits, UpstreamCloses, ClientAsks, ClientWrites, ClientEof, ClientCloses,
           LoopTakes, LoopLocks, LoopAnswered, LoopReplies, LoopEnds, BackForwards, BackEnds,
           CopyIn, CopyInEnds, Stage1, Stage2, MainReturns
  <2>2. ~back /\ \A s \in Stream : ~copying[s]
    BY <2>1 DEF Stage3, MainTo, ChannelInv, StagesInOrder
  <2>3. up = "closed" /\ upReqs = 0
    BY <2>2 DEF ChannelInv, UpstreamIsThrough
  <2>4. \A s \in Stream : pipe[s] = 0
    BY <2>2 DEF ChannelInv, Delivered, Cutting
  <2>5. fwd \notin {"forwarding", "answered"}
    BY <2>1 DEF Stage3, LockFree, ChannelInv, LockIsTheLoops
  <2> QED
    BY <2>3, <2>4, <2>5
<1> QED
  BY <1>1, ChannelInductive, PTL DEF ChannelSpec, NothingTruncated

\* proxyChannel returns, which SshForward takes for the end of the channel,
\* only with its six goroutines over and both ends closed.
THEOREM ReturnsWithNoneAtWork ==
  ChannelSpec => [](main = "returned" =>
                      /\ fwd = "done" /\ ~back /\ \A c \in Copier : ~copying[c]
                      /\ up = "closed" /\ cl = "closed" /\ replying = "free")
<1>1. ChannelInv =>
        (main = "returned" => /\ fwd = "done" /\ ~back /\ \A c \in Copier : ~copying[c]
                              /\ up = "closed" /\ cl = "closed" /\ replying = "free")
  BY DEF ChannelInv, StagesInOrder, UpstreamIsThrough, LockIsTheLoops
<1> QED
  BY <1>1, ChannelInductive, PTL

\* End of input reaches a living upstream after the input itself.
THEOREM InputBeforeEof == ChannelSpec => InputComplete
<1>1. ChannelInv /\ [ChannelNext]_channelVars =>
        (copying["stdin"] /\ ~copying'["stdin"] /\ up # "closed" => stdin # "written")
  <2> SUFFICES ASSUME ChannelInv, [ChannelNext]_channelVars,
                      copying["stdin"], ~copying'["stdin"], up # "closed"
               PROVE  stdin # "written"
    OBVIOUS
  <2>1. ASSUME NEW s \in Stream, CopyOutEnds(s) PROVE FALSE
    BY <2>1 DEF CopyOutEnds, Stream, Copier, ChannelInv, ChannelTypeOK
  <2>2. ASSUME NEW c \in {"stdin", "stdinExt"}, CopyInEnds(c) PROVE stdin # "written"
    BY <2>2 DEF CopyInEnds, InputOver, Copier, ChannelInv, ChannelTypeOK
  <2> QED
    BY <2>1, <2>2
       DEF ChannelNext, channelVars, UpstreamWrites, CopyOut, UpstreamEof, UpstreamExits, UpstreamCloses,
           ClientAsks, ClientWrites, ClientEof, ClientCloses, LoopTakes, LoopLocks, LoopAnswered,
           LoopReplies, LoopEnds, BackForwards, BackEnds, CopyIn, Stage1, Stage2, Stage3, MainReturns, MainTo
<1> QED
  BY <1>1, ChannelInductive, PTL DEF ChannelSpec, InputComplete
=============================================================================
