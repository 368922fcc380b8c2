----------------------------- MODULE SshForward -----------------------------
(***************************************************************************)
(* internal/sshproxy, ChannelForwarder.Handle: one authenticated client    *)
(* connection joined to a connection to its upstream - the certificate,    *)
(* the dial, the goroutines that carry requests and channels, and the      *)
(* order in which Handle waits for them.  What happens inside one proxied  *)
(* channel is ProxyChannel; here it runs until it ends.                    *)
(***************************************************************************)
EXTENDS Naturals

CONSTANTS Channel  \* the channels the client asks for on this connection

VARIABLES
  stage,    \* how far Handle is
  ctx,      \* whether the connection's context is cancelled
  sess,     \* whether Handle's own context, a child of it, is cancelled
  client,   \* the client's transport
  upstream, \* the upstream's
  closer,   \* whether the goroutine that closes both on cancellation waits
  globals,  \* whether the client's global requests are being forwarded
  upWait,   \* whether the goroutine that waits for the upstream runs
  pump,     \* whether the channel pump runs
  channel   \* per channel, where it is

vars == <<stage, ctx, sess, client, upstream, closer, globals, upWait, pump, channel>>

TypeOK ==
  /\ stage \in {"mint", "dial", "handshake", "bridged", "joinPump", "joinChannels",
                "joinRequests", "failed", "returned"}
  /\ ctx \in BOOLEAN /\ sess \in BOOLEAN
  /\ client \in {"open", "closed"}
  /\ upstream \in {"none", "connected", "open", "closed"}
  /\ closer \in BOOLEAN /\ globals \in BOOLEAN /\ upWait \in BOOLEAN /\ pump \in BOOLEAN
  /\ channel \in [Channel -> {"none", "asked", "opening", "proxied", "rejected", "ended"}]

Init ==
  /\ stage = "mint"
  /\ ctx = FALSE /\ sess = FALSE
  /\ client = "open" /\ upstream = "none"
  /\ closer = FALSE /\ globals = FALSE /\ upWait = FALSE /\ pump = FALSE
  /\ channel = [c \in Channel |-> "none"]

Goroutines == <<closer, globals, upWait, pump>>
Ends == <<client, upstream>>

\* handleChannel runs in the pump: one channel opens at a time.
Opening == \E c \in Channel : channel[c] = "opening"
Proxying == \E c \in Channel : channel[c] = "proxied"

-----------------------------------------------------------------------------
(* Mutants: plausible bugs the properties must notice.                     *)

\* Handle does not wait for the channels it started.
BugChannelsJoined == TRUE

\* Cancellation closes the upstream only.
BugCloserActs ==
  /\ upstream' = "closed"
  /\ UNCHANGED client

\* A rejected open leaves the channel without an answer.
BugReject(c) == channel' = [channel EXCEPT ![c] = "asked"]

\* The pump accepts the client's channel before the upstream has agreed.
BugBridge(c) ==
  channel' = [channel EXCEPT ![c] = "proxied"]

-----------------------------------------------------------------------------
(* The environment: cancellation by force-close or shutdown, and the ends. *)

Cancel ==
  /\ stage # "returned" /\ ~ctx
  /\ ctx' = TRUE /\ sess' = TRUE
  /\ UNCHANGED <<stage, channel>> /\ UNCHANGED Goroutines /\ UNCHANGED Ends

ClientGoes ==
  /\ client = "open"
  /\ client' = "closed"
  /\ UNCHANGED <<stage, ctx, sess, upstream, channel>> /\ UNCHANGED Goroutines

UpstreamGoes ==
  /\ upstream \in {"connected", "open"}
  /\ upstream' = "closed"
  /\ UNCHANGED <<stage, ctx, sess, client, channel>> /\ UNCHANGED Goroutines

ClientOpens(c) ==
  /\ client = "open" /\ channel[c] = "none" /\ stage # "returned"
  /\ channel' = [channel EXCEPT ![c] = "asked"]
  /\ UNCHANGED <<stage, ctx, sess>> /\ UNCHANGED Goroutines /\ UNCHANGED Ends

-----------------------------------------------------------------------------
(* Handle, up to the point where the two ends are joined.                  *)

\* An upstream connection that was opened is closed by the deferred Close.
Fail(from) ==
  /\ stage = from
  /\ stage' = "failed"
  /\ upstream' = IF upstream = "none" THEN "none" ELSE "closed"
  /\ UNCHANGED <<ctx, sess, client, channel>> /\ UNCHANGED Goroutines

\* The certificate's principal is the user's email; without one, or when the
\* context is already cancelled, nothing is minted.
Mint ==
  /\ stage = "mint" /\ ~ctx
  /\ stage' = "dial"
  /\ UNCHANGED <<ctx, sess, channel>> /\ UNCHANGED Goroutines /\ UNCHANGED Ends

MintFails == Fail("mint")

\* net.DialTimeout: ten seconds, whatever becomes of the context.
Dial ==
  /\ stage = "dial"
  /\ stage' = "handshake"
  /\ upstream' = "connected"
  /\ UNCHANGED <<ctx, sess, client, channel>> /\ UNCHANGED Goroutines

DialFails == Fail("dial")

\* ssh.NewClientConn: ClientConfig.Timeout covers only the dial of ssh.Dial,
\* so the handshake lasts as long as the upstream lets it.
Join ==
  /\ stage = "handshake" /\ upstream = "connected"
  /\ stage' = "bridged"
  /\ upstream' = "open"
  /\ sess' = ctx
  /\ closer' = TRUE /\ globals' = TRUE /\ upWait' = TRUE /\ pump' = TRUE
  /\ UNCHANGED <<ctx, client, channel>>

HandshakeFails == Fail("handshake")

-----------------------------------------------------------------------------
(* The goroutines.                                                         *)

CloserActs ==
  /\ upstream' = "closed"
  /\ client' = "closed"

Closer ==
  /\ closer /\ sess
  /\ closer' = FALSE
  /\ CloserActs
  /\ UNCHANGED <<stage, ctx, sess, globals, upWait, pump, channel>>

\* forwardGlobalRequests: until the client's request channel closes, or a
\* request cannot be sent to the upstream.
GlobalsEnd ==
  /\ globals /\ (client = "closed" \/ upstream = "closed")
  /\ globals' = FALSE
  /\ UNCHANGED <<stage, ctx, sess, closer, upWait, pump, channel>> /\ UNCHANGED Ends

\* It waits for the upstream to close, and tells nobody.
UpWaitEnds ==
  /\ upWait /\ upstream = "closed"
  /\ upWait' = FALSE
  /\ UNCHANGED <<stage, ctx, sess, closer, globals, pump, channel>> /\ UNCHANGED Ends

Step(c, from, to) ==
  /\ channel[c] = from
  /\ channel' = [channel EXCEPT ![c] = to]

PumpTakes(c) ==
  /\ pump /\ ~Opening
  /\ Step(c, "asked", "opening")
  /\ UNCHANGED <<stage, ctx, sess>> /\ UNCHANGED Goroutines /\ UNCHANGED Ends

Reject(c) == channel' = [channel EXCEPT ![c] = "rejected"]
Bridge(c) ==
  /\ upstream = "open" /\ client = "open"
  /\ channel' = [channel EXCEPT ![c] = "proxied"]

\* Upstream.OpenChannel answers, or fails because the upstream has gone; an
\* upstream channel is closed again when the client's cannot be accepted.
OpenAnswered(c) ==
  /\ pump /\ channel[c] = "opening"
  /\ Bridge(c) \/ Reject(c)
  /\ UNCHANGED <<stage, ctx, sess>> /\ UNCHANGED Goroutines /\ UNCHANGED Ends

\* The range over ac.Chans is over once the client's mux has closed it and
\* what was queued has been handled.
PumpEnds ==
  /\ pump /\ client = "closed"
  /\ \A c \in Channel : channel[c] \notin {"asked", "opening"}
  /\ pump' = FALSE
  /\ UNCHANGED <<stage, ctx, sess, closer, globals, upWait, channel>> /\ UNCHANGED Ends

ChannelEnds(c) ==
  /\ Step(c, "proxied", "ended")
  /\ UNCHANGED <<stage, ctx, sess>> /\ UNCHANGED Goroutines /\ UNCHANGED Ends

-----------------------------------------------------------------------------
(* Handle's waits.                                                         *)

To(from, to) == stage = from /\ stage' = to

\* select: the context, or the client's Wait.  Nothing here looks at upWait.
Select ==
  /\ sess \/ client = "closed"
  /\ To("bridged", "joinPump")
  /\ sess' = TRUE
  /\ UNCHANGED <<ctx, channel>> /\ UNCHANGED Goroutines /\ UNCHANGED Ends

JoinPump ==
  /\ ~pump /\ To("joinPump", "joinChannels")
  /\ UNCHANGED <<ctx, sess, channel>> /\ UNCHANGED Goroutines /\ UNCHANGED Ends

ChannelsJoined == ~Proxying
JoinChannels ==
  /\ ChannelsJoined /\ To("joinChannels", "joinRequests")
  /\ UNCHANGED <<ctx, sess, channel>> /\ UNCHANGED Goroutines /\ UNCHANGED Ends

\* Back in handleConn, whose deferred calls close the client's connection.
Return ==
  /\ \/ ~globals /\ ~upWait /\ To("joinRequests", "returned")
     \/ To("failed", "returned")
  /\ client' = "closed"
  /\ upstream' = IF upstream = "none" THEN "none" ELSE "closed"
  /\ UNCHANGED <<ctx, sess, channel>> /\ UNCHANGED Goroutines

Next ==
  \/ Cancel \/ ClientGoes \/ UpstreamGoes
  \/ Mint \/ MintFails \/ Dial \/ DialFails \/ Join \/ HandshakeFails
  \/ Closer \/ GlobalsEnd \/ UpWaitEnds \/ PumpEnds
  \/ \E c \in Channel : ClientOpens(c) \/ PumpTakes(c) \/ OpenAnswered(c) \/ ChannelEnds(c)
  \/ Select \/ JoinPump \/ JoinChannels \/ Return

Spec == Init /\ [][Next]_vars

\* The goroutines run; the dial has its deadline; a handshake, an open and a
\* channel end when their upstream has gone (ProxyChannel!NoneLeftBehind).
Fairness ==
  /\ WF_vars(Mint \/ MintFails) /\ WF_vars(Dial \/ DialFails) /\ WF_vars(Return)
  /\ WF_vars(upstream = "closed" /\ HandshakeFails)
  /\ WF_vars(Closer) /\ WF_vars(client = "closed" /\ GlobalsEnd) /\ WF_vars(UpWaitEnds) /\ WF_vars(PumpEnds)
  /\ \A c \in Channel : /\ WF_vars(PumpTakes(c))
                        /\ WF_vars(upstream = "closed" /\ OpenAnswered(c))
                        /\ WF_vars(upstream = "closed" /\ ChannelEnds(c))
  /\ WF_vars(Select) /\ WF_vars(JoinPump) /\ WF_vars(JoinChannels)

FairSpec == Spec /\ Fairness

-----------------------------------------------------------------------------
(* The inductive invariant: what Handle has started and what it has joined.*)

IInv ==
  /\ TypeOK
  /\ stage \in {"mint", "dial", "handshake", "failed"} =>
       ~closer /\ ~globals /\ ~upWait /\ ~pump /\ ~Proxying /\ ~Opening
  /\ stage \in {"joinChannels", "joinRequests", "returned"} => ~pump
  /\ Opening => pump
  /\ stage \in {"joinRequests", "returned"} => ~Proxying
  /\ stage = "returned" => ~globals /\ ~upWait /\ client = "closed"

-----------------------------------------------------------------------------
(* Properties.                                                             *)

\* Handle never returns with one of its goroutines, or a proxied channel,
\* still at work: the deferred Close would pull the connection out from under
\* it.
NothingYanked ==
  stage = "returned" => ~globals /\ ~upWait /\ ~pump /\ ~Proxying

\* A channel is proxied only between two ends that were both there when it was
\* opened, and none is opened once Handle has stopped waiting for the pump.
NoOpenAfterJoin ==
  [][\A c \in Channel : channel[c] # "proxied" /\ channel'[c] = "proxied" =>
       upstream = "open" /\ stage \in {"bridged", "joinPump"}]_vars

\* Once the two ends are joined, a client that goes, a force-close or a
\* shutdown ends the session whatever its channels are doing.
SessionEnds ==
  (stage = "bridged" /\ (client = "closed" \/ ctx)) ~> stage = "returned"

\* Every channel the client asks for on a session that ends is answered.
EveryOpenAnswered ==
  \A c \in Channel :
    (channel[c] = "asked" /\ stage = "bridged") ~>
      (channel[c] \in {"proxied", "rejected", "ended"} \/ client = "open")
=============================================================================
