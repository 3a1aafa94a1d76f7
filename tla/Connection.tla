---------------------------- MODULE Connection ----------------------------
(***************************************************************************)
(* One WebSocket connection of the server, goroutine by goroutine: the     *)
(* read pump and the write pump of internal/server/ws/handler.go, the hub  *)
(* goroutine of internal/server/chat/hub.go as far as this connection is   *)
(* concerned, and the goroutines that call Session.Deliver.                *)
(*                                                                         *)
(* Deliver and Close are split at their lock operations, so that the       *)
(* sendMu protocol is what keeps an envelope from being sent on a closed   *)
(* channel.  hub.mu is left out (more interleavings than the code has).    *)
(***************************************************************************)
EXTENDS Naturals, Sequences

CONSTANTS
  Envelope,    \* what Deliver can be given
  SendCap,     \* capacity of Session.send (64 in NewSession)
  InboundCap,  \* capacity of Hub.inbound (128 in NewHub)
  Caller,      \* the goroutines that call Deliver on this session
  Hub,         \* the one of them that runs Hub.Run
  MayStop      \* whether Hub.Shutdown may be called

ASSUME ConnectionAssumption ==
  /\ SendCap \in Nat \ {0}
  /\ InboundCap \in Nat \ {0}
  /\ Hub \in Caller
  /\ MayStop \in BOOLEAN

VARIABLES
  reader,     \* where the goroutine of ServeHTTP and readPump stands
  writer,     \* where writePump stands
  cancelled,  \* the connection's context
  conn,       \* the server's end of the socket: "open" or "closed"
  netUp,      \* whether the peer can still be reached
  hub,        \* where Hub.Run stands
  inbound,    \* number of events in Hub.inbound, of any session
  inside,     \* the callers between Deliver's RLock and its RUnlock
  closed,     \* Session.closed
  queue,      \* what Session.send holds
  chanShut,   \* whether Session.send is closed
  panicked    \* a send on a closed channel happened

pumps   == <<reader, writer, cancelled, conn, netUp>>
mailbox == <<inside, closed, queue, chanShut, panicked>>
vars    == <<pumps, hub, inbound, mailbox>>

ReaderAt == {"registering", "reading", "handing", "unregistering", "closing", "done"}
WriterAt == {"off", "running", "done"}
HubAt    == {"selecting", "handling", "removing", "locking", "stopped"}

Init ==
  /\ reader = "registering" /\ writer = "off" /\ cancelled = FALSE
  /\ conn = "open" /\ netUp \in BOOLEAN
  /\ hub = "selecting" /\ inbound = 0
  /\ inside = {} /\ closed = FALSE /\ queue = <<>> /\ chanShut = FALSE
  /\ panicked = FALSE

SocketUsable == conn = "open" /\ netUp
-----------------------------------------------------------------------------
(* The read pump: ServeHTTP registers, then reads until the socket fails.  *)

\* The peer sent an event and ReadJSON returned it.
ReadEvent ==
  /\ reader = "reading" /\ ~cancelled /\ SocketUsable
  /\ reader' = "handing"
  /\ UNCHANGED <<writer, cancelled, conn, netUp, hub, inbound, mailbox>>

\* HandleInbound: blocks while the inbound channel is full.
HandInbound ==
  /\ reader = "handing" /\ inbound < InboundCap
  /\ reader' = "reading" /\ inbound' = inbound + 1
  /\ UNCHANGED <<writer, cancelled, conn, netUp, hub, mailbox>>

\* Unregister first, cancel() after it.
LeaveLoopUncancelled ==
  /\ reader = "reading"
  /\ reader' = "unregistering"
  /\ UNCHANGED <<cancelled, writer, conn, netUp, hub, inbound, mailbox>>

\* The deferred function of readPump: cancel() runs before Unregister blocks.
LeaveLoop ==
  /\ reader = "reading"
  /\ reader' = "unregistering" /\ cancelled' = TRUE
  /\ UNCHANGED <<writer, conn, netUp, hub, inbound, mailbox>>

\* The context is done, or ReadJSON fails on a socket that is closed, has lost
\* its peer, or saw no pong for 60s.
EndReading == (cancelled \/ ~SocketUsable) /\ LeaveLoop

\* The peer closed the WebSocket, or sent what ReadJSON cannot decode.
RejectInput == SocketUsable /\ LeaveLoop

CloseSocket ==
  /\ reader = "closing"
  /\ reader' = "done" /\ conn' = "closed"
  /\ UNCHANGED <<writer, cancelled, netUp, hub, inbound, mailbox>>
-----------------------------------------------------------------------------
(* The write pump: its select takes any branch that is ready.              *)

\* An envelope is taken off Session.send and written; when the write fails
\* the envelope is gone and the pump closes the socket and ends.
Write ==
  /\ writer = "running" /\ queue # <<>>
  /\ queue' = Tail(queue)
  /\ IF SocketUsable
       THEN UNCHANGED <<writer, conn>>
       ELSE writer' = "done" /\ conn' = "closed"
  /\ UNCHANGED <<reader, cancelled, netUp, hub, inbound, inside, closed, chanShut, panicked>>

\* The context is done, Session.send is closed and drained, or a ping failed.
EndWriting ==
  /\ writer = "running"
  /\ \/ cancelled
     \/ chanShut /\ queue = <<>>
     \/ ~SocketUsable
  /\ writer' = "done" /\ conn' = "closed"
  /\ UNCHANGED <<reader, cancelled, netUp, hub, inbound, mailbox>>
-----------------------------------------------------------------------------
(* Hub.Run: one case of its select at a time.                              *)

\* addSession; ServeHTTP then starts both pumps.
TakeRegister ==
  /\ hub = "selecting" /\ reader = "registering"
  /\ reader' = "reading" /\ writer' = "running"
  /\ UNCHANGED <<cancelled, conn, netUp, hub, inbound, mailbox>>

TakeInbound ==
  /\ hub = "selecting" /\ inbound > 0
  /\ hub' = "handling" /\ inbound' = inbound - 1
  /\ UNCHANGED <<pumps, mailbox>>

\* handleEvent returns: the hub is no longer inside Deliver.
Handled ==
  /\ hub = "handling" /\ Hub \notin inside
  /\ hub' = "selecting"
  /\ UNCHANGED <<pumps, inbound, mailbox>>

\* removeSession without sess.Close().
TakeUnregisterUnclosed ==
  /\ hub = "selecting" /\ reader = "unregistering"
  /\ reader' = "closing"
  /\ UNCHANGED <<writer, cancelled, conn, netUp, hub, inbound, mailbox>>

TakeUnregister ==
  /\ hub = "selecting" /\ reader = "unregistering"
  /\ hub' = "removing" /\ reader' = "closing"
  /\ UNCHANGED <<writer, cancelled, conn, netUp, inbound, mailbox>>

\* Close asks for sendMu: from here on RLock waits behind the writer.
RequestLock ==
  /\ hub = "removing"
  /\ hub' = "locking"
  /\ UNCHANGED <<pumps, inbound, mailbox>>

\* Close without the exclusive lock.
CloseQueueUnlocked ==
  /\ hub = "locking"
  /\ closed' = TRUE /\ chanShut' = TRUE
  /\ hub' = "selecting"
  /\ UNCHANGED <<pumps, inbound, inside, queue, panicked>>

\* Close holds sendMu: nobody is between RLock and RUnlock.
CloseQueue ==
  /\ hub = "locking" /\ inside = {}
  /\ closed' = TRUE /\ chanShut' = TRUE
  /\ hub' = "selecting"
  /\ UNCHANGED <<pumps, inbound, inside, queue, panicked>>

StopHub ==
  /\ MayStop /\ hub = "selecting"
  /\ hub' = "stopped"
  /\ UNCHANGED <<pumps, inbound, mailbox>>
-----------------------------------------------------------------------------
(* Session.Deliver, by the hub while it handles an event and by any other  *)
(* goroutine (presence broadcasts, PublishMessage of an upload) any time.  *)

MayDeliver(c) == c = Hub => hub = "handling"

\* RLock, and the test of closed: a closed session returns false at once.
EnterDeliver(c) ==
  /\ c \notin inside /\ MayDeliver(c)
  /\ hub # "locking" /\ ~closed
  /\ inside' = inside \cup {c}
  /\ UNCHANGED <<pumps, hub, inbound, closed, queue, chanShut, panicked>>

\* A capacity that is off by one.
OfferOneMore(c, env) ==
  /\ c \in inside
  /\ inside' = inside \ {c}
  /\ panicked' = (panicked \/ chanShut)
  /\ queue' = IF ~chanShut /\ Len(queue) <= SendCap THEN Append(queue, env) ELSE queue
  /\ UNCHANGED <<pumps, hub, inbound, closed, chanShut>>

\* A loop that tries again while the channel is full.
OfferRetrying(c, env) ==
  /\ c \in inside
  /\ IF Len(queue) < SendCap
       THEN /\ inside' = inside \ {c}
            /\ queue' = Append(queue, env)
       ELSE UNCHANGED <<inside, queue>>
  /\ UNCHANGED <<pumps, hub, inbound, closed, chanShut, panicked>>

\* A full channel gives up its oldest envelope for the new one.
OfferNewest(c, env) ==
  /\ c \in inside
  /\ inside' = inside \ {c}
  /\ queue' = IF Len(queue) < SendCap THEN Append(queue, env) ELSE Append(Tail(queue), env)
  /\ UNCHANGED <<pumps, hub, inbound, closed, chanShut, panicked>>

\* The select with a default: the envelope is queued or, when the channel
\* is full, dropped; a send on a closed channel panics.
Offer(c, env) ==
  /\ c \in inside
  /\ inside' = inside \ {c}
  /\ panicked' = (panicked \/ chanShut)
  /\ queue' = IF ~chanShut /\ Len(queue) < SendCap THEN Append(queue, env) ELSE queue
  /\ UNCHANGED <<pumps, hub, inbound, closed, chanShut>>
-----------------------------------------------------------------------------
(* The environment: the peer goes away, other sessions fill Hub.inbound.   *)

LosePeer ==
  /\ netUp
  /\ netUp' = FALSE
  /\ UNCHANGED <<reader, writer, cancelled, conn, hub, inbound, mailbox>>

OthersHandInbound ==
  /\ inbound < InboundCap
  /\ inbound' = inbound + 1
  /\ UNCHANGED <<pumps, hub, mailbox>>

ReaderStep == ReadEvent \/ HandInbound \/ EndReading \/ RejectInput \/ CloseSocket
WriterStep == Write \/ EndWriting
HubStep    == \/ TakeRegister \/ TakeInbound \/ Handled \/ TakeUnregister
              \/ RequestLock \/ CloseQueue \/ StopHub
DeliverStep(c) == EnterDeliver(c) \/ \E env \in Envelope : Offer(c, env)

Next ==
  \/ ReaderStep \/ WriterStep \/ HubStep
  \/ \E c \in Caller : DeliverStep(c)
  \/ LosePeer \/ OthersHandInbound

Spec == Init /\ [][Next]_vars

(***************************************************************************)
(* Fairness.  Every goroutine that can run eventually runs (weak).  A Go   *)
(* select picks at random among its ready cases, and a channel serves its  *)
(* blocked senders in order, so a case that is ready again and again is    *)
(* eventually taken (strong).  The reader needs no fairness for the events *)
(* it receives: the peer may stay silent.  Nothing is assumed of the write *)
(* pump in HubFairness: a peer that does not read may hold it for ever.    *)
(***************************************************************************)
HubFairness ==
  /\ SF_vars(TakeRegister) /\ SF_vars(TakeInbound) /\ SF_vars(TakeUnregister)
  /\ SF_vars(Handled) /\ WF_vars(RequestLock) /\ WF_vars(CloseQueue)
  /\ \A c \in Caller : WF_vars(\E env \in Envelope : Offer(c, env))

PumpFairness ==
  /\ SF_vars(HandInbound) /\ WF_vars(EndReading) /\ WF_vars(CloseSocket)
  /\ WF_vars(EndWriting)

FairSpec == Spec /\ HubFairness /\ PumpFairness
-----------------------------------------------------------------------------
(* Properties.                                                             *)

PlacesOK ==
  /\ reader \in ReaderAt /\ writer \in WriterAt /\ hub \in HubAt
  /\ conn \in {"open", "closed"}
  /\ cancelled \in BOOLEAN /\ netUp \in BOOLEAN
  /\ closed \in BOOLEAN /\ chanShut \in BOOLEAN /\ panicked \in BOOLEAN

BoundsOK ==
  /\ inbound \in 0..InboundCap
  /\ inside \subseteq Caller
  /\ queue \in Seq(Envelope) /\ Len(queue) <= SendCap

\* Every variable keeps its type; the queue and the inbound channel stay
\* within their capacities.
TypeOK == PlacesOK /\ BoundsOK

\* Deliver and Close may run at the same time, from different goroutines:
\* no envelope is ever sent on the closed channel (hub.go Deliver, Close).
NeverSendsOnClosed == ~panicked

\* Session.send with its flag and its lock is a bounded FIFO box that takes
\* nothing in once it is shut.
Promise == INSTANCE Mailbox WITH box <- queue, shut <- chanShut
MailboxPromise == Promise!Spec

\* However slow or stuck the peer is, the hub goroutine comes back from every
\* event and every disconnect to its select: Deliver never waits for room and
\* Close never waits for a reader that waits for Close.
HubAlwaysReturns == hub \in {"handling", "removing", "locking"} ~> hub = "selecting"

\* When reading ends, the write pump ends too, even if the hub has been shut
\* down and Unregister blocks for ever: the context is cancelled first.
WriterEndsWithReader == reader = "unregistering" ~> writer = "done"

\* A connection whose peer is gone is given up completely, unless the hub has
\* been shut down: both pumps end, the socket is closed and the outbound
\* channel is shut.
Released == reader = "done" /\ writer = "done" /\ conn = "closed" /\ chanShut
LostPeerReleased == ~netUp ~> Released \/ hub = "stopped"
=============================================================================
