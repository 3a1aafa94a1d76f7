------------------------- MODULE ConnectionProofs -------------------------
(***************************************************************************)
(* Proofs about Connection.tla, for any number of delivering goroutines,   *)
(* any envelopes and any capacities.                                       *)
(***************************************************************************)
EXTENDS Connection, SequenceTheorems, TLAPS

\* Appending to a queue that is not full, and taking from one that is not
\* empty, give a queue of envelopes within the capacity.
LEMMA QueueStep ==
  ASSUME NEW q \in Seq(Envelope), Len(q) <= SendCap
  PROVE  /\ \A env \in Envelope : Len(q) < SendCap =>
              Append(q, env) \in Seq(Envelope) /\ Len(Append(q, env)) <= SendCap
         /\ q # <<>> => Tail(q) \in Seq(Envelope) /\ Len(Tail(q)) <= SendCap
<1>1. SendCap \in Nat
  BY ConnectionAssumption DEF ConnectionAssumption
<1>2. ASSUME NEW env \in Envelope, Len(q) < SendCap
      PROVE  Append(q, env) \in Seq(Envelope) /\ Len(Append(q, env)) <= SendCap
  BY <1>1, <1>2, AppendProperties, LenProperties
<1>3. ASSUME q # <<>> PROVE Tail(q) \in Seq(Envelope) /\ Len(Tail(q)) <= SendCap
  BY <1>1, <1>3, HeadTailProperties, LenProperties
<1> QED BY <1>2, <1>3

\* The control state keeps its type.
LEMMA PlacesStep == PlacesOK /\ [Next]_vars => PlacesOK'
<1> SUFFICES ASSUME PlacesOK, [Next]_vars PROVE PlacesOK'
  OBVIOUS
<1> USE DEF PlacesOK, ReaderAt, WriterAt, HubAt
<1>1. CASE ReadEvent \/ HandInbound \/ CloseSocket
  BY <1>1 DEF ReadEvent, HandInbound, CloseSocket, mailbox
<1>2. CASE EndReading \/ RejectInput
  BY <1>2 DEF EndReading, RejectInput, LeaveLoop, mailbox
<1>3. CASE WriterStep
  BY <1>3 DEF WriterStep, Write, EndWriting, mailbox
<1>4. CASE HubStep
  BY <1>4 DEF HubStep, TakeRegister, TakeInbound, Handled, TakeUnregister, RequestLock,
              CloseQueue, StopHub, mailbox, pumps
<1>5. ASSUME NEW c \in Caller, DeliverStep(c) PROVE PlacesOK'
  BY <1>5 DEF DeliverStep, EnterDeliver, Offer, pumps
<1>6. CASE LosePeer \/ OthersHandInbound
  BY <1>6 DEF LosePeer, OthersHandInbound, mailbox, pumps
<1>7. CASE UNCHANGED vars
  BY <1>7 DEF vars, pumps, mailbox
<1> QED BY <1>1, <1>2, <1>3, <1>4, <1>5, <1>6, <1>7 DEF Next, ReaderStep

\* The counts and the queue stay within their bounds.
LEMMA BoundsStep == BoundsOK /\ [Next]_vars => BoundsOK'
<1> SUFFICES ASSUME BoundsOK, [Next]_vars PROVE BoundsOK'
  OBVIOUS
<1>1. InboundCap \in Nat
  BY ConnectionAssumption DEF ConnectionAssumption
<1> USE <1>1 DEF BoundsOK
<1>2. CASE ReaderStep
  BY <1>2 DEF ReaderStep, ReadEvent, HandInbound, EndReading, RejectInput, LeaveLoop,
              CloseSocket, mailbox
<1>3. CASE Write
  BY <1>3, QueueStep DEF Write
<1>4. CASE EndWriting
  BY <1>4 DEF EndWriting, mailbox
<1>5. CASE HubStep
  BY <1>5 DEF HubStep, TakeRegister, TakeInbound, Handled, TakeUnregister, RequestLock,
              CloseQueue, StopHub, mailbox, pumps
<1>6. ASSUME NEW c \in Caller, EnterDeliver(c) PROVE BoundsOK'
  BY <1>6 DEF EnterDeliver
<1>7. ASSUME NEW c \in Caller, NEW env \in Envelope, Offer(c, env) PROVE BoundsOK'
  BY <1>7, QueueStep DEF Offer
<1>8. CASE LosePeer \/ OthersHandInbound
  BY <1>8 DEF LosePeer, OthersHandInbound, mailbox
<1>9. CASE UNCHANGED vars
  BY <1>9 DEF vars, mailbox
<1> QED BY <1>2, <1>3, <1>4, <1>5, <1>6, <1>7, <1>8, <1>9 DEF Next, WriterStep, DeliverStep

\* The type invariant of one connection.
THEOREM TypeCorrect == Spec => []TypeOK
<1>1. Init => PlacesOK
  BY DEF Init, PlacesOK, ReaderAt, WriterAt, HubAt
<1>2. Init => BoundsOK
  BY ConnectionAssumption DEF ConnectionAssumption, Init, BoundsOK
<1> QED BY <1>1, <1>2, PlacesStep, BoundsStep, PTL DEF Spec, TypeOK

\* Why Deliver is safe: the flag and the channel change together, and while a
\* caller is between RLock and RUnlock neither has.
LockInv ==
  /\ chanShut = closed
  /\ inside # {} => ~closed
  /\ ~panicked

LEMMA LockInvariant == Spec => []LockInv
<1>1. Init => LockInv
  BY DEF Init, LockInv
<1>2. LockInv /\ [Next]_vars => LockInv'
  <2> SUFFICES ASSUME LockInv, [Next]_vars PROVE LockInv'
    OBVIOUS
  <2> USE DEF LockInv
  <2>1. CASE ReaderStep \/ EndWriting \/ LosePeer \/ OthersHandInbound
    BY <2>1 DEF ReaderStep, ReadEvent, HandInbound, EndReading, RejectInput, LeaveLoop,
                CloseSocket, EndWriting, LosePeer, OthersHandInbound, mailbox
  <2>2. CASE Write
    BY <2>2 DEF Write
  <2>3. CASE CloseQueue
    BY <2>3 DEF CloseQueue
  <2>4. CASE TakeRegister \/ TakeInbound \/ Handled \/ TakeUnregister \/ RequestLock \/ StopHub
    BY <2>4 DEF TakeRegister, TakeInbound, Handled, TakeUnregister, RequestLock, StopHub, mailbox
  <2>5. ASSUME NEW c \in Caller, EnterDeliver(c) PROVE LockInv'
    BY <2>5 DEF EnterDeliver
  <2>6. ASSUME NEW c \in Caller, NEW env \in Envelope, Offer(c, env) PROVE LockInv'
    BY <2>6 DEF Offer
  <2>7. CASE UNCHANGED vars
    BY <2>7 DEF vars, mailbox
  <2> QED BY <2>1, <2>2, <2>3, <2>4, <2>5, <2>6, <2>7
          DEF Next, WriterStep, HubStep, DeliverStep
<1> QED BY <1>1, <1>2, PTL DEF Spec

\* No interleaving of Deliver and Close sends on the closed channel, however
\* many goroutines deliver.
THEOREM NoSendOnClosed == Spec => []NeverSendsOnClosed
<1>1. LockInv => NeverSendsOnClosed
  BY DEF LockInv, NeverSendsOnClosed
<1> QED BY <1>1, LockInvariant, PTL

\* The session's channel, flag and lock implement the bounded mailbox: every
\* step of the connection is a step of Mailbox or leaves the box alone.
THEOREM MailboxRefined == Spec => MailboxPromise
<1>1. Init => Promise!Init
  BY DEF Init, Promise!Init
<1>2. LockInv /\ [Next]_vars => [Promise!Next]_Promise!vars
  <2> SUFFICES ASSUME LockInv, [Next]_vars PROVE [Promise!Next]_Promise!vars
    OBVIOUS
  <2> USE DEF LockInv, Promise!vars
  <2>1. CASE ReaderStep \/ EndWriting \/ LosePeer \/ OthersHandInbound
    BY <2>1 DEF ReaderStep, ReadEvent, HandInbound, EndReading, RejectInput, LeaveLoop,
                CloseSocket, EndWriting, LosePeer, OthersHandInbound, mailbox
  <2>2. CASE Write
    BY <2>2 DEF Write, Promise!Next, Promise!Take
  <2>3. CASE CloseQueue
    BY <2>3 DEF CloseQueue, Promise!Next, Promise!Shut
  <2>4. CASE TakeRegister \/ TakeInbound \/ Handled \/ TakeUnregister \/ RequestLock \/ StopHub
    BY <2>4 DEF TakeRegister, TakeInbound, Handled, TakeUnregister, RequestLock, StopHub, mailbox
  <2>5. ASSUME NEW c \in Caller, EnterDeliver(c) PROVE UNCHANGED Promise!vars
    BY <2>5 DEF EnterDeliver
  <2>6. ASSUME NEW c \in Caller, NEW env \in Envelope, Offer(c, env)
        PROVE  Promise!Put(env) \/ UNCHANGED Promise!vars
    BY <2>6 DEF Offer, Promise!Put
  <2>7. CASE UNCHANGED vars
    BY <2>7 DEF vars, mailbox
  <2> QED BY <2>1, <2>2, <2>3, <2>4, <2>5, <2>6, <2>7
          DEF Next, WriterStep, HubStep, DeliverStep, Promise!Next
<1> QED BY <1>1, <1>2, LockInvariant, PTL DEF Spec, MailboxPromise, Promise!Spec
=============================================================================
