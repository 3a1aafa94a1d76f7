-------------------------- MODULE ClientConnProofs --------------------------
(***************************************************************************)
(* Proofs about ClientConn.tla, for any number of managers, sockets and    *)
(* envelopes, any capacities and any plan.                                 *)
(***************************************************************************)
EXTENDS ClientConn, SequenceTheorems, FiniteSetTheorems, TLAPS

\* What the client sends, and what a manager reports.
Sent   == {"identify", "join_workspace", "join_channel", "send_message", "request_users"}
Report == [type : {"connected", "reconnecting", "disconnected", "error", "envelope"},
           n : 0..MaxEnvelope]

\* Envelopes read and not yet pushed.
Handing(m) == {k \in Socket : reader[m][k] = "handing"}

\* TypeOK with what its induction needs: the contents of the channels, and
\* the envelopes of a manager counted from the read on.
TypeInv ==
  /\ run \in [Manager -> RunAt] /\ socket \in [Manager -> SocketAt]
  /\ dials \in [Manager -> 0..MaxDial] /\ pushed \in [Manager -> Nat]
  /\ reader \in [Manager -> [Socket -> ReaderAt]] /\ cut \in [Manager -> BOOLEAN]
  /\ events \in [Manager -> Seq(Report)] /\ send \in [Manager -> Seq(Sent)]
  /\ heard \in [Manager -> Seq(Sent)]
  /\ closing \subseteq Manager /\ cur \in Manager /\ phase \in {"setup", "chat"}
  /\ named \in [Manager -> BOOLEAN] /\ status \in StatusText /\ typed \in 0..plan.typed /\ plan \in Plan
  /\ waiter \in [Waiter -> [at : {"idle", "waiting", "holding"}, mgr : Manager, evt : EventType]]
  /\ shown \in Seq(Manager \X (0..MaxEnvelope))

Capacities ==
  \A m \in Manager : Len(events[m]) <= EventCap /\ Len(send[m]) <= SendCap

\* A goroutine that holds an event holds a report.
HoldsReport == \A w \in Waiter : waiter[w].at = "holding" => waiter[w].evt \in Report

EnvelopesCounted == \A m \in Manager : pushed[m] + Cardinality(Handing(m)) <= plan.envelopes

\* The server is told who is there and then which workspace, by what it heard
\* on this socket and what the client has still to send on it.
Told(q) == \E i, j \in DOMAIN q : i < j /\ q[i] = "identify" /\ q[j] = "join_workspace"

FreshSocket ==
  \A m \in Manager : run[m] \in {"dialed", "greeting", "resyncing"} => heard[m] = <<>>

WillBeTold ==
  \A m \in Manager :
    run[m] = "writing" /\ socket[m] = "open" /\ named[m] /\ ~cut[m] => Told(heard[m] \o send[m])

\* Envelopes stand in Manager.events in the order they were pushed.
EventsInOrder ==
  \A m \in Manager : \A k \in DOMAIN events[m] :
    events[m][k].type = "envelope" =>
      /\ events[m][k].n <= pushed[m]
      /\ \A l \in DOMAIN events[m] :
           k < l /\ events[m][l].type = "envelope" => events[m][k].n < events[m][l].n

\* Before any Ctrl+R or /back: nothing runs before the first manager is
\* started, and from then on one goroutine takes its events.  (The manager
\* that main makes is number 1; connecting replaces it by number 2.)
FirstWaiter ==
  FirstChat =>
    /\ cur = 1 => phase = "setup" /\ shown = <<>>
    /\ \A m \in Manager : run[m] # "off" => m = 2 /\ cur = 2
    /\ \A w \in Waiter : waiter[w].at # "idle" => w = 1 /\ cur = 2 /\ waiter[w].mgr = 2
    /\ \A i \in DOMAIN shown : shown[i][1] = 2

\* n is after what was shown, and envelopes that wait are after n.
AfterShown(n) == \A i \in DOMAIN shown : shown[i][2] < n
BeforeQueued(m, n) ==
  \A k \in DOMAIN events[m] : events[m][k].type = "envelope" => n < events[m][k].n

HoldsEnvelope(w) == waiter[w].at = "holding" /\ waiter[w].evt.type = "envelope"

ShownInOrder ==
  FirstChat =>
    /\ \A w \in Waiter : HoldsEnvelope(w) =>
         /\ waiter[w].evt.n <= pushed[waiter[w].mgr]
         /\ AfterShown(waiter[w].evt.n) /\ BeforeQueued(waiter[w].mgr, waiter[w].evt.n)
    /\ \A i \in DOMAIN shown :
         shown[i][2] <= pushed[shown[i][1]] /\ BeforeQueued(shown[i][1], shown[i][2])
    /\ \A i, j \in DOMAIN shown : i < j => shown[i][2] < shown[j][2]

\* The read loops of earlier sockets are over once a connection is reported.
OldReadersEnded ==
  \A m \in Manager : \A n \in Socket :
    run[m] = "resyncing" \/ (run[m] = "writing" /\ n # dials[m]) => reader[m][n] \in {"off", "ended"}

\* The last thing reported, handled or not, is a connection.
Quiet(m) == \A k \in DOMAIN events[m] : events[m][k].type = "envelope"
LastReportConnected(m) ==
  \/ \E k \in DOMAIN events[m] :
       /\ events[m][k].type = "connected"
       /\ \A l \in DOMAIN events[m] : k < l => events[m][l].type = "envelope"
  \/ Quiet(m) /\ \E w \in Waiter : waiter[w].at = "holding" /\ waiter[w].evt.type = "connected"
  \/ /\ Quiet(m) /\ status = "connected"
     /\ \A w \in Waiter : waiter[w].at = "holding" => waiter[w].evt.type = "envelope"

ConnectionReported ==
  FirstChat => \A m \in Manager :
    run[m] \in {"resyncing", "writing"} /\ socket[m] = "open" => LastReportConnected(m)

\* The inductive invariant.
ConnInv ==
  /\ TypeInv /\ Capacities /\ HoldsReport /\ EnvelopesCounted
  /\ FreshSocket /\ WillBeTold
  /\ EventsInOrder /\ FirstWaiter /\ ShownInOrder
  /\ OldReadersEnded /\ ConnectionReported

-----------------------------------------------------------------------------
(* Sequences.                                                              *)

\* Manager.Send keeps what is queued, in place, and adds what there is room
\* for: all of it when there is room.
LEMMA OfferedProperties ==
  ASSUME NEW q \in Seq(Sent), NEW items \in Seq(Sent), Len(q) <= SendCap
  PROVE  /\ Offered(q, items) \in Seq(Sent) /\ Len(Offered(q, items)) <= SendCap
         /\ \E r \in Seq(Sent) : Offered(q, items) = q \o r
         /\ Len(q) + Len(items) <= SendCap => Offered(q, items) = q \o items
<1> DEFINE room == SendCap - Len(q)
           n == IF room < Len(items) THEN room ELSE Len(items)
           r == SubSeq(items, 1, n)
<1>1. Len(q) \in Nat /\ Len(items) \in Nat /\ SendCap \in Nat /\ room \in Nat
  BY LenProperties, ClientConnAssumption DEF ClientConnAssumption
<1>2. n \in 0..Len(items) /\ n <= room
  BY <1>1
<1>3. r \in Seq(Sent) /\ Len(r) = n
  BY <1>1, <1>2, SubSeqProperties
<1>4. Offered(q, items) = q \o r
  BY DEF Offered
<1>5. q \o r \in Seq(Sent) /\ Len(q \o r) = Len(q) + n
  <2> HIDE DEF r, n
  <2> QED BY <1>3, ConcatProperties
<1>6. ASSUME Len(q) + Len(items) <= SendCap PROVE r = items
  <2>1. n = Len(items)
    BY <1>1, <1>6
  <2>2. \A i \in 1..Len(items) : items[i] \in Sent
    BY LenProperties
  <2>3. r \in Seq(Sent) /\ Len(r) = Len(items)
    BY <1>3, <2>1
  <2>4. \A i \in 1..Len(r) : r[i] = items[i]
    BY <1>1, <2>1, <2>2, <2>3, SubSeqProperties
  <2> HIDE DEF r, n
  <2> QED BY <2>3, <2>4, SeqEqual
<1>7. Len(q) + n <= SendCap
  BY <1>1, <1>2
<1> HIDE DEF r, n
<1> QED BY <1>3, <1>4, <1>5, <1>6, <1>7

\* A queue keeps what it told when more is put behind it.
LEMMA ToldStays ==
  ASSUME NEW q \in Seq(Sent), NEW r \in Seq(Sent), Told(q)
  PROVE  Told(q \o r)
<1>1. PICK i, j \in 1..Len(q) : i < j /\ q[i] = "identify" /\ q[j] = "join_workspace"
  BY LenProperties DEF Told
<1>2. q \o r \in Seq(Sent) /\ Len(q \o r) = Len(q) + Len(r) /\ Len(q) \in Nat /\ Len(r) \in Nat
  BY ConcatProperties, LenProperties
<1>3. (q \o r)[i] = q[i] /\ (q \o r)[j] = q[j]
  BY <1>1, <1>2, ConcatProperties
<1>4. i \in DOMAIN (q \o r) /\ j \in DOMAIN (q \o r)
  BY <1>2, LenProperties
<1> QED BY <1>1, <1>3, <1>4 DEF Told

\* A queue that tells it does so behind another queue.
LEMMA ToldBehind ==
  ASSUME NEW q \in Seq(Sent), NEW r \in Seq(Sent), Told(r)
  PROVE  Told(q \o r)
<1>1. PICK i, j \in 1..Len(r) : i < j /\ r[i] = "identify" /\ r[j] = "join_workspace"
  BY LenProperties DEF Told
<1>2. q \o r \in Seq(Sent) /\ Len(q \o r) = Len(q) + Len(r) /\ Len(q) \in Nat /\ Len(r) \in Nat
  BY ConcatProperties, LenProperties
<1> DEFINE ii == Len(q) + i
           jj == Len(q) + j
<1>3. ii \in 1..(Len(q) + Len(r)) /\ jj \in 1..(Len(q) + Len(r)) /\ ii < jj
      /\ ~(ii <= Len(q)) /\ ~(jj <= Len(q)) /\ ii - Len(q) = i /\ jj - Len(q) = j
  BY <1>1, <1>2
<1> HIDE DEF ii, jj
<1>4. (q \o r)[ii] = r[i] /\ (q \o r)[jj] = r[j]
  BY <1>3, ConcatProperties
<1>5. DOMAIN (q \o r) = 1..(Len(q) + Len(r))
  BY <1>2, LenProperties
<1> QED BY <1>1, <1>3, <1>4, <1>5 DEF Told

\* Handing the head of one queue to the end of another.
LEMMA HandOver ==
  ASSUME NEW S, NEW p \in Seq(S), NEW q \in Seq(S), q # <<>>
  PROVE  Append(p, Head(q)) \o Tail(q) = p \o q
<1> DEFINE l == Append(p, Head(q)) \o Tail(q)
           r == p \o q
<1>1. /\ Head(q) \in S /\ Head(q) = q[1] /\ Tail(q) \in Seq(S) /\ Len(q) \in Nat /\ Len(q) > 0
      /\ Len(Tail(q)) = Len(q) - 1 /\ \A i \in 1..Len(Tail(q)) : Tail(q)[i] = q[i + 1]
  BY HeadTailProperties, LenProperties, EmptySeq
<1>2. /\ Append(p, Head(q)) \in Seq(S) /\ Len(Append(p, Head(q))) = Len(p) + 1 /\ Len(p) \in Nat
      /\ Append(p, Head(q))[Len(p) + 1] = q[1]
      /\ \A i \in 1..Len(p) : Append(p, Head(q))[i] = p[i]
  BY <1>1, AppendProperties, LenProperties
<1>3. l \in Seq(S) /\ r \in Seq(S) /\ Len(l) = Len(p) + Len(q) /\ Len(r) = Len(p) + Len(q)
  BY <1>1, <1>2, ConcatProperties
<1>4. ASSUME NEW i \in 1..Len(l) PROVE l[i] = r[i]
  <2>1. l[i] = IF i <= Len(p) + 1 THEN Append(p, Head(q))[i] ELSE Tail(q)[i - (Len(p) + 1)]
    BY <1>1, <1>2, <1>3, ConcatProperties
  <2>2. r[i] = IF i <= Len(p) THEN p[i] ELSE q[i - Len(p)]
    BY <1>3, ConcatProperties
  <2>3. CASE i <= Len(p)
    BY <1>2, <2>1, <2>2, <2>3
  <2>4. CASE i = Len(p) + 1
    BY <1>2, <2>1, <2>2, <2>4
  <2>5. CASE i > Len(p) + 1
    BY <1>1, <1>2, <1>3, <2>1, <2>2, <2>5
  <2> QED BY <1>2, <1>3, <2>3, <2>4, <2>5
<1> QED BY <1>3, <1>4, SeqEqual

\* A plan is within the bounds.
LEMMA PlanBounds ==
  ASSUME TypeInv
  PROVE  /\ plan.managers \in 0..MaxManager /\ plan.dials \in [Manager -> 0..MaxDial]
         /\ plan.envelopes \in 0..MaxEnvelope /\ plan.typed \in Nat /\ plan.names \subseteq BOOLEAN
         /\ MaxManager \in Nat /\ MaxDial \in Nat /\ MaxEnvelope \in Nat
         /\ EventCap \in Nat /\ SendCap \in Nat
  BY ClientConnAssumption DEF ClientConnAssumption, TypeInv

LEMMA SocketFinite == IsFiniteSet(Socket)
<1>1. MaxDial \in Int /\ 1 \in Int
  BY ClientConnAssumption DEF ClientConnAssumption
<1>2. IsFiniteSet(1..MaxDial)
  BY <1>1, FS_Interval
<1> QED BY <1>2 DEF Socket

LEMMA InitConnInv == Init => ConnInv
<1> SUFFICES ASSUME Init PROVE ConnInv
  OBVIOUS
<1>1. /\ run = [m \in Manager |-> "off"] /\ socket = [m \in Manager |-> "none"]
      /\ dials = [m \in Manager |-> 0] /\ pushed = [m \in Manager |-> 0]
      /\ events = [m \in Manager |-> <<>>] /\ send = [m \in Manager |-> <<>>]
      /\ heard = [m \in Manager |-> <<>>] /\ cut = [m \in Manager |-> FALSE]
      /\ named = [m \in Manager |-> FALSE] /\ waiter = [w \in Waiter |-> Idle]
  BY Zenon DEF Init
<1>2. reader = [m \in Manager |-> [n \in Socket |-> "off"]]
  BY Zenon DEF Init
<1>3. /\ closing = {} /\ cur = 1 /\ phase = "setup" /\ status = NoStatus /\ shown = <<>> /\ typed = 0
      /\ plan \in Plan
  BY Zenon DEF Init
<1>4. /\ 1 \in Manager /\ 0 \in 0..MaxDial /\ 0 \in 0..MaxEnvelope
      /\ plan.typed \in Nat /\ plan.envelopes \in Nat /\ EventCap \in Nat /\ SendCap \in Nat
  BY <1>3, ClientConnAssumption DEF ClientConnAssumption, Manager
<1>5. /\ <<>> \in Seq(Report) /\ <<>> \in Seq(Sent) /\ <<>> \in Seq(Manager \X (0..MaxEnvelope))
      /\ Len(<<>>) = 0
  BY EmptySeq
<1>6. Idle \in [at : {"idle", "waiting", "holding"}, mgr : Manager, evt : EventType]
  BY <1>4 DEF Idle, Event, EventType
<1>7. \A w \in Waiter : waiter[w].at = "idle"
  BY <1>1 DEF Idle
<1>8. reader \in [Manager -> [Socket -> ReaderAt]] /\ \A m \in Manager : Handing(m) = {}
  BY <1>2 DEF ReaderAt, Handing
<1>9. TypeInv
  BY <1>1, <1>3, <1>4, <1>5, <1>6, <1>8 DEF TypeInv, RunAt, SocketAt, StatusText
<1>10. Capacities
  BY <1>1, <1>4, <1>5 DEF Capacities
<1>11. HoldsReport /\ FreshSocket /\ WillBeTold
  BY <1>1, <1>7 DEF HoldsReport, FreshSocket, WillBeTold
<1>12. EnvelopesCounted
  <2> SUFFICES ASSUME NEW m \in Manager PROVE pushed[m] + Cardinality(Handing(m)) <= plan.envelopes
    BY DEF EnvelopesCounted
  <2>1. pushed[m] = 0 /\ Cardinality(Handing(m)) = 0
    BY <1>1, <1>8, FS_EmptySet
  <2> QED BY <1>4, <2>1
<1>13. \A m \in Manager : DOMAIN events[m] = {} /\ DOMAIN shown = {}
  BY <1>1, <1>3
<1>14. EventsInOrder
  BY <1>13 DEF EventsInOrder
<1>15. FirstWaiter /\ ShownInOrder
  BY <1>1, <1>3, <1>7, <1>13 DEF FirstWaiter, ShownInOrder, HoldsEnvelope
<1>16. OldReadersEnded /\ ConnectionReported
  BY <1>1 DEF OldReadersEnded, ConnectionReported
<1> QED
  BY <1>9, <1>10, <1>11, <1>12, <1>14, <1>15, <1>16 DEF ConnInv

-----------------------------------------------------------------------------
(* Types and capacities.                                                   *)

\* What Push does to the event channels.
LEMMA PushProperties ==
  ASSUME TypeInv, NEW m \in Manager, NEW evt \in Report, Push(m, evt)
  PROVE  /\ events' \in [Manager -> Seq(Report)]
         /\ \A k \in Manager \ {m} : events'[k] = events[k]
         /\ events'[m] = Append(events[m], evt)
         /\ DOMAIN events'[m] = 1..(Len(events[m]) + 1) /\ DOMAIN events[m] = 1..Len(events[m])
         /\ Len(events[m]) \in Nat /\ Len(events'[m]) = Len(events[m]) + 1 /\ Len(events'[m]) <= EventCap
         /\ events'[m][Len(events[m]) + 1] = evt
         /\ \A i \in 1..Len(events[m]) : events'[m][i] = events[m][i]
<1>1. events[m] \in Seq(Report) /\ EventCap \in Nat
  BY PlanBounds DEF TypeInv
<1>2. /\ Append(events[m], evt) \in Seq(Report)
      /\ Len(Append(events[m], evt)) = Len(events[m]) + 1 /\ Len(events[m]) \in Nat
      /\ Append(events[m], evt)[Len(events[m]) + 1] = evt
      /\ \A i \in 1..Len(events[m]) : Append(events[m], evt)[i] = events[m][i]
  BY <1>1, AppendProperties, LenProperties
<1>3. DOMAIN Append(events[m], evt) = 1..(Len(events[m]) + 1) /\ DOMAIN events[m] = 1..Len(events[m])
  BY <1>1, <1>2, LenProperties
<1>4. events' = [events EXCEPT ![m] = Append(events[m], evt)] /\ Len(events[m]) < EventCap
  BY DEF Push
<1>5. events' \in [Manager -> Seq(Report)] /\ events'[m] = Append(events[m], evt)
  BY <1>2, <1>4 DEF TypeInv
<1>6. \A k \in Manager \ {m} : events'[k] = events[k]
  BY <1>4 DEF TypeInv
<1> QED BY <1>1, <1>2, <1>3, <1>4, <1>5, <1>6

\* What a receive does to a queue.
LEMMA TailProperties ==
  ASSUME NEW S, NEW q \in Seq(S), q # <<>>
  PROVE  /\ Head(q) \in S /\ Head(q) = q[1] /\ Tail(q) \in Seq(S)
         /\ Len(q) \in Nat /\ Len(q) > 0 /\ Len(Tail(q)) = Len(q) - 1
         /\ DOMAIN q = 1..Len(q) /\ DOMAIN Tail(q) = 1..(Len(q) - 1)
         /\ \A i \in 1..(Len(q) - 1) : Tail(q)[i] = q[i + 1]
<1>1. /\ Head(q) \in S /\ Head(q) = q[1] /\ Tail(q) \in Seq(S) /\ Len(q) \in Nat /\ Len(q) > 0
      /\ Len(Tail(q)) = Len(q) - 1 /\ \A i \in 1..Len(Tail(q)) : Tail(q)[i] = q[i + 1]
  BY HeadTailProperties, LenProperties, EmptySeq
<1> QED BY <1>1, LenProperties

Typed == TypeInv /\ Capacities /\ HoldsReport

\* The steps of the run goroutine.
LEMMA RunTyped ==
  ASSUME Typed, NEW m \in Manager, RunStep(m)
  PROVE  Typed'
<1> USE DEF Typed
<1>1. ASSUME UNCHANGED <<reader, cut, send, closing, ui, waiter>>, UNCHANGED <<dials, pushed, heard>>,
             run' \in [Manager -> RunAt], socket' \in [Manager -> SocketAt],
             \/ UNCHANGED events
             \/ \E evt \in Report : Push(m, evt)
      PROVE  Typed'
  <2>1. /\ events' \in [Manager -> Seq(Report)] /\ \A k \in Manager : Len(events'[k]) <= EventCap
    BY <1>1, PushProperties DEF TypeInv, Capacities
  <2> QED BY <1>1, <2>1 DEF TypeInv, Capacities, HoldsReport, ui
<1>2. \A from, to : RunGoes(m, from, to) /\ to \in RunAt => run' \in [Manager -> RunAt]
  BY DEF RunGoes, TypeInv
<1>3. \A t \in {"connected", "reconnecting", "disconnected"} : Event(t, 0) \in Report
  BY PlanBounds DEF Event, Report
<1>4. CASE Loop(m) \/ DialFails(m)
  BY <1>1, <1>2, <1>4 DEF Loop, DialFails, RunAt, TypeInv
<1>5. CASE ReportFailure(m) \/ Greet(m) \/ HangUp(m)
  BY <1>1, <1>2, <1>3, <1>5 DEF ReportFailure, Greet, HangUp, RunAt, TypeInv
<1>6. CASE Install(m) \/ CloseConn(m)
  BY <1>1, <1>2, <1>6 DEF Install, CloseConn, RunAt, SocketAt, TypeInv
<1>7. CASE StopWriting(m)
  BY <1>1, <1>2, <1>7 DEF StopWriting, RunAt, TypeInv
<1>8. CASE DialSucceeds(m)
  <2>1. run' \in [Manager -> RunAt]
    BY <1>2, <1>8 DEF DialSucceeds, RunAt
  <2>2. dials[m] + 1 \in 0..MaxDial
    <3>1. dials[m] \in 0..MaxDial
      BY DEF TypeInv
    <3>2. dials[m] < plan.dials[m] /\ plan.dials[m] \in 0..MaxDial
      BY <1>8, PlanBounds DEF DialSucceeds
    <3> QED BY <3>1, <3>2, PlanBounds
  <2>3. heard' \in [Manager -> Seq(Sent)]
    BY <1>8, EmptySeq DEF DialSucceeds, TypeInv
  <2> QED BY <1>8, <2>1, <2>2, <2>3 DEF DialSucceeds, SocketAt, TypeInv, Capacities, HoldsReport, ui
<1>9. CASE Resync(m)
  <2> DEFINE items == IF named[m] THEN <<"identify", "join_workspace", "join_channel">> ELSE <<>>
  <2>1. items \in Seq(Sent)
    <3>1. <<"identify", "join_workspace", "join_channel">> \in Seq(Sent) /\ <<>> \in Seq(Sent)
      BY EmptySeq DEF Sent
    <3> QED BY <3>1
  <2> HIDE DEF items
  <2>2. Offered(send[m], items) \in Seq(Sent) /\ Len(Offered(send[m], items)) <= SendCap
    BY <2>1, OfferedProperties DEF TypeInv, Capacities
  <2>3. /\ send' = [send EXCEPT ![m] = Offered(send[m], items)]
        /\ cut' = [cut EXCEPT ![m] = Len(send[m]) + Len(items) > SendCap]
        /\ reader' = [reader EXCEPT ![m] = [reader[m] EXCEPT ![dials[m]] = "reading"]]
        /\ RunGoes(m, "resyncing", "writing")
        /\ UNCHANGED <<socket, dials, pushed, heard, events, closing, ui, waiter>>
    BY <1>9 DEF Resync, items
  <2>4. run' \in [Manager -> RunAt]
    BY <1>2, <2>3 DEF RunAt, TypeInv
  <2>5. reader' \in [Manager -> [Socket -> ReaderAt]]
    <3>1. [reader[m] EXCEPT ![dials[m]] = "reading"] \in [Socket -> ReaderAt]
      BY DEF ReaderAt, TypeInv
    <3> QED BY <2>3, <3>1 DEF TypeInv
  <2>6. cut' \in [Manager -> BOOLEAN]
    <3> DEFINE full == Len(send[m]) + Len(items) > SendCap
    <3>1. full \in BOOLEAN
      BY PlanBounds
    <3> HIDE DEF full
    <3>2. cut' = [cut EXCEPT ![m] = full]
      BY <2>3 DEF full
    <3> QED BY <3>1, <3>2 DEF TypeInv
  <2> QED BY <2>2, <2>3, <2>4, <2>5, <2>6 DEF TypeInv, Capacities, HoldsReport, ui
<1>10. CASE WriteEnvelope(m)
  <2>1. /\ Head(send[m]) \in Sent /\ Tail(send[m]) \in Seq(Sent) /\ Len(Tail(send[m])) <= SendCap
    <3>1. send[m] \in Seq(Sent) /\ send[m] # <<>> /\ Len(send[m]) <= SendCap /\ SendCap \in Nat
      BY <1>10, PlanBounds DEF WriteEnvelope, TypeInv, Capacities
    <3> QED BY <3>1, TailProperties
  <2>2. Append(heard[m], Head(send[m])) \in Seq(Sent)
    BY <2>1, AppendProperties DEF TypeInv
  <2>3. run' \in [Manager -> RunAt]
    BY <1>10 DEF WriteEnvelope, RunAt, TypeInv
  <2> QED BY <1>10, <2>1, <2>2, <2>3 DEF WriteEnvelope, TypeInv, Capacities, HoldsReport, ui
<1> QED BY <1>4, <1>5, <1>6, <1>7, <1>8, <1>9, <1>10 DEF RunStep

\* The steps of the read loops and of the peer.
LEMMA ReaderTyped ==
  ASSUME Typed, EnvelopesCounted, NEW m \in Manager,
         LosePeer(m) \/ \E n \in Socket : ReaderStep(m, n)
  PROVE  Typed' /\ EnvelopesCounted'
<1> USE DEF Typed
<1>1. /\ pushed[m] \in Nat /\ plan.envelopes \in 0..MaxEnvelope /\ MaxEnvelope \in Nat
      /\ IsFiniteSet(Handing(m)) /\ Cardinality(Handing(m)) \in Nat
      /\ pushed[m] + Cardinality(Handing(m)) <= plan.envelopes
  <2>1. IsFiniteSet(Socket)
    BY SocketFinite
  <2>2. IsFiniteSet(Handing(m))
    BY <2>1, FS_Subset DEF Handing
  <2>3. Cardinality(Handing(m)) \in Nat
    BY <2>2, FS_CardinalityType
  <2>4. pushed[m] \in Nat /\ pushed[m] + Cardinality(Handing(m)) <= plan.envelopes
    BY DEF TypeInv, EnvelopesCounted
  <2> QED BY <2>2, <2>3, <2>4, PlanBounds
<1>2. CASE LosePeer(m)
  <2>1. Typed'
    BY <1>2 DEF LosePeer, SocketAt, TypeInv, Capacities, HoldsReport, ui
  <2>2. \A k \in Manager : Handing(k)' = Handing(k)
    BY <1>2 DEF LosePeer, Handing
  <2> QED BY <1>2, <2>1, <2>2 DEF LosePeer, EnvelopesCounted, ui
<1>3. ASSUME NEW n \in Socket, NEW to \in ReaderAt, ReaderGoes(m, n, reader[m][n], to)
      PROVE  /\ reader' \in [Manager -> [Socket -> ReaderAt]]
             /\ reader'[m] = [reader[m] EXCEPT ![n] = to]
             /\ \A k \in Manager \ {m} : reader'[k] = reader[k]
  <2>1. [reader[m] EXCEPT ![n] = to] \in [Socket -> ReaderAt]
    BY DEF TypeInv
  <2>2. reader' = [reader EXCEPT ![m] = [reader[m] EXCEPT ![n] = to]]
    BY <1>3 DEF ReaderGoes
  <2> QED BY <2>1, <2>2 DEF TypeInv
<1>4. ASSUME NEW n \in Socket, NEW to \in ReaderAt, ReaderGoes(m, n, reader[m][n], to)
      PROVE  /\ \A k \in Manager \ {m} : Handing(k)' = Handing(k)
             /\ Handing(m)' = IF to = "handing" THEN Handing(m) \cup {n} ELSE Handing(m) \ {n}
  <2>1. /\ reader[m] \in [Socket -> ReaderAt] /\ reader'[m] = [reader[m] EXCEPT ![n] = to]
        /\ \A k \in Manager \ {m} : reader'[k] = reader[k]
    BY <1>3, <1>4 DEF TypeInv
  <2> QED BY <2>1 DEF Handing
<1>5. ASSUME NEW n \in Socket, ReadEnvelope(m, n)
      PROVE  Typed' /\ EnvelopesCounted'
  <2>1. "handing" \in ReaderAt /\ ReaderGoes(m, n, reader[m][n], "handing") /\ reader[m][n] = "reading"
    BY <1>5 DEF ReadEnvelope, ReaderGoes, ReaderAt
  <2>2. Typed'
    BY <1>3, <1>5, <2>1 DEF ReadEnvelope, TypeInv, Capacities, HoldsReport, ui
  <2>3. n \notin Handing(m)
    BY <2>1 DEF Handing
  <2>4. Cardinality(Handing(m)') = Cardinality(Handing(m)) + 1
    <3>1. Handing(m)' = Handing(m) \cup {n}
      BY <1>4, <2>1
    <3>2. IsFiniteSet(Handing(m))
      BY <1>1
    <3> QED BY <2>3, <3>1, <3>2, FS_AddElement
  <2>5. pushed[m] + Cardinality(Handing(m)) < plan.envelopes
    BY <1>5 DEF ReadEnvelope, Handing
  <2>6. pushed'[m] + Cardinality(Handing(m)') <= plan'.envelopes
    BY <1>1, <1>5, <2>4, <2>5 DEF ReadEnvelope, ui
  <2> QED BY <1>4, <1>5, <2>1, <2>2, <2>6 DEF ReadEnvelope, EnvelopesCounted, ui
<1>6. ASSUME NEW n \in Socket, HandEnvelope(m, n)
      PROVE  Typed' /\ EnvelopesCounted'
  <2>1. "reading" \in ReaderAt /\ ReaderGoes(m, n, reader[m][n], "reading") /\ reader[m][n] = "handing"
    BY <1>6 DEF HandEnvelope, ReaderGoes, ReaderAt
  <2>2. n \in Handing(m)
    BY <2>1 DEF Handing
  <2>3. Cardinality(Handing(m)') = Cardinality(Handing(m)) - 1
    <3>1. Handing(m)' = Handing(m) \ {n}
      BY <1>4, <2>1
    <3>2. IsFiniteSet(Handing(m))
      BY <1>1
    <3> QED BY <2>2, <3>1, <3>2, FS_RemoveElement
  <2>4. /\ pushed' = [pushed EXCEPT ![m] = pushed[m] + 1] /\ pushed' \in [Manager -> Nat]
        /\ pushed'[m] = pushed[m] + 1
    <3>1. pushed' = [pushed EXCEPT ![m] = pushed[m] + 1]
      BY <1>6 DEF HandEnvelope
    <3>2. pushed \in [Manager -> Nat]
      BY DEF TypeInv
    <3> QED BY <1>1, <3>1, <3>2
  <2>5. Handing(m) # {} /\ Cardinality(Handing(m)) # 0
    BY <1>1, <2>2, FS_EmptySet
  <2>6. pushed[m] + 1 \in 0..MaxEnvelope
    BY <1>1, <2>5
  <2>7. Event("envelope", pushed'[m]) \in Report /\ Push(m, Event("envelope", pushed'[m]))
    BY <1>6, <2>4, <2>6 DEF HandEnvelope, Event, Report
  <2>8. events' \in [Manager -> Seq(Report)] /\ \A k \in Manager : Len(events'[k]) <= EventCap
    BY <2>7, PushProperties DEF Capacities
  <2>9. Typed'
    BY <1>3, <1>6, <2>1, <2>4, <2>8 DEF HandEnvelope, TypeInv, Capacities, HoldsReport, ui
  <2>10. pushed'[m] + Cardinality(Handing(m)') <= plan'.envelopes
    BY <1>1, <1>6, <2>3, <2>4 DEF HandEnvelope, ui
  <2>11. \A k \in Manager \ {m} : pushed'[k] = pushed[k]
    BY <2>4 DEF TypeInv
  <2> QED BY <1>4, <1>6, <2>1, <2>9, <2>10, <2>11 DEF HandEnvelope, EnvelopesCounted, ui
<1>7. ASSUME NEW n \in Socket, EndReading(m, n)
      PROVE  Typed' /\ EnvelopesCounted'
  <2>1. "ended" \in ReaderAt /\ ReaderGoes(m, n, reader[m][n], "ended") /\ reader[m][n] = "reading"
    BY <1>7 DEF EndReading, ReaderGoes, ReaderAt
  <2>2. n \notin Handing(m)
    BY <2>1 DEF Handing
  <2>3. \A k \in Manager : Handing(k)' = Handing(k)
    BY <1>4, <2>1, <2>2
  <2>4. Event("error", 0) \in Report /\ Push(m, Event("error", 0))
    BY <1>1, <1>7 DEF EndReading, Event, Report
  <2>5. events' \in [Manager -> Seq(Report)] /\ \A k \in Manager : Len(events'[k]) <= EventCap
    BY <2>4, PushProperties DEF Capacities
  <2>6. Typed'
    BY <1>3, <1>7, <2>1, <2>5 DEF EndReading, TypeInv, Capacities, HoldsReport, ui
  <2> QED BY <1>7, <2>3, <2>6 DEF EndReading, EnvelopesCounted, ui
<1> QED BY <1>2, <1>5, <1>6, <1>7 DEF ReaderStep

\* A connection that starts its read loop hands nothing over yet.
LEMMA RunCounted ==
  ASSUME Typed, EnvelopesCounted, NEW m \in Manager, RunStep(m)
  PROVE  EnvelopesCounted'
<1>1. UNCHANGED <<pushed, plan>>
  BY DEF RunStep, Loop, DialFails, ReportFailure, DialSucceeds, Install, Greet, Resync, WriteEnvelope,
     StopWriting, HangUp, CloseConn, ui
<1>2. CASE UNCHANGED reader
  <2>1. \A k \in Manager : Handing(k)' = Handing(k)
    BY <1>2 DEF Handing
  <2> QED BY <1>1, <2>1 DEF EnvelopesCounted
<1>3. CASE Resync(m)
  <2> SUFFICES ASSUME NEW k \in Manager
               PROVE  pushed[k] + Cardinality(Handing(k)') <= plan.envelopes
    BY <1>1 DEF EnvelopesCounted
  <2>1. reader' = [reader EXCEPT ![m] = [reader[m] EXCEPT ![dials[m]] = "reading"]]
    BY <1>3 DEF Resync
  <2>2. Handing(k)' \subseteq Handing(k) /\ Handing(k) \subseteq Socket
    BY <2>1 DEF Handing, Typed, TypeInv
  <2>3. IsFiniteSet(Socket)
    BY SocketFinite
  <2>4. IsFiniteSet(Handing(k))
    BY <2>2, <2>3, FS_Subset
  <2>5. IsFiniteSet(Handing(k)') /\ Cardinality(Handing(k)') <= Cardinality(Handing(k))
    BY <2>2, <2>4, FS_Subset
  <2>6. Cardinality(Handing(k)') \in Nat /\ Cardinality(Handing(k)) \in Nat
    BY <2>4, <2>5, FS_CardinalityType
  <2>7. pushed[k] \in Nat /\ pushed[k] + Cardinality(Handing(k)) <= plan.envelopes
    BY DEF Typed, TypeInv, EnvelopesCounted
  <2>8. plan.envelopes \in Nat
    BY PlanBounds DEF Typed
  <2> QED BY <2>5, <2>6, <2>7, <2>8
<1>4. UNCHANGED reader \/ Resync(m)
  BY DEF RunStep, Loop, DialFails, ReportFailure, DialSucceeds, Install, Greet, WriteEnvelope,
     StopWriting, HangUp, CloseConn
<1> QED BY <1>2, <1>3, <1>4

\* A goroutine that waits.
LEMMA WaitOnTyped ==
  ASSUME NEW m \in Manager
  PROVE  /\ WaitOn(m) \in [at : {"idle", "waiting", "holding"}, mgr : Manager, evt : EventType]
         /\ WaitOn(m).at = "waiting" /\ WaitOn(m).mgr = m
<1>1. Event("none", 0) \in EventType
  <2>1. MaxEnvelope \in Nat
    BY ClientConnAssumption DEF ClientConnAssumption
  <2> QED BY <2>1 DEF Event, EventType
<1>2. 1 \in Manager
  BY ClientConnAssumption DEF ClientConnAssumption, Manager
<1>3. Idle \in [at : {"idle", "waiting", "holding"}, mgr : Manager, evt : EventType]
  BY <1>1, <1>2 DEF Idle
<1> QED BY <1>3 DEF WaitOn

\* What reconnect does, and where its goroutine waits.
LEMMA ReconnectTyped ==
  ASSUME TypeInv, HoldsReport, Reconnect
  PROVE  /\ cur + 1 \in Manager /\ cur' = cur + 1 /\ closing' \subseteq Manager
         /\ socket' \in [Manager -> SocketAt] /\ run' \in [Manager -> RunAt]
         /\ waiter' \in [Waiter -> [at : {"idle", "waiting", "holding"}, mgr : Manager, evt : EventType]]
         /\ \A w \in Waiter : waiter'[w].at = "holding" => waiter'[w].evt \in Report
<1>1. cur + 1 \in Manager /\ cur' = cur + 1
  <2>1. cur \in 1..MaxManager
    BY DEF TypeInv, Manager
  <2>2. cur < plan.managers /\ cur' = cur + 1
    BY DEF Reconnect
  <2> QED BY <2>1, <2>2, PlanBounds DEF Manager
<1>2. closing' \subseteq Manager /\ socket' \in [Manager -> SocketAt]
  BY DEF Reconnect, CloseCurrent, TypeInv, SocketAt
<1>3. run' \in [Manager -> RunAt]
  BY <1>1 DEF Reconnect, TypeInv, RunAt
<1>4. PICK w \in Waiter : waiter' = [waiter EXCEPT ![w] = WaitOn(cur')]
  BY DEF Reconnect, StartWaiter
<1> QED BY <1>1, <1>2, <1>3, <1>4, WaitOnTyped DEF TypeInv, HoldsReport

\* The steps of the Bubble Tea program.
LEMMA UITyped ==
  ASSUME Typed, UIStep
  PROVE  Typed'
<1> USE DEF Typed
<1>1. CASE Connect
  <2>1. Reconnect /\ phase' = "chat" /\ status' = "connecting"
    BY <1>1 DEF Connect
  <2>2. \E given \in plan.names : named' = [named EXCEPT ![cur + 1] = given]
    BY <1>1 DEF Connect
  <2>3. named' \in [Manager -> BOOLEAN]
    BY <2>2, PlanBounds DEF TypeInv
  <2>4. UNCHANGED <<dials, reader, pushed, heard, cut, events, send, shown, typed, plan>>
    BY <1>1 DEF Connect
  <2> QED BY <2>1, <2>3, <2>4, ReconnectTyped DEF TypeInv, Capacities, HoldsReport, StatusText
<1>2. CASE CtrlR
  <2>1. Reconnect /\ named' = [named EXCEPT ![cur + 1] = named[cur]]
    BY <1>2 DEF CtrlR
  <2>2. named' \in [Manager -> BOOLEAN]
    BY <2>1 DEF TypeInv
  <2>3. UNCHANGED <<dials, reader, pushed, heard, cut, events, send, phase, status, shown, typed, plan>>
    BY <1>2 DEF CtrlR
  <2> QED BY <2>1, <2>2, <2>3, ReconnectTyped DEF TypeInv, Capacities, HoldsReport
<1>3. CASE Back
  <2>1. cur \in 1..MaxManager /\ cur < plan.managers /\ cur' = cur + 1
    BY <1>3 DEF TypeInv, Manager, Back
  <2>2. cur' \in Manager
    BY <2>1, PlanBounds DEF Manager
  <2>3. closing' \subseteq Manager /\ socket' \in [Manager -> SocketAt]
    BY <1>3 DEF Back, CloseCurrent, TypeInv, SocketAt
  <2> QED BY <1>3, <2>2, <2>3 DEF Back, TypeInv, Capacities, HoldsReport, StatusText
<1>4. CASE SendMessage
  <2>1. <<"send_message">> \in Seq(Sent)
    BY DEF Sent
  <2>2. Offered(send[cur], <<"send_message">>) \in Seq(Sent) /\ Len(Offered(send[cur], <<"send_message">>)) <= SendCap
    BY <2>1, OfferedProperties DEF TypeInv, Capacities
  <2>3. typed' \in 0..plan.typed
    <3>1. typed \in 0..plan.typed /\ typed < plan.typed /\ typed' = typed + 1
      BY <1>4 DEF SendMessage, TypeInv
    <3> QED BY <3>1, PlanBounds
  <2> QED BY <1>4, <2>2, <2>3 DEF SendMessage, TypeInv, Capacities, HoldsReport, link
<1>5. ASSUME NEW w \in Waiter, Take(w)
      PROVE  Typed'
  <2> DEFINE m == waiter[w].mgr
  <2>1. m \in Manager /\ events[m] \in Seq(Report) /\ events[m] # <<>> /\ Len(events[m]) <= EventCap
    BY <1>5 DEF Take, TypeInv, Capacities
  <2>2. /\ Head(events[m]) \in Report /\ Tail(events[m]) \in Seq(Report)
        /\ Len(Tail(events[m])) <= EventCap
    BY <2>1, TailProperties, PlanBounds
  <2>3. Head(events[m]) \in EventType
    BY <2>2 DEF Report, EventType
  <2>4. /\ waiter' = [waiter EXCEPT ![w].at = "holding", ![w].evt = Head(events[m])]
        /\ events' = [events EXCEPT ![m] = Tail(events[m])]
        /\ UNCHANGED <<link, send, closing, ui>>
    BY <1>5 DEF Take
  <2>5. events' \in [Manager -> Seq(Report)] /\ \A k \in Manager : Len(events'[k]) <= EventCap
    BY <2>1, <2>2, <2>4 DEF TypeInv, Capacities
  <2>6. waiter' \in [Waiter -> [at : {"idle", "waiting", "holding"}, mgr : Manager, evt : EventType]]
    BY <2>3, <2>4 DEF TypeInv
  <2>7. \A v \in Waiter : waiter'[v].at = "holding" => waiter'[v].evt \in Report
    BY <2>2, <2>4 DEF TypeInv, HoldsReport
  <2> QED BY <2>4, <2>5, <2>6, <2>7 DEF TypeInv, Capacities, HoldsReport, link, ui
<1>6. ASSUME NEW w \in Waiter, HandleWSEvent(w)
      PROVE  Typed'
  <2> DEFINE evt == waiter[w].evt
  <2>1. evt \in Report /\ waiter[w].mgr \in Manager
    BY <1>6 DEF HandleWSEvent, HoldsReport, TypeInv
  <2>2. status' \in StatusText
    BY <1>6, <2>1 DEF HandleWSEvent, Report, StatusText, TypeInv
  <2>3. shown' \in Seq(Manager \X (0..MaxEnvelope))
    <3> DEFINE S == Manager \X (0..MaxEnvelope)
               x == <<waiter[w].mgr, evt.n>>
    <3>1. x \in S /\ shown \in Seq(S)
      BY <2>1 DEF Report, TypeInv
    <3>2. shown' = shown \/ shown' = Append(shown, x)
      BY <1>6 DEF HandleWSEvent
    <3> HIDE DEF S, x
    <3>3. shown' \in Seq(S)
      BY <3>1, <3>2, AppendProperties
    <3> QED BY <3>3 DEF S
  <2>4. send' \in [Manager -> Seq(Sent)] /\ \A k \in Manager : Len(send'[k]) <= SendCap
    <3>1. <<"request_users">> \in Seq(Sent)
      BY DEF Sent
    <3>2. send' \in {send, [send EXCEPT ![cur] = Offered(send[cur], <<"request_users">>)]}
      BY <1>6 DEF HandleWSEvent
    <3>3. Offered(send[cur], <<"request_users">>) \in Seq(Sent) /\ Len(Offered(send[cur], <<"request_users">>)) <= SendCap
      BY <3>1, OfferedProperties DEF TypeInv, Capacities
    <3> QED BY <3>2, <3>3 DEF TypeInv, Capacities
  <2>5. waiter' = [waiter EXCEPT ![w] = WaitOn(cur)] /\ cur \in Manager
    BY <1>6 DEF HandleWSEvent, TypeInv
  <2>6. UNCHANGED <<link, events, closing, cur, phase, named, typed, plan>>
    BY <1>6 DEF HandleWSEvent
  <2> QED BY <2>2, <2>3, <2>4, <2>5, <2>6, WaitOnTyped DEF TypeInv, Capacities, HoldsReport, link
<1> QED BY <1>1, <1>2, <1>3, <1>4, <1>5, <1>6 DEF UIStep

LEMMA UICounted ==
  ASSUME EnvelopesCounted, UNCHANGED <<reader, pushed, plan>>
  PROVE  EnvelopesCounted'
<1>1. \A k \in Manager : Handing(k)' = Handing(k)
  BY DEF Handing
<1> QED BY <1>1 DEF EnvelopesCounted

-----------------------------------------------------------------------------
(* What the server is told.                                                *)

\* Manager k is not between a dial and the end of its connection, or it only
\* gets more to send, or loses its socket.
LeavesTold(k) ==
  \/ run'[k] \notin {"dialed", "greeting", "resyncing", "writing"}
  \/ /\ run'[k] = run[k] /\ heard'[k] = heard[k] /\ named'[k] = named[k] /\ cut'[k] = cut[k]
     /\ socket'[k] = socket[k] \/ socket'[k] # "open"
     /\ \E r \in Seq(Sent) : send'[k] = send[k] \o r

LEMMA ToldStep ==
  ASSUME Typed, FreshSocket, WillBeTold,
         \A k \in Manager :
           \/ LeavesTold(k)
           \/ /\ run'[k] \in {"dialed", "greeting", "resyncing"} => heard'[k] = <<>>
              /\ run'[k] = "writing" /\ socket'[k] = "open" /\ named'[k] /\ ~cut'[k] =>
                   Told(heard'[k] \o send'[k])
  PROVE  FreshSocket' /\ WillBeTold'
<1> SUFFICES ASSUME NEW k \in Manager, LeavesTold(k), run'[k] \in {"dialed", "greeting", "resyncing", "writing"}
             PROVE  /\ run'[k] \in {"dialed", "greeting", "resyncing"} => heard'[k] = <<>>
                    /\ run'[k] = "writing" /\ socket'[k] = "open" /\ named'[k] /\ ~cut'[k] =>
                         Told(heard'[k] \o send'[k])
  BY DEF FreshSocket, WillBeTold, LeavesTold
<1>1. PICK r \in Seq(Sent) : send'[k] = send[k] \o r
  BY DEF LeavesTold
<1>2. /\ run'[k] = run[k] /\ heard'[k] = heard[k] /\ named'[k] = named[k] /\ cut'[k] = cut[k]
      /\ socket'[k] = "open" => socket[k] = "open"
  BY DEF LeavesTold
<1>3. heard[k] \in Seq(Sent) /\ send[k] \in Seq(Sent)
  BY DEF Typed, TypeInv
<1>4. heard[k] \o (send[k] \o r) = (heard[k] \o send[k]) \o r /\ heard[k] \o send[k] \in Seq(Sent)
  <2>1. heard[k] \o send[k] \in Seq(Sent)
    BY <1>3, ConcatProperties
  <2>2. (heard[k] \o send[k]) \o r = heard[k] \o (send[k] \o r)
    <3> DEFINE p == heard[k]
               q == send[k]
    <3>1. p \in Seq(Sent) /\ q \in Seq(Sent) /\ r \in Seq(Sent)
      BY <1>3
    <3> HIDE DEF p, q
    <3>2. (p \o q) \o r = p \o (q \o r)
      BY <3>1
    <3> QED BY Zenon, <3>2 DEF p, q
  <2> QED BY <2>1, <2>2
<1>5. ASSUME Told(heard[k] \o send[k]) PROVE Told(heard'[k] \o send'[k])
  <2>1. heard'[k] \o send'[k] = (heard[k] \o send[k]) \o r
    BY <1>1, <1>2, <1>4
  <2>2. Told((heard[k] \o send[k]) \o r)
    BY <1>4, <1>5, ToldStays
  <2> QED BY Zenon, <2>1, <2>2
<1> QED BY <1>2, <1>5 DEF FreshSocket, WillBeTold

\* A manager whose fields a step does not touch.
LEMMA UntouchedTold ==
  ASSUME Typed, NEW k \in Manager, run'[k] = run[k], heard'[k] = heard[k], named'[k] = named[k],
         cut'[k] = cut[k], send'[k] = send[k], socket'[k] = socket[k] \/ socket'[k] # "open"
  PROVE  LeavesTold(k)
<1>1. send[k] \in Seq(Sent) /\ <<>> \in Seq(Sent)
  BY EmptySeq DEF Typed, TypeInv
<1>2. send[k] = send[k] \o <<>>
  BY <1>1, ConcatEmptySeq
<1> QED BY <1>1, <1>2 DEF LeavesTold

LEMMA RunTold ==
  ASSUME Typed, FreshSocket, WillBeTold, NEW m \in Manager, RunStep(m)
  PROVE  FreshSocket' /\ WillBeTold'
<1> USE DEF Typed
<1>1. ASSUME NEW k \in Manager \ {m} PROVE LeavesTold(k)
  <2>1. /\ run'[k] = run[k] /\ heard'[k] = heard[k] /\ named'[k] = named[k]
        /\ cut'[k] = cut[k] /\ send'[k] = send[k] /\ socket'[k] = socket[k]
    BY DEF RunStep, RunGoes, Loop, DialFails, ReportFailure, DialSucceeds, Install, Greet, Resync,
       WriteEnvelope, StopWriting, HangUp, CloseConn, TypeInv, ui
  <2> QED BY <2>1, UntouchedTold
<1>2. ASSUME \/ LeavesTold(m)
             \/ /\ run'[m] \in {"dialed", "greeting", "resyncing"} => heard'[m] = <<>>
                /\ run'[m] = "writing" /\ socket'[m] = "open" /\ named'[m] /\ ~cut'[m] =>
                     Told(heard'[m] \o send'[m])
      PROVE  FreshSocket' /\ WillBeTold'
  BY <1>1, <1>2, ToldStep
<1>3. \A from, to : RunGoes(m, from, to) => run[m] = from /\ run'[m] = to
  BY DEF RunGoes, TypeInv
<1>4. CASE Loop(m) \/ DialFails(m) \/ ReportFailure(m) \/ StopWriting(m) \/ HangUp(m) \/ CloseConn(m)
  <2>1. run'[m] \notin {"dialed", "greeting", "resyncing", "writing"}
    <3>1. \E from \in RunAt, to \in {"ended", "dialing", "failing", "looping", "hanging up", "closing"} :
            RunGoes(m, from, to)
      BY <1>4 DEF Loop, DialFails, ReportFailure, StopWriting, HangUp, CloseConn, RunAt
    <3> QED BY <1>3, <3>1
  <2>2. LeavesTold(m)
    BY <2>1 DEF LeavesTold
  <2> QED BY Zenon, <1>2, <2>2
<1>5. CASE DialSucceeds(m)
  <2>1. run'[m] = "dialed" /\ heard'[m] = <<>>
    BY <1>3, <1>5 DEF DialSucceeds, TypeInv
  <2> QED BY <1>2, <2>1
<1>6. CASE Install(m) \/ Greet(m)
  <2>1. /\ run[m] \in {"dialed", "greeting"} /\ run'[m] \in {"greeting", "resyncing"}
        /\ heard'[m] = heard[m]
    BY <1>3, <1>6 DEF Install, Greet
  <2> QED BY <1>2, <2>1 DEF FreshSocket
<1>7. CASE Resync(m)
  <2> DEFINE told == <<"identify", "join_workspace", "join_channel">>
  <2>1. run[m] = "resyncing" /\ run'[m] = "writing" /\ heard'[m] = heard[m] /\ named'[m] = named[m]
    BY <1>3, <1>7 DEF Resync, ui
  <2>2. heard'[m] = <<>>
    BY <2>1 DEF FreshSocket
  <2>3. told \in Seq(Sent) /\ Len(told) = 3 /\ Told(told)
    BY DEF Sent, Told
  <2>4. ASSUME named[m], ~cut'[m] PROVE Told(heard'[m] \o send'[m])
    <3> DEFINE full == Len(send[m]) + Len(told) > SendCap
    <3> HIDE DEF told, full
    <3>1. send'[m] = Offered(send[m], told)
      BY <1>7, <2>4 DEF Resync, TypeInv, told
    <3>2. ~full
      <4>1. cut' = [cut EXCEPT ![m] = full]
        BY <1>7, <2>4 DEF Resync, told, full
      <4> QED BY <2>4, <4>1 DEF TypeInv
    <3>3. send[m] \in Seq(Sent) /\ Len(send[m]) <= SendCap /\ Len(send[m]) \in Nat /\ SendCap \in Nat
      BY LenProperties, PlanBounds DEF TypeInv, Capacities
    <3>4. Len(send[m]) + Len(told) <= SendCap
      BY <2>3, <3>3, <3>2 DEF full
    <3>5. send'[m] = send[m] \o told
      BY <2>3, <3>1, <3>3, <3>4, OfferedProperties
    <3>6. Told(send[m] \o told)
      BY <2>3, <3>3, ToldBehind
    <3>7. heard'[m] \o send'[m] = send[m] \o told
      BY <2>2, <2>3, <3>3, <3>5, ConcatProperties, ConcatEmptySeq
    <3> QED BY <3>6, <3>7
  <2> QED BY <1>2, <2>1, <2>4
<1>8. CASE WriteEnvelope(m)
  <2>1. CASE run'[m] = "writing" /\ socket'[m] = "open"
    <3>1. /\ run[m] = "writing" /\ send[m] # <<>> /\ send' = [send EXCEPT ![m] = Tail(send[m])]
          /\ UNCHANGED <<socket, cut, ui>>
          /\ \/ socket[m] = "open" /\ heard' = [heard EXCEPT ![m] = Append(heard[m], Head(send[m]))]
             \/ socket[m] # "open"
      BY <1>8 DEF WriteEnvelope
    <3>2. /\ socket[m] = "open" /\ named'[m] = named[m] /\ cut'[m] = cut[m]
          /\ heard'[m] = Append(heard[m], Head(send[m])) /\ send'[m] = Tail(send[m])
      BY <2>1, <3>1 DEF TypeInv, ui
    <3>3. Append(heard[m], Head(send[m])) \o Tail(send[m]) = heard[m] \o send[m]
      <4>1. heard[m] \in Seq(Sent) /\ send[m] \in Seq(Sent)
        BY DEF TypeInv
      <4> QED BY Zenon, <3>1, <4>1, HandOver
    <3>4. heard'[m] \o send'[m] = heard[m] \o send[m]
      BY <3>3, <3>2
    <3>5. named[m] /\ ~cut[m] => Told(heard[m] \o send[m])
      BY <3>1, <3>2 DEF WillBeTold
    <3>6. named'[m] /\ ~cut'[m] => Told(heard'[m] \o send'[m])
      BY Zenon, <3>4, <3>5, <3>2
    <3>7. run'[m] \notin {"dialed", "greeting", "resyncing"}
      BY <2>1
    <3> QED BY Zenon, <1>2, <3>6, <3>7
  <2>2. CASE run'[m] = "hanging up"
    BY <1>2, <2>2
  <2>3. CASE run'[m] = "writing" /\ socket'[m] # "open"
    BY <1>2, <2>3
  <2>4. run'[m] \in {"writing", "hanging up"}
    BY <1>8 DEF WriteEnvelope, TypeInv
  <2> QED BY <2>1, <2>2, <2>3, <2>4
<1> QED BY <1>4, <1>5, <1>6, <1>7, <1>8 DEF RunStep

LEMMA ReaderTold ==
  ASSUME Typed, FreshSocket, WillBeTold, NEW m \in Manager,
         LosePeer(m) \/ \E n \in Socket : ReaderStep(m, n)
  PROVE  FreshSocket' /\ WillBeTold'
<1>1. /\ UNCHANGED <<run, heard, cut, send, named>>
      /\ \A k \in Manager : socket'[k] = socket[k] \/ socket'[k] # "open"
  BY DEF LosePeer, ReaderStep, ReadEnvelope, HandEnvelope, EndReading, ui, Typed, TypeInv
<1>2. \A k \in Manager : LeavesTold(k)
  BY <1>1, UntouchedTold
<1> QED BY <1>2, ToldStep

LEMMA UITold ==
  ASSUME Typed, FreshSocket, WillBeTold, UIStep
  PROVE  FreshSocket' /\ WillBeTold'
<1> USE DEF Typed
<1>1. SUFFICES ASSUME NEW k \in Manager PROVE LeavesTold(k)
  BY ToldStep
<1>2. CASE Connect \/ CtrlR
  <2>1. Reconnect /\ UNCHANGED <<heard, cut, send>>
    BY <1>2 DEF Connect, CtrlR
  <2>2. CASE k = cur + 1
    <3>1. run'[k] = "looping"
      BY <2>1, <2>2 DEF Reconnect, TypeInv
    <3> QED BY <3>1 DEF LeavesTold
  <2>3. CASE k # cur + 1
    <3>1. run'[k] = run[k] /\ socket'[k] \in {socket[k], "closed"}
      BY <2>1, <2>3 DEF Reconnect, CloseCurrent, TypeInv
    <3>2. named'[k] = named[k]
      BY <1>2, <2>3 DEF Connect, CtrlR, TypeInv
    <3> QED BY <2>1, <3>1, <3>2, UntouchedTold
  <2> QED BY <2>2, <2>3
<1>3. CASE Back
  <2>1. UNCHANGED <<run, heard, cut, send, named>> /\ socket'[k] \in {socket[k], "closed"}
    BY <1>3 DEF Back, CloseCurrent, TypeInv
  <2> QED BY <2>1, UntouchedTold
<1>4. ASSUME UNCHANGED <<run, heard, cut, socket, named>>,
             \/ UNCHANGED send
             \/ \E items \in Seq(Sent) : send' = [send EXCEPT ![cur] = Offered(send[cur], items)]
      PROVE  LeavesTold(k)
  <2>1. CASE k # cur \/ UNCHANGED send
    <3>1. send'[k] = send[k]
      BY <1>4, <2>1 DEF TypeInv
    <3> QED BY <1>4, <3>1, UntouchedTold
  <2>2. CASE k = cur /\ ~UNCHANGED send
    <3>1. PICK items \in Seq(Sent) : send' = [send EXCEPT ![cur] = Offered(send[cur], items)]
      BY <1>4, <2>2
    <3>2. send'[k] = Offered(send[k], items) /\ send[k] \in Seq(Sent) /\ Len(send[k]) <= SendCap
      BY <2>2, <3>1 DEF TypeInv, Capacities
    <3>3. \E r \in Seq(Sent) : Offered(send[k], items) = send[k] \o r
      BY <3>2, OfferedProperties
    <3>4. \E r \in Seq(Sent) : send'[k] = send[k] \o r
      BY Zenon, <3>2, <3>3
    <3> QED BY <1>4, <3>4 DEF LeavesTold
  <2> QED BY <2>1, <2>2
<1>5. <<"send_message">> \in Seq(Sent) /\ <<"request_users">> \in Seq(Sent)
  BY DEF Sent
<1>6. CASE SendMessage
  BY <1>4, <1>5, <1>6 DEF SendMessage, link
<1>7. ASSUME NEW w \in Waiter, Take(w) PROVE LeavesTold(k)
  BY <1>4, <1>7 DEF Take, link, ui
<1>8. ASSUME NEW w \in Waiter, HandleWSEvent(w) PROVE LeavesTold(k)
  <2>1. /\ UNCHANGED <<run, heard, cut, socket, named>>
        /\ UNCHANGED send \/ send' = [send EXCEPT ![cur] = Offered(send[cur], <<"request_users">>)]
    BY <1>8 DEF HandleWSEvent, link
  <2> QED BY <1>4, <1>5, <2>1
<1> QED BY <1>2, <1>3, <1>6, <1>7, <1>8 DEF UIStep

-----------------------------------------------------------------------------
(* The order of the envelopes.                                             *)

Ordered == EventsInOrder /\ FirstWaiter /\ ShownInOrder

\* The numbers of queued, held and shown events are numbers.
LEMMA QueuedTyped ==
  ASSUME TypeInv
  PROVE  \A k \in Manager : \A i \in DOMAIN events[k] : events[k][i] \in Report /\ events[k][i].n \in Nat
<1>1. 0..MaxEnvelope \subseteq Nat
  BY PlanBounds
<1>2. ASSUME NEW k \in Manager, NEW i \in DOMAIN events[k] PROVE events[k][i] \in Report
  <2>1. events[k] \in Seq(Report)
    BY DEF TypeInv
  <2> QED BY <2>1, LenProperties
<1> QED BY <1>1, <1>2 DEF Report

LEMMA HeldTyped ==
  ASSUME TypeInv
  PROVE  \A w \in Waiter : waiter[w].mgr \in Manager /\ waiter[w].evt.n \in Nat
<1>1. 0..MaxEnvelope \subseteq Nat
  BY PlanBounds
<1> QED BY <1>1 DEF TypeInv, EventType

LEMMA ShownTyped ==
  ASSUME TypeInv
  PROVE  /\ DOMAIN shown = 1..Len(shown) /\ Len(shown) \in Nat
         /\ \A i \in DOMAIN shown : shown[i][1] \in Manager /\ shown[i][2] \in Nat
<1> DEFINE S == Manager \X (0..MaxEnvelope)
<1>1. shown \in Seq(S)
  BY DEF TypeInv
<1>2. \A x \in S : x[1] \in Manager /\ x[2] \in Nat
  BY PlanBounds
<1> HIDE DEF S
<1>3. shown \in [1..Len(shown) -> S] /\ Len(shown) \in Nat /\ DOMAIN shown = 1..Len(shown)
  BY <1>1, LenProperties
<1> QED BY <1>2, <1>3

\* No more envelopes are pushed than the plan has.
LEMMA PushedBound ==
  ASSUME TypeInv, EnvelopesCounted
  PROVE  \A k \in Manager : pushed[k] \in 0..MaxEnvelope
<1> SUFFICES ASSUME NEW k \in Manager PROVE pushed[k] \in 0..MaxEnvelope
  OBVIOUS
<1>1. IsFiniteSet(Socket)
  BY PlanBounds, FS_Interval DEF Socket
<1>2. IsFiniteSet(Handing(k))
  BY <1>1, FS_Subset DEF Handing
<1>3. Cardinality(Handing(k)) \in Nat
  BY <1>2, FS_CardinalityType
<1>4. pushed[k] \in Nat /\ pushed[k] + Cardinality(Handing(k)) <= plan.envelopes
  BY DEF TypeInv, EnvelopesCounted
<1> QED BY <1>3, <1>4, PlanBounds

\* What HandEnvelope pushes is the envelope numbered next.
LEMMA HandPushes ==
  ASSUME Typed, EnvelopesCounted, NEW m \in Manager, NEW n \in Socket, HandEnvelope(m, n)
  PROVE  /\ Push(m, Event("envelope", pushed'[m])) /\ Event("envelope", pushed'[m]) \in Report
         /\ Event("envelope", pushed'[m]).type = "envelope" /\ Event("envelope", pushed'[m]).n = pushed'[m]
<1>1. Push(m, Event("envelope", pushed'[m]))
  BY DEF HandEnvelope
<1>2. TypeInv' /\ EnvelopesCounted'
  BY ReaderTyped DEF ReaderStep, Typed
<1>3. (\A k \in Manager : pushed[k] \in 0..MaxEnvelope)'
  BY <1>2, PushedBound, PTL
<1> QED BY <1>1, <1>3 DEF Event, Report

\* A push of a report, or of the envelope that is numbered next.
LEMMA PushOrdered ==
  ASSUME Typed, Ordered, NEW m \in Manager, NEW evt \in Report, Push(m, evt),
         UNCHANGED <<waiter, shown, cur>>, pushed' \in [Manager -> Nat],
         \A k \in Manager \ {m} : pushed'[k] = pushed[k],
         IF evt.type = "envelope" THEN pushed'[m] = pushed[m] + 1 /\ evt.n = pushed'[m]
                                  ELSE pushed'[m] = pushed[m]
  PROVE  EventsInOrder' /\ ShownInOrder'
<1> USE DEF Typed
<1>1. /\ \A k \in Manager \ {m} : events'[k] = events[k]
      /\ DOMAIN events'[m] = 1..(Len(events[m]) + 1) /\ DOMAIN events[m] = 1..Len(events[m])
      /\ Len(events[m]) \in Nat /\ events'[m][Len(events[m]) + 1] = evt
      /\ \A i \in 1..Len(events[m]) : events'[m][i] = events[m][i]
  BY PushProperties
<1>2. /\ \A k \in Manager : pushed[k] \in Nat /\ pushed'[k] \in Nat /\ pushed[k] <= pushed'[k]
      /\ evt.type = "envelope" => evt.n = pushed[m] + 1
  <2>1. \A k \in Manager : pushed[k] \in Nat /\ pushed'[k] \in Nat
    BY DEF TypeInv
  <2>2. pushed'[m] = pushed[m] \/ pushed'[m] = pushed[m] + 1
    OBVIOUS
  <2>3. \A k \in Manager : pushed[k] <= pushed'[k]
    BY <2>1, <2>2
  <2> QED BY <2>1, <2>3
<1>3. \A k \in Manager : \A i \in DOMAIN events[k] : events[k][i].n \in Nat
  BY QueuedTyped
<1>4. EventsInOrder'
  <2> SUFFICES ASSUME NEW k \in Manager, NEW i \in DOMAIN events'[k], events'[k][i].type = "envelope"
               PROVE  /\ events'[k][i].n <= pushed'[k]
                      /\ \A l \in DOMAIN events'[k] :
                           i < l /\ events'[k][l].type = "envelope" => events'[k][i].n < events'[k][l].n
    BY DEF EventsInOrder
  <2>1. CASE k # m
    BY <1>1, <1>2, <2>1 DEF Ordered, EventsInOrder
  <2>2. CASE k = m /\ i = Len(events[m]) + 1
    BY <1>1, <1>2, <2>2
  <2>3. CASE k = m /\ i \in 1..Len(events[m])
    <3>1. /\ events'[m][i] = events[m][i] /\ events[m][i].n <= pushed[m] /\ events[m][i].n \in Nat
          /\ \A l \in 1..Len(events[m]) :
               i < l /\ events[m][l].type = "envelope" => events[m][i].n < events[m][l].n
      BY <1>1, <1>3, <2>3 DEF Ordered, EventsInOrder
    <3>2. events'[m][i].n <= pushed'[m]
      BY <1>2, <3>1
    <3>3. ASSUME NEW l \in 1..Len(events[m]), i < l, events'[m][l].type = "envelope"
          PROVE  events'[m][i].n < events'[m][l].n
      BY <1>1, <3>1, <3>3
    <3>4. ASSUME events'[m][Len(events[m]) + 1].type = "envelope"
          PROVE  events'[m][i].n < events'[m][Len(events[m]) + 1].n
      BY <1>1, <1>2, <3>1, <3>4
    <3>5. \A l \in DOMAIN events'[m] : l \in 1..Len(events[m]) \/ l = Len(events[m]) + 1
      BY <1>1
    <3> QED BY <2>3, <3>2, <3>3, <3>4, <3>5
  <2> QED BY <1>1, <2>1, <2>2, <2>3
<1>5. ASSUME NEW k \in Manager, NEW n \in Nat, n <= pushed[k], BeforeQueued(k, n)
      PROVE  n <= pushed'[k] /\ BeforeQueued(k, n)'
  <2>1. n <= pushed'[k]
    BY <1>2, <1>5
  <2>2. CASE k # m
    BY <1>1, <1>5, <2>2 DEF BeforeQueued
  <2>3. CASE k = m
    <3> SUFFICES ASSUME NEW i \in DOMAIN events'[m], events'[m][i].type = "envelope"
                 PROVE  n < events'[m][i].n
      BY <2>1, <2>3 DEF BeforeQueued
    <3>1. CASE i = Len(events[m]) + 1
      <4>1. events'[m][i].n = pushed[m] + 1
        BY <1>1, <1>2, <3>1
      <4> QED BY <1>2, <1>5, <2>3, <4>1
    <3>2. CASE i \in 1..Len(events[m])
      BY <1>1, <1>5, <2>3, <3>2 DEF BeforeQueued
    <3> QED BY <1>1, <3>1, <3>2
  <2> QED BY <2>1, <2>2, <2>3
<1>6. ASSUME FirstChat' PROVE FirstChat
  BY <1>6 DEF FirstChat
<1>7. \A w \in Waiter : waiter[w].mgr \in Manager /\ waiter[w].evt.n \in Nat
  BY HeldTyped
<1>8. \A i \in DOMAIN shown : shown[i][1] \in Manager /\ shown[i][2] \in Nat
  BY ShownTyped
<1>9. ShownInOrder'
  <2> SUFFICES ASSUME FirstChat
               PROVE  /\ \A w \in Waiter : HoldsEnvelope(w) =>
                           /\ waiter[w].evt.n <= pushed'[waiter[w].mgr]
                           /\ AfterShown(waiter[w].evt.n) /\ BeforeQueued(waiter[w].mgr, waiter[w].evt.n)'
                      /\ \A i \in DOMAIN shown :
                           shown[i][2] <= pushed'[shown[i][1]] /\ BeforeQueued(shown[i][1], shown[i][2])'
                      /\ \A i, j \in DOMAIN shown : i < j => shown[i][2] < shown[j][2]
    BY <1>6 DEF ShownInOrder, HoldsEnvelope, AfterShown, BeforeQueued
  <2>1. ASSUME NEW w \in Waiter, HoldsEnvelope(w)
        PROVE  /\ waiter[w].evt.n <= pushed'[waiter[w].mgr]
               /\ AfterShown(waiter[w].evt.n) /\ BeforeQueued(waiter[w].mgr, waiter[w].evt.n)'
    BY <1>5, <1>7, <2>1 DEF Ordered, ShownInOrder, BeforeQueued
  <2>2. ASSUME NEW i \in DOMAIN shown
        PROVE  shown[i][2] <= pushed'[shown[i][1]] /\ BeforeQueued(shown[i][1], shown[i][2])'
    BY <1>5, <1>8 DEF Ordered, ShownInOrder, BeforeQueued
  <2>3. \A i, j \in DOMAIN shown : i < j => shown[i][2] < shown[j][2]
    BY DEF Ordered, ShownInOrder
  <2> QED BY <2>1, <2>2, <2>3
<1> QED BY <1>4, <1>9

\* Steps that touch neither what waits nor what was shown.
LEMMA QuietOrdered ==
  ASSUME EventsInOrder, ShownInOrder, UNCHANGED <<events, pushed, waiter, shown>>, FirstChat' => FirstChat
  PROVE  EventsInOrder' /\ ShownInOrder'
<1>1. EventsInOrder'
  BY DEF EventsInOrder
<1>2. ShownInOrder'
  BY DEF ShownInOrder, HoldsEnvelope, AfterShown, BeforeQueued
<1> QED BY <1>1, <1>2

LEMMA QuietFirst ==
  ASSUME FirstWaiter, UNCHANGED <<waiter, shown, cur, phase>>,
         \A k \in Manager : run'[k] # "off" => run[k] # "off"
  PROVE  FirstWaiter'
BY DEF FirstWaiter, FirstChat

LEMMA RunOrdered ==
  ASSUME Typed, Ordered, NEW m \in Manager, RunStep(m)
  PROVE  Ordered'
<1> USE DEF Typed
<1>1. UNCHANGED <<waiter, shown, cur, phase, pushed>>
  BY DEF RunStep, Loop, DialFails, ReportFailure, DialSucceeds, Install, Greet, Resync, WriteEnvelope,
     StopWriting, HangUp, CloseConn, ui
<1>2. run[m] # "off"
  BY DEF RunStep, RunGoes, Loop, DialFails, ReportFailure, DialSucceeds, Install, Greet, Resync,
     WriteEnvelope, StopWriting, HangUp, CloseConn
<1>3. FirstWaiter'
  <2>1. \A k \in Manager \ {m} : run'[k] = run[k]
    BY DEF RunStep, RunGoes, Loop, DialFails, ReportFailure, DialSucceeds, Install, Greet, Resync,
       WriteEnvelope, StopWriting, HangUp, CloseConn, TypeInv
  <2>2. \A k \in Manager : run'[k] # "off" => run[k] # "off"
    BY <1>2, <2>1
  <2> QED BY <1>1, <2>2, QuietFirst DEF Ordered
<1>4. CASE UNCHANGED events
  <2>1. FirstChat' => FirstChat
    BY <1>1 DEF FirstChat
  <2> QED BY <1>1, <1>3, <1>4, <2>1, QuietOrdered DEF Ordered
<1>5. ASSUME NEW type \in {"reconnecting", "connected", "disconnected"}, Push(m, Event(type, 0))
      PROVE  Ordered'
  <2>1. Event(type, 0) \in Report /\ Event(type, 0).type # "envelope"
    BY PlanBounds DEF Event, Report
  <2>2. pushed' \in [Manager -> Nat] /\ \A k \in Manager : pushed'[k] = pushed[k]
    BY <1>1 DEF TypeInv
  <2>3. EventsInOrder' /\ ShownInOrder'
    BY <1>1, <1>5, <2>1, <2>2, PushOrdered
  <2> QED BY <1>3, <2>3 DEF Ordered
<1>6. UNCHANGED events \/ \E type \in {"reconnecting", "connected", "disconnected"} : Push(m, Event(type, 0))
  BY DEF RunStep, Loop, DialFails, ReportFailure, DialSucceeds, Install, Greet, Resync, WriteEnvelope,
     StopWriting, HangUp, CloseConn
<1> QED BY <1>4, <1>5, <1>6

LEMMA ReaderOrdered ==
  ASSUME Typed, EnvelopesCounted, Ordered, NEW m \in Manager,
         LosePeer(m) \/ \E n \in Socket : ReaderStep(m, n)
  PROVE  Ordered'
<1> USE DEF Typed
<1>1. UNCHANGED <<run, waiter, shown, cur, phase>>
  BY DEF LosePeer, ReaderStep, ReadEnvelope, HandEnvelope, EndReading, ui
<1>2. FirstWaiter'
  BY <1>1, QuietFirst DEF Ordered
<1>3. FirstChat' => FirstChat
  BY <1>1 DEF FirstChat
<1>4. CASE UNCHANGED <<events, pushed>>
  BY <1>1, <1>2, <1>3, <1>4, QuietOrdered DEF Ordered
<1>5. ASSUME NEW n \in Socket, HandEnvelope(m, n)
      PROVE  Ordered'
  <2> DEFINE evt == Event("envelope", pushed'[m])
  <2>1. Push(m, evt) /\ evt \in Report /\ evt.type = "envelope" /\ evt.n = pushed'[m]
    BY <1>5, HandPushes
  <2>2. pushed' = [pushed EXCEPT ![m] = pushed[m] + 1]
    BY <1>5 DEF HandEnvelope
  <2>3. /\ pushed' \in [Manager -> Nat] /\ pushed'[m] = pushed[m] + 1
        /\ \A k \in Manager \ {m} : pushed'[k] = pushed[k]
    BY <2>2 DEF TypeInv
  <2> HIDE DEF evt
  <2>4. EventsInOrder' /\ ShownInOrder'
    BY <1>1, <2>1, <2>2, <2>3, PushOrdered
  <2> QED BY <1>2, <2>4 DEF Ordered
<1>6. ASSUME NEW n \in Socket, EndReading(m, n)
      PROVE  Ordered'
  <2>1. UNCHANGED pushed /\ Push(m, Event("error", 0))
    BY <1>6 DEF EndReading
  <2>2. Event("error", 0) \in Report /\ Event("error", 0).type # "envelope"
    BY PlanBounds DEF Event, Report
  <2>3. pushed' \in [Manager -> Nat] /\ \A k \in Manager : pushed'[k] = pushed[k]
    BY <2>1 DEF TypeInv
  <2>4. EventsInOrder' /\ ShownInOrder'
    BY <1>1, <2>1, <2>2, <2>3, PushOrdered
  <2> QED BY <1>2, <2>4 DEF Ordered
<1>7. UNCHANGED <<events, pushed>> \/ \E n \in Socket : HandEnvelope(m, n) \/ EndReading(m, n)
  BY DEF LosePeer, ReaderStep, ReadEnvelope
<1> QED BY <1>4, <1>5, <1>6, <1>7

\* A receive: the head of the queue is before the rest of it and after
\* everything shown.
LEMMA TakeOrdered ==
  ASSUME Typed, Ordered, NEW w \in Waiter, Take(w)
  PROVE  Ordered'
<1> USE DEF Typed
<1> DEFINE m == waiter[w].mgr
           evt == Head(events[m])
<1>1. /\ waiter[w].at = "waiting" /\ events[m] # <<>> /\ m \in Manager /\ events[m] \in Seq(Report)
      /\ waiter' = [waiter EXCEPT ![w].at = "holding", ![w].evt = evt]
      /\ events' = [events EXCEPT ![m] = Tail(events[m])]
      /\ UNCHANGED <<run, pushed, cur, phase, shown>>
  BY DEF Take, TypeInv, link, ui
<1>2. /\ waiter'[w].at = "holding" /\ waiter'[w].evt = evt /\ waiter'[w].mgr = m
      /\ \A v \in Waiter \ {w} : waiter'[v] = waiter[v]
  BY <1>1 DEF TypeInv
<1>3. /\ evt = events[m][1] /\ DOMAIN events[m] = 1..Len(events[m])
      /\ Len(events[m]) \in Nat /\ Len(events[m]) > 0
      /\ DOMAIN Tail(events[m]) = 1..(Len(events[m]) - 1)
      /\ \A i \in 1..(Len(events[m]) - 1) : Tail(events[m])[i] = events[m][i + 1]
  BY <1>1, TailProperties
<1>4. events'[m] = Tail(events[m]) /\ \A k \in Manager \ {m} : events'[k] = events[k]
  BY <1>1 DEF TypeInv
<1> HIDE DEF evt
<1>5. \A k \in Manager : \A i \in DOMAIN events'[k] :
        /\ k # m => i \in DOMAIN events[k] /\ events'[k][i] = events[k][i]
        /\ k = m => i + 1 \in DOMAIN events[k] /\ i + 1 > 1 /\ i \in Nat /\ events'[k][i] = events[k][i + 1]
  <2>1. ASSUME NEW i \in 1..(Len(events[m]) - 1)
        PROVE  i + 1 \in 1..Len(events[m]) /\ i + 1 > 1 /\ i \in Nat
    BY <1>3
  <2>2. DOMAIN events'[m] = 1..(Len(events[m]) - 1)
    BY <1>3, <1>4
  <2>3. \A i \in 1..(Len(events[m]) - 1) : events'[m][i] = events[m][i + 1]
    BY <1>3, <1>4
  <2>4. ASSUME NEW i \in DOMAIN events'[m]
        PROVE  i + 1 \in DOMAIN events[m] /\ i + 1 > 1 /\ i \in Nat /\ events'[m][i] = events[m][i + 1]
    BY <1>3, <2>1, <2>2, <2>3
  <2> HIDE DEF m
  <2> QED BY <1>4, <2>4
<1>6. EventsInOrder'
  <2> SUFFICES ASSUME NEW k \in Manager, NEW i \in DOMAIN events'[k], events'[k][i].type = "envelope"
               PROVE  /\ events'[k][i].n <= pushed[k]
                      /\ \A l \in DOMAIN events'[k] :
                           i < l /\ events'[k][l].type = "envelope" => events'[k][i].n < events'[k][l].n
    BY <1>1 DEF EventsInOrder
  <2>1. CASE k # m
    BY <1>4, <2>1 DEF Ordered, EventsInOrder
  <2>2. CASE k = m
    <3>1. i + 1 \in DOMAIN events[m] /\ i \in Nat /\ events'[m][i] = events[m][i + 1]
      BY <1>5, <2>2
    <3>2. ASSUME NEW l \in DOMAIN events'[m], i < l, events'[m][l].type = "envelope"
          PROVE  events'[m][i].n < events'[m][l].n
      <4>1. l + 1 \in DOMAIN events[m] /\ l \in Nat /\ events'[m][l] = events[m][l + 1]
        BY <1>1, <1>5
      <4>2. i + 1 < l + 1
        BY <3>1, <3>2, <4>1
      <4> QED BY <1>1, <2>2, <3>1, <3>2, <4>1, <4>2 DEF Ordered, EventsInOrder
    <3> QED BY <1>1, <2>2, <3>1, <3>2 DEF Ordered, EventsInOrder
  <2> QED BY <2>1, <2>2
<1> DEFINE Later(k, n) == \A i \in DOMAIN events'[k] : events'[k][i].type = "envelope" => n < events'[k][i].n
<1>7. ASSUME NEW k \in Manager, NEW n \in Nat, BeforeQueued(k, n), NEW i \in DOMAIN events'[k],
             events'[k][i].type = "envelope"
      PROVE  n < events'[k][i].n
  <2>1. \E l \in DOMAIN events[k] : events'[k][i] = events[k][l]
    BY <1>5, <1>7
  <2> QED BY <1>7, <2>1 DEF BeforeQueued
<1>8. FirstWaiter'
  BY <1>1, <1>2 DEF Ordered, FirstWaiter, FirstChat
<1>9. ASSUME FirstChat PROVE w = 1 /\ m = 2 /\ cur = 2 /\ \A v \in Waiter \ {w} : waiter[v].at = "idle"
  BY <1>1, <1>9 DEF Ordered, FirstWaiter
<1>10. ASSUME FirstChat, evt.type = "envelope"
       PROVE  evt.n <= pushed[m] /\ AfterShown(evt.n) /\ Later(m, evt.n)
  <2>1. 1 \in DOMAIN events[m]
    BY <1>3
  <2>2. evt.n <= pushed[m]
    BY <1>1, <1>3, <1>10, <2>1 DEF Ordered, EventsInOrder
  <2>3. ASSUME NEW i \in DOMAIN shown PROVE shown[i][2] < evt.n
    <3>1. shown[i][1] = m
      BY <1>9, <1>10 DEF Ordered, FirstWaiter
    <3> QED BY <1>3, <1>10, <2>1, <3>1 DEF Ordered, ShownInOrder, BeforeQueued
  <2>4. ASSUME NEW i \in DOMAIN events'[m], events'[m][i].type = "envelope" PROVE evt.n < events'[m][i].n
    <3>1. i + 1 \in DOMAIN events[m] /\ 1 < i + 1 /\ events'[m][i] = events[m][i + 1]
      BY <1>1, <1>5
    <3> QED BY <1>1, <1>3, <1>10, <2>1, <2>4, <3>1 DEF Ordered, EventsInOrder
  <2> QED BY <2>2, <2>3, <2>4 DEF AfterShown
<1>11. ShownInOrder'
  <2>0. shown' = shown /\ pushed' = pushed /\ (FirstChat' <=> FirstChat)
    BY <1>1 DEF FirstChat
  <2> SUFFICES ASSUME FirstChat
               PROVE  /\ \A v \in Waiter : waiter'[v].at = "holding" /\ waiter'[v].evt.type = "envelope" =>
                           /\ waiter'[v].evt.n <= pushed[waiter'[v].mgr]
                           /\ AfterShown(waiter'[v].evt.n) /\ Later(waiter'[v].mgr, waiter'[v].evt.n)
                      /\ \A i \in DOMAIN shown :
                           shown[i][2] <= pushed[shown[i][1]] /\ Later(shown[i][1], shown[i][2])
                      /\ \A i, j \in DOMAIN shown : i < j => shown[i][2] < shown[j][2]
    BY <2>0 DEF ShownInOrder, BeforeQueued, HoldsEnvelope, AfterShown
  <2>1. ASSUME NEW v \in Waiter, waiter'[v].at = "holding", waiter'[v].evt.type = "envelope"
        PROVE  /\ waiter'[v].evt.n <= pushed[waiter'[v].mgr]
               /\ AfterShown(waiter'[v].evt.n) /\ Later(waiter'[v].mgr, waiter'[v].evt.n)
    <3>1. v = w
      BY <1>2, <1>9, <2>1
    <3>2. waiter'[v].evt = evt /\ waiter'[v].mgr = m /\ evt.type = "envelope"
      BY <1>2, <2>1, <3>1
    <3> QED BY <1>10, <3>2
  <2>2. ASSUME NEW i \in DOMAIN shown
        PROVE  shown[i][2] <= pushed[shown[i][1]] /\ Later(shown[i][1], shown[i][2])
    <3>1. shown[i][1] \in Manager /\ shown[i][2] \in Nat
      BY ShownTyped
    <3>2. BeforeQueued(shown[i][1], shown[i][2]) /\ shown[i][2] <= pushed[shown[i][1]]
      BY DEF Ordered, ShownInOrder
    <3> QED BY <1>7, <3>1, <3>2
  <2>3. \A i, j \in DOMAIN shown : i < j => shown[i][2] < shown[j][2]
    BY DEF Ordered, ShownInOrder
  <2> HIDE DEF Later
  <2> QED BY <2>1, <2>2, <2>3
<1> QED BY <1>6, <1>8, <1>11 DEF Ordered

\* An envelope that is handled is after all that were.
LEMMA HandleOrdered ==
  ASSUME Typed, Ordered, NEW w \in Waiter, HandleWSEvent(w)
  PROVE  Ordered'
<1> USE DEF Typed
<1> DEFINE m == waiter[w].mgr
           n == waiter[w].evt.n
<1>1. /\ waiter[w].at = "holding" /\ waiter' = [waiter EXCEPT ![w] = WaitOn(cur)] /\ cur \in Manager
      /\ \/ shown' = shown
         \/ waiter[w].evt.type = "envelope" /\ shown' = Append(shown, <<m, n>>)
      /\ UNCHANGED <<run, pushed, events, cur, phase>>
  BY DEF HandleWSEvent, TypeInv, link
<1>2. /\ waiter'[w].at = "waiting" /\ waiter'[w].mgr = cur
      /\ \A v \in Waiter \ {w} : waiter'[v] = waiter[v]
  BY <1>1, WaitOnTyped DEF TypeInv
<1>3. EventsInOrder'
  BY <1>1 DEF Ordered, EventsInOrder
<1>4. CASE ~FirstChat
  BY <1>1, <1>3, <1>4 DEF Ordered, FirstWaiter, ShownInOrder, FirstChat
<1>5. CASE FirstChat
  <2>1. w = 1 /\ m = 2 /\ cur = 2 /\ \A v \in Waiter \ {w} : waiter[v].at = "idle"
    BY <1>1, <1>5 DEF Ordered, FirstWaiter
  <2>2. \A v \in Waiter : waiter'[v].at # "holding"
    BY <1>2, <2>1
  <2>3. \A v \in Waiter : waiter'[v].at # "idle" => v = 1 /\ cur = 2 /\ waiter'[v].mgr = 2
    BY <1>2, <2>1
  <2>4. /\ DOMAIN shown = 1..Len(shown) /\ Len(shown) \in Nat /\ m \in Manager /\ n \in Nat
        /\ \A i \in DOMAIN shown : shown[i][1] \in Manager /\ shown[i][2] \in Nat
    BY HeldTyped, ShownTyped
  <2>5. \A k \in Manager : run[k] # "off" => k = 2 /\ cur = 2
    BY <1>5 DEF Ordered, FirstWaiter
  <2>6. /\ \A i \in DOMAIN shown : shown[i][1] = 2 /\ shown[i][2] <= pushed[shown[i][1]]
        /\ \A i \in DOMAIN shown : BeforeQueued(shown[i][1], shown[i][2])
        /\ \A i, j \in DOMAIN shown : i < j => shown[i][2] < shown[j][2]
    BY <1>5 DEF Ordered, FirstWaiter, ShownInOrder
  <2>7. CASE shown' = shown
    <3>1. FirstWaiter'
      BY <1>1, <1>5, <2>1, <2>3, <2>6, <2>7, <2>5 DEF FirstWaiter
    <3>2. ShownInOrder'
      BY <1>1, <2>2, <2>6, <2>7 DEF ShownInOrder, HoldsEnvelope, BeforeQueued
    <3> QED BY <1>3, <3>1, <3>2 DEF Ordered
  <2>8. CASE waiter[w].evt.type = "envelope" /\ shown' = Append(shown, <<m, n>>)
    <3>1. HoldsEnvelope(w)
      BY <1>1, <2>8 DEF HoldsEnvelope
    <3>2. n <= pushed[m] /\ AfterShown(n) /\ BeforeQueued(m, n)
      BY <1>5, <3>1 DEF Ordered, ShownInOrder
    <3>3. /\ DOMAIN shown' = 1..(Len(shown) + 1) /\ shown'[Len(shown) + 1] = <<m, n>>
          /\ \A i \in DOMAIN shown : shown'[i] = shown[i]
      <4> DEFINE S == Manager \X (0..MaxEnvelope)
                 x == <<m, n>>
      <4>1. waiter[w].evt \in EventType /\ m \in Manager
        BY DEF TypeInv
      <4>2. x \in S /\ shown \in Seq(S) /\ shown' = Append(shown, x)
        BY <2>8, <4>1 DEF EventType, TypeInv
      <4>3. DOMAIN shown = 1..Len(shown)
        BY <2>4
      <4> HIDE DEF S, x
      <4>4. shown' \in Seq(S) /\ Len(shown') = Len(shown) + 1 /\ shown'[Len(shown) + 1] = x
            /\ \A i \in 1..Len(shown) : shown'[i] = shown[i]
        BY <4>2, AppendProperties
      <4>5. DOMAIN shown' = 1..(Len(shown) + 1)
        BY <4>4, LenProperties
      <4> QED BY <4>3, <4>4, <4>5 DEF x
    <3>4. ASSUME NEW i \in DOMAIN shown'
          PROVE  /\ shown'[i][1] = 2 /\ shown'[i][2] <= pushed[shown'[i][1]] /\ shown'[i][2] <= n
                 /\ BeforeQueued(shown'[i][1], shown'[i][2])
                 /\ i # Len(shown) + 1 => i \in DOMAIN shown /\ shown'[i][2] < n
      <4>1. CASE i \in DOMAIN shown
        <5>1. shown'[i] = shown[i] /\ shown[i][2] < n
          BY <3>2, <3>3, <4>1 DEF AfterShown
        <5> QED BY <2>4, <2>6, <4>1, <5>1
      <4>2. CASE i = Len(shown) + 1
        BY <2>1, <2>4, <3>2, <3>3, <4>2
      <4>3. i \in DOMAIN shown \/ i = Len(shown) + 1
        BY <2>4, <3>3
      <4> QED BY <4>1, <4>2, <4>3
    <3>5. ASSUME NEW i \in DOMAIN shown', NEW j \in DOMAIN shown', i < j
          PROVE  shown'[i][2] < shown'[j][2]
      <4>1. i # Len(shown) + 1
        BY <2>4, <3>3, <3>5
      <4>2. i \in DOMAIN shown /\ shown'[i][2] < n /\ shown'[i] = shown[i]
        BY <3>3, <3>4, <4>1
      <4>3. CASE j = Len(shown) + 1
        BY <3>3, <4>2, <4>3
      <4>4. CASE j # Len(shown) + 1
        <5>1. j \in DOMAIN shown /\ shown'[j] = shown[j]
          BY <3>3, <3>4, <4>4
        <5> QED BY <2>6, <3>5, <4>2, <5>1
      <4> QED BY <4>3, <4>4
    <3>6. FirstWaiter'
      BY <1>1, <2>1, <2>3, <2>5, <3>4 DEF FirstWaiter, FirstChat
    <3>7. ShownInOrder'
      <4>1. \A i \in DOMAIN shown' : BeforeQueued(shown'[i][1], shown'[i][2])
        BY <3>4
      <4>2. \A i \in DOMAIN shown' : shown'[i][2] <= pushed[shown'[i][1]]
        BY <3>4
      <4> QED BY <1>1, <2>2, <3>5, <4>1, <4>2 DEF ShownInOrder, HoldsEnvelope, BeforeQueued
    <3> QED BY <1>3, <3>6, <3>7 DEF Ordered
  <2> QED BY <1>1, <2>7, <2>8
<1> QED BY <1>4, <1>5

\* The first manager that is started gets the only goroutine; another one
\* ends the first chat.
LEMMA UIOrdered ==
  ASSUME Typed, Ordered, UIStep
  PROVE  Ordered'
<1> USE DEF Typed
<1>1. cur \in Nat /\ cur >= 1
  BY DEF TypeInv, Manager
<1>2. ASSUME ~FirstChat', UNCHANGED <<events, pushed>>
      PROVE  Ordered'
  BY <1>2 DEF Ordered, EventsInOrder, FirstWaiter, ShownInOrder
<1>3. CASE Connect
  <2>1. /\ cur' = cur + 1 /\ StartWaiter /\ UNCHANGED <<events, pushed, shown>> /\ phase = "setup"
    BY <1>3 DEF Connect, Reconnect
  <2>2. CASE cur # 1
    <3>1. ~FirstChat'
      BY <1>1, <2>1, <2>2 DEF FirstChat
    <3> QED BY <1>2, <2>1, <3>1
  <2>3. CASE cur = 1
    <3>1. FirstChat /\ cur' = 2
      BY <2>1, <2>3 DEF FirstChat
    <3>2. shown = <<>> /\ \A v \in Waiter : waiter[v].at = "idle"
      BY <2>3, <3>1 DEF Ordered, FirstWaiter
    <3>3. PICK w \in Waiter : /\ \A v \in 1..(w - 1) : waiter[v].at # "idle"
                              /\ waiter' = [waiter EXCEPT ![w] = WaitOn(cur')]
      BY <2>1 DEF StartWaiter
    <3>4. w = 1
      <4>1. w \in 1..MaxManager /\ MaxManager \in Nat
        BY PlanBounds DEF Waiter
      <4>2. CASE w > 1
        <5>1. 1 \in 1..(w - 1) /\ 1 \in Waiter
          BY <4>1, <4>2 DEF Waiter
        <5> QED BY <3>2, <3>3, <5>1
      <4> QED BY <4>1, <4>2
    <3>5. cur' \in Manager
      BY <1>3, ReconnectTyped DEF Connect
    <3>6. /\ waiter'[w].at = "waiting" /\ waiter'[w].mgr = 2
          /\ \A v \in Waiter \ {w} : waiter'[v].at = "idle"
      BY <3>1, <3>2, <3>3, <3>5, WaitOnTyped DEF TypeInv
    <3>7. DOMAIN shown' = {}
      BY <2>1, <3>2
    <3>8. FirstWaiter'
      <4>1. \A k \in Manager : run[k] = "off"
        BY <2>3, <3>1 DEF Ordered, FirstWaiter
      <4>2. run' = [run EXCEPT ![2] = "looping"]
        BY <1>3, <2>3 DEF Connect, Reconnect
      <4>3. \A k \in Manager : run'[k] # "off" => k = 2
        BY <4>1, <4>2 DEF TypeInv
      <4>4. \A v \in Waiter : waiter'[v].at # "idle" => v = 1 /\ waiter'[v].mgr = 2
        BY <3>4, <3>6
      <4> QED BY <3>1, <3>7, <4>3, <4>4 DEF FirstWaiter
    <3>9. ShownInOrder'
      BY <3>6, <3>7 DEF ShownInOrder, HoldsEnvelope
    <3>10. EventsInOrder'
      BY <2>1 DEF Ordered, EventsInOrder
    <3> QED BY <3>8, <3>9, <3>10 DEF Ordered
  <2> QED BY <2>2, <2>3
<1>4. CASE CtrlR \/ Back
  <2>1. cur' = cur + 1 /\ phase = "chat" /\ UNCHANGED <<events, pushed>>
    BY <1>4 DEF CtrlR, Back, Reconnect
  <2>2. cur # 1
    BY <2>1 DEF Ordered, FirstWaiter, FirstChat
  <2>3. ~FirstChat'
    BY <1>1, <2>1, <2>2 DEF FirstChat
  <2> QED BY <1>2, <2>1, <2>3
<1>5. CASE SendMessage
  <2>1. UNCHANGED <<run, events, pushed, waiter, shown, cur, phase>>
    BY <1>5 DEF SendMessage, link
  <2>2. FirstChat' => FirstChat
    BY <2>1 DEF FirstChat
  <2> QED BY <2>1, <2>2, QuietOrdered, QuietFirst DEF Ordered
<1> QED BY <1>3, <1>4, <1>5, TakeOrdered, HandleOrdered DEF UIStep

-----------------------------------------------------------------------------
(* The report of the connection.                                           *)

LEMMA RunEnded ==
  ASSUME Typed, OldReadersEnded, NEW m \in Manager, RunStep(m)
  PROVE  OldReadersEnded'
<1> USE DEF Typed
<1>1. ASSUME NEW k \in Manager \ {m}
      PROVE  run'[k] = run[k] /\ dials'[k] = dials[k] /\ reader'[k] = reader[k]
  BY DEF RunStep, RunGoes, Loop, DialFails, ReportFailure, DialSucceeds, Install, Greet, Resync,
     WriteEnvelope, StopWriting, HangUp, CloseConn, TypeInv
<1>2. \A from, to : RunGoes(m, from, to) => run[m] = from /\ run'[m] = to
  BY DEF RunGoes, TypeInv
<1> DEFINE Old(k, n) == run'[k] = "resyncing" \/ (run'[k] = "writing" /\ n # dials'[k])
<1>3. \A k \in Manager \ {m} : \A n \in Socket : Old(k, n) => reader'[k][n] \in {"off", "ended"}
  BY <1>1 DEF OldReadersEnded
<1>4. SUFFICES ASSUME NEW n \in Socket, run'[m] = "resyncing" \/ (run'[m] = "writing" /\ n # dials'[m])
               PROVE  reader'[m][n] \in {"off", "ended"}
  <2> SUFFICES ASSUME NEW k \in Manager, NEW n \in Socket, Old(k, n)
               PROVE  reader'[k][n] \in {"off", "ended"}
    BY DEF OldReadersEnded
  <2> QED BY <1>3
<1>5. CASE Greet(m)
  BY <1>5 DEF Greet
<1>6. CASE Resync(m)
  <2>1. /\ run[m] = "resyncing" /\ run'[m] = "writing" /\ dials'[m] = dials[m]
        /\ reader' = [reader EXCEPT ![m] = [reader[m] EXCEPT ![dials[m]] = "reading"]]
    BY <1>2, <1>6 DEF Resync
  <2>2. n # dials[m]
    BY <1>4, <2>1
  <2>3. reader'[m][n] = reader[m][n]
    BY <2>1, <2>2 DEF TypeInv
  <2> QED BY <2>1, <2>3 DEF OldReadersEnded
<1>7. CASE WriteEnvelope(m)
  <2>1. run[m] = "writing" /\ UNCHANGED <<dials, reader>> /\ run'[m] \in {"writing", "hanging up"}
    BY <1>7 DEF WriteEnvelope, TypeInv
  <2> QED BY <1>4, <2>1 DEF OldReadersEnded
<1>8. CASE ~(Greet(m) \/ Resync(m) \/ WriteEnvelope(m))
  <2>1. \E from \in RunAt, to \in RunAt \ {"resyncing", "writing"} : RunGoes(m, from, to)
    BY <1>8 DEF RunStep, Loop, DialFails, ReportFailure, DialSucceeds, Install, StopWriting, HangUp,
       CloseConn, RunAt
  <2> QED BY <1>2, <1>4, <2>1
<1> QED BY <1>5, <1>6, <1>7, <1>8

LEMMA ReaderEnded ==
  ASSUME Typed, OldReadersEnded, NEW m \in Manager,
         LosePeer(m) \/ \E n \in Socket : ReaderStep(m, n)
  PROVE  OldReadersEnded'
<1> USE DEF Typed
<1>1. CASE UNCHANGED <<run, dials, reader>>
  BY <1>1 DEF OldReadersEnded
<1>2. ASSUME NEW n \in Socket, NEW from \in ReaderAt, NEW to \in ReaderAt, ReaderGoes(m, n, from, to),
             UNCHANGED <<run, dials>>, to # "ended" => from = "handing" \/ from = "reading"
      PROVE  OldReadersEnded'
  <2>1. /\ reader[m][n] = from /\ reader' = [reader EXCEPT ![m] = [reader[m] EXCEPT ![n] = to]]
    BY <1>2 DEF ReaderGoes
  <2> SUFFICES ASSUME NEW k \in Manager, NEW l \in Socket,
                      run'[k] = "resyncing" \/ (run'[k] = "writing" /\ l # dials'[k])
               PROVE  reader'[k][l] \in {"off", "ended"}
    BY DEF OldReadersEnded
  <2>2. reader[k][l] \in {"off", "ended"}
    BY <1>2 DEF OldReadersEnded
  <2>3. CASE k = m /\ l = n
    BY <1>2, <2>1, <2>2, <2>3 DEF TypeInv
  <2>4. CASE k # m \/ l # n
    BY <2>1, <2>2, <2>4 DEF TypeInv
  <2> QED BY <2>3, <2>4
<1>3. ASSUME NEW n \in Socket, ReaderStep(m, n) PROVE OldReadersEnded'
  <2>1. /\ UNCHANGED <<run, dials>>
        /\ \/ ReaderGoes(m, n, "reading", "handing")
           \/ ReaderGoes(m, n, "handing", "reading")
           \/ ReaderGoes(m, n, "reading", "ended")
    BY <1>3 DEF ReaderStep, ReadEnvelope, HandEnvelope, EndReading
  <2> QED BY <1>2, <2>1 DEF ReaderAt
<1> QED BY <1>1, <1>3 DEF LosePeer

LEMMA UIEnded ==
  ASSUME Typed, OldReadersEnded, UIStep
  PROVE  OldReadersEnded'
<1>1. /\ UNCHANGED <<dials, reader>>
      /\ UNCHANGED run \/ run' = [run EXCEPT ![cur + 1] = "looping"]
  BY DEF UIStep, Connect, CtrlR, Reconnect, Back, SendMessage, Take, HandleWSEvent, link
<1>2. \A k \in Manager : run'[k] = run[k] \/ run'[k] = "looping"
  BY <1>1 DEF Typed, TypeInv
<1> QED BY <1>1, <1>2 DEF OldReadersEnded

\* A manager's last report is still a connection when its queue only got
\* envelopes since.
LEMMA StillConnected ==
  ASSUME NEW k \in Manager, LastReportConnected(k), UNCHANGED <<waiter, status>>, events'[k] = events[k]
  PROVE  LastReportConnected(k)'
BY DEF LastReportConnected, Quiet

LEMMA PushedConnected ==
  ASSUME Typed, NEW m \in Manager, NEW evt \in Report, Push(m, evt), UNCHANGED <<waiter, status>>,
         \/ evt.type = "connected"
         \/ evt.type = "envelope" /\ LastReportConnected(m)
  PROVE  LastReportConnected(m)'
<1>1. /\ DOMAIN events'[m] = 1..(Len(events[m]) + 1) /\ DOMAIN events[m] = 1..Len(events[m])
      /\ Len(events[m]) \in Nat /\ events'[m][Len(events[m]) + 1] = evt
      /\ \A i \in 1..Len(events[m]) : events'[m][i] = events[m][i]
  BY PushProperties DEF Typed
<1>2. \A i \in DOMAIN events'[m] : i = Len(events[m]) + 1 \/ (i \in DOMAIN events[m] /\ events'[m][i] = events[m][i])
  <2>1. \A i \in 1..(Len(events[m]) + 1) : i = Len(events[m]) + 1 \/ i \in 1..Len(events[m])
    BY <1>1
  <2> QED BY <1>1, <2>1
<1>3. CASE evt.type = "connected"
  <2>1. Len(events[m]) + 1 \in DOMAIN events'[m] /\ \A l \in DOMAIN events'[m] : ~(Len(events[m]) + 1 < l)
    BY <1>1
  <2> QED BY <1>1, <1>3, <2>1 DEF LastReportConnected
<1>4. CASE evt.type = "envelope" /\ LastReportConnected(m)
  <2>1. ASSUME Quiet(m) PROVE Quiet(m)'
    BY <1>1, <1>2, <1>4, <2>1 DEF Quiet
  <2>2. CASE \E i \in DOMAIN events[m] :
               /\ events[m][i].type = "connected"
               /\ \A l \in DOMAIN events[m] : i < l => events[m][l].type = "envelope"
    <3>1. PICK i \in DOMAIN events[m] :
               /\ events[m][i].type = "connected"
               /\ \A l \in DOMAIN events[m] : i < l => events[m][l].type = "envelope"
      BY <2>2
    <3>2. i \in DOMAIN events'[m] /\ events'[m][i].type = "connected"
      BY <1>1, <3>1
    <3>3. \A l \in DOMAIN events'[m] : i < l => events'[m][l].type = "envelope"
      BY <1>1, <1>2, <1>4, <3>1
    <3> QED BY <3>2, <3>3 DEF LastReportConnected
  <2>3. CASE Quiet(m) /\ \E w \in Waiter : waiter[w].at = "holding" /\ waiter[w].evt.type = "connected"
    BY <2>1, <2>3 DEF LastReportConnected
  <2>4. CASE /\ Quiet(m) /\ status = "connected"
             /\ \A w \in Waiter : waiter[w].at = "holding" => waiter[w].evt.type = "envelope"
    BY <2>1, <2>4 DEF LastReportConnected
  <2> QED BY <1>4, <2>2, <2>3, <2>4 DEF LastReportConnected
<1> QED BY <1>3, <1>4

LEMMA RunReported ==
  ASSUME Typed, ConnectionReported, NEW m \in Manager, RunStep(m)
  PROVE  ConnectionReported'
<1> USE DEF Typed
<1>1. UNCHANGED <<waiter, status, cur>>
  BY DEF RunStep, Loop, DialFails, ReportFailure, DialSucceeds, Install, Greet, Resync, WriteEnvelope,
     StopWriting, HangUp, CloseConn, ui
<1>2. \A from, to : RunGoes(m, from, to) => run[m] = from /\ run'[m] = to
  BY DEF RunGoes, TypeInv
<1>3. \A k \in Manager \ {m} : run'[k] = run[k] /\ socket'[k] = socket[k]
  BY DEF RunStep, RunGoes, Loop, DialFails, ReportFailure, DialSucceeds, Install, Greet, Resync,
     WriteEnvelope, StopWriting, HangUp, CloseConn, TypeInv
<1>4. \A k \in Manager \ {m} : events'[k] = events[k]
  BY DEF RunStep, Push, Loop, DialFails, ReportFailure, DialSucceeds, Install, Greet, Resync,
     WriteEnvelope, StopWriting, HangUp, CloseConn, TypeInv
<1> SUFFICES ASSUME FirstChat', NEW k \in Manager, run'[k] \in {"resyncing", "writing"}, socket'[k] = "open"
             PROVE  LastReportConnected(k)'
  BY DEF ConnectionReported
<1>5. FirstChat
  BY <1>1 DEF FirstChat
<1>6. CASE k # m
  <2>1. LastReportConnected(k)
    BY <1>3, <1>5, <1>6 DEF ConnectionReported
  <2> QED BY <1>1, <1>4, <1>6, <2>1, StillConnected
<1>7. CASE k = m
  <2>1. CASE Greet(m)
    <3>1. Push(m, Event("connected", 0))
      BY <2>1 DEF Greet
    <3>2. Event("connected", 0) \in Report /\ Event("connected", 0).type = "connected"
      BY PlanBounds DEF Event, Report
    <3>3. LastReportConnected(m)'
      BY <1>1, <3>1, <3>2, PushedConnected
    <3> QED BY <1>7, <3>3
  <2>2. CASE Resync(m) \/ WriteEnvelope(m)
    <3>1. run[m] \in {"resyncing", "writing"} /\ UNCHANGED <<socket, events>>
      BY <1>2, <2>2 DEF Resync, WriteEnvelope
    <3>2. LastReportConnected(k)
      BY <1>5, <1>7, <3>1 DEF ConnectionReported
    <3> QED BY <1>1, <3>1, <3>2, StillConnected
  <2>3. CASE ~(Greet(m) \/ Resync(m) \/ WriteEnvelope(m))
    <3>1. \E from \in RunAt, to \in RunAt \ {"resyncing", "writing"} : RunGoes(m, from, to)
      BY <2>3 DEF RunStep, Loop, DialFails, ReportFailure, DialSucceeds, Install, StopWriting, HangUp,
         CloseConn, RunAt
    <3> QED BY <1>2, <1>7, <3>1
  <2> QED BY <2>1, <2>2, <2>3
<1> QED BY <1>6, <1>7

LEMMA ReaderReported ==
  ASSUME Typed, EnvelopesCounted, OldReadersEnded, ConnectionReported, NEW m \in Manager,
         LosePeer(m) \/ \E n \in Socket : ReaderStep(m, n)
  PROVE  ConnectionReported'
<1> USE DEF Typed
<1>1. UNCHANGED <<run, waiter, status, cur>>
  BY DEF LosePeer, ReaderStep, ReadEnvelope, HandEnvelope, EndReading, ui
<1>2. \A k \in Manager : socket'[k] = "open" => socket[k] = "open"
  BY DEF LosePeer, ReaderStep, ReadEnvelope, HandEnvelope, EndReading, TypeInv
<1>3. \A k \in Manager \ {m} : events'[k] = events[k]
  BY DEF LosePeer, ReaderStep, ReadEnvelope, HandEnvelope, EndReading, Push, TypeInv
<1> SUFFICES ASSUME FirstChat', NEW k \in Manager, run'[k] \in {"resyncing", "writing"}, socket'[k] = "open"
             PROVE  LastReportConnected(k)'
  BY DEF ConnectionReported
<1>4. LastReportConnected(k) /\ run[k] \in {"resyncing", "writing"} /\ socket[k] = "open"
  BY <1>1, <1>2 DEF ConnectionReported, FirstChat
<1>5. CASE k # m \/ UNCHANGED events
  BY <1>1, <1>3, <1>4, <1>5, StillConnected
<1>6. ASSUME k = m, NEW n \in Socket, HandEnvelope(m, n)
      PROVE  LastReportConnected(k)'
  <2> DEFINE evt == Event("envelope", pushed'[m])
  <2>1. Push(m, evt) /\ evt \in Report /\ evt.type = "envelope"
    BY <1>6, HandPushes
  <2> HIDE DEF evt
  <2>2. LastReportConnected(m)'
    BY <1>1, <1>4, <1>6, <2>1, PushedConnected
  <2> QED BY <1>6, <2>2
<1>7. ASSUME k = m, NEW n \in Socket, EndReading(m, n)
      PROVE  FALSE
  <2>1. n < dials[m] /\ reader[m][n] = "reading"
    BY <1>4, <1>7 DEF EndReading, ReaderGoes
  <2>2. n # dials[m]
    <3>1. n \in 1..MaxDial
      BY DEF Socket
    <3> QED BY <2>1, <3>1, PlanBounds
  <2> QED BY <1>4, <1>7, <2>1, <2>2 DEF OldReadersEnded
<1>8. UNCHANGED events \/ \E n \in Socket : HandEnvelope(m, n) \/ EndReading(m, n)
  BY DEF LosePeer, ReaderStep, ReadEnvelope
<1> QED BY <1>5, <1>6, <1>7, <1>8

\* What the one goroutine takes and what is handled: the last report moves
\* from the queue to the goroutine and from there to the status line.
LEMMA UIReported ==
  ASSUME Typed, FirstWaiter, ConnectionReported, UIStep
  PROVE  ConnectionReported'
<1> USE DEF Typed
<1> SUFFICES ASSUME FirstChat', NEW k \in Manager, run'[k] \in {"resyncing", "writing"}, socket'[k] = "open"
             PROVE  LastReportConnected(k)'
  BY DEF ConnectionReported
<1>1. cur \in Nat /\ cur >= 1
  BY DEF TypeInv, Manager
<1>2. CASE Connect
  <2>1. cur' = cur + 1 /\ run' = [run EXCEPT ![cur + 1] = "looping"]
    BY <1>2 DEF Connect, Reconnect
  <2>2. cur = 1
    BY <1>1, <2>1 DEF FirstChat
  <2>3. run[k] = "off"
    BY <2>2 DEF FirstWaiter, FirstChat
  <2> QED BY <2>1, <2>3 DEF TypeInv
<1>3. CASE CtrlR \/ Back
  <2>1. cur' = cur + 1 /\ phase = "chat"
    BY <1>3 DEF CtrlR, Back, Reconnect
  <2>2. cur = 1
    BY <1>1, <2>1 DEF FirstChat
  <2> QED BY <2>1, <2>2 DEF FirstWaiter, FirstChat
<1>4. ASSUME UNCHANGED <<run, socket, cur>>
      PROVE  FirstChat /\ LastReportConnected(k) /\ k = 2
  <2>1. FirstChat
    BY <1>4 DEF FirstChat
  <2>2. k = 2
    BY <1>4, <2>1 DEF FirstWaiter
  <2> QED BY <1>4, <2>1, <2>2 DEF ConnectionReported
<1>5. CASE SendMessage
  <2>1. UNCHANGED <<run, socket, cur, waiter, status, events>>
    BY <1>5 DEF SendMessage, link
  <2> QED BY <1>4, <2>1, StillConnected
<1>6. ASSUME NEW w \in Waiter, Take(w)
      PROVE  LastReportConnected(k)'
  <2>1. /\ waiter[w].at = "waiting" /\ waiter[w].mgr \in Manager /\ events[waiter[w].mgr] # <<>>
        /\ waiter' = [waiter EXCEPT ![w].at = "holding", ![w].evt = Head(events[waiter[w].mgr])]
        /\ events' = [events EXCEPT ![waiter[w].mgr] = Tail(events[waiter[w].mgr])]
        /\ UNCHANGED <<run, socket, cur, status>>
    BY <1>6 DEF Take, TypeInv, link, ui
  <2>2. FirstChat /\ LastReportConnected(k) /\ k = 2
    BY <1>4, <2>1
  <2>3. w = 1 /\ waiter[w].mgr = k /\ \A v \in Waiter \ {w} : waiter[v].at = "idle"
    BY <2>1, <2>2 DEF FirstWaiter
  <2> DEFINE q == events[k]
  <2>4. q \in Seq(Report) /\ q # <<>>
    BY <2>1, <2>3 DEF TypeInv
  <2>5. /\ Head(q) = q[1] /\ DOMAIN q = 1..Len(q) /\ Len(q) \in Nat /\ Len(q) > 0
        /\ DOMAIN Tail(q) = 1..(Len(q) - 1) /\ \A i \in 1..(Len(q) - 1) : Tail(q)[i] = q[i + 1]
    <3> HIDE DEF q
    <3> QED BY <2>4, TailProperties
  <2>6. events'[k] = Tail(q) /\ waiter'[w].at = "holding" /\ waiter'[w].evt = q[1]
    BY <2>1, <2>3, <2>5 DEF TypeInv
  <2>7. \A v \in Waiter : waiter'[v].at = "holding" => v = w
    BY <2>1, <2>3 DEF TypeInv
  <2> HIDE DEF q
  <2>8. ASSUME \A i \in DOMAIN q : i > 1 => q[i].type = "envelope"
        PROVE  Quiet(k)'
    <3> SUFFICES ASSUME NEW i \in DOMAIN events'[k] PROVE events'[k][i].type = "envelope"
      BY DEF Quiet
    <3>1. i \in 1..(Len(q) - 1) /\ events'[k][i] = q[i + 1]
      BY <2>5, <2>6
    <3>2. i + 1 \in DOMAIN q /\ i + 1 > 1
      BY <2>5, <3>1
    <3> QED BY <2>8, <3>1, <3>2
  <2>9. CASE \E j \in DOMAIN q : q[j].type = "connected" /\ \A l \in DOMAIN q : j < l => q[l].type = "envelope"
    <3>1. PICK j \in DOMAIN q : q[j].type = "connected" /\ \A l \in DOMAIN q : j < l => q[l].type = "envelope"
      BY <2>9
    <3>2. CASE j = 1
      <4>1. Quiet(k)'
        BY <2>5, <2>8, <3>1, <3>2
      <4> QED BY <2>6, <3>1, <3>2, <4>1 DEF LastReportConnected
    <3>3. CASE j # 1
      <4> DEFINE i == j - 1
      <4>1. i \in 1..(Len(q) - 1) /\ i + 1 = j
        BY <2>5, <3>1, <3>3
      <4>2. i \in DOMAIN events'[k] /\ events'[k][i] = q[j]
        BY <2>5, <2>6, <4>1
      <4>3. ASSUME NEW l \in DOMAIN events'[k], i < l PROVE events'[k][l].type = "envelope"
        <5>1. l \in 1..(Len(q) - 1) /\ events'[k][l] = q[l + 1]
          BY <2>5, <2>6
        <5>2. l + 1 \in DOMAIN q /\ j < l + 1
          BY <2>5, <4>1, <4>3, <5>1
        <5> QED BY <3>1, <5>1, <5>2
      <4> HIDE DEF i
      <4> QED BY <3>1, <4>2, <4>3 DEF LastReportConnected
    <3> QED BY <3>2, <3>3
  <2>10. CASE Quiet(k) /\ status = "connected"
    <3>1. q[1].type = "envelope" /\ Quiet(k)'
      BY <2>5, <2>8, <2>10 DEF Quiet, q
    <3> QED BY <2>1, <2>6, <2>7, <2>10, <3>1 DEF LastReportConnected
  <2>11. \A v \in Waiter : waiter[v].at # "holding"
    BY <2>1, <2>3
  <2> QED BY <2>2, <2>9, <2>10, <2>11 DEF LastReportConnected, q
<1>7. ASSUME NEW w \in Waiter, HandleWSEvent(w)
      PROVE  LastReportConnected(k)'
  <2> DEFINE evt == waiter[w].evt
  <2>1. /\ waiter[w].at = "holding" /\ waiter' = [waiter EXCEPT ![w] = WaitOn(cur)] /\ cur \in Manager
        /\ evt.type = "envelope" => status' = status
        /\ evt.type = "connected" => status' = "connected"
        /\ UNCHANGED <<run, socket, cur, events>>
    BY <1>7 DEF HandleWSEvent, TypeInv, link
  <2>2. FirstChat /\ LastReportConnected(k) /\ k = 2
    BY <1>4, <2>1
  <2>3. w = 1 /\ \A v \in Waiter \ {w} : waiter[v].at = "idle"
    BY <2>1, <2>2 DEF FirstWaiter
  <2>4. \A v \in Waiter : waiter'[v].at # "holding"
    BY <2>1, <2>3, WaitOnTyped DEF TypeInv
  <2>5. CASE \E i \in DOMAIN events[k] :
               /\ events[k][i].type = "connected"
               /\ \A l \in DOMAIN events[k] : i < l => events[k][l].type = "envelope"
    BY <2>1, <2>5 DEF LastReportConnected
  <2>6. CASE Quiet(k) /\ evt.type \in {"connected", "envelope"} /\ (evt.type = "envelope" => status = "connected")
    <3>1. status' = "connected" /\ Quiet(k)'
      BY <2>1, <2>6 DEF Quiet
    <3> QED BY <2>4, <3>1 DEF LastReportConnected
  <2>7. ASSUME NEW v \in Waiter, waiter[v].at = "holding" PROVE v = w
    BY <2>3, <2>7
  <2> QED BY <2>1, <2>2, <2>5, <2>6, <2>7 DEF LastReportConnected
<1> QED BY <1>2, <1>3, <1>5, <1>6, <1>7 DEF UIStep

-----------------------------------------------------------------------------
(* The theorems.                                                           *)

LEMMA StutterConnInv == ConnInv /\ UNCHANGED vars => ConnInv'
<1> SUFFICES ASSUME ConnInv, UNCHANGED vars PROVE ConnInv'
  OBVIOUS
<1> USE DEF ConnInv, vars, link, ui
<1>1. TypeInv'
  BY DEF TypeInv
<1>2. Capacities' /\ HoldsReport'
  BY DEF Capacities, HoldsReport
<1>3. EnvelopesCounted'
  BY UICounted
<1>4. FreshSocket' /\ WillBeTold'
  BY DEF FreshSocket, WillBeTold
<1>5. EventsInOrder' /\ ShownInOrder'
  BY QuietOrdered DEF FirstChat
<1>6. FirstWaiter'
  BY QuietFirst
<1>7. OldReadersEnded'
  BY DEF OldReadersEnded
<1>8. ConnectionReported'
  BY StillConnected DEF ConnectionReported, FirstChat
<1> QED BY <1>1, <1>2, <1>3, <1>4, <1>5, <1>6, <1>7, <1>8

LEMMA NextConnInv == ConnInv /\ [Next]_vars => ConnInv'
<1> SUFFICES ASSUME ConnInv, [Next]_vars PROVE ConnInv'
  OBVIOUS
<1>1. Typed /\ Ordered
  BY DEF ConnInv, Typed, Ordered
<1>2. ASSUME NEW m \in Manager, RunStep(m) PROVE ConnInv'
  BY <1>1, <1>2, RunTyped, RunCounted, RunTold, RunOrdered, RunEnded, RunReported
  DEF ConnInv, Typed, Ordered
<1>3. ASSUME NEW m \in Manager, LosePeer(m) \/ \E n \in Socket : ReaderStep(m, n) PROVE ConnInv'
  <2>1. FreshSocket' /\ WillBeTold'
    BY <1>1, <1>3, ReaderTold DEF ConnInv
  <2> QED BY <1>1, <1>3, <2>1, ReaderTyped, ReaderOrdered, ReaderEnded, ReaderReported
  DEF ConnInv, Typed, Ordered
<1>4. ASSUME UIStep PROVE ConnInv'
  <2>1. UNCHANGED <<reader, pushed, plan>>
    BY <1>4 DEF UIStep, Connect, CtrlR, Back, SendMessage, Take, HandleWSEvent, link, ui
  <2> QED BY <1>1, <1>4, <2>1, UITyped, UICounted, UITold, UIOrdered, UIEnded, UIReported
  DEF ConnInv, Typed, Ordered
<1> QED BY <1>2, <1>3, <1>4, StutterConnInv DEF Next

\* The client's managers, read loops and goroutines keep the inductive
\* invariant.
THEOREM ConnInvariant == Spec => []ConnInv
BY InitConnInv, NextConnInv, PTL DEF Spec

\* Every variable keeps its type, and the channels of 128 places never hold
\* more than their capacity.
THEOREM ClientConnTyped == Spec => []TypeOK
<1>1. ConnInv => TypeOK
  <2> SUFFICES ASSUME ConnInv PROVE TypeOK
    OBVIOUS
  <2>1. TypeInv /\ Capacities /\ EnvelopesCounted
    BY DEF ConnInv
  <2>2. pushed \in [Manager -> 0..MaxEnvelope]
    BY <2>1, PushedBound DEF TypeInv
  <2> QED BY <2>1, <2>2 DEF TypeOK, TypeInv, Capacities
<1> QED BY <1>1, ConnInvariant, PTL

\* On every connection of every manager, whatever was queued before and
\* however managers are replaced, the server is told who is there and then
\* which workspace, unless resync found the queue full.
THEOREM ConnectionsResynced == Spec => []Resynced
<1>1. ConnInv => Resynced
  <2> SUFFICES ASSUME ConnInv, NEW m \in Manager,
                      run[m] = "writing", socket[m] = "open", send[m] = <<>>, named[m], ~cut[m]
               PROVE  Told(heard[m])
    BY DEF Resynced, Told
  <2>1. Told(heard[m] \o send[m]) /\ heard[m] \in Seq(Sent)
    BY DEF ConnInv, WillBeTold, TypeInv
  <2>2. heard[m] \o send[m] = heard[m]
    BY <2>1, ConcatEmptySeq
  <2> QED BY Zenon, <2>1, <2>2
<1> QED BY <1>1, ConnInvariant, PTL

\* Before any Ctrl+R or /back, the client shows envelopes in the order they
\* were received: one goroutine takes them, one at a time.
THEOREM FirstChatInOrder == Spec => []HandledInOrder
<1>1. ConnInv => HandledInOrder
  BY DEF ConnInv, ShownInOrder, HandledInOrder
<1> QED BY <1>1, ConnInvariant, PTL

\* Before any Ctrl+R or /back, a client that is connected and has handled
\* everything says that it is connected: the error that the read loop reports
\* of a lost connection cannot come after the report of the next one.
THEOREM FirstChatStatusTrue == Spec => []StatusTrueAtFirst
<1>1. ConnInv => StatusTrueAtFirst
  <2> SUFFICES ASSUME ConnInv, FirstChat, AtRest PROVE status = "connected"
    BY DEF StatusTrueAtFirst, StatusTrue
  <2>1. cur \in Manager /\ LastReportConnected(cur)
    BY DEF ConnInv, TypeInv, ConnectionReported, AtRest
  <2>2. DOMAIN events[cur] = {}
    BY <2>1 DEF AtRest
  <2> QED BY <2>1, <2>2 DEF AtRest, LastReportConnected
<1> QED BY <1>1, ConnInvariant, PTL
=============================================================================
