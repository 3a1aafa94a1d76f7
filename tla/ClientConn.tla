----------------------------- MODULE ClientConn -----------------------------
(***************************************************************************)
(* The client's end of the connection: the managers of                     *)
(* internal/client/ws/client.go, each with its run goroutine and one read  *)
(* loop per socket, and the Bubble Tea program of                          *)
(* internal/client/ui/model.go as far as it starts and closes managers and *)
(* takes their events.                                                     *)
(*                                                                         *)
(* A manager is used once: connecting, Ctrl+R and /back each close the     *)
(* current one and make the next.  Every handled event starts a goroutine  *)
(* that waits for one event of the manager that is current by then.        *)
(***************************************************************************)
EXTENDS Naturals, Sequences, FiniteSets

CONSTANTS
  MaxManager,  \* bound: managers the program makes
  MaxDial,     \* bound: sockets one manager opens
  MaxEnvelope, \* bound: envelopes the server sends to one manager
  EventCap,    \* capacity of Manager.events (128 in NewManager)
  SendCap,     \* capacity of Manager.send (128 in NewManager)
  Plan         \* what may happen: each element gives what the user may do in the
               \* chat (keys: "ctrl+r", "/back") and whether a handle may be given
               \* at setup (names), and bounds the managers, the sockets of each one
               \* (dials), the envelopes of each, and what the user sends (typed)

Manager == 1..MaxManager
Socket  == 1..MaxDial
Waiter  == 1..MaxManager

ASSUME ClientConnAssumption ==
  /\ MaxManager \in Nat \ {0} /\ MaxDial \in Nat /\ MaxEnvelope \in Nat
  /\ EventCap \in Nat \ {0} /\ SendCap \in Nat \ {0}
  /\ \A p \in Plan :
       /\ p.keys \subseteq {"ctrl+r", "/back"} /\ p.names \subseteq BOOLEAN
       /\ p.managers \in 0..MaxManager /\ p.dials \in [Manager -> 0..MaxDial]
       /\ p.envelopes \in 0..MaxEnvelope /\ p.typed \in Nat

VARIABLES
  run,      \* per manager, where its run goroutine stands
  socket,   \* per manager, the state of the latest socket it opened
  dials,    \* per manager, how many sockets it has opened
  reader,   \* per manager and socket, where that socket's readLoop stands
  events,   \* per manager, Manager.events
  pushed,   \* per manager, how many envelopes were put in events
  send,     \* per manager, Manager.send
  heard,    \* per manager, what the server got on the latest socket
  cut,      \* per manager, whether resync found no room for what it sends
  closing,  \* the managers whose closeCh is closed
  cur,      \* Model.ws
  phase,    \* Model.phase: "setup" or "chat"
  named,    \* per manager, whether its Session has a handle (else resync
            \* sends nothing)
  status,   \* Model.app.StatusText
  waiter,   \* per waitForWSEvent goroutine, what it waits for or holds
  shown,    \* envelopes handled, as pairs <<manager, number>> (history variable)
  typed,    \* how many messages the user sent
  plan      \* the element of Plan that happens

link == <<run, socket, dials, reader, pushed, heard, cut>>
ui   == <<cur, phase, named, status, shown, typed, plan>>
vars == <<link, events, send, closing, ui, waiter>>

RunAt    == {"off", "looping", "dialing", "failing", "dialed", "greeting", "resyncing",
             "writing", "hanging up", "closing", "ended"}
SocketAt == {"none", "dialed", "open", "lost", "closed"}
ReaderAt == {"off", "reading", "handing", "ended"}
NoStatus == ""  \* StatusText before anything set it
StatusText == {NoStatus, "connecting", "connected", "reconnecting", "disconnected"}

Event(type, n) == [type |-> type, n |-> n]
Idle == [at |-> "idle", mgr |-> 1, evt |-> Event("none", 0)]
WaitOn(m) == [Idle EXCEPT !.at = "waiting", !.mgr = m]

Init ==
  /\ run = [m \in Manager |-> "off"] /\ socket = [m \in Manager |-> "none"]
  /\ dials = [m \in Manager |-> 0] /\ pushed = [m \in Manager |-> 0]
  /\ reader = [m \in Manager |-> [n \in Socket |-> "off"]]
  /\ events = [m \in Manager |-> <<>>] /\ send = [m \in Manager |-> <<>>]
  /\ heard = [m \in Manager |-> <<>>] /\ cut = [m \in Manager |-> FALSE] /\ closing = {}
  /\ cur = 1 /\ phase = "setup" /\ named = [m \in Manager |-> FALSE] /\ status = NoStatus
  /\ waiter = [w \in Waiter |-> Idle] /\ shown = <<>> /\ typed = 0
  /\ plan \in Plan

\* A capacity that is off by one.
OfferedOneMore(q, items) ==
  LET room == SendCap + 1 - Len(q)
  IN q \o SubSeq(items, 1, IF room < Len(items) THEN room ELSE Len(items))

\* Manager.Send of several envelopes: each is dropped when the channel is full.
Offered(q, items) ==
  LET room == SendCap - Len(q)
  IN q \o SubSeq(items, 1, IF room < Len(items) THEN room ELSE Len(items))

\* m.events <- evt, which waits for room.
Push(m, evt) ==
  /\ Len(events[m]) < EventCap
  /\ events' = [events EXCEPT ![m] = Append(@, evt)]
-----------------------------------------------------------------------------
(* Manager.run.                                                            *)

RunGoes(m, from, to) == run[m] = from /\ run' = [run EXCEPT ![m] = to]

\* The select at the top of the loop.
Loop(m) ==
  /\ RunGoes(m, "looping", IF m \in closing THEN "ended" ELSE "dialing")
  /\ UNCHANGED <<socket, dials, reader, pushed, heard, cut, events, send, closing, ui, waiter>>

DialFails(m) ==
  /\ RunGoes(m, "dialing", "failing")
  /\ UNCHANGED <<socket, dials, reader, pushed, heard, cut, events, send, closing, ui, waiter>>

ReportFailure(m) ==
  /\ RunGoes(m, "failing", "looping") /\ Push(m, Event("reconnecting", 0))
  /\ UNCHANGED <<socket, dials, reader, pushed, heard, cut, send, closing, ui, waiter>>

\* connect returns a socket; m.conn does not hold it yet.
DialSucceeds(m) ==
  /\ dials[m] < plan.dials[m]
  /\ RunGoes(m, "dialing", "dialed")
  /\ socket' = [socket EXCEPT ![m] = "dialed"] /\ dials' = [dials EXCEPT ![m] = @ + 1]
  /\ heard' = [heard EXCEPT ![m] = <<>>]
  /\ UNCHANGED <<reader, pushed, cut, events, send, closing, ui, waiter>>

\* m.conn = conn.
Install(m) ==
  /\ RunGoes(m, "dialed", "greeting")
  /\ socket' = [socket EXCEPT ![m] = "open"]
  /\ UNCHANGED <<dials, reader, pushed, heard, cut, events, send, closing, ui, waiter>>

\* A connection that is not reported.
GreetSilently(m) ==
  /\ RunGoes(m, "greeting", "resyncing")
  /\ \A n \in Socket : reader[m][n] \in {"off", "ended"}
  /\ UNCHANGED <<socket, dials, reader, pushed, heard, cut, events, send, closing, ui, waiter>>

\* The read loop of an earlier socket has reported its error by now: the
\* socket was closed ReconnectDelay before, and a full channel serves its
\* senders in the order they came.
Greet(m) ==
  /\ RunGoes(m, "greeting", "resyncing") /\ Push(m, Event("connected", 0))
  /\ \A n \in Socket : reader[m][n] \in {"off", "ended"}
  /\ UNCHANGED <<socket, dials, reader, pushed, heard, cut, send, closing, ui, waiter>>

\* A resync on the first connection only.
ResyncOnce(m) ==
  LET items == IF named[m] /\ dials[m] = 1 THEN <<"identify", "join_workspace", "join_channel">>
               ELSE <<>> IN
  /\ RunGoes(m, "resyncing", "writing")
  /\ send' = [send EXCEPT ![m] = Offered(@, items)]
  /\ cut' = [cut EXCEPT ![m] = Len(send[m]) + Len(items) > SendCap]
  /\ reader' = [reader EXCEPT ![m][dials[m]] = "reading"]
  /\ UNCHANGED <<socket, dials, pushed, heard, events, closing, ui, waiter>>

\* resync, and the start of the read loop.
Resync(m) ==
  LET items == IF named[m] THEN <<"identify", "join_workspace", "join_channel">> ELSE <<>> IN
  /\ RunGoes(m, "resyncing", "writing")
  /\ send' = [send EXCEPT ![m] = Offered(@, items)]
  /\ cut' = [cut EXCEPT ![m] = Len(send[m]) + Len(items) > SendCap]
  /\ reader' = [reader EXCEPT ![m][dials[m]] = "reading"]
  /\ UNCHANGED <<socket, dials, pushed, heard, events, closing, ui, waiter>>

\* writeLoop takes an envelope.  A write to a lost peer may seem to succeed;
\* one that fails ends the loop and the envelope is gone.
WriteEnvelope(m) ==
  /\ run[m] = "writing" /\ send[m] # <<>>
  /\ send' = [send EXCEPT ![m] = Tail(@)]
  /\ \/ /\ socket[m] = "open"
        /\ heard' = [heard EXCEPT ![m] = Append(@, Head(send[m]))] /\ UNCHANGED run
     \/ socket[m] = "lost" /\ UNCHANGED <<run, heard>>
     \/ socket[m] # "open" /\ run' = [run EXCEPT ![m] = "hanging up"] /\ UNCHANGED heard
  /\ UNCHANGED <<socket, dials, reader, pushed, cut, events, closing, ui, waiter>>

\* closeCh is closed, the read loop is done, or a ping cannot be written.
StopWriting(m) ==
  /\ RunGoes(m, "writing", "hanging up")
  /\ m \in closing \/ reader[m][dials[m]] = "ended" \/ socket[m] # "open"
  /\ UNCHANGED <<socket, dials, reader, pushed, heard, cut, events, send, closing, ui, waiter>>

HangUp(m) ==
  /\ RunGoes(m, "hanging up", "closing") /\ Push(m, Event("disconnected", 0))
  /\ UNCHANGED <<socket, dials, reader, pushed, heard, cut, send, closing, ui, waiter>>

\* A run goroutine that leaves its socket to Close.
CloseConnLeft(m) ==
  /\ RunGoes(m, "closing", "looping")
  /\ UNCHANGED <<socket, dials, reader, pushed, heard, cut, events, send, closing, ui, waiter>>

\* conn.Close(), the last of what the goroutine does with a socket.
CloseConn(m) ==
  /\ RunGoes(m, "closing", "looping")
  /\ socket' = [socket EXCEPT ![m] = "closed"]
  /\ UNCHANGED <<dials, reader, pushed, heard, cut, events, send, closing, ui, waiter>>
-----------------------------------------------------------------------------
(* Manager.readLoop, one per socket; an earlier one may still be running.  *)

ReaderGoes(m, n, from, to) ==
  reader[m][n] = from /\ reader' = [reader EXCEPT ![m][n] = to]

ReadEnvelope(m, n) ==
  /\ n = dials[m] /\ socket[m] = "open"
  /\ pushed[m] + Cardinality({k \in Socket : reader[m][k] = "handing"}) < plan.envelopes
  /\ ReaderGoes(m, n, "reading", "handing")
  /\ UNCHANGED <<run, socket, dials, pushed, heard, cut, events, send, closing, ui, waiter>>

HandEnvelope(m, n) ==
  /\ ReaderGoes(m, n, "handing", "reading")
  /\ pushed' = [pushed EXCEPT ![m] = @ + 1] /\ Push(m, Event("envelope", pushed'[m]))
  /\ UNCHANGED <<run, socket, dials, heard, cut, send, closing, ui, waiter>>

\* ReadJSON fails.
EndReading(m, n) ==
  /\ n < dials[m] \/ socket[m] # "open"
  /\ ReaderGoes(m, n, "reading", "ended") /\ Push(m, Event("error", 0))
  /\ UNCHANGED <<run, socket, dials, pushed, heard, cut, send, closing, ui, waiter>>

\* The peer or the network drops the socket.
LosePeer(m) ==
  /\ socket[m] = "open"
  /\ socket' = [socket EXCEPT ![m] = "lost"]
  /\ UNCHANGED <<run, dials, reader, pushed, heard, cut, events, send, closing, ui, waiter>>
-----------------------------------------------------------------------------
(* The Bubble Tea program.                                                 *)

\* Manager.Close of the current manager: it closes m.conn if there is one.
CloseCurrent ==
  /\ closing' = closing \cup {cur}
  /\ socket' = [socket EXCEPT ![cur] = IF @ \in {"open", "lost"} THEN "closed" ELSE @]

\* waitForWSEvent is returned to the runtime, which starts a goroutine for it.
StartWaiter ==
  \E w \in Waiter :
    /\ waiter[w].at = "idle" /\ \A v \in 1..(w - 1) : waiter[v].at # "idle"
    /\ waiter' = [waiter EXCEPT ![w] = WaitOn(cur')]

\* reconnect: close the current manager, make, configure and start another.
Reconnect ==
  /\ cur < plan.managers
  /\ CloseCurrent
  /\ cur' = cur + 1 /\ run' = [run EXCEPT ![cur + 1] = "looping"]
  /\ StartWaiter

\* connectFromSetup, with a handle or with the field left blank.
Connect ==
  /\ phase = "setup" /\ Reconnect
  /\ phase' = "chat" /\ status' = "connecting"
  /\ \E given \in plan.names : named' = [named EXCEPT ![cur + 1] = given]
  /\ UNCHANGED <<dials, reader, pushed, heard, cut, events, send, shown, typed, plan>>

CtrlR ==
  /\ "ctrl+r" \in plan.keys /\ phase = "chat" /\ Reconnect
  /\ named' = [named EXCEPT ![cur + 1] = named[cur]]
  /\ UNCHANGED <<dials, reader, pushed, heard, cut, events, send, phase, status, shown, typed, plan>>

\* /back: the next manager is made and not started, and no waiter is added.
Back ==
  /\ "/back" \in plan.keys /\ phase = "chat" /\ cur < plan.managers
  /\ CloseCurrent
  /\ cur' = cur + 1 /\ phase' = "setup" /\ status' = "disconnected"
  /\ UNCHANGED <<run, dials, reader, pushed, heard, cut, events, send, named, shown, typed, plan, waiter>>

\* The user sends a message; a full queue drops it.
SendMessage ==
  /\ phase = "chat" /\ typed < plan.typed
  /\ typed' = typed + 1
  /\ send' = [send EXCEPT ![cur] = Offered(@, <<"send_message">>)]
  /\ UNCHANGED <<link, events, closing, cur, phase, named, status, shown, plan, waiter>>

\* A waiting goroutine receives the next event of its manager.
Take(w) ==
  LET m == waiter[w].mgr IN
  /\ waiter[w].at = "waiting" /\ events[m] # <<>>
  /\ waiter' = [waiter EXCEPT ![w].at = "holding", ![w].evt = Head(events[m])]
  /\ events' = [events EXCEPT ![m] = Tail(@)]
  /\ UNCHANGED <<link, send, closing, ui>>

\* handleWSEvent that starts two goroutines.
HandleWSEventTwice(w) ==
  LET evt == waiter[w].evt
      isEnvelope == evt.type = "envelope" IN
  /\ waiter[w].at = "holding"
  /\ waiter' = [v \in Waiter |-> IF v = w \/ waiter[v].at = "idle" THEN WaitOn(cur) ELSE waiter[v]]
  /\ status' = CASE isEnvelope -> status [] evt.type = "error" -> "reconnecting" [] OTHER -> evt.type
  /\ shown' = IF isEnvelope THEN Append(shown, <<waiter[w].mgr, evt.n>>) ELSE shown
  /\ UNCHANGED <<link, events, send, closing, cur, phase, named, typed, plan>>

\* handleWSEvent on what a goroutine brings, the latest of them in any order;
\* it waits again, on the manager that is current now.  Some envelopes
\* (user_joined, user_left) make the client ask for the users.
HandleWSEvent(w) ==
  LET evt == waiter[w].evt
      isEnvelope == evt.type = "envelope" IN
  /\ waiter[w].at = "holding"
  /\ waiter' = [waiter EXCEPT ![w] = WaitOn(cur)]
  /\ status' = CASE isEnvelope -> status [] evt.type = "error" -> "reconnecting" [] OTHER -> evt.type
  /\ shown' = IF isEnvelope THEN Append(shown, <<waiter[w].mgr, evt.n>>) ELSE shown
  /\ \/ UNCHANGED send
     \/ isEnvelope /\ send' = [send EXCEPT ![cur] = Offered(@, <<"request_users">>)]
  /\ UNCHANGED <<link, events, closing, cur, phase, named, typed, plan>>
-----------------------------------------------------------------------------
RunStep(m) ==
  \/ Loop(m) \/ DialFails(m) \/ ReportFailure(m) \/ DialSucceeds(m) \/ Install(m) \/ Greet(m)
  \/ Resync(m) \/ WriteEnvelope(m) \/ StopWriting(m) \/ HangUp(m) \/ CloseConn(m)

ReaderStep(m, n) == ReadEnvelope(m, n) \/ HandEnvelope(m, n) \/ EndReading(m, n)

UIStep == Connect \/ CtrlR \/ Back \/ SendMessage \/ \E w \in Waiter : Take(w) \/ HandleWSEvent(w)

Next ==
  \/ \E m \in Manager : RunStep(m) \/ LosePeer(m) \/ \E n \in Socket : ReaderStep(m, n)
  \/ UIStep

Spec == Init /\ [][Next]_vars

(***************************************************************************)
(* Fairness: a goroutine that can go on does.  A dial returns, for the     *)
(* handshake has a timeout.  The select of writeLoop takes a case at       *)
(* random, and there are only finitely many envelopes to write before it   *)
(* takes the others.  The user need do nothing.                            *)
(***************************************************************************)
Fairness ==
  \A m \in Manager :
    /\ WF_vars(RunStep(m))
    /\ \A n \in Socket : WF_vars(HandEnvelope(m, n) \/ EndReading(m, n))

FairSpec == Spec /\ Fairness
-----------------------------------------------------------------------------
(* Properties.                                                             *)

EventType == [type : {"none", "connected", "reconnecting", "disconnected", "error", "envelope"},
              n : 0..MaxEnvelope]

\* Every variable keeps its type and the two channels their capacities.
TypeOK ==
  /\ run \in [Manager -> RunAt] /\ socket \in [Manager -> SocketAt]
  /\ dials \in [Manager -> 0..MaxDial] /\ pushed \in [Manager -> 0..MaxEnvelope]
  /\ reader \in [Manager -> [Socket -> ReaderAt]] /\ cut \in [Manager -> BOOLEAN]
  /\ \A m \in Manager : Len(events[m]) <= EventCap /\ Len(send[m]) <= SendCap
  /\ closing \subseteq Manager /\ cur \in Manager /\ phase \in {"setup", "chat"}
  /\ named \in [Manager -> BOOLEAN] /\ status \in StatusText /\ typed \in 0..plan.typed /\ plan \in Plan
  /\ \A w \in Waiter : waiter[w].mgr \in Manager /\ waiter[w].evt \in EventType

\* On every connection, first or renewed, the server has been told who is
\* there and then which workspace, once the client has nothing left to send;
\* what an earlier connection left in the queue does not spoil that.  (Unless
\* the queue was full when resync used it: Manager.Send drops silently.)
Resynced ==
  \A m \in Manager :
    run[m] = "writing" /\ socket[m] = "open" /\ send[m] = <<>> /\ named[m] /\ ~cut[m] =>
      \E i, j \in DOMAIN heard[m] :
        i < j /\ heard[m][i] = "identify" /\ heard[m][j] = "join_workspace"

\* Everything the managers reported has been handled and the current one has
\* a working connection.
AtRest ==
  /\ run[cur] = "writing" /\ socket[cur] = "open"
  /\ \A m \in Manager : events[m] = <<>>
  /\ \A w \in Waiter : waiter[w].at # "holding"

\* The status line says so when the client is connected, however many
\* connections were lost and renewed before (README.md:254, Ctrl+R: reconnect).
StatusTrue == AtRest => status = "connected"

\* The user has neither pressed Ctrl+R nor gone /back.
FirstChat == cur <= 2

\* The same before any Ctrl+R or /back.
StatusTrueAtFirst == FirstChat => StatusTrue

\* Before any Ctrl+R or /back, envelopes are handled in the order they were
\* received.
HandledInOrder ==
  FirstChat => \A i, j \in DOMAIN shown :
    i < j /\ shown[i][1] = shown[j][1] => shown[i][2] < shown[j][2]

HungUp(m) == run[m] \in {"off", "ended"} /\ socket[m] \in {"none", "closed"}

\* The run goroutine waits for room in the event channel.
Stuck(m) == run[m] \in {"failing", "greeting", "hanging up"} /\ Len(events[m]) = EventCap

\* In the end every manager that was closed has given its connection up, also
\* when Close came in the middle of a dial and found no socket to close; or
\* its goroutine waits for ever for room in the event channel (a manager that
\* was replaced may have nobody left to take its events).
ClosedHangsUp == \A m \in Manager : <>[](m \in closing => HungUp(m) \/ Stuck(m))
=============================================================================
