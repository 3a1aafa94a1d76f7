---------------------------- MODULE ChatSystem ----------------------------
(***************************************************************************)
(* The hub composed with its clients.  A client has one manager, which     *)
(* dials again when its connection is lost; the sessions of a client are   *)
(* its connections, in their order.  The server may crash and start again: *)
(* it comes back with the tables and nothing else.                         *)
(*                                                                         *)
(* The socket and the client's event channel keep the order of envelopes   *)
(* (ClientConn has the exceptions, after Ctrl+R and /back), so a client    *)
(* takes them from its session's channel.                                  *)
(*                                                                         *)
(* While a handler makes its deliveries (Hub!Post), the clients wait: none *)
(* of their steps can tell whether it came between two deliveries of one   *)
(* handler, as they only take from the queues deliveries append to.  The   *)
(* broadcasts of removeSession's goroutines and a crash do come between.   *)
(***************************************************************************)
EXTENDS ChatClient

CONSTANTS
  Client,    \* the clients whose screen is modelled, all started once
  Conns,     \* per client, the sessions its manager opens, in order
  Account,   \* per client, what its manager was configured with
  Plan       \* what may happen: each element gives, per client, the sequence of
             \* sets its commands are drawn from (keys); the sessions that are
             \* dialed (dials), those of them that join before the others are
             \* dialed (first), that read what they get (reading) and whose
             \* connection may be lost (losing); whether goroutines removeSession
             \* starts may still run when the hub takes its next registration or
             \* event (late); and how often the server may restart (restarts)

\* A session is one connection of one client.
ASSUME ChatSystemAssumption ==
  /\ Conns \in [Client -> Seq(Session)]
  /\ \A c, d \in Client : \A i \in DOMAIN Conns[c] : \A j \in DOMAIN Conns[d] :
       Conns[c][i] = Conns[d][j] => c = d /\ i = j
  /\ Account \in [Client -> [handle : Text, token : Text, workspace : Text, code : Text, channel : Text]]
  /\ \A p \in Plan : p.keys \in [Client -> Seq(SUBSET CommandType)]
  /\ \A p \in Plan : p.dials \cup p.first \cup p.reading \cup p.losing \subseteq Session
  /\ \A p \in Plan : p.late \in BOOLEAN /\ p.restarts \in Nat

VARIABLES
  view,      \* per client, its screen
  queued,    \* per client, Manager.send
  typing,    \* per client, the commands it still types
  plan       \* the element of Plan that happens; restarts counts down

clientVars == <<view, queued, typing, plan>>
sysVars    == <<vars, clientVars>>

SysInit ==
  /\ Init /\ plan \in Plan /\ typing = plan.keys
  /\ view = [c \in Client |-> NewView(Account[c])]
  /\ queued = [c \in Client |-> <<>>]

Belongs(s, c) == \E i \in DOMAIN Conns[c] : Conns[c][i] = s
Earlier(c, i) == {Conns[c][j] : j \in 1..(i - 1)}

\* Manager.resync: the same events on every connection, whatever the user has
\* renamed or entered since.
Resync(c) ==
  LET a == Account[c]
  IN <<[type |-> "identify", token |-> a.token, handle |-> a.handle],
       [type |-> "join_workspace", workspace |-> a.workspace, code |-> a.code],
       [type |-> "join_channel", channel |-> a.channel]>>

\* The bounds the plan sets.
HasJoined(s) == sess[s].ws # Blank /\ \A c \in Client : Belongs(s, c) => queued[c] = <<>>
HubMayGoOn == plan.late \/ spawned = {}
MayDial(s) == s \in plan.dials /\ HubMayGoOn /\ (s \in plan.first \/ \A t \in plan.first : HasJoined(t))

\* The manager dials, once its earlier connections are lost, and queues its
\* resync behind what it had not sent.
Dial(c, i) ==
  LET s == Conns[c][i] IN
  /\ MayDial(s) /\ Register(s)
  /\ \A t \in Earlier(c, i) : link[t] \in {"ended", "gone"}
  /\ queued' = [queued EXCEPT ![c] = @ \o Resync(c)]
  /\ UNCHANGED <<view, typing, plan>>

Lose(s) ==
  /\ outbox = <<>> /\ s \in plan.losing /\ link[s] = "reading"
  /\ link' = [link EXCEPT ![s] = "ended"]
  /\ UNCHANGED <<todo, inbound, table, sess, wire, presence, lastPing, now, db, outbox, spawned,
                 clientVars>>

\* The write pump writes an envelope and the client handles it.
Show(c, s) ==
  /\ outbox = <<>> /\ Belongs(s, c) /\ link[s] = "reading" /\ s \in plan.reading
  /\ WriteOut(s)
  /\ view' = [view EXCEPT ![c] = Apply(@, Head(sendq[s]))]
  /\ queued' = [queued EXCEPT ![c] = @ \o Answer(Head(sendq[s]))]
  /\ UNCHANGED <<typing, plan>>

\* The manager writes the oldest event it has queued.
Send(c, s) ==
  /\ outbox = <<>> /\ Belongs(s, c) /\ queued[c] # <<>>
  /\ Read(s, Head(queued[c]))
  /\ queued' = [queued EXCEPT ![c] = Tail(@)]
  /\ UNCHANGED <<todo, view, typing, plan>>

\* The user types a command, connected or not.
Type(c) ==
  /\ outbox = <<>> /\ typing[c] # <<>>
  /\ Conns[c] # <<>> /\ link[Conns[c][1]] # "new"
  /\ typing' = [typing EXCEPT ![c] = Tail(@)]
  /\ \E cmd \in Head(typing[c]) :
       /\ view' = [view EXCEPT ![c] = Typed(@, cmd)]
       /\ queued' = [queued EXCEPT ![c] = @ \o Sent(view[c], cmd)]
  /\ UNCHANGED <<vars, plan>>

\* A frame tick finds that the overlay's time is over.
EndEffect(c) ==
  /\ outbox = <<>> /\ view[c].effect # NoEffect
  /\ view' = [view EXCEPT ![c].effect = NoEffect]
  /\ UNCHANGED <<vars, queued, typing, plan>>

\* The server crashes, perhaps in the middle of a handler whose queries are
\* done, and starts with empty maps.
Restart ==
  /\ plan.restarts > 0 /\ sessions # {}
  /\ plan' = [plan EXCEPT !.restarts = @ - 1]
  /\ link' = [s \in Session |-> IF link[s] = "new" THEN "new" ELSE "gone"]
  /\ sessions' = {} /\ scoped' = {} /\ closed' = closed \cup sessions
  /\ sendq' = [s \in Session |-> <<>>]
  /\ inbound' = <<>> /\ outbox' = <<>> /\ spawned' = {}
  /\ presence' = <<>> /\ lastPing' = <<>>
  /\ UNCHANGED <<todo, sess, lost, now, db, view, queued, typing>>

SysNext ==
  \/ \E c \in Client : \/ \E i \in DOMAIN Conns[c] : Dial(c, i)
                       \/ \E s \in Session : Show(c, s) \/ Send(c, s)
                       \/ Type(c) \/ EndEffect(c)
  \/ Restart
  \/ \E s \in Session : Lose(s)
  \/ /\ \/ \E s \in Session : RemoveSession(s)
        \/ \E b \in spawned : RunSpawned(b)
        \/ Post
        \/ HubMayGoOn /\ Handle
     /\ UNCHANGED clientVars

SysSpec == SysInit /\ [][SysNext]_sysVars
-----------------------------------------------------------------------------
(* Properties.                                                             *)

\* A client shows each message of a channel at most once and in the order the
\* server stored them, whatever mix of history batches, live messages, lost
\* connections, /clear and /restore it went through.
ViewOrdered ==
  \A c \in Client : \A name \in DOMAIN view[c].msgs :
    \A i, j \in DOMAIN view[c].msgs[name] :
      i < j => view[c].msgs[name][i] < view[c].msgs[name][j]

\* The session a client talks to has joined, and nothing of what was sent to
\* it is still under way or was dropped.
Settled(c, s) ==
  /\ Belongs(s, c) /\ link[s] = "reading" /\ s \in sessions /\ s \notin lost
  /\ outbox = <<>> /\ sendq[s] = <<>> /\ <<sess[s].ws, s>> \in scoped

IsTail(t, log) == Len(t) <= Len(log) /\ t = SubSeq(log, Len(log) - Len(t) + 1, Len(log))

\* A client that has received everything sent to it shows the latest messages
\* of the channel its session is in without a gap, as many as the history
\* holds, unless the user cleared them; and none of another channel with a
\* gap, if it never lost a connection.
ViewComplete ==
  \A c \in Client : \A s \in Session : Settled(c, s) =>
    LET ShownIn(name) == At(view[c].msgs, name, <<>>)
        log(name) == MessagesOf(db, <<sess[s].ws, name>>)
        here == sess[s].current[2]
    IN /\ \A name \in DOMAIN view[c].msgs \ view[c].touched :
            (name = here \/ s = Conns[c][1]) => IsTail(ShownIn(name), log(name))
       /\ here \in view[c].touched \/ Len(ShownIn(here)) >= Len(ListHistory(db, sess[s].current))

\* Nothing under way will still change what the client shows.
AtRest(c, s) == Settled(c, s) /\ inbound = <<>> /\ spawned = {} /\ queued[c] = <<>>

\* A session of the user ended and another one is attached.
CameBack(u) ==
  /\ \E t \in Session : sess[t].user.id = u /\ link[t] \in {"ended", "gone"}
  /\ \E t \in sessions : sess[t].user.id = u /\ link[t] = "reading"

\* When nothing is under way any more, the users pane lists the members of the
\* workspace under the handles they have, and shows those the server knows of
\* online if and only if it has them online, and in the channel they are in.
\* (The offline broadcast that removeSession spawned may be the last to arrive:
\* then a user who came back stays offline, and one who left with a join_channel
\* still in Hub.inbound stays in the channel of before.  Whoever returns after
\* a Restart came back, too: of the others' stale panes PaneOnlineTrue speaks.)
PaneConverges ==
  \A c \in Client : \A s \in Session : AtRest(c, s) =>
    /\ {[id |-> e.id, handle |-> e.handle] : e \in view[c].pane} = ListWorkspaceUsers(db, sess[s].ws)
    /\ \A e \in view[c].pane : LET k == <<sess[s].ws, e.id>> IN
         k \in DOMAIN presence /\ ~CameBack(e.id) =>
           /\ e.online = presence[k].online
           /\ e.online => e.channel = presence[k].channel

\* The events that enter a channel, and what answers them.
Entering(e) == e.type \in {"join_channel", "join_workspace"}
Answering(env) == env.type \in {"channel_joined", "workspace_joined", "error"}

\* No event that enters a channel, and no answer to one, is under way.
NoneEntering(c, s) ==
  /\ \A i \in DOMAIN queued[c] : ~Entering(queued[c][i])
  /\ \A i \in DOMAIN inbound : inbound[i].from = s => ~Entering(inbound[i].event)
NoneAnswering(s) ==
  /\ \A i \in DOMAIN sendq[s] : ~Answering(sendq[s][i])
  /\ \A i \in DOMAIN outbox : s \in outbox[i].to => ~Answering(outbox[i].env)

\* The server files a message under the session's channel and not under the one
\* the client names, and the client shows a channel before the server agrees;
\* but what is typed once the last join is answered goes to the channel on the
\* screen, also after stale answers and after a new connection.
SentWhereShown ==
  \A c \in Client : \A s \in Session :
    /\ Belongs(s, c) /\ link[s] = "reading" /\ s \notin lost /\ <<sess[s].ws, s>> \in scoped
    /\ NoneEntering(c, s) /\ NoneAnswering(s) /\ ~view[c].refused
    => view[c].current = sess[s].current[2]

\* When nothing is under way, a client that is the only one of its user goes by
\* the handle the users table has, though its manager identifies every new
\* connection with the handle of the first.
HandleTrue ==
  \A c \in Client : \A s \in Session : AtRest(c, s) =>
    \/ \E t \in Session : ~Belongs(t, c) /\ sess[t].user.id = sess[s].user.id
    \/ view[c].handle = db.users[sess[s].user.id]

\* However many seconds a /ping asks for, in a number that may overflow, the
\* overlay it puts on a screen lasts between 0.9 and 10 seconds.
OverlayBounded ==
  \A c \in Client : view[c].effect # NoEffect => view[c].effect.ms \in 900..10000

\* README.md:281, "online status": nobody is shown online who is not connected.
PaneOnlineTrue ==
  \A c \in Client : \A s \in Session : AtRest(c, s) =>
    \A e \in view[c].pane : e.online => \E t \in sessions : sess[t].user.id = e.id
=============================================================================
