-------------------------------- MODULE Hub --------------------------------
(***************************************************************************)
(* The chat hub (internal/server/chat/hub.go), the presence manager it     *)
(* owns (internal/server/presence/manager.go) and the part of the read and *)
(* write pumps that feeds it (internal/server/ws/handler.go).              *)
(*                                                                         *)
(* One goroutine runs the hub.  A handler is one action for everything it  *)
(* does to sessions, presence and the store; the envelopes it delivers are *)
(* put in outbox and leave it one broadcast at a time (Post), so that the  *)
(* write pumps and the broadcasts that removeSession spawns interleave     *)
(* with them.  The hub takes its next event when outbox is empty.          *)
(***************************************************************************)
EXTENDS Store, Integers

CONSTANTS
  Session,      \* connections; each is used once, a reconnect is another one
  RemoteIP,     \* the peer address of each, without the port
  ClientEvent,  \* the events clients send
  Script,       \* what the clients may do: each element gives, per session, the
                \* sequence of sets its events are drawn from
  DefaultRoom,  \* the channel a workspace join enters
  Reading,      \* the sessions whose peer reads what writePump writes
  Leaving,      \* the sessions whose connection may end
  SendCap,      \* capacity of Session.send (64 in the code)
  InboundCap,   \* capacity of Hub.inbound (128 in the code)
  Faults,       \* the store methods that may fail
  MaxTime       \* bound on the clock, in seconds

\* The events of the protocol: an event's type says which fields its payload has.
EventType ==
  [type : {"identify"}, token : Text, handle : Text]
  \cup [type : {"join_workspace"}, workspace : Text, code : Text]
  \cup [type : {"join_channel"}, channel : Text]
  \cup [type : {"send_message", "send_emote"}, body : Text]
  \cup [type : {"ping_user"}, handle : Text, effect : Text, ms : Int]
  \cup [type : {"ping_all"}, effect : Text, ms : Int]
  \cup [type : {"change_handle"}, handle : Text]
  \cup [type : {"request_history", "request_users", "request_channels", "typing_start", "typing_stop",
                "ping", "call", "unsupported"}]

ASSUME HubAssumption ==
  /\ ClientEvent \subseteq EventType
  /\ Script \subseteq [Session -> Seq(SUBSET ClientEvent)]
  /\ Reading \subseteq Session /\ Leaving \subseteq Session
  /\ DefaultRoom \in Text
  /\ SendCap \in Nat \ {0} /\ InboundCap \in Nat \ {0} /\ MaxTime \in Nat

VARIABLES
  link,       \* the read pump: "new", "reading", "ended" (wants Unregister), "gone"
  todo,       \* what is left of its client's script
  inbound,    \* Hub.inbound: records [from, event]
  sessions,   \* Hub.sessions
  scoped,     \* Hub.sessionsByWorkspace, as pairs <<ws, session>>
  sess,       \* the Session fields token, pending, user, ws, current
  closed,     \* the sessions whose send channel is closed
  sendq,      \* Session.send
  lost,       \* the sessions some Deliver found full (history variable)
  presence,   \* Manager.byWorkspace: <<ws, user>> -> [handle, channel, online]
  lastPing,   \* Hub.lastPingByUser: <<user, scope, effect>> -> time
  now,        \* the clock, in seconds
  db,         \* the database
  outbox,     \* broadcasts the running handler still has to make
  spawned     \* broadcasts of goroutines removeSession started

wire  == <<sendq, lost>>
table == <<sessions, scoped, closed>>
vars  == <<link, todo, inbound, table, sess, wire, presence, lastPing, now, db, outbox, spawned>>

NoChannel == <<Blank, Blank>>
NewSession == [token |-> Blank, pending |-> Blank, user |-> [id |-> NoUser, handle |-> Blank],
               ws |-> Blank, current |-> NoChannel]

Init ==
  /\ link = [s \in Session |-> "new"] /\ todo \in Script
  /\ inbound = <<>> /\ sessions = {} /\ scoped = {} /\ closed = {}
  /\ sess = [s \in Session |-> NewSession]
  /\ sendq = [s \in Session |-> <<>>] /\ lost = {}
  /\ presence = <<>> /\ lastPing = <<>> /\ now = 0
  /\ db = EmptyDB /\ outbox = <<>> /\ spawned = {}

\* f with k mapped to v.
With(f, k, v) == [x \in DOMAIN f \cup {k} |-> IF x = k THEN v ELSE f[x]]
-----------------------------------------------------------------------------
(* Envelopes, with the payload fields some property or client reads.       *)

\* The types of what the server sends.
ServerEvent ==
  {"identified", "workspace_joined", "channel_joined", "message_new", "emote_new", "history_batch",
   "presence_update", "users_list", "channels_list", "user_joined", "user_left", "typing_update",
   "error", "pong", "ping_received", "ping_effect", "handle_changed", "system_notice",
   "reconnect_required", "call_invitation", "call_state_update"}

NoEffect == [from |-> Blank, effect |-> "normal", ms |-> 0]
Envelope(type) == [type |-> type, chan |-> NoChannel, msgs |-> <<>>, pres |-> {}, users |-> {},
                   old |-> Blank, handle |-> Blank, effect |-> NoEffect]
Error(s)              == [to |-> {s}, env |-> Envelope("error")]
Tell(s, type)         == [to |-> {s}, env |-> Envelope(type)]
Broadcast(to, type)   == [to |-> to, env |-> Envelope(type)]

\* A broadcast to all attached sessions: the mutant of Members.
EveryMember(ws) == {s \in Session : \E w \in Text : <<w, s>> \in scoped}
Members(ws)     == {s \in Session : <<ws, s>> \in scoped}

NewMessage(to, type, chan, id) ==
  [to |-> to, env |-> [Envelope(type) EXCEPT !.chan = chan, !.msgs = <<id>>]]
ChannelJoined(s, chan) ==
  [to |-> {s}, env |-> [Envelope("channel_joined") EXCEPT !.chan = chan]]
WorkspaceJoined(s, d, chan) ==
  [to |-> {s}, env |-> [Envelope("workspace_joined") EXCEPT !.chan = chan,
                                                            !.users = ListWorkspaceUsers(d, chan[1])]]
Identified(s, handle) == [to |-> {s}, env |-> [Envelope("identified") EXCEPT !.handle = handle]]
UsersList(to, users)  == [to |-> to, env |-> [Envelope("users_list") EXCEPT !.users = users]]
HandleChanged(to, old, handle) ==
  [to |-> to, env |-> [Envelope("handle_changed") EXCEPT !.old = old, !.handle = handle]]
PingEffect(to, effect) == [to |-> to, env |-> [Envelope("ping_effect") EXCEPT !.effect = effect]]

\* broadcastToWorkspaceExcept in place of broadcastToWorkspace.
PresenceUpdateToOthers(to, pres) ==
  [to |-> to \ {Head(inbound).from}, env |-> [Envelope("presence_update") EXCEPT !.pres = pres]]
PresenceUpdate(to, pres) ==
  [to |-> to, env |-> [Envelope("presence_update") EXCEPT !.pres = pres]]

\* sendHistory: the batch, or an error when the query fails.
HistoryBatch(s, d, chan) ==
  [to |-> {s}, env |-> [Envelope("history_batch") EXCEPT !.chan = chan,
                                                         !.msgs = ListHistory(d, chan)]]
SendHistory(s, d, chan) ==
  {HistoryBatch(s, d, chan)} \cup (IF "ListHistory" \in Faults THEN {Error(s)} ELSE {})

-----------------------------------------------------------------------------
(* The presence manager, on its map p and the key <<ws, user>>.            *)

SetOnline(p, key, handle, chan) ==
  With(p, key, [handle |-> handle, channel |-> chan, online |-> TRUE])

\* Mutants: a copy of the entry is changed and not stored again, or stored
\* without its Online field.
SetOfflineLost(p, key) == p
PresenceRenameLost(p, key, h) == p
UpdateChannelResets(p, key, chan) ==
  IF key \in DOMAIN p
    THEN [p EXCEPT ![key] = [handle |-> @.handle, channel |-> chan, online |-> FALSE]] ELSE p

SetOffline(p, key) == IF key \in DOMAIN p THEN [p EXCEPT ![key].online = FALSE] ELSE p
UpdateChannel(p, key, chan) ==
  IF key \in DOMAIN p THEN [p EXCEPT ![key].channel = chan] ELSE p
PresenceRename(p, key, h) == IF key \in DOMAIN p THEN [p EXCEPT ![key].handle = h] ELSE p

\* The rows of a workspace, in the map's order, that is in any.
Snapshot(p, ws) == {p[k] : k \in {j \in DOMAIN p : j[1] = ws}}

-----------------------------------------------------------------------------
\* An off-by-one in the capacity.
HasRoomForOneMore(s) == s \notin closed /\ Len(sendq[s]) <= SendCap

\* Session.Deliver for every session of to: queued, or dropped when the
\* session is closed or its channel is full.
HasRoom(s) == s \notin closed /\ Len(sendq[s]) < SendCap
Deliver(to, env) ==
  /\ sendq' = [s \in Session |-> IF s \in to /\ HasRoom(s) THEN Append(sendq[s], env)
                                 ELSE sendq[s]]
  /\ lost' = lost \cup {s \in to : s \notin closed /\ ~HasRoom(s)}

\* A Deliver that waits for room instead of dropping.
DeliverBlocking(to, env) ==
  /\ \A s \in to : s \in closed \/ HasRoom(s)
  /\ sendq' = [s \in Session |-> IF s \in to /\ HasRoom(s) THEN Append(sendq[s], env)
                                 ELSE sendq[s]]
  /\ UNCHANGED lost
-----------------------------------------------------------------------------
(* The pumps and the goroutines beside the hub.                            *)

\* The select of Run takes a registration: addSession.
Register(s) ==
  /\ outbox = <<>> /\ link[s] = "new"
  /\ link' = [link EXCEPT ![s] = "reading"]
  /\ sessions' = sessions \cup {s}
  /\ UNCHANGED <<todo, inbound, scoped, closed, sess, wire, presence, lastPing, now, db,
                 outbox, spawned>>

\* readPump reads an event and hands it over; it waits while inbound is full.
Read(s, e) ==
  /\ link[s] = "reading" /\ Len(inbound) < InboundCap
  /\ inbound' = Append(inbound, [from |-> s, event |-> e])
  /\ UNCHANGED <<link, table, sess, wire, presence, lastPing, now, db, outbox, spawned>>

\* The connection is lost or closed by the peer: readPump wants to unregister.
EndRead(s) ==
  /\ s \in Leaving /\ link[s] = "reading"
  /\ link' = [link EXCEPT ![s] = "ended"]
  /\ UNCHANGED <<todo, inbound, table, sess, wire, presence, lastPing, now, db, outbox, spawned>>

\* writePump writes the oldest envelope; a peer that does not read leaves it
\* stuck.
WriteOut(s) ==
  /\ s \in Reading /\ sendq[s] # <<>>
  /\ sendq' = [sendq EXCEPT ![s] = Tail(@)]
  /\ UNCHANGED <<link, todo, inbound, table, sess, lost, presence, lastPing, now, db, outbox,
                 spawned>>

\* The select of Run takes an Unregister, which may overtake events of the
\* same session that still wait in inbound: removeSession.  Presence goes
\* offline, and two goroutines are started to tell the workspace.
RemoveSession(s) ==
  LET me == sess[s]
      key == <<me.ws, me.user.id>>
      known == me.ws # Blank /\ key \in DOMAIN presence
      tell(env) == [by |-> s, ws |-> me.ws, env |-> env]
  IN /\ outbox = <<>> /\ link[s] = "ended"
     /\ link' = [link EXCEPT ![s] = "gone"]
     /\ sessions' = sessions \ {s}
     /\ scoped' = scoped \ {<<me.ws, s>>}
     /\ closed' = closed \cup {s}
     /\ presence' = IF known THEN SetOffline(presence, key) ELSE presence
     /\ spawned' = IF known
          THEN spawned \cup {tell([Envelope("presence_update") EXCEPT !.pres = {presence'[key]}]),
                             tell(Envelope("user_left"))}
          ELSE spawned
     /\ UNCHANGED <<todo, inbound, sess, wire, lastPing, now, db, outbox>>

\* A goroutine of removeSession gets hub.mu and broadcasts.
RunSpawned(b) ==
  /\ b \in spawned
  /\ spawned' = spawned \ {b}
  /\ Deliver(Members(b.ws), b.env)
  /\ UNCHANGED <<link, todo, inbound, table, sess, presence, lastPing, now, db, outbox>>

\* Post with that Deliver: the hub goroutine waits with the session.
PostBlocking ==
  /\ outbox # <<>>
  /\ outbox' = Tail(outbox)
  /\ DeliverBlocking(Head(outbox).to, Head(outbox).env)
  /\ UNCHANGED <<link, todo, inbound, table, sess, presence, lastPing, now, db, spawned>>

\* The running handler makes its next delivery or broadcast.
Post ==
  /\ outbox # <<>>
  /\ outbox' = Tail(outbox)
  /\ Deliver(Head(outbox).to, Head(outbox).env)
  /\ UNCHANGED <<link, todo, inbound, table, sess, presence, lastPing, now, db, spawned>>

\* A second passes.  The clock counts from the first ping: nothing looks at it
\* before.
Tick ==
  /\ now < MaxTime /\ DOMAIN lastPing # {}
  /\ now' = now + 1
  /\ UNCHANGED <<link, todo, inbound, table, sess, wire, presence, lastPing, db, outbox, spawned>>
-----------------------------------------------------------------------------
(* handleEvent, one action per case of its switch.                         *)

\* The select of Run takes an event of one of these types.
Serve(types) ==
  /\ outbox = <<>> /\ inbound # <<>>
  /\ Head(inbound).event.type \in types
  /\ inbound' = Tail(inbound)
  /\ UNCHANGED <<link, todo, sessions, closed, now, spawned>>

Sender == Head(inbound).from
Event  == Head(inbound).event

\* The handler returns an error; Run sends it to the session.
Refuse == outbox' = <<Error(Sender)>>

Identify ==
  LET s == Sender
      token == Trim[Event.token]
      handle == NormalizeHandle(Event.handle)
      identified == [sess EXCEPT ![s].token = token]
  IN /\ Serve({"identify"})
     /\ \/ token = Blank /\ Refuse /\ UNCHANGED sess
        \/ /\ token # Blank /\ Trim[Event.handle] = Blank
           /\ sess' = [identified EXCEPT ![s].pending = Blank]
           /\ UNCHANGED outbox
        \/ /\ token # Blank /\ ValidHandle(Event.handle)
           /\ sess' = [identified EXCEPT ![s].pending = handle]
           /\ UNCHANGED outbox
        \/ /\ token # Blank /\ Trim[Event.handle] # Blank /\ ~ValidHandle(Event.handle)
           /\ sess' = identified /\ Refuse
     /\ UNCHANGED <<scoped, wire, presence, lastPing, db>>

\* deviceFingerprint: a hash of the peer address and the token.
Fingerprint(s) == <<RemoteIP[s], sess[s].token>>

JoinTarget == Clean(Event.workspace)
JoinCode   == Trim[Event.code]
JoinHandle == Clean(sess[Sender].pending)

JoinRejected ==
  \/ sess[Sender].token = Blank \/ Trim[Event.workspace] = Blank \/ JoinCode = Blank
  \/ JoinRefused(db, JoinTarget, JoinCode, Fingerprint(Sender), JoinHandle)

JoinWorkspaceRefused ==
  /\ Serve({"join_workspace"})
  /\ JoinRejected \/ "JoinWorkspace" \in Faults
  /\ Refuse
  /\ UNCHANGED <<scoped, sess, wire, presence, lastPing, db>>

\* What the committed transaction leaves in the database and in the session.
JoinedUser == JoiningUser(db, JoinTarget, Fingerprint(Sender), JoinHandle)
JoinedDB   == JoinWorkspaceTx(db, JoinTarget, JoinCode, Fingerprint(Sender), JoinHandle)
JoinedSess ==
  LET u == [id |-> JoinedUser, handle |-> JoinedDB.users[JoinedUser]]
  IN [sess EXCEPT ![Sender].user = u, ![Sender].ws = JoinTarget, ![Sender].pending = u.handle]
Lobby == <<JoinTarget, Clean(DefaultRoom)>>

WithLobby  == EnsureChannel(JoinedDB, JoinTarget, DefaultRoom)
InLobby    == AddChannelMember(WithLobby, Lobby, JoinedUser)
InLobbySess == [JoinedSess EXCEPT ![Sender].current = Lobby]

\* The transaction committed and a later query of the handler failed.
JoinWorkspaceAbandoned ==
  /\ Serve({"join_workspace"})
  /\ ~JoinRejected
  /\ outbox' = <<Identified(Sender, JoinedSess[Sender].user.handle), Error(Sender)>>
  /\ \/ /\ "EnsureChannel" \in Faults
        /\ db' = JoinedDB /\ sess' = JoinedSess /\ UNCHANGED scoped
     \/ /\ "AddChannelMember" \in Faults
        /\ db' = WithLobby /\ sess' = JoinedSess /\ UNCHANGED scoped
     \/ /\ Faults \cap {"ListChannels", "ListWorkspaceUsers"} # {}
        /\ db' = InLobby /\ sess' = InLobbySess
        /\ scoped' = scoped \cup {<<JoinTarget, Sender>>}
  /\ UNCHANGED <<wire, presence, lastPing>>

\* The whole handler.  The session stays attached to a workspace it joined
\* before; the presence snapshot goes to everyone, the rest to the session.
JoinWorkspace ==
  LET s == Sender
      user == JoinedSess[s].user
      all == Members(JoinTarget) \cup {s}
  IN /\ Serve({"join_workspace"})
     /\ ~JoinRejected
     /\ db' = InLobby /\ sess' = InLobbySess
     /\ scoped' = scoped \cup {<<JoinTarget, s>>}
     /\ presence' = SetOnline(presence, <<JoinTarget, user.id>>, user.handle, Lobby[2])
     /\ \E history \in SendHistory(s, InLobby, Lobby) :
          outbox' = <<Identified(s, user.handle), WorkspaceJoined(s, InLobby, Lobby),
                      UsersList({s}, ListWorkspaceUsers(InLobby, JoinTarget)),
                      Tell(s, "channels_list"), ChannelJoined(s, Lobby), Tell(s, "system_notice"),
                      history, PresenceUpdate(all, Snapshot(presence', JoinTarget)),
                      Broadcast(all, "user_joined")>>
     /\ UNCHANGED <<wire, lastPing>>

JoinChannel ==
  LET s == Sender
      me == sess[s]
      chan == <<me.ws, Clean(Event.channel)>>
      key == <<me.ws, me.user.id>>
      withChan == EnsureChannel(db, me.ws, Event.channel)
      valid == me.ws # Blank /\ Trim[Event.channel] # Blank
  IN /\ Serve({"join_channel"})
     /\ \/ /\ ~valid \/ "EnsureChannel" \in Faults
           /\ Refuse /\ UNCHANGED <<sess, presence, db>>
        \/ /\ valid /\ "AddChannelMember" \in Faults
           /\ db' = withChan /\ Refuse /\ UNCHANGED <<sess, presence>>
        \/ /\ valid
           /\ db' = AddChannelMember(withChan, chan, me.user.id)
           /\ sess' = [sess EXCEPT ![s].current = chan]
           /\ presence' = UpdateChannel(presence, key, chan[2])
           /\ \E history \in SendHistory(s, db', chan) :
                outbox' = (IF key \in DOMAIN presence
                             THEN <<PresenceUpdate(Members(me.ws), {presence'[key]})>> ELSE <<>>)
                          \o <<ChannelJoined(s, chan), history>>
     /\ UNCHANGED <<scoped, wire, lastPing>>

\* send_message and send_emote differ in the row's type and the envelope's.
SendMessage ==
  LET s == Sender
      me == sess[s]
      type == IF Event.type = "send_message" THEN "chat" ELSE "emote"
      new == IF Event.type = "send_message" THEN "message_new" ELSE "emote_new"
      valid == me.current # NoChannel /\ Trim[Event.body] # Blank
  IN /\ Serve({"send_message", "send_emote"})
     /\ \/ /\ ~valid \/ "SaveMessage" \in Faults
           /\ Refuse /\ UNCHANGED db
        \/ /\ valid
           /\ db' = SaveMessage(db, me.ws, me.current, me.user.id, type)
           /\ outbox' = <<NewMessage(Members(me.ws), new, me.current, Len(db'.messages))>>
     /\ UNCHANGED <<scoped, sess, wire, presence, lastPing>>

RequestHistory ==
  LET s == Sender IN
  /\ Serve({"request_history"})
  /\ \/ sess[s].current = NoChannel /\ Refuse
     \/ /\ sess[s].current # NoChannel
        /\ \E history \in SendHistory(s, db, sess[s].current) : outbox' = <<history>>
  /\ UNCHANGED <<scoped, sess, wire, presence, lastPing, db>>

RequestUsers ==
  LET s == Sender IN
  /\ Serve({"request_users"})
  /\ \/ (sess[s].ws = Blank \/ "ListWorkspaceUsers" \in Faults) /\ Refuse
     \/ /\ sess[s].ws # Blank
        /\ outbox' = <<UsersList({s}, ListWorkspaceUsers(db, sess[s].ws)),
                       PresenceUpdate({s}, Snapshot(presence, sess[s].ws))>>
  /\ UNCHANGED <<scoped, sess, wire, presence, lastPing, db>>

RequestChannels ==
  LET s == Sender IN
  /\ Serve({"request_channels"})
  /\ \/ (sess[s].ws = Blank \/ "ListChannels" \in Faults) /\ Refuse
     \/ sess[s].ws # Blank /\ outbox' = <<Tell(s, "channels_list")>>
  /\ UNCHANGED <<scoped, sess, wire, presence, lastPing, db>>

\* typing_start and typing_stop go to the whole workspace, the sender included.
Typing ==
  /\ Serve({"typing_start", "typing_stop"})
  /\ outbox' = <<Broadcast(Members(sess[Sender].ws), "typing_update")>>
  /\ UNCHANGED <<scoped, sess, wire, presence, lastPing, db>>

\* ping, the call events (answered by the NoopManager) and any other type.
Reply ==
  /\ \/ Serve({"ping"}) /\ outbox' = <<Tell(Sender, "pong")>>
     \/ Serve({"call"}) /\ outbox' = <<Tell(Sender, "call_state_update")>>
     \/ Serve({"unsupported"}) /\ Refuse
  /\ UNCHANGED <<scoped, sess, wire, presence, lastPing, db>>
-----------------------------------------------------------------------------
(* Pings between users, and their cooldown per user, scope and effect.     *)

NormalizePingEffect(t) == IF Clean(t) \in {"flash", "fku"} THEN Clean(t) ELSE "normal"

\* No upper bound on the duration that was asked for.
PingEffectUnbounded(effect, override) ==
  IF override > 0 THEN IF override < 900 THEN 900 ELSE override
  ELSE CASE effect = "flash" -> 1600 [] effect = "fku" -> 3200 [] OTHER -> 900

\* pingEffectDuration, in milliseconds.
PingEffectDuration(effect, override) ==
  IF override > 0 THEN IF override < 900 THEN 900 ELSE IF override > 10000 THEN 10000 ELSE override
  ELSE CASE effect = "flash" -> 1600 [] effect = "fku" -> 3200 [] OTHER -> 900

\* What the other clients are to show.
Launched(s) ==
  LET effect == NormalizePingEffect(Event.effect)
  IN [from |-> sess[s].user.handle, effect |-> effect, ms |-> PingEffectDuration(effect, Event.ms)]

\* A cooldown that overlooks the scope.
CooldownOneForAll(key) == 3 + (IF key[3] # "normal" THEN 2 ELSE 0)

Cooldown(key) ==
  (IF key[2] = "all" THEN 8 ELSE 3) + (IF key[3] # "normal" THEN 2 ELSE 0)

CoolingDown(key) == key \in DOMAIN lastPing /\ now - lastPing[key] < Cooldown(key)

\* The cooldown starts before anything is delivered; the first delivery is
\* made here because whether it reached anyone decides the rest.
PingUser ==
  LET s == Sender
      me == sess[s]
      target == NormalizeHandle(Event.handle)
      key == <<me.user.id, "user", NormalizePingEffect(Event.effect)>>
      to == {t \in Members(me.ws) : sess[t].user.handle = target}
      reached == \E t \in to : HasRoom(t)
      valid == /\ me.ws # Blank /\ ValidHandle(Event.handle)
               /\ target # me.user.handle /\ ~CoolingDown(key)
  IN /\ Serve({"ping_user"})
     /\ \/ ~valid /\ Refuse /\ UNCHANGED <<wire, lastPing>>
        \/ /\ valid
           /\ lastPing' = With(lastPing, key, now)
           /\ Deliver(to, Envelope("ping_received"))
           /\ outbox' = IF reached
                THEN <<PingEffect(to, Launched(s)), Broadcast(to, "system_notice"),
                       Tell(s, "system_notice")>>
                ELSE <<Error(s)>>
     /\ UNCHANGED <<scoped, sess, presence, db>>

PingAll ==
  LET s == Sender
      me == sess[s]
      key == <<me.user.id, "all", NormalizePingEffect(Event.effect)>>
      to == Members(me.ws) \ {s}
      valid == me.ws # Blank /\ ~CoolingDown(key)
  IN /\ Serve({"ping_all"})
     /\ \/ ~valid /\ Refuse /\ UNCHANGED lastPing
        \/ /\ valid
           /\ lastPing' = With(lastPing, key, now)
           /\ outbox' = <<Broadcast(to, "ping_received"), PingEffect(to, Launched(s)),
                          Tell(s, "system_notice")>>
     /\ UNCHANGED <<scoped, sess, wire, presence, db>>
-----------------------------------------------------------------------------
\* handleInUse: another live session of the workspace carries the handle.
HandleInUse(s, h) ==
  \E t \in (IF sess[s].ws = Blank THEN sessions ELSE Members(sess[s].ws)) \ {s} :
    sess[t].user.handle = h

\* Only the renaming session's copy of the user is refreshed; other sessions
\* of the same user keep the old handle.
ChangeHandle ==
  LET s == Sender
      me == sess[s]
      u == me.user.id
      h == NormalizeHandle(Event.handle)
      key == <<me.ws, u>>
      all == Members(me.ws)
      valid == /\ u # NoUser /\ ValidHandle(Event.handle) /\ h # me.user.handle
               /\ ~HandleInUse(s, h) /\ ~HandleTaken(db, u, h)
      users == UsersList(all, ListWorkspaceUsers(UpdateUserHandle(db, u, h), me.ws))
      told == {<<users>>} \cup (IF "ListWorkspaceUsers" \in Faults THEN {<<>>} ELSE {})
  IN /\ Serve({"change_handle"})
     /\ \/ /\ ~valid \/ "UpdateUserHandle" \in Faults
           /\ Refuse /\ UNCHANGED <<sess, presence, db>>
        \/ /\ valid
           /\ db' = UpdateUserHandle(db, u, h)
           /\ sess' = [sess EXCEPT ![s].user.handle = h]
           /\ presence' = PresenceRename(presence, key, h)
           /\ \E list \in told :
                outbox' = (IF key \in DOMAIN presence
                             THEN <<PresenceUpdate(all, {presence'[key]})>> ELSE <<>>)
                          \o list
                          \o <<Identified(s, h), HandleChanged(all, me.user.handle, h),
                               Broadcast(all, "system_notice")>>
     /\ UNCHANGED <<scoped, wire, lastPing>>
-----------------------------------------------------------------------------
Handle ==
  \/ Identify \/ JoinWorkspaceRefused \/ JoinWorkspaceAbandoned \/ JoinWorkspace
  \/ JoinChannel \/ SendMessage \/ RequestHistory \/ RequestUsers \/ RequestChannels
  \/ Typing \/ Reply \/ PingUser \/ PingAll \/ ChangeHandle

\* The client's next event, while its script lasts.
ReadScript(s) ==
  /\ todo[s] # <<>>
  /\ \E e \in Head(todo[s]) : Read(s, e)
  /\ todo' = [todo EXCEPT ![s] = Tail(@)]

Pump(s) == Register(s) \/ ReadScript(s) \/ EndRead(s) \/ WriteOut(s) \/ RemoveSession(s)

Next ==
  \/ \E s \in Session : Pump(s)
  \/ \E b \in spawned : RunSpawned(b)
  \/ Post \/ Tick \/ Handle

Spec == Init /\ [][Next]_vars

(***************************************************************************)
(* Fairness: the hub goroutine and the spawned goroutines keep running.    *)
(* Go's select takes a case at random, so an Unregister that is offered at *)
(* every turn of the loop is taken.  Nothing is assumed of the peers.      *)
(***************************************************************************)
Fairness ==
  /\ WF_vars(Post) /\ SF_vars(Handle)
  /\ \A s \in Session : SF_vars(RemoveSession(s))
  /\ WF_vars(\E b \in spawned : RunSpawned(b))

FairSpec == Spec /\ Fairness
-----------------------------------------------------------------------------
(* Properties.                                                             *)

SessionRecord ==
  [token : Text, pending : HandlePattern \cup {Blank},
   user : [id : Nat, handle : HandlePattern \cup {Blank}], ws : Text, current : Channel]
Fingerprints == {RemoteIP[s] : s \in Session} \X Text
EnvelopeType == [type : ServerEvent, chan : Channel, msgs : Seq(Nat),
                 pres : SUBSET [handle : Text, channel : Text, online : BOOLEAN],
                 users : SUBSET [id : Nat, handle : Text], old : Text, handle : Text,
                 effect : [from : Text, effect : Text \cup {"normal"}, ms : Nat]]

\* The session fields, the waiting events and the tables have their types.
CoreTypes ==
  /\ sess \in [Session -> SessionRecord]
  /\ inbound \in Seq([from : Session, event : EventType])
  /\ db \in Database(Fingerprints)

\* Ids refer to rows that exist.
ReferencesOK ==
  /\ \A s \in Session : sess[s].ws # Blank => sess[s].user.id \in DOMAIN db.users
  /\ \A r \in db.devices : r.user \in DOMAIN db.users
  /\ db.members \subseteq Text \X DOMAIN db.users
  /\ db.inChannel \subseteq db.channels \X DOMAIN db.users
  /\ DOMAIN presence \subseteq Text \X DOMAIN db.users

\* What is queued for delivery, and the capacities of the two channels.
QueuesOK ==
  /\ Len(inbound) <= InboundCap
  /\ \A s \in Session : sendq[s] \in Seq(EnvelopeType) /\ Len(sendq[s]) <= SendCap
  /\ \A i \in DOMAIN outbox : outbox[i].to \subseteq Session /\ outbox[i].env \in EnvelopeType
  /\ \A b \in spawned : b.env \in EnvelopeType

\* The state has the types the Go and SQL declarations give it.
TypeOK ==
  /\ link \in [Session -> {"new", "reading", "ended", "gone"}] /\ todo \in [Session -> Seq(SUBSET ClientEvent)]
  /\ sessions \cup closed \cup lost \subseteq Session
  /\ scoped \subseteq (Text \ {Blank}) \X Session
  /\ now \in 0..MaxTime /\ \A k \in DOMAIN lastPing : lastPing[k] \in 0..now
  /\ CoreTypes /\ ReferencesOK /\ QueuesOK

\* Whatever mix of joins, leaves, renames and failing queries came before, a
\* stored message was written by a member of the workspace it is filed under
\* (the hub files it by the session's fields, not by a query).
AuthorsAreMembers ==
  \A i \in DOMAIN db.messages : <<db.messages[i].ws, db.messages[i].user>> \in db.members

\* A stored message belongs to an existing channel of its own workspace, and
\* its author had been added to that channel, even when queries fail half-way
\* through a join.
MessagesFiled ==
  \A i \in DOMAIN db.messages : LET m == db.messages[i] IN
    /\ m.chan \in db.channels /\ m.chan[1] = m.ws
    /\ <<m.chan, m.user>> \in db.inChannel

\* The joins and renames keep the constraints of the schema, so that no insert
\* trips on them, and the copied owner_handle never goes stale.
TablesConsistent == HandlesUnique(db) /\ DevicesUnique(db) /\ OwnersConsistent(db)

\* The presence pane names a user as the users table does, through renames by
\* any session of that user (in an instance with one workspace).
PresenceHandleFresh == \A k \in DOMAIN presence : presence[k].handle = db.users[k[2]]

\* Somebody shown online has a session in the hub's map for the workspace.
OnlineIsAttached ==
  \A k \in DOMAIN presence : presence[k].online =>
    \E s \in Members(k[1]) : sess[s].user.id = k[2]

\* A session in the hub's map is shown online while it is connected, when no
\* other session is the same user's.
SoleSessionIsOnline ==
  \A s \in sessions : \A ws \in Text :
    /\ <<ws, s>> \in scoped
    /\ \A t \in Session \ {s} : sess[t].user.id # sess[s].user.id
    => presence[<<ws, sess[s].user.id>>].online

\* README.md:281, "online status": a user who is connected is shown online.
ConnectedMeansOnline ==
  \A s \in sessions : \A ws \in Text :
    <<ws, s>> \in scoped => presence[<<ws, sess[s].user.id>>].online

\* What waits in a session's channel is news of its own workspace only.
QueuedForOwnWorkspace ==
  \A s \in Session : \A i \in DOMAIN sendq[s] : \A j \in DOMAIN sendq[s][i].msgs :
    db.messages[sendq[s][i].msgs[j]].ws = sess[s].ws

\* Two accepted pings of one user, scope and effect are at least the documented
\* cooldown apart, whichever of the user's sessions sends them.
PingsRateLimited ==
  [][\A k \in DOMAIN lastPing :
       \/ lastPing'[k] = lastPing[k]
       \/ lastPing'[k] - lastPing[k] >= (IF k[2] = "all" THEN 8 ELSE 3)]_vars

\* Peers that read nothing cannot stop the hub: every event handed over is
\* handled and every session that leaves is removed.
EventsHandled == inbound # <<>> ~> inbound = <<>>
LeaversRemoved == \A s \in Session : link[s] = "ended" ~> link[s] = "gone"
=============================================================================
