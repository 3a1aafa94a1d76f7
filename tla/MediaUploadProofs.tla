------------------------- MODULE MediaUploadProofs -------------------------
(***************************************************************************)
(* Proofs about MediaUpload.tla, for any requests, forms, scripts, queue   *)
(* capacities and any set of steps that may fail.  What is said of files   *)
(* and records assumes nothing of the forms.  What is said of the tables   *)
(* assumes HandlesValid, since no code validates the handle of an upload;  *)
(* UploadsFiled also assumes one workspace per connection and that joins   *)
(* leave the account of a session alone.                                   *)
(***************************************************************************)
EXTENDS MediaUpload, HubProofs

TableName == {"users", "workspaces", "devices", "members", "channels", "inChannel", "messages"}

\* A sequence, of whatever it holds.
IsList(q) == q \in Seq({q[i] : i \in DOMAIN q})

\* As much of the database's type as the handlers keep whatever they are sent.
IsDatabase(d) ==
  /\ d = [t \in TableName |-> d[t]]
  /\ IsList(d.messages)

\* The message that a row or an asset is about.
MediaMessage(r) == [ws |-> r.ws, chan |-> r.chan, user |-> r.user, type |-> "media"]
IsFiled(r) == r.msg \in DOMAIN db.messages /\ db.messages[r.msg] = MediaMessage(r)

\* What a handler has done by the step it is at.
RowKept(u) ==
  /\ row[u] = [ws |-> row[u].ws, user |-> row[u].user, chan |-> row[u].chan, msg |-> row[u].msg]
  /\ at[u] \in {"object", "asset", "publish", "done"} => IsFiled(row[u])
  /\ at[u] \in {"asset", "publish", "done"} => row[u].msg \in objects
  /\ at[u] \in {"publish", "done"} => row[u] \in assets

RowsKept ==
  /\ at \in [Upload -> Step] /\ row = [u \in Upload |-> row[u]]
  /\ \A u \in Upload : RowKept(u)

AssetsKept == \A a \in assets : IsFiled(a) /\ a.msg \in objects

\* An envelope that announces a media message announces one that the database
\* d and the assets A have.
Openable(env, d, A) ==
  env.type = "message_new" =>
    \A j \in DOMAIN env.msgs :
      /\ env.msgs[j] \in DOMAIN d.messages
      /\ d.messages[env.msgs[j]].type = "media" => \E a \in A : a.msg = env.msgs[j]

QueueOpenable(q, d, A)  == IsList(q) /\ \A i \in DOMAIN q : Openable(q[i], d, A)
OutboxOpenable(q, d, A) == IsList(q) /\ \A i \in DOMAIN q : Openable(q[i].env, d, A)

\* The inductive invariant: what waits to be delivered is already recorded.
MediaInv ==
  /\ IsDatabase(db) /\ RowsKept /\ AssetsKept
  /\ \A s \in Session : QueueOpenable(sendq[s], db, assets)
  /\ OutboxOpenable(outbox, db, assets)
  /\ \A b \in spawned : b.env.type # "message_new"

-----------------------------------------------------------------------------
(* The store's methods: which of them touch the messages.                  *)

LEMMA SeqOver ==
  ASSUME NEW S, NEW q \in Seq(S)
  PROVE  /\ IsList(q)
         /\ \A i \in DOMAIN q : q[i] \in S
<1>1. Len(q) \in Nat /\ q \in [1..Len(q) -> S] /\ DOMAIN q = 1..Len(q)
  BY LenProperties
<1>2. q \in [1..Len(q) -> {q[i] : i \in DOMAIN q}]
  BY <1>1
<1> QED BY <1>1, <1>2, SeqDef DEF IsList

\* Replacing a table other than the messages leaves them alone.
LEMMA OtherTable ==
  ASSUME NEW d, IsDatabase(d), NEW x
  PROVE  /\ IsDatabase([d EXCEPT !.users = x]) /\ [d EXCEPT !.users = x].messages = d.messages
         /\ IsDatabase([d EXCEPT !.workspaces = x]) /\ [d EXCEPT !.workspaces = x].messages = d.messages
         /\ IsDatabase([d EXCEPT !.devices = x]) /\ [d EXCEPT !.devices = x].messages = d.messages
         /\ IsDatabase([d EXCEPT !.members = x]) /\ [d EXCEPT !.members = x].messages = d.messages
         /\ IsDatabase([d EXCEPT !.channels = x]) /\ [d EXCEPT !.channels = x].messages = d.messages
         /\ IsDatabase([d EXCEPT !.inChannel = x]) /\ [d EXCEPT !.inChannel = x].messages = d.messages
<1> DEFINE Kept(e) == IsDatabase(e) /\ e.messages = d.messages
<1>1. ASSUME NEW t \in TableName \ {"messages"} PROVE Kept([d EXCEPT ![t] = x])
  <2> DEFINE e == [d EXCEPT ![t] = x]
  <2>1. e = [k \in TableName |-> IF k = t THEN x ELSE d[k]]
    BY DEF IsDatabase
  <2>2. e = [k \in TableName |-> e[k]] /\ e.messages = d.messages
    BY <2>1 DEF TableName
  <2> HIDE DEF e
  <2> QED BY <2>2 DEF IsDatabase
<1> QED BY <1>1 DEF TableName

LEMMA JoinKeepsMessages ==
  ASSUME NEW d, IsDatabase(d), NEW ws, NEW code, NEW fp, NEW handle
  PROVE  LET e == JoinWorkspaceTx(d, ws, code, fp, handle) IN
         IsDatabase(e) /\ e.messages = d.messages
<1> DEFINE Kept(e) == IsDatabase(e) /\ e.messages = d.messages
           u == JoiningUser(d, ws, fp, handle)
           withUser == IF KnownDevice(d, ws, fp) THEN d ELSE FindOrCreateUser(d, handle)
           withWorkspace == IF KnownWorkspace(d, ws) THEN withUser
                            ELSE InsertWorkspace(withUser, ws, code, u)
           joined == JoinTables(d, ws, code, fp, handle)
<1> HIDE DEF u
<1>1. Kept(withUser)
  BY OtherTable DEF FindOrCreateUser
<1>2. Kept(withWorkspace)
  <2> HIDE DEF withUser
  <2> QED BY <1>1, OtherTable DEF InsertWorkspace
<1>3. joined = IF KnownDevice(d, ws, fp) THEN withWorkspace ELSE UpsertDevice(withWorkspace, ws, fp, u)
  BY DEF JoinTables, u
<1> HIDE DEF joined, withWorkspace
<1>4. Kept(joined)
  BY <1>2, <1>3, OtherTable DEF UpsertDevice
<1> QED BY <1>4, OtherTable DEF JoinWorkspaceTx, AddWorkspaceMember, joined, u

LEMMA ChannelsKeepMessages ==
  ASSUME NEW d, IsDatabase(d), NEW a, NEW b
  PROVE  /\ IsDatabase(EnsureChannel(d, a, b)) /\ EnsureChannel(d, a, b).messages = d.messages
         /\ IsDatabase(AddChannelMember(d, a, b)) /\ AddChannelMember(d, a, b).messages = d.messages
  BY OtherTable DEF EnsureChannel, AddChannelMember

LEMMA RenameKeepsMessages ==
  ASSUME NEW d, IsDatabase(d), NEW u, NEW h
  PROVE  IsDatabase(UpdateUserHandle(d, u, h)) /\ UpdateUserHandle(d, u, h).messages = d.messages
<1> DEFINE x == [d.users EXCEPT ![u] = h]
           y == {IF w.owner = u THEN [w EXCEPT !.ownerHandle = h] ELSE w : w \in d.workspaces}
           renamed == [d EXCEPT !.users = x]
<1>1. UpdateUserHandle(d, u, h) = [renamed EXCEPT !.workspaces = y]
  BY DEF UpdateUserHandle, IsDatabase, TableName
<1> HIDE DEF x, y
<1>2. IsDatabase(renamed) /\ renamed.messages = d.messages
  BY OtherTable
<1> DEFINE e == [renamed EXCEPT !.workspaces = y]
<1> HIDE DEF renamed
<1>3. IsDatabase(e) /\ e.messages = renamed.messages
  BY <1>2, OtherTable
<1>4. UpdateUserHandle(d, u, h) = e
  BY <1>1 DEF renamed
<1> HIDE DEF e
<1> QED BY <1>2, <1>3, <1>4

\* A saved message is the last one, under a new id; the others stay.
LEMMA SaveAppends ==
  ASSUME NEW d, IsDatabase(d), NEW ws, NEW chan, NEW u, NEW type
  PROVE  LET e == SaveMessage(d, ws, chan, u, type)
             id == Len(d.messages) + 1
         IN /\ IsDatabase(e) /\ Len(e.messages) = id /\ id \notin DOMAIN d.messages
            /\ DOMAIN e.messages = DOMAIN d.messages \cup {id}
            /\ e.messages[id] = [ws |-> ws, chan |-> chan, user |-> u, type |-> type]
            /\ \A i \in DOMAIN d.messages : e.messages[i] = d.messages[i]
<1> DEFINE e == SaveMessage(d, ws, chan, u, type)
           r == [ws |-> ws, chan |-> chan, user |-> u, type |-> type]
           S == {d.messages[i] : i \in DOMAIN d.messages}
           q == Append(d.messages, r)
<1>1. d.messages \in Seq(S) /\ d.messages \in Seq(S \cup {r})
  BY SeqMonotonic DEF IsDatabase, IsList
<1> HIDE DEF S, r
<1>2. /\ q \in Seq(S \cup {r}) /\ Len(q) = Len(d.messages) + 1
      /\ Len(d.messages) \in Nat /\ DOMAIN d.messages = 1..Len(d.messages)
      /\ DOMAIN q = 1..Len(q) /\ q[Len(d.messages) + 1] = r
      /\ \A i \in DOMAIN d.messages : q[i] = d.messages[i]
  BY <1>1, AppendProperties, LenProperties
<1>3. e = [k \in TableName |-> IF k = "messages" THEN q ELSE d[k]]
  <2>1. e = [d EXCEPT !.messages = q]
    BY DEF SaveMessage, r
  <2> HIDE DEF q, e
  <2> QED BY <2>1 DEF IsDatabase
<1> HIDE DEF q
<1>4. e.messages = q /\ e = [k \in TableName |-> e[k]]
  BY <1>3 DEF TableName
<1>5. IsList(q)
  BY <1>2, SeqOver
<1> HIDE DEF e
<1>6. IsDatabase(e)
  BY <1>4, <1>5 DEF IsDatabase
<1> QED BY <1>2, <1>4, <1>6 DEF r, e
-----------------------------------------------------------------------------
(* What waits to be delivered stays openable.                              *)

\* Messages are never changed or deleted.
MessagesGrow(d, e) ==
  \A i \in DOMAIN d.messages : i \in DOMAIN e.messages /\ e.messages[i] = d.messages[i]

LEMMA OpenableStays ==
  ASSUME NEW env, NEW d, NEW A, NEW e, NEW B, MessagesGrow(d, e), A \subseteq B, Openable(env, d, A)
  PROVE  Openable(env, e, B)
  BY DEF Openable, MessagesGrow

LEMMA QueueStays ==
  ASSUME NEW q, NEW d, NEW A, NEW e, NEW B, MessagesGrow(d, e), A \subseteq B
  PROVE  /\ QueueOpenable(q, d, A) => QueueOpenable(q, e, B)
         /\ OutboxOpenable(q, d, A) => OutboxOpenable(q, e, B)
  BY OpenableStays DEF QueueOpenable, OutboxOpenable

LEMMA QueueAppend ==
  ASSUME NEW q, NEW d, NEW A, NEW env, QueueOpenable(q, d, A), Openable(env, d, A)
  PROVE  QueueOpenable(Append(q, env), d, A)
<1> DEFINE S == {q[i] : i \in DOMAIN q} \cup {env}
<1>1. q \in Seq({q[i] : i \in DOMAIN q}) /\ \A x \in S : Openable(x, d, A)
  BY DEF QueueOpenable, IsList
<1>2. q \in Seq(S) /\ env \in S
  BY <1>1, SeqMonotonic
<1> HIDE DEF S
<1>3. Append(q, env) \in Seq(S)
  BY <1>2, AppendProperties
<1> QED BY <1>1, <1>3, SeqOver DEF QueueOpenable

LEMMA QueueTail ==
  ASSUME NEW q, NEW d, NEW A, q # <<>>
  PROVE  /\ QueueOpenable(q, d, A) => QueueOpenable(Tail(q), d, A)
         /\ OutboxOpenable(q, d, A) => OutboxOpenable(Tail(q), d, A) /\ Openable(Head(q).env, d, A)
<1> SUFFICES ASSUME IsList(q)
             PROVE  /\ QueueOpenable(q, d, A) => QueueOpenable(Tail(q), d, A)
                    /\ OutboxOpenable(q, d, A)
                         => OutboxOpenable(Tail(q), d, A) /\ Openable(Head(q).env, d, A)
  BY DEF QueueOpenable, OutboxOpenable
<1> DEFINE S == {q[i] : i \in DOMAIN q}
<1>1. q \in Seq(S)
  BY DEF IsList
<1>2. (\A x \in S : \E i \in DOMAIN q : x = q[i])
  OBVIOUS
<1> HIDE DEF S
<1>3. Head(q) \in S /\ Tail(q) \in Seq(S)
  BY <1>1, HeadTailProperties
<1>4. IsList(Tail(q)) /\ \A i \in DOMAIN Tail(q) : Tail(q)[i] \in S
  BY <1>3, SeqOver
<1> QED BY <1>2, <1>3, <1>4 DEF QueueOpenable, OutboxOpenable

LEMMA DeliverOpenable ==
  ASSUME NEW to, NEW env, NEW d, NEW A, Deliver(to, env), Openable(env, d, A),
         \A s \in Session : QueueOpenable(sendq[s], d, A)
  PROVE  \A s \in Session : QueueOpenable(sendq'[s], d, A)
<1> SUFFICES ASSUME NEW s \in Session PROVE QueueOpenable(sendq'[s], d, A)
  OBVIOUS
<1>1. sendq'[s] \in {sendq[s], Append(sendq[s], env)}
  BY DEF Deliver
<1> QED BY <1>1, QueueAppend

\* An outbox of broadcasts that are openable one by one.
LEMMA OutboxOf ==
  ASSUME NEW S, NEW q \in Seq(S), NEW d, NEW A, \A o \in S : Openable(o.env, d, A)
  PROVE  OutboxOpenable(q, d, A)
  BY SeqOver DEF OutboxOpenable

LEMMA FewOpenable ==
  ASSUME NEW d, NEW A, NEW o, NEW p, NEW r,
         Openable(o.env, d, A), Openable(p.env, d, A), Openable(r.env, d, A)
  PROVE  /\ OutboxOpenable(<<o>>, d, A) /\ OutboxOpenable(<<o, p>>, d, A)
         /\ OutboxOpenable(<<o, p, r>>, d, A)
<1> DEFINE S == {o, p, r}
<1>1. <<o>> \in Seq(S) /\ <<o, p>> \in Seq(S) /\ <<o, p, r>> \in Seq(S)
  OBVIOUS
<1>2. \A x \in S : Openable(x.env, d, A)
  OBVIOUS
<1> HIDE DEF S
<1> QED BY <1>1, <1>2, OutboxOf

\* The other broadcasts announce no message.
LEMMA PlainOpenable ==
  ASSUME NEW d, NEW A, NEW s, NEW to, NEW x, NEW y
  PROVE  /\ Openable(Error(s).env, d, A) /\ Openable(ChannelJoined(s, x).env, d, A)
         /\ Openable(WorkspaceJoined(s, x, y).env, d, A) /\ Openable(Identified(s, x).env, d, A)
         /\ Openable(UsersList(to, x).env, d, A) /\ Openable(HandleChanged(to, x, y).env, d, A)
         /\ Openable(PingEffect(to, x).env, d, A) /\ Openable(PresenceUpdate(to, x).env, d, A)
         /\ Openable(HistoryBatch(s, x, y).env, d, A)
         /\ \A type \in {"channels_list", "system_notice", "user_joined", "typing_update", "pong",
                         "call_state_update", "ping_received"} :
              /\ Openable(Tell(s, type).env, d, A) /\ Openable(Broadcast(to, type).env, d, A)
              /\ Openable(Envelope(type), d, A)
  BY DEF Openable, Error, ChannelJoined, WorkspaceJoined, Identified, UsersList, HandleChanged, PingEffect,
         PresenceUpdate, HistoryBatch, Tell, Broadcast, Envelope
-----------------------------------------------------------------------------
(* The hub's handlers.                                                     *)

\* What a handler leaves: messages are only added, and none of media.
HandlerKeeps ==
  /\ IsDatabase(db') /\ MessagesGrow(db, db')
  /\ \A A : OutboxOpenable(outbox', db', A)

\* The handlers that change no table.
LEMMA ReplyKeeps ==
  ASSUME IsDatabase(db),
         \/ (Identify /\ outbox' # outbox) \/ JoinWorkspaceRefused \/ RequestHistory \/ RequestUsers
         \/ RequestChannels \/ Typing \/ Reply \/ PingUser \/ PingAll
  PROVE  HandlerKeeps
<1>1. IsDatabase(db') /\ MessagesGrow(db, db')
  BY DEF MessagesGrow, Identify, JoinWorkspaceRefused, RequestHistory, RequestUsers, RequestChannels,
         Typing, Reply, PingUser, PingAll
<1>2. ASSUME NEW A PROVE OutboxOpenable(outbox', db', A)
  <2> DEFINE Fine(o) == Openable(o.env, db', A)
  <2>1. ASSUME NEW o, NEW p, NEW r, Fine(o), Fine(p), Fine(r), outbox' \in {<<o>>, <<o, p>>, <<o, p, r>>}
        PROVE OutboxOpenable(outbox', db', A)
    BY <2>1, FewOpenable
  <2>4. CASE Refuse
    <3>1. Fine(Error(Sender))
      BY PlainOpenable
    <3> HIDE DEF Fine
    <3> QED BY <2>1, <2>4, <3>1 DEF Refuse
  <2>5. CASE RequestHistory /\ ~Refuse
    <3>1. PICK history \in SendHistory(Sender, db, sess[Sender].current) : outbox' = <<history>>
      BY <2>5 DEF RequestHistory
    <3>2. Fine(history)
      BY PlainOpenable DEF SendHistory
    <3> HIDE DEF Fine
    <3> QED BY <2>1, <3>1, <3>2
  <2>6. CASE RequestUsers /\ ~Refuse
    <3> DEFINE o == UsersList({Sender}, ListWorkspaceUsers(db, sess[Sender].ws))
               q == PresenceUpdate({Sender}, Snapshot(presence, sess[Sender].ws))
    <3>1. outbox' = <<o, q>>
      BY <2>6 DEF RequestUsers
    <3>2. Fine(o) /\ Fine(q)
      BY PlainOpenable
    <3> HIDE DEF Fine, o, q
    <3> QED BY <2>1, <3>1, <3>2
  <2>7. CASE (RequestChannels \/ Typing \/ Reply) /\ ~Refuse
    <3>1. PICK type \in {"channels_list", "typing_update", "pong", "call_state_update"} :
            outbox' \in {<<Tell(Sender, type)>>, <<Broadcast(Members(sess[Sender].ws), type)>>}
      BY <2>7 DEF RequestChannels, Typing, Reply
    <3>2. Fine(Tell(Sender, type)) /\ Fine(Broadcast(Members(sess[Sender].ws), type))
      BY PlainOpenable
    <3> HIDE DEF Fine
    <3> QED BY <2>1, <3>1, <3>2
  <2>8. CASE PingUser /\ ~Refuse
    <3>1. PICK to : outbox' \in {<<PingEffect(to, Launched(Sender)), Broadcast(to, "system_notice"),
                                Tell(Sender, "system_notice")>>, <<Error(Sender)>>}
      BY <2>8 DEF PingUser
    <3>2. /\ Fine(PingEffect(to, Launched(Sender))) /\ Fine(Broadcast(to, "system_notice"))
          /\ Fine(Tell(Sender, "system_notice")) /\ Fine(Error(Sender))
      BY PlainOpenable
    <3> HIDE DEF Fine
    <3> QED BY <2>1, <3>1, <3>2
  <2>9. CASE PingAll /\ ~Refuse
    <3>1. PICK to : outbox' = <<Broadcast(to, "ping_received"), PingEffect(to, Launched(Sender)),
                                Tell(Sender, "system_notice")>>
      BY <2>9 DEF PingAll
    <3>2. /\ Fine(PingEffect(to, Launched(Sender))) /\ Fine(Broadcast(to, "ping_received"))
          /\ Fine(Tell(Sender, "system_notice"))
      BY PlainOpenable
    <3> HIDE DEF Fine
    <3> QED BY <2>1, <3>1, <3>2
  <2>10. Identify /\ outbox' # outbox => Refuse
    BY DEF Identify
  <2>11. JoinWorkspaceRefused => Refuse
    BY DEF JoinWorkspaceRefused
  <2> QED BY <2>4, <2>5, <2>6, <2>7, <2>8, <2>9, <2>10, <2>11
<1> QED BY <1>1, <1>2 DEF HandlerKeeps
LEMMA JoinWorkspaceKeeps ==
  ASSUME IsDatabase(db), JoinWorkspaceAbandoned \/ JoinWorkspace
  PROVE  HandlerKeeps
<1>1. \A d \in {JoinedDB, WithLobby, InLobby} : IsDatabase(d) /\ d.messages = db.messages
  <2>1. IsDatabase(JoinedDB) /\ JoinedDB.messages = db.messages
    BY JoinKeepsMessages DEF JoinedDB
  <2>2. IsDatabase(WithLobby) /\ WithLobby.messages = db.messages
    BY <2>1, ChannelsKeepMessages DEF WithLobby
  <2>3. IsDatabase(InLobby) /\ InLobby.messages = db.messages
    BY <2>2, ChannelsKeepMessages DEF InLobby
  <2> QED BY <2>1, <2>2, <2>3
<1>2. db' \in {JoinedDB, WithLobby, InLobby}
  BY DEF JoinWorkspaceAbandoned, JoinWorkspace
<1>3. ASSUME NEW A PROVE OutboxOpenable(outbox', db', A)
  <2>1. CASE JoinWorkspaceAbandoned
    <3> DEFINE o == Identified(Sender, JoinedSess[Sender].user.handle)
               p == Error(Sender)
    <3>1. outbox' = <<o, p>>
      BY <2>1 DEF JoinWorkspaceAbandoned
    <3>2. Openable(o.env, db', A) /\ Openable(p.env, db', A)
      BY PlainOpenable
    <3> HIDE DEF o, p
    <3> QED BY <3>1, <3>2, FewOpenable
  <2>2. CASE JoinWorkspace
    <3> DEFINE handle == JoinedSess[Sender].user.handle
               all == Members(JoinTarget) \cup {Sender}
               e1 == Identified(Sender, handle)
               e2 == WorkspaceJoined(Sender, InLobby, Lobby)
               e3 == UsersList({Sender}, ListWorkspaceUsers(InLobby, JoinTarget))
               e4 == Tell(Sender, "channels_list")
               e5 == ChannelJoined(Sender, Lobby)
               e6 == Tell(Sender, "system_notice")
               e8 == PresenceUpdate(all, Snapshot(presence', JoinTarget))
               e9 == Broadcast(all, "user_joined")
    <3>1. PICK e7 \in SendHistory(Sender, InLobby, Lobby) : outbox' = <<e1, e2, e3, e4, e5, e6, e7, e8, e9>>
      BY <2>2 DEF JoinWorkspace
    <3> DEFINE S == {e1, e2, e3, e4, e5, e6, e7, e8, e9}
    <3>2. \A o \in S : Openable(o.env, db', A)
      BY PlainOpenable DEF SendHistory
    <3> HIDE DEF e1, e2, e3, e4, e5, e6, e8, e9
    <3>3. <<e1, e2, e3, e4, e5, e6, e7, e8, e9>> \in Seq(S)
      OBVIOUS
    <3> HIDE DEF S
    <3> QED BY <3>1, <3>2, <3>3, OutboxOf
  <2> QED BY <2>1, <2>2
<1> QED BY <1>1, <1>2, <1>3 DEF HandlerKeeps, MessagesGrow

LEMMA JoinChannelKeeps ==
  ASSUME IsDatabase(db), JoinChannel
  PROVE  HandlerKeeps
<1> DEFINE me == sess[Sender]
           chan == <<me.ws, Clean(Event.channel)>>
           withChan == EnsureChannel(db, me.ws, Event.channel)
           inChan == AddChannelMember(withChan, chan, me.user.id)
<1>1. IsDatabase(withChan) /\ withChan.messages = db.messages
  BY ChannelsKeepMessages
<1> HIDE DEF withChan
<1>2. IsDatabase(inChan) /\ inChan.messages = db.messages
  BY <1>1, ChannelsKeepMessages
<1>3. db' \in {db, withChan, inChan}
  BY DEF JoinChannel, withChan
<1>4. IsDatabase(db') /\ MessagesGrow(db, db')
  BY <1>1, <1>2, <1>3 DEF MessagesGrow
<1>5. ASSUME NEW A PROVE OutboxOpenable(outbox', db', A)
  <2> DEFINE p == PresenceUpdate(Members(me.ws), {presence'[<<me.ws, me.user.id>>]})
             o == ChannelJoined(Sender, chan)
  <2>1. CASE Refuse
    <3>1. Openable(Error(Sender).env, db', A)
      BY PlainOpenable
    <3> QED BY <2>1, <3>1, FewOpenable DEF Refuse
  <2>2. CASE ~Refuse
    <3>1. PICK h \in SendHistory(Sender, db', chan) :
            \/ outbox' = <<p>> \o <<o, h>> \/ outbox' = <<>> \o <<o, h>>
      BY <2>2 DEF JoinChannel
    <3>2. Openable(p.env, db', A) /\ Openable(o.env, db', A) /\ Openable(h.env, db', A)
      BY PlainOpenable DEF SendHistory
    <3> HIDE DEF p, o
    <3>3. outbox' \in {<<p, o, h>>, <<o, h>>}
      BY <3>1
    <3> QED BY <3>2, <3>3, FewOpenable
  <2> QED BY <2>1, <2>2
<1> QED BY <1>4, <1>5 DEF HandlerKeeps

\* The one handler that announces a message, and it is not of media.
LEMMA SendMessageKeeps ==
  ASSUME IsDatabase(db), SendMessage
  PROVE  HandlerKeeps
<1> DEFINE me == sess[Sender]
           kind == IF Event.type = "send_message" THEN "chat" ELSE "emote"
           new == IF Event.type = "send_message" THEN "message_new" ELSE "emote_new"
           saved == SaveMessage(db, me.ws, me.current, me.user.id, kind)
           o == NewMessage(Members(me.ws), new, me.current, Len(db'.messages))
<1>1. CASE Refuse /\ db' = db
  <2>1. \A A : Openable(Error(Sender).env, db', A)
    BY PlainOpenable
  <2>2. \A A : OutboxOpenable(outbox', db', A)
    BY <1>1, <2>1, FewOpenable DEF Refuse
  <2> QED BY <1>1, <2>2 DEF HandlerKeeps, MessagesGrow
<1>2. CASE db' = saved /\ outbox' = <<o>>
  <2>1. kind # "media"
    OBVIOUS
  <2>2. /\ IsDatabase(saved) /\ MessagesGrow(db, saved)
        /\ Len(saved.messages) \in DOMAIN saved.messages
        /\ saved.messages[Len(saved.messages)].type # "media"
    <3> DEFINE id == Len(db.messages) + 1
    <3> HIDE DEF kind
    <3>1. /\ IsDatabase(saved) /\ Len(saved.messages) = id
          /\ DOMAIN saved.messages = DOMAIN db.messages \cup {id}
          /\ saved.messages[id] = [ws |-> me.ws, chan |-> me.current, user |-> me.user.id, type |-> kind]
          /\ \A i \in DOMAIN db.messages : saved.messages[i] = db.messages[i]
      BY SaveAppends
    <3> DEFINE m == saved.messages
    <3> DEFINE stored == [ws |-> me.ws, chan |-> me.current, user |-> me.user.id, type |-> kind]
    <3>2. stored.type = kind /\ m[id] = stored
      BY <3>1
    <3> HIDE DEF saved, id, m, stored
    <3>3. id \in DOMAIN m /\ m[id].type # "media" /\ Len(m) = id
      BY <2>1, <3>1, <3>2 DEF m
    <3>4. MessagesGrow(db, saved)
      BY <3>1 DEF MessagesGrow
    <3> QED BY <3>1, <3>3, <3>4 DEF m
  <2> HIDE DEF saved
  <2>3. o.env.msgs = <<Len(saved.messages)>>
    BY <1>2 DEF NewMessage, Envelope
  <2>4. \A A : Openable(o.env, db', A)
    BY <1>2, <2>2, <2>3 DEF Openable
  <2> HIDE DEF o
  <2> QED BY <1>2, <2>2, <2>4, FewOpenable DEF HandlerKeeps
<1> QED BY <1>1, <1>2, Zenon DEF SendMessage

LEMMA ChangeHandleKeeps ==
  ASSUME IsDatabase(db), ChangeHandle
  PROVE  HandlerKeeps
<1> DEFINE me == sess[Sender]
           u == me.user.id
           h == NormalizeHandle(Event.handle)
           e == UpdateUserHandle(db, u, h)
<1>1. IsDatabase(e) /\ e.messages = db.messages
  BY RenameKeepsMessages
<1>2. db' \in {db, e}
  BY DEF ChangeHandle
<1>3. ASSUME NEW A PROVE OutboxOpenable(outbox', db', A)
  <2> DEFINE all == Members(me.ws)
             p == PresenceUpdate(all, {presence'[<<me.ws, u>>]})
             users == UsersList(all, ListWorkspaceUsers(e, me.ws))
             e1 == Identified(Sender, h)
             e2 == HandleChanged(all, me.user.handle, h)
             e3 == Broadcast(all, "system_notice")
             S == {p, users, e1, e2, e3}
  <2>1. CASE Refuse
    <3>1. Openable(Error(Sender).env, db', A)
      BY PlainOpenable
    <3> QED BY <2>1, <3>1, FewOpenable DEF Refuse
  <2>2. CASE ~Refuse
    <3>1. PICK a \in {<<p>>, <<>>}, b \in {<<users>>, <<>>} : outbox' = a \o b \o <<e1, e2, e3>>
      BY <2>2, Zenon DEF ChangeHandle
    <3>2. \A o \in S : Openable(o.env, db', A)
      BY PlainOpenable
    <3> HIDE DEF p, users, e1, e2, e3
    <3>3. /\ <<>> \in Seq(S) /\ <<p>> \in Seq(S) /\ <<users>> \in Seq(S)
          /\ <<e1, e2, e3>> \in Seq(S)
      BY EmptySeq
    <3> HIDE DEF S
    <3>4. outbox' \in Seq(S)
      BY <3>1, <3>3, ConcatProperties
    <3> QED BY <3>2, <3>4, OutboxOf
  <2> QED BY <2>1, <2>2
<1> QED BY <1>1, <1>2, <1>3 DEF HandlerKeeps, MessagesGrow
\* Every handler: one that leaves the outbox alone replies to nobody.
LEMMA HandleKeeps ==
  ASSUME MediaInv, Handle
  PROVE  IsDatabase(db') /\ MessagesGrow(db, db') /\ OutboxOpenable(outbox', db', assets)
<1>1. IsDatabase(db)
  BY DEF MediaInv
<1>2. CASE Identify /\ outbox' = outbox
  <2>1. db' = db /\ outbox' = outbox
    BY <1>2 DEF Identify
  <2> QED BY <2>1 DEF MediaInv, MessagesGrow
<1>3. HandlerKeeps => IsDatabase(db') /\ MessagesGrow(db, db') /\ OutboxOpenable(outbox', db', assets)
  BY DEF HandlerKeeps
<1> QED BY <1>1, <1>2, <1>3, ReplyKeeps, JoinWorkspaceKeeps, JoinChannelKeeps, SendMessageKeeps, ChangeHandleKeeps
        DEF Handle

\* Messages, assets and objects that only grow leave the rows and assets true.
LEMMA RowStays ==
  ASSUME MessagesGrow(db, db'), assets \subseteq assets', objects \subseteq objects', RowsKept,
         NEW u \in Upload, at'[u] = at[u], row'[u] = row[u]
  PROVE  RowKept(u)'
<1>1. RowKept(u)
  BY DEF RowsKept
<1> QED BY <1>1 DEF RowKept, IsFiled, MediaMessage, MessagesGrow

LEMMA AssetsStay ==
  ASSUME MessagesGrow(db, db'), objects \subseteq objects', AssetsKept, assets' = assets
  PROVE  AssetsKept'
  BY DEF AssetsKept, IsFiled, MediaMessage, MessagesGrow

\* A step of the hub, its pumps or its goroutines.
LEMMA HubStepKeeps ==
  ASSUME MediaInv, UNCHANGED media,
         \/ \E s \in Session : Register(s) \/ ReadScript(s) \/ EndRead(s) \/ WriteOut(s) \/ RemoveSession(s)
         \/ \E b \in spawned : RunSpawned(b)
         \/ Post \/ Handle
  PROVE  MediaInv'
<1>1. UNCHANGED <<at, row, assets, objects>>
  BY DEF media
<1>2. /\ IsDatabase(db) /\ RowsKept /\ AssetsKept
      /\ \A s \in Session : QueueOpenable(sendq[s], db, assets)
      /\ OutboxOpenable(outbox, db, assets) /\ \A b \in spawned : b.env.type # "message_new"
  BY DEF MediaInv
<1>3. ASSUME IsDatabase(db'), MessagesGrow(db, db'),
             \A s \in Session : QueueOpenable(sendq'[s], db, assets),
             OutboxOpenable(outbox', db', assets), \A b \in spawned' : b.env.type # "message_new"
      PROVE  MediaInv'
  <2>1. \A u \in Upload : RowKept(u)'
    BY <1>1, <1>2, <1>3, RowStays
  <2>2. RowsKept'
    BY <1>1, <1>2, <2>1 DEF RowsKept
  <2>3. AssetsKept'
    BY <1>1, <1>2, <1>3, AssetsStay
  <2>4. \A s \in Session : QueueOpenable(sendq'[s], db', assets')
    BY <1>1, <1>3, QueueStays
  <2> QED BY <1>1, <1>3, <2>2, <2>3, <2>4 DEF MediaInv
<1>4. db' = db => IsDatabase(db') /\ MessagesGrow(db, db')
  BY <1>2 DEF MessagesGrow
<1>5. ASSUME NEW s \in Session, Register(s) \/ ReadScript(s) \/ EndRead(s) PROVE MediaInv'
  <2>1. UNCHANGED <<db, sendq, outbox, spawned>>
    BY <1>5 DEF Register, ReadScript, Read, EndRead, wire
  <2> QED BY <1>2, <1>3, <1>4, <2>1
<1>6. ASSUME NEW s \in Session, WriteOut(s) PROVE MediaInv'
  <2>1. UNCHANGED <<db, outbox, spawned>> /\ sendq[s] # <<>> /\ sendq' = [sendq EXCEPT ![s] = Tail(@)]
    BY <1>6 DEF WriteOut
  <2>2. \A t \in Session : sendq'[t] = sendq[t] \/ (t = s /\ sendq'[t] = Tail(sendq[t]))
    BY <2>1
  <2>3. \A t \in Session : QueueOpenable(sendq'[t], db, assets)
    BY <1>2, <2>1, <2>2, QueueTail
  <2> QED BY <1>2, <1>3, <1>4, <2>1, <2>3
<1>7. ASSUME NEW s \in Session, RemoveSession(s) PROVE MediaInv'
  <2>1. UNCHANGED <<db, sendq, outbox>>
    BY <1>7 DEF RemoveSession, wire
  <2>2. \A b \in spawned' : b \in spawned \/ b.env.type \in {"presence_update", "user_left"}
    BY <1>7 DEF RemoveSession, Envelope
  <2> QED BY <1>2, <1>3, <1>4, <2>1, <2>2
<1>8. ASSUME NEW b \in spawned, RunSpawned(b) PROVE MediaInv'
  <2>1. UNCHANGED <<db, outbox>> /\ spawned' \subseteq spawned /\ Deliver(Members(b.ws), b.env)
    BY <1>8 DEF RunSpawned
  <2>2. Openable(b.env, db, assets)
    BY <1>2 DEF Openable
  <2>3. \A s \in Session : QueueOpenable(sendq'[s], db, assets)
    BY <1>2, <2>1, <2>2, DeliverOpenable
  <2> QED BY <1>2, <1>3, <1>4, <2>1, <2>3
<1>9. CASE Post
  <2>1. /\ UNCHANGED <<db, spawned>> /\ outbox # <<>> /\ outbox' = Tail(outbox)
        /\ Deliver(Head(outbox).to, Head(outbox).env)
    BY <1>9 DEF Post
  <2>2. OutboxOpenable(outbox', db, assets) /\ Openable(Head(outbox).env, db, assets)
    BY <1>2, <2>1, QueueTail
  <2>3. \A s \in Session : QueueOpenable(sendq'[s], db, assets)
    BY <1>2, <2>1, <2>2, DeliverOpenable
  <2> QED BY <1>2, <1>3, <1>4, <2>1, <2>2, <2>3
<1>10. CASE Handle
  <2>1. spawned' = spawned
    BY <1>10 DEF Handle, Identify, JoinWorkspaceRefused, JoinWorkspaceAbandoned, JoinWorkspace, JoinChannel,
                SendMessage, RequestHistory, RequestUsers, RequestChannels, Typing, Reply, PingUser,
                PingAll, ChangeHandle, Serve
  <2>2. IsDatabase(db') /\ MessagesGrow(db, db') /\ OutboxOpenable(outbox', db', assets)
    BY <1>10, HandleKeeps
  <2>3. \A s \in Session : QueueOpenable(sendq'[s], db, assets)
    <3>1. CASE PingUser /\ ~UNCHANGED wire
      <4>1. PICK to : Deliver(to, Envelope("ping_received"))
        BY <3>1 DEF PingUser
      <4>2. Openable(Envelope("ping_received"), db, assets)
        BY PlainOpenable
      <4> QED BY <1>2, <4>1, <4>2, DeliverOpenable
    <3>2. CASE UNCHANGED wire
      BY <1>2, <3>2 DEF wire
    <3>3. ~PingUser => UNCHANGED wire
      BY <1>10 DEF Handle, Identify, JoinWorkspaceRefused, JoinWorkspaceAbandoned, JoinWorkspace, JoinChannel,
                SendMessage, RequestHistory, RequestUsers, RequestChannels, Typing, Reply, PingAll,
                ChangeHandle
    <3> QED BY <3>1, <3>2, <3>3
  <2> QED BY <1>2, <1>3, <2>1, <2>2, <2>3
<1> QED BY <1>5, <1>6, <1>7, <1>8, <1>9, <1>10
-----------------------------------------------------------------------------
(* The steps of an upload.                                                 *)

\* A step of one upload: its own row is to be shown, the rest follows.
LEMMA UploadKeeps ==
  ASSUME MediaInv, UNCHANGED Others, NEW u \in Upload, NEW to \in Step,
         at' = [at EXCEPT ![u] = to], NEW r, row' = [row EXCEPT ![u] = r], RowKept(u)',
         IsDatabase(db'), MessagesGrow(db, db'), objects \subseteq objects', assets \subseteq assets',
         \A a \in assets' : a \in assets \/ (IsFiled(a)' /\ a.msg \in objects'),
         \A s \in Session : QueueOpenable(sendq'[s], db', assets')
  PROVE  MediaInv'
<1>1. RowsKept /\ AssetsKept /\ OutboxOpenable(outbox, db, assets)
  BY DEF MediaInv
<1>2. RowsKept'
  <2>1. at' \in [Upload -> Step] /\ row' = [v \in Upload |-> row'[v]]
    BY <1>1 DEF RowsKept
  <2>2. ASSUME NEW v \in Upload, v # u PROVE RowKept(v)'
    <3>1. at'[v] = at[v] /\ row'[v] = row[v]
      BY <2>2, <1>1 DEF RowsKept
    <3> QED BY <1>1, <3>1, RowStays
  <2> QED BY <2>1, <2>2 DEF RowsKept
<1>3. AssetsKept'
  BY <1>1 DEF AssetsKept, IsFiled, MediaMessage, MessagesGrow
<1>4. OutboxOpenable(outbox', db', assets') /\ \A b \in spawned' : b.env.type # "message_new"
  BY <1>1, QueueStays DEF Others, MediaInv
<1> QED BY <1>2, <1>3, <1>4 DEF MediaInv

\* What a join fills in of an empty row.
LEMMA LearnRow ==
  ASSUME NEW ws, NEW chan, NEW user
  PROVE  [NoRow EXCEPT !.ws = ws, !.chan = chan, !.user = user]
           = [ws |-> ws, user |-> user, chan |-> chan, msg |-> 0]
<1> DEFINE x == [NoRow EXCEPT !.ws = ws]
           y == [x EXCEPT !.chan = chan]
           z == [y EXCEPT !.user = user]
<1>1. x = [ws |-> ws, user |-> NoUser, chan |-> NoChannel, msg |-> 0]
  BY DEF NoRow
<1> HIDE DEF x
<1>2. y = [ws |-> ws, user |-> NoUser, chan |-> chan, msg |-> 0]
  BY <1>1
<1> HIDE DEF y
<1>3. z = [ws |-> ws, user |-> user, chan |-> chan, msg |-> 0]
  BY <1>2
<1> QED BY <1>3 DEF x, y, z

LEMMA UploadStepKeeps ==
  ASSUME MediaInv, UNCHANGED Others, NEW u \in Upload, UploadStep(u) \/ UploadPublish(u)
  PROVE  MediaInv'
<1>1. /\ IsDatabase(db) /\ RowKept(u) /\ at \in [Upload -> Step] /\ row = [v \in Upload |-> row[v]]
      /\ \A s \in Session : QueueOpenable(sendq[s], db, assets)
  BY DEF MediaInv, RowsKept
\* Steps that leave the row, the assets and the messages alone.
<1>2. ASSUME NEW to \in Step, at' = [at EXCEPT ![u] = to], row' = row, assets' = assets, sendq' = sendq,
             objects \subseteq objects', IsDatabase(db'), db'.messages = db.messages,
             to \in {"object", "asset", "publish", "done"} => at[u] \in {"object", "asset", "publish", "done"},
             to \in {"asset", "publish", "done"} => row[u].msg \in objects',
             to \in {"publish", "done"} => row[u] \in assets
      PROVE  MediaInv'
  <2>1. row' = [row EXCEPT ![u] = row[u]] /\ row'[u] = row[u] /\ at'[u] = to
    BY <1>1, <1>2
  <2>2. MessagesGrow(db, db')
    BY <1>2 DEF MessagesGrow
  <2>3. RowKept(u)'
    BY <1>1, <1>2, <2>1 DEF RowKept, IsFiled, MediaMessage
  <2>4. \A s \in Session : QueueOpenable(sendq'[s], db', assets')
    BY <1>1, <1>2, <2>2, QueueStays
  <2> QED BY <1>2, <2>1, <2>2, <2>3, <2>4, UploadKeeps
<1>3. CASE UploadJoin(u) /\ UNCHANGED wire
  <2>1. UNCHANGED <<assets, objects, sendq>>
    BY <1>3 DEF UploadJoin, wire
  <2>2. PICK f \in Form[u] :
          \/ Goes(u, "join", "failed") /\ UNCHANGED <<db, row>>
          \/ /\ Goes(u, "join", "channel")
             /\ db' = JoinWorkspaceTx(db, Clean(f.workspace), Trim[f.code], UploadFingerprint(f), Clean(f.handle))
             /\ row' = [row EXCEPT ![u] =
                  [NoRow EXCEPT !.ws = Clean(f.workspace),
                                !.chan = <<Clean(f.workspace),
                                           Clean(IF Trim[f.channel] = Blank THEN DefaultRoom ELSE f.channel)>>,
                                !.user = JoiningUser(db, Clean(f.workspace), UploadFingerprint(f), Clean(f.handle))]]
    BY <1>3, Zenon DEF UploadJoin
  <2>3. CASE Goes(u, "join", "failed") /\ UNCHANGED <<db, row>>
    BY <1>1, <1>2, <2>1, <2>3 DEF Goes, Step
  <2>4. ASSUME NEW ws, NEW chan, NEW user, Goes(u, "join", "channel"),
               row' = [row EXCEPT ![u] = [NoRow EXCEPT !.ws = ws, !.chan = chan, !.user = user]],
               db' = JoinWorkspaceTx(db, Clean(f.workspace), Trim[f.code], UploadFingerprint(f), Clean(f.handle))
        PROVE  MediaInv'
    <3> DEFINE r == [ws |-> ws, user |-> user, chan |-> chan, msg |-> 0]
    <3>1. IsDatabase(db') /\ db'.messages = db.messages
      BY <1>1, <2>4, JoinKeepsMessages
    <3>2. [NoRow EXCEPT !.ws = ws, !.chan = chan, !.user = user] = r
      BY LearnRow
    <3>3. row' = [row EXCEPT ![u] = r]
      BY <2>4, <3>2, Zenon
    <3>4. row'[u] = r /\ at'[u] = "channel" /\ at' = [at EXCEPT ![u] = "channel"]
      BY <1>1, <2>4, <3>3 DEF Goes
    <3>5. RowKept(u)'
      BY <3>4 DEF RowKept
    <3> HIDE DEF r
    <3>6. MessagesGrow(db, db') /\ "channel" \in Step
      BY <3>1 DEF MessagesGrow, Step
    <3>7. \A s \in Session : QueueOpenable(sendq'[s], db', assets')
      BY <1>1, <2>1, <3>6, QueueStays
    <3> QED BY <2>1, <3>1, <3>3, <3>4, <3>5, <3>6, <3>7, UploadKeeps
  <2> QED BY <2>2, <2>3, <2>4
<1>4. CASE UploadChannel(u) /\ UNCHANGED wire
  <2>1. IsDatabase(db') /\ db'.messages = db.messages
    BY <1>1, <1>4, ChannelsKeepMessages DEF UploadChannel
  <2>2. "member" \in Step /\ at' = [at EXCEPT ![u] = "member"] /\ UNCHANGED <<row, assets, objects, sendq>>
    BY <1>4 DEF UploadChannel, Goes, Step, wire
  <2> QED BY <1>2, <2>1, <2>2
<1>5. CASE UploadMember(u) /\ UNCHANGED wire
  <2>1. IsDatabase(db') /\ db'.messages = db.messages
    BY <1>1, <1>5, ChannelsKeepMessages DEF UploadMember
  <2>2. "message" \in Step /\ at' = [at EXCEPT ![u] = "message"] /\ UNCHANGED <<row, assets, objects, sendq>>
    BY <1>5 DEF UploadMember, Goes, Step, wire
  <2> QED BY <1>2, <2>1, <2>2
<1>6. CASE UploadMessage(u) /\ UNCHANGED wire
  <2> DEFINE id == Len(db.messages) + 1
             r == [row[u] EXCEPT !.msg = id]
  <2>1. db' = SaveMessage(db, row[u].ws, row[u].chan, row[u].user, "media")
        /\ row' = [row EXCEPT ![u].msg = Len(db'.messages)]
        /\ at' = [at EXCEPT ![u] = "object"] /\ UNCHANGED <<assets, objects, sendq>>
    BY <1>6 DEF UploadMessage, Goes, wire
  <2>2. /\ IsDatabase(db') /\ Len(db'.messages) = id
        /\ DOMAIN db'.messages = DOMAIN db.messages \cup {id}
        /\ db'.messages[id] = [ws |-> row[u].ws, chan |-> row[u].chan, user |-> row[u].user, type |-> "media"]
        /\ \A i \in DOMAIN db.messages : db'.messages[i] = db.messages[i]
    BY <1>1, <2>1, SaveAppends
  <2>3. r = [ws |-> row[u].ws, user |-> row[u].user, chan |-> row[u].chan, msg |-> id]
    BY <1>1 DEF RowKept
  <2>4. row' = [row EXCEPT ![u] = r]
    BY <1>1, <2>1, <2>2
  <2> HIDE DEF id
  <2>5. row'[u] = r /\ at'[u] = "object"
    BY <1>1, <2>1, <2>4
  <2>6. RowKept(u)'
    BY <2>2, <2>3, <2>5 DEF RowKept, IsFiled, MediaMessage
  <2>7. MessagesGrow(db, db') /\ "object" \in Step
    BY <2>2 DEF MessagesGrow, Step
  <2>8. \A s \in Session : QueueOpenable(sendq'[s], db', assets')
    BY <1>1, <2>1, <2>7, QueueStays
  <2> HIDE DEF r
  <2> QED BY <2>1, <2>2, <2>4, <2>6, <2>7, <2>8, UploadKeeps
<1>7. CASE UploadObject(u) /\ UNCHANGED wire
  <2>1. /\ "asset" \in Step /\ at[u] = "object" /\ at' = [at EXCEPT ![u] = "asset"]
        /\ objects' = objects \cup {row[u].msg} /\ UNCHANGED <<db, row, assets, sendq>>
    BY <1>7 DEF UploadObject, Goes, Step, wire
  <2> QED BY <1>1, <1>2, <2>1
<1>8. CASE UploadAsset(u) /\ UNCHANGED wire
  <2>1. /\ "publish" \in Step /\ at[u] = "asset" /\ at' = [at EXCEPT ![u] = "publish"]
        /\ assets' = assets \cup {row[u]} /\ UNCHANGED <<db, row, objects, sendq>>
    BY <1>8 DEF UploadAsset, Goes, Step, wire
  <2>2. IsFiled(row[u]) /\ row[u].msg \in objects
    BY <1>1, <2>1 DEF RowKept
  <2>3. /\ row' = [row EXCEPT ![u] = row[u]] /\ row'[u] = row[u] /\ at'[u] = "publish"
        /\ MessagesGrow(db, db')
    BY <1>1, <2>1 DEF MessagesGrow
  <2>4. RowKept(u)'
    BY <1>1, <2>1, <2>2, <2>3 DEF RowKept, IsFiled
  <2>5. \A a \in assets' : a \in assets \/ (IsFiled(a)' /\ a.msg \in objects')
    BY <2>1, <2>2 DEF IsFiled
  <2>6. \A s \in Session : QueueOpenable(sendq'[s], db', assets')
    BY <1>1, <2>1, <2>3, QueueStays
  <2> QED BY <1>1, <2>1, <2>3, <2>4, <2>5, <2>6, UploadKeeps
<1>9. CASE UploadFails(u) /\ UNCHANGED wire
  <2>1. /\ "failed" \in Step /\ at' = [at EXCEPT ![u] = "failed"] /\ objects \subseteq objects'
        /\ UNCHANGED <<db, row, assets, sendq>>
    BY <1>9 DEF UploadFails, Step, wire
  <2> QED BY <1>1, <1>2, <2>1
<1>10. CASE UploadPublish(u)
  <2> DEFINE env == NewMessage({}, "message_new", row[u].chan, row[u].msg).env
  <2>1. /\ "done" \in Step /\ at[u] = "publish" /\ at' = [at EXCEPT ![u] = "done"]
        /\ Deliver(Members(row[u].ws), env) /\ UNCHANGED <<db, row, assets, objects>>
    BY <1>10 DEF UploadPublish, Goes, Step
  <2>2. IsFiled(row[u]) /\ row[u].msg \in objects /\ row[u] \in assets
    BY <1>1, <2>1 DEF RowKept
  <2>3. env.msgs = <<row[u].msg>>
    BY DEF NewMessage, Envelope
  <2>4. Openable(env, db, assets)
    BY <2>2, <2>3 DEF Openable, IsFiled
  <2> HIDE DEF env
  <2>5. \A s \in Session : QueueOpenable(sendq'[s], db, assets)
    BY <1>1, <2>1, <2>4, DeliverOpenable
  <2>6. /\ row' = [row EXCEPT ![u] = row[u]] /\ row'[u] = row[u] /\ at'[u] = "done"
        /\ MessagesGrow(db, db')
    BY <1>1, <2>1 DEF MessagesGrow
  <2>7. RowKept(u)'
    BY <1>1, <2>1, <2>2, <2>6 DEF RowKept, IsFiled
  <2> QED BY <1>1, <2>1, <2>5, <2>6, <2>7, UploadKeeps
<1> QED BY <1>3, <1>4, <1>5, <1>6, <1>7, <1>8, <1>9, <1>10 DEF UploadStep

-----------------------------------------------------------------------------
LEMMA MediaInvariant == MediaSpec => []MediaInv
<1>1. MediaInit => MediaInv
  <2> SUFFICES ASSUME MediaInit PROVE MediaInv
    OBVIOUS
  <2>1. IsList(<<>>)
    BY EmptySeq, SeqOver
  <2>2. /\ db = EmptyDB /\ sendq = [s \in Session |-> <<>>] /\ outbox = <<>> /\ spawned = {}
        /\ at = [u \in Upload |-> "join"] /\ row = [u \in Upload |-> NoRow] /\ assets = {}
    BY DEF MediaInit, Init
  <2>3. IsDatabase(db)
    BY <2>1, <2>2 DEF IsDatabase, EmptyDB, TableName
  <2>4. RowsKept
    BY <2>2 DEF RowsKept, RowKept, Step, NoRow
  <2>5. \A s \in Session : QueueOpenable(sendq[s], db, assets)
    BY <2>1, <2>2 DEF QueueOpenable
  <2>6. OutboxOpenable(outbox, db, assets)
    BY <2>1, <2>2 DEF OutboxOpenable
  <2> QED BY <2>2, <2>3, <2>4, <2>5, <2>6 DEF MediaInv, AssetsKept
<1>2. MediaInv /\ [MediaNext]_<<vars, media>> => MediaInv'
  <2> SUFFICES ASSUME MediaInv, [MediaNext]_<<vars, media>> PROVE MediaInv'
    OBVIOUS
  <2>1. CASE UNCHANGED <<vars, media>>
    BY <2>1 DEF vars, wire, media, MediaInv, RowsKept, RowKept, IsFiled, AssetsKept
  <2>2. CASE MediaNext
    BY <2>2, HubStepKeeps, UploadStepKeeps DEF MediaNext
  <2> QED BY <2>1, <2>2
<1> QED BY <1>1, <1>2, PTL DEF MediaSpec

\* Whatever fails and whatever the uploads race with, what media_assets names
\* is a media message of the row's workspace, channel and user, and its file is
\* in the storage.
THEOREM RecordsOpen == MediaSpec => []RecordsHaveObjects
<1>1. MediaInv => RecordsHaveObjects
  <2> SUFFICES ASSUME MediaInv, NEW a \in assets
               PROVE  /\ a.msg \in objects /\ IsMedia(a.msg) /\ db.messages[a.msg].ws = a.ws
                      /\ db.messages[a.msg].chan = a.chan /\ db.messages[a.msg].user = a.user
    BY DEF RecordsHaveObjects
  <2>1. db.messages[a.msg] = MediaMessage(a) /\ a.msg \in objects
    BY DEF MediaInv, AssetsKept, IsFiled
  <2> QED BY <2>1 DEF MediaMessage, IsMedia
<1> QED BY <1>1, MediaInvariant, PTL

\* A media message that waits in a session's queue has its record, however the
\* broadcast of the upload interleaves with the hub's.
THEOREM AnnouncedRecorded == MediaSpec => []AnnouncedIsRecorded
<1>1. MediaInv => AnnouncedIsRecorded
  BY DEF MediaInv, QueueOpenable, Openable, AnnouncedIsRecorded, IsMedia, Recorded
<1> QED BY <1>1, MediaInvariant, PTL
-----------------------------------------------------------------------------
(* The tables that the hub and the uploads share.                          *)

\* No code of the server validates the handle of an upload; the program's
\* client sends the handle it goes by, which the server once accepted.
HandlesValid ==
  \A u \in Upload : \A f \in Form[u] : Clean(f.handle) \in HandlePattern \cup {Blank}

AllFingerprints == Fingerprints \cup UploadFingerprints

\* What a handler that is at step has learnt is in the tables d.
RowIn(r, step, d) ==
  /\ r.user \in {NoUser} \cup DOMAIN d.users /\ r.msg \in {0} \cup DOMAIN d.messages
  /\ step \notin {"join", "failed"} =>
       /\ r.ws \in Text /\ r.chan \in Channel /\ r.chan[1] = r.ws
       /\ r.chan[2] \in Text /\ Clean(r.chan[2]) = r.chan[2]
       /\ r.user \in DOMAIN d.users /\ <<r.ws, r.user>> \in d.members
  /\ step \notin {"join", "failed", "channel"} => r.chan \in d.channels
  /\ step \notin {"join", "failed", "channel", "member"} => <<r.chan, r.user>> \in d.inChannel

IsRow(r) == r = [ws |-> r.ws, user |-> r.user, chan |-> r.chan, msg |-> r.msg]

\* The inductive invariant of the tables: the hub's, and for each upload that
\* the rows it goes on with are still there.
TablesInv ==
  /\ HubInv /\ DevicesFrom(db, AllFingerprints) /\ Consistent(db)
  /\ \A u \in Upload : RowIn(row[u], at[u], db)
  /\ objects \subseteq DOMAIN db.messages /\ \A a \in assets : IsRow(a)

\* Tables from which no row that is referred to has gone.
TablesGrow(d, e) ==
  /\ DOMAIN d.users \subseteq DOMAIN e.users /\ DOMAIN d.messages \subseteq DOMAIN e.messages
  /\ d.members \subseteq e.members /\ d.channels \subseteq e.channels
  /\ d.inChannel \subseteq e.inChannel

LEMMA RowStaysIn ==
  ASSUME NEW r, NEW step, NEW d, NEW e, RowIn(r, step, d), TablesGrow(d, e)
  PROVE  RowIn(r, step, e)
  BY DEF RowIn, TablesGrow

LEMMA HubInvBeside ==
  ASSUME HubInv, UNCHANGED Others, DbOK(db'), TablesGrow(db, db')
  PROVE  HubInv'
<1>1. UNCHANGED <<inbound, sess>>
  BY DEF Others
<1>2. \A s \in Session : Attached(sess[s], db)'
  BY <1>1, StaysAttached DEF HubInv, Attached, TablesGrow
<1>3. CoreOK'
  BY <1>1 DEF HubInv, CoreOK, DbOK
<1>4. DbOK(db)'
  BY DEF DbOK, DevicesKnown, AuthorsOK
<1> QED BY <1>2, <1>3, <1>4 DEF HubInv

LEMMA HubTables ==
  ASSUME TablesInv, UNCHANGED media, TodoOK, Next
  PROVE  TablesInv'
<1>1. HubInv'
  BY HubStep DEF TablesInv
<1>2. DevicesFrom(db, AllFingerprints)'
  BY DevicesStep DEF TablesInv, AllFingerprints, DevicesFrom, Fingerprints, UploadFingerprints,
                     UploadFingerprint
<1>3. Consistent(db)'
  BY TablesStep DEF TablesInv, Consistent, HandlesUnique, DevicesUnique, OwnersConsistent
<1>4. TablesGrow(db, db')
  BY DbGrows, MessagesKept DEF TablesInv, TablesGrow
<1>5. UNCHANGED <<at, row, objects, assets>>
  BY DEF media
<1>6. \A u \in Upload : RowIn(row[u], at[u], db)'
  BY <1>4, <1>5, RowStaysIn DEF TablesInv, RowIn
<1>7. (objects \subseteq DOMAIN db.messages /\ \A a \in assets : IsRow(a))'
  BY <1>4, <1>5 DEF TablesInv, TablesGrow
<1> QED BY <1>1, <1>2, <1>3, <1>6, <1>7 DEF TablesInv

\* What a step of an upload has to establish about the tables and its row.
TablesStay(u) ==
  /\ DbOK(db') /\ DevicesFrom(db', AllFingerprints) /\ Consistent(db')
  /\ TablesGrow(db, db') /\ RowIn(row'[u], at'[u], db')

LEMMA UploadJoinTables ==
  ASSUME HandlesValid, TablesInv, RowsKept, NEW u \in Upload, UploadJoin(u)
  PROVE  TablesStay(u)
<1>1. PICK f \in Form[u] :
        \/ Goes(u, "join", "failed") /\ UNCHANGED <<db, row>>
        \/ /\ Goes(u, "join", "channel")
           /\ ~JoinRefused(db, Clean(f.workspace), Trim[f.code], UploadFingerprint(f), Clean(f.handle))
           /\ db' = JoinWorkspaceTx(db, Clean(f.workspace), Trim[f.code], UploadFingerprint(f), Clean(f.handle))
           /\ row' = [row EXCEPT ![u] =
                [NoRow EXCEPT !.ws = Clean(f.workspace),
                              !.chan = <<Clean(f.workspace),
                                         Clean(IF Trim[f.channel] = Blank THEN DefaultRoom ELSE f.channel)>>,
                              !.user = JoiningUser(db, Clean(f.workspace), UploadFingerprint(f), Clean(f.handle))]]
  BY Zenon DEF UploadJoin
<1> DEFINE ws == Clean(f.workspace)
           code == Trim[f.code]
           fp == UploadFingerprint(f)
           h == Clean(f.handle)
           t == IF Trim[f.channel] = Blank THEN DefaultRoom ELSE f.channel
           name == Clean(t)
           chan == <<ws, name>>
           user == JoiningUser(db, ws, fp, h)
           e == JoinWorkspaceTx(db, ws, code, fp, h)
<1>2. /\ HubInv /\ DbOK(db) /\ IsTables(db) /\ DevicesKnown(db) /\ AuthorsOK(db)
      /\ DevicesFrom(db, AllFingerprints) /\ Consistent(db)
  BY DEF TablesInv, HubInv, DbOK
<1>3. at \in [Upload -> Step] /\ row = [v \in Upload |-> row[v]]
  BY DEF RowsKept
<1>4. CASE Goes(u, "join", "failed") /\ UNCHANGED <<db, row>>
  <2>1. row'[u] = row[u] /\ at'[u] = "failed" /\ db' = db
    BY <1>3, <1>4 DEF Goes
  <2>2. RowIn(row[u], "failed", db)
    BY DEF TablesInv, RowIn
  <2> QED BY <1>2, <2>1, <2>2 DEF TablesStay, TablesGrow
<1>5. CASE /\ Goes(u, "join", "channel") /\ ~JoinRefused(db, ws, code, fp, h) /\ db' = e
           /\ row' = [row EXCEPT ![u] = [NoRow EXCEPT !.ws = ws, !.chan = chan, !.user = user]]
  <2>1. f.workspace \in Text /\ f.code \in Text /\ f.channel \in Text
    BY MediaAssumption DEF MediaAssumption
  <2>2. ws \in Text /\ code \in Text /\ h \in HandlePattern \cup {Blank} /\ fp \in AllFingerprints
    BY <2>1, CleanTyped DEF HandlesValid, AllFingerprints, UploadFingerprints
  <2>3. name \in Text /\ Clean(name) = name
    <3>1. t \in Text
      BY <2>1, HubAssumption DEF HubAssumption
    <3> QED BY <3>1, CleanTyped, MediaAssumption DEF MediaAssumption
  <2>4. [NoRow EXCEPT !.ws = ws, !.chan = chan, !.user = user]
          = [ws |-> ws, user |-> user, chan |-> chan, msg |-> 0]
    BY LearnRow
  <2> HIDE DEF ws, code, fp, h, t, name
  <2>5. ~JoinRefused(db, ws, code, fp, h)
    BY <1>5
  <2>6. /\ IsTables(e) /\ DevicesKnown(e) /\ user \in DOMAIN e.users
        /\ e.members = db.members \cup {<<ws, user>>}
        /\ DOMAIN db.users \subseteq DOMAIN e.users /\ e.messages = db.messages
    BY <1>2, <2>2, <2>5, JoinWorkspaceTxOK
  <2>7. e.channels = db.channels /\ e.inChannel = db.inChannel
    BY <1>2, <2>2, <2>5, JoinWorkspaceTxGrows
  <2>8. DevicesFrom(e, AllFingerprints)
    BY <1>2, <2>2, JoinWorkspaceTxDevices
  <2>9. Consistent(e)
    BY <1>2, <2>2, <2>5, JoinWorkspaceTxConsistent
  <2>10. row' = [row EXCEPT ![u] = [ws |-> ws, user |-> user, chan |-> chan, msg |-> 0]]
    BY <1>5, <2>4, Zenon
  <2>11. row'[u] = [ws |-> ws, user |-> user, chan |-> chan, msg |-> 0] /\ at'[u] = "channel" /\ db' = e
    BY <1>3, <1>5, <2>10 DEF Goes
  <2> HIDE DEF e, user
  <2>12. chan \in Channel /\ chan[1] = ws /\ chan[2] = name
    BY <2>2, <2>3 DEF Channel
  <2> HIDE DEF chan
  <2>13. RowIn([ws |-> ws, user |-> user, chan |-> chan, msg |-> 0], "channel", e)
    BY <2>2, <2>3, <2>6, <2>12 DEF RowIn
  <2>14. AuthorsOK(e)
    BY <1>2, <2>6 DEF AuthorsOK
  <2> QED BY <2>6, <2>7, <2>8, <2>9, <2>11, <2>13, <2>14 DEF TablesStay, TablesGrow, DbOK
<1> QED BY <1>1, <1>4, <1>5

\* The steps that touch neither tables nor row.
LEMMA QuietTables ==
  ASSUME TablesInv, RowsKept, NEW u \in Upload, UNCHANGED <<db, row>>,
         at'[u] \in {"asset", "publish", "done"} => at[u] \in {"object", "asset", "publish"}
  PROVE  at'[u] \in {"asset", "publish", "done", "failed"} => TablesStay(u)
  BY DEF TablesStay, TablesInv, HubInv, RowIn, TablesGrow, DbOK

LEMMA UploadChannelTables ==
  ASSUME TablesInv, RowsKept, NEW u \in Upload, UploadChannel(u)
  PROVE  TablesStay(u)
<1> DEFINE r == row[u]
           e == EnsureChannel(db, r.ws, r.chan[2])
<1>1. at[u] = "channel" /\ at'[u] = "member" /\ row' = row /\ db' = e
  BY DEF UploadChannel, Goes, RowsKept
<1>2. DbOK(db) /\ IsTables(db) /\ DevicesFrom(db, AllFingerprints) /\ Consistent(db)
  BY DEF TablesInv, HubInv, DbOK
<1>3. RowIn(r, "channel", db)
  BY <1>1 DEF TablesInv
<1> HIDE DEF r
<1>4. /\ r.ws \in Text /\ r.chan[2] \in Text /\ Clean(r.chan[2]) = r.chan[2]
      /\ r.chan = <<r.ws, r.chan[2]>>
  BY <1>3 DEF RowIn, Channel
<1>5. /\ IsTables(e)
      /\ \A t \in {"users", "devices", "workspaces", "members", "messages"} : e[t] = db[t]
  BY <1>2, <1>4, EnsureChannelOK
<1>6. e.channels = db.channels \cup {r.chan} /\ e.inChannel = db.inChannel
  <2>1. /\ e.channels = db.channels \cup {<<r.ws, Clean(r.chan[2])>>}
        /\ e.inChannel = db.inChannel
    BY <1>2, ChannelTables
  <2>2. <<r.ws, Clean(r.chan[2])>> = r.chan
    BY <1>4
  <2> QED BY <2>1, <2>2
<1> HIDE DEF e
<1>7. /\ e.users = db.users /\ e.devices = db.devices /\ e.workspaces = db.workspaces
      /\ e.members = db.members /\ e.messages = db.messages
  BY <1>5
<1>8. DbOK(e) /\ DevicesFrom(e, AllFingerprints) /\ TablesGrow(db, e)
  BY <1>2, <1>5, <1>6, <1>7 DEF DbOK, DevicesKnown, AuthorsOK, DevicesFrom, TablesGrow
<1>9. Consistent(e)
  BY <1>2, <1>7, ConsistentTables
<1>10. RowIn(r, "member", e)
  BY <1>3, <1>6, <1>7 DEF RowIn
<1> QED BY <1>1, <1>8, <1>9, <1>10 DEF TablesStay, r

LEMMA UploadMemberTables ==
  ASSUME TablesInv, RowsKept, NEW u \in Upload, UploadMember(u)
  PROVE  TablesStay(u)
<1> DEFINE r == row[u]
           e == AddChannelMember(db, r.chan, r.user)
<1>1. at[u] = "member" /\ at'[u] = "message" /\ row' = row /\ db' = e
  BY DEF UploadMember, Goes, RowsKept
<1>2. DbOK(db) /\ IsTables(db) /\ DevicesFrom(db, AllFingerprints) /\ Consistent(db)
  BY DEF TablesInv, HubInv, DbOK
<1>3. RowIn(r, "member", db)
  BY <1>1 DEF TablesInv
<1> HIDE DEF r
<1>4. r.chan \in Channel /\ r.user \in Nat
  <2>1. db.users \in Seq(HandlePattern)
    BY <1>2 DEF IsTables
  <2> QED BY <1>3, <2>1 DEF RowIn
<1>5. /\ IsTables(e)
      /\ \A t \in {"users", "devices", "workspaces", "members", "messages"} : e[t] = db[t]
  BY <1>2, <1>4, AddChannelMemberOK
<1>6. e.channels = db.channels /\ e.inChannel = db.inChannel \cup {<<r.chan, r.user>>}
  BY <1>2, ChannelTables
<1> HIDE DEF e
<1>7. /\ e.users = db.users /\ e.devices = db.devices /\ e.workspaces = db.workspaces
      /\ e.members = db.members /\ e.messages = db.messages
  BY <1>5
<1>8. DbOK(e) /\ DevicesFrom(e, AllFingerprints) /\ TablesGrow(db, e)
  BY <1>2, <1>5, <1>6, <1>7 DEF DbOK, DevicesKnown, AuthorsOK, DevicesFrom, TablesGrow
<1>9. Consistent(e)
  BY <1>2, <1>7, ConsistentTables
<1>10. RowIn(r, "message", e)
  BY <1>3, <1>6, <1>7 DEF RowIn
<1> QED BY <1>1, <1>8, <1>9, <1>10 DEF TablesStay, r

\* The message is by a member and in a channel that has its author.
LEMMA UploadMessageTables ==
  ASSUME TablesInv, MediaInv, NEW u \in Upload, UploadMessage(u)
  PROVE  /\ TablesStay(u)
         /\ MessagesFiled => MessagesFiled'
<1> DEFINE r == row[u]
           e == SaveMessage(db, r.ws, r.chan, r.user, "media")
           n == Len(db.messages) + 1
           q == [r EXCEPT !.msg = n]
<1>1. at[u] = "message" /\ at'[u] = "object" /\ row' = [row EXCEPT ![u].msg = Len(db'.messages)] /\ db' = e
  BY DEF UploadMessage, Goes, MediaInv, RowsKept
<1>2. DbOK(db) /\ IsTables(db) /\ DevicesFrom(db, AllFingerprints) /\ Consistent(db)
  BY DEF TablesInv, HubInv, DbOK
<1>3. RowIn(r, "message", db) /\ row = [v \in Upload |-> row[v]]
      /\ r = [ws |-> r.ws, user |-> r.user, chan |-> r.chan, msg |-> r.msg]
  BY <1>1 DEF TablesInv, MediaInv, RowsKept, RowKept
<1> HIDE DEF r
<1>4. r.ws \in Text /\ r.chan \in Channel /\ r.user \in Nat /\ "media" \in MessageType
  <2>1. db.users \in Seq(HandlePattern)
    BY <1>2 DEF IsTables
  <2> QED BY <1>3, <2>1 DEF RowIn, MessageType
<1> HIDE DEF e
<1>5. /\ IsTables(e) /\ e.users = db.users /\ e.workspaces = db.workspaces
      /\ e.devices = db.devices /\ e.members = db.members
      /\ DOMAIN e.messages = DOMAIN db.messages \cup {n} /\ Len(e.messages) = n
      /\ \A i \in DOMAIN db.messages : e.messages[i] = db.messages[i]
      /\ e.messages[n].ws = r.ws /\ e.messages[n].chan = r.chan /\ e.messages[n].user = r.user
  <2>1. e = SaveMessage(db, r.ws, r.chan, r.user, "media")
    BY DEF e
  <2> QED BY <1>2, <1>4, <2>1, SaveMessageOK
<1>6. e.channels = db.channels /\ e.inChannel = db.inChannel
  BY <1>2, SaveMessageTables DEF e
<1> HIDE DEF n
<1>7. AuthorsOK(e)
  BY <1>2, <1>3, <1>5 DEF AuthorsOK, DbOK, RowIn
<1>8. DbOK(e) /\ DevicesFrom(e, AllFingerprints) /\ TablesGrow(db, e)
  BY <1>2, <1>5, <1>6, <1>7 DEF DbOK, DevicesKnown, DevicesFrom, TablesGrow
<1>9. Consistent(e)
  BY <1>2, <1>5, ConsistentTables
<1>10. row'[u] = q
  BY <1>1, <1>3, <1>5 DEF r
<1>11. q = [ws |-> r.ws, user |-> r.user, chan |-> r.chan, msg |-> n]
  BY <1>3
<1> HIDE DEF q
<1>12. RowIn(q, "object", e)
  BY <1>3, <1>5, <1>6, <1>11 DEF RowIn
<1>13. MessagesFiled => MessagesFiled'
  <2> DEFINE Filed(m) == /\ m.chan \in db.channels /\ m.chan[1] = m.ws
                         /\ <<m.chan, m.user>> \in db.inChannel
  <2>1. Filed(e.messages[n])
    BY <1>3, <1>5 DEF RowIn
  <2>2. MessagesFiled => \A i \in DOMAIN e.messages : Filed(e.messages[i])
    BY <1>5, <2>1 DEF MessagesFiled
  <2> QED BY <1>1, <1>6, <2>2 DEF MessagesFiled
<1> QED BY <1>1, <1>8, <1>9, <1>10, <1>12, <1>13 DEF TablesStay

\* An upload touches its own row only, and puts the file of its own message.
LEMMA OwnRow ==
  ASSUME RowsKept, NEW u \in Upload, UploadStep(u) \/ UploadPublish(u)
  PROVE  /\ \A v \in Upload \ {u} : at'[v] = at[v] /\ row'[v] = row[v]
         /\ objects' \subseteq objects \cup (IF at[u] = "object" THEN {row[u].msg} ELSE {})
         /\ assets' \subseteq assets \cup {row[u]}
<1>1. CASE UploadJoin(u)
  BY <1>1, Zenon DEF RowsKept, UploadJoin, Goes
<1>2. CASE UploadChannel(u) \/ UploadMember(u) \/ UploadAsset(u) \/ UploadPublish(u)
  BY <1>2 DEF RowsKept, UploadChannel, UploadMember, UploadAsset, UploadPublish, Goes
<1>3. CASE UploadMessage(u)
  BY <1>3 DEF RowsKept, UploadMessage, Goes
<1>4. CASE UploadObject(u)
  BY <1>4 DEF RowsKept, UploadObject, Goes
<1>5. CASE UploadFails(u)
  BY <1>5 DEF RowsKept, UploadFails
<1> QED BY <1>1, <1>2, <1>3, <1>4, <1>5 DEF UploadStep

\* Where messages are filed, when the messages stay.
LEMMA StayFiled ==
  ASSUME MessagesFiled, db'.messages = db.messages, TablesGrow(db, db')
  PROVE  MessagesFiled'
  BY DEF MessagesFiled, TablesGrow

LEMMA UploadTables ==
  ASSUME HandlesValid, TablesInv, MediaInv, UNCHANGED Others, NEW u \in Upload,
         UploadStep(u) \/ UploadPublish(u)
  PROVE  /\ TablesInv' /\ TablesGrow(db, db')
         /\ MessagesFiled => MessagesFiled'
<1>1. RowsKept
  BY DEF MediaInv
<1>2. TablesStay(u) /\ (MessagesFiled => MessagesFiled')
  <2>1. CASE UploadJoin(u)
    <3>1. IsDatabase(db)
      BY DEF MediaInv
    <3>2. db'.messages = db.messages
      BY <2>1, <3>1, JoinKeepsMessages DEF UploadJoin
    <3>3. TablesStay(u)
      BY <1>1, <2>1, UploadJoinTables
    <3> QED BY <3>2, <3>3, StayFiled DEF TablesStay
  <2>2. CASE UploadChannel(u)
    <3>1. db'.messages = db.messages
      BY <2>2, ChannelsKeepMessages DEF UploadChannel, MediaInv
    <3>2. TablesStay(u)
      BY <1>1, <2>2, UploadChannelTables
    <3> QED BY <3>1, <3>2, StayFiled DEF TablesStay
  <2>3. CASE UploadMember(u)
    <3>1. db'.messages = db.messages
      BY <2>3, ChannelsKeepMessages DEF UploadMember, MediaInv
    <3>2. TablesStay(u)
      BY <1>1, <2>3, UploadMemberTables
    <3> QED BY <3>1, <3>2, StayFiled DEF TablesStay
  <2>4. CASE UploadMessage(u)
    BY <2>4, UploadMessageTables
  <2>5. CASE UploadObject(u) \/ UploadAsset(u) \/ UploadFails(u) \/ UploadPublish(u)
    <3>1. /\ UNCHANGED <<db, row>> /\ at'[u] \in {"asset", "publish", "done", "failed"}
          /\ at'[u] \in {"asset", "publish", "done"} => at[u] \in {"object", "asset", "publish"}
      BY <1>1, <2>5 DEF RowsKept, UploadObject, UploadAsset, UploadFails, UploadPublish, Goes
    <3>2. TablesStay(u)
      BY <1>1, <3>1, QuietTables
    <3> QED BY <3>1, <3>2, StayFiled DEF TablesStay
  <2> QED BY <2>1, <2>2, <2>3, <2>4, <2>5 DEF UploadStep
<1>3. HubInv'
  BY <1>2, HubInvBeside DEF TablesInv, TablesStay
<1>4. \A v \in Upload : RowIn(row[v], at[v], db)'
  <2>1. \A v \in Upload : RowIn(row'[v], at'[v], db')
    BY <1>1, <1>2, OwnRow, RowStaysIn DEF TablesInv, TablesStay
  <2> QED BY <2>1 DEF RowIn
<1>5. (objects \subseteq DOMAIN db.messages)'
  <2>1. at[u] = "object" => row[u].msg \in DOMAIN db.messages
    BY <1>1 DEF RowsKept, RowKept, IsFiled
  <2> QED BY <1>1, <1>2, <2>1, OwnRow DEF TablesInv, TablesStay, TablesGrow
<1>6. \A a \in assets' : IsRow(a)
  BY <1>1, OwnRow DEF TablesInv, RowsKept, RowKept, IsRow
<1>7. DevicesFrom(db, AllFingerprints)' /\ Consistent(db)'
  BY <1>2 DEF TablesStay, DevicesFrom, AllFingerprints, Fingerprints, UploadFingerprints,
              UploadFingerprint, Consistent, HandlesUnique, DevicesUnique, OwnersConsistent
<1> QED BY <1>2, <1>3, <1>4, <1>5, <1>6, <1>7 DEF TablesInv, TablesStay

\* The steps of the specification, the hub's apart from the uploads'.
LEMMA MediaCases ==
  ASSUME [MediaNext]_<<vars, media>>
  PROVE  \/ UNCHANGED <<vars, media>>
         \/ Next /\ UNCHANGED media
         \/ \E u \in Upload : (UploadStep(u) \/ UploadPublish(u)) /\ UNCHANGED Others
<1>1. CASE /\ UNCHANGED media
           /\ \/ \E s \in Session : Register(s) \/ ReadScript(s) \/ EndRead(s) \/ WriteOut(s) \/ RemoveSession(s)
              \/ \E b \in spawned : RunSpawned(b)
              \/ Post \/ Handle
  BY <1>1 DEF Next, Pump
<1> QED BY <1>1 DEF MediaNext

LEMMA MediaTodo == TodoOK /\ [MediaNext]_<<vars, media>> => TodoOK'
<1> SUFFICES ASSUME TodoOK, [MediaNext]_<<vars, media>> PROVE TodoOK'
  OBVIOUS
<1>1. CASE UNCHANGED <<vars, media>>
  BY <1>1 DEF vars, TodoOK
<1>2. CASE Next /\ UNCHANGED media
  BY <1>2, TodoStep
<1>3. CASE \E u \in Upload : (UploadStep(u) \/ UploadPublish(u)) /\ UNCHANGED Others
  BY <1>3 DEF Others, TodoOK
<1> QED BY <1>1, <1>2, <1>3, MediaCases

LEMMA TablesInvariant ==
  HandlesValid => (MediaSpec => [](MediaInv /\ TodoOK /\ TablesInv))
<1> SUFFICES ASSUME HandlesValid PROVE MediaSpec => [](MediaInv /\ TodoOK /\ TablesInv)
  OBVIOUS
<1>1. MediaInit => TodoOK /\ TablesInv
  <2> SUFFICES ASSUME MediaInit PROVE TodoOK /\ TablesInv
    OBVIOUS
  <2>1. /\ Init /\ db = EmptyDB /\ at = [u \in Upload |-> "join"]
        /\ row = [u \in Upload |-> NoRow] /\ objects = {} /\ assets = {}
    BY DEF MediaInit, Init
  <2>2. HubInv /\ TodoOK
    BY <2>1, HubInit
  <2>3. DevicesFrom(db, AllFingerprints) /\ Consistent(db)
    BY <2>1 DEF EmptyDB, DevicesFrom, Consistent, HandlesUnique, DevicesUnique, OwnersConsistent
  <2>4. \A u \in Upload : RowIn(row[u], at[u], db)
    BY <2>1 DEF RowIn, NoRow
  <2> QED BY <2>1, <2>2, <2>3, <2>4 DEF TablesInv
<1>2. MediaInv /\ TodoOK /\ TablesInv /\ [MediaNext]_<<vars, media>> => TablesInv'
  <2> SUFFICES ASSUME MediaInv, TodoOK, TablesInv, [MediaNext]_<<vars, media>> PROVE TablesInv'
    OBVIOUS
  <2>1. CASE UNCHANGED <<vars, media>>
    <3>1. UNCHANGED <<db, sess, inbound, at, row, objects, assets>>
      BY <2>1 DEF vars, media
    <3> QED BY <3>1 DEF TablesInv, HubInv, CoreOK, DbOK, DevicesKnown, AuthorsOK, Attached, DevicesFrom,
                        AllFingerprints, Fingerprints, UploadFingerprints, UploadFingerprint,
                        Consistent, HandlesUnique, DevicesUnique, OwnersConsistent, RowIn
  <2>2. CASE Next /\ UNCHANGED media
    BY <2>2, HubTables
  <2>3. CASE \E u \in Upload : (UploadStep(u) \/ UploadPublish(u)) /\ UNCHANGED Others
    BY <2>3, UploadTables
  <2> QED BY <2>1, <2>2, <2>3, MediaCases
<1> QED BY <1>1, <1>2, MediaInvariant, MediaTodo, PTL DEF MediaSpec

\* The handler's state, the tables and the two stores of media keep their
\* types, and no message is recorded twice, whichever steps fail and however
\* the uploads interleave with the hub, if the uploaders' handles are valid.
THEOREM MediaTyped == HandlesValid => (MediaSpec => []MediaTypeOK)
<1> SUFFICES ASSUME HandlesValid PROVE MediaSpec => []MediaTypeOK
  OBVIOUS
<1>1. MediaInv /\ TablesInv => MediaTypeOK
  <2> SUFFICES ASSUME MediaInv, TablesInv PROVE MediaTypeOK
    OBVIOUS
  <2>1. at \in [Upload -> Step] /\ objects \subseteq DOMAIN db.messages
    BY DEF MediaInv, RowsKept, TablesInv
  <2>2. IsTables(db)
    BY DEF TablesInv, HubInv, DbOK
  <2>3. db \in Database(Fingerprints \cup UploadFingerprints)
    BY <2>2, TablesTyped DEF TablesInv, AllFingerprints
  <2>4. \A u \in Upload : row[u].user \in 0..Len(db.users) /\ row[u].msg \in 0..Len(db.messages)
    <3>1. db.users \in Seq(HandlePattern) /\ db.messages \in Seq(MessageRow)
      BY <2>2 DEF IsTables
    <3>2. {NoUser} \cup DOMAIN db.users \subseteq 0..Len(db.users)
      BY <3>1, LenProperties DEF NoUser
    <3>3. {0} \cup DOMAIN db.messages \subseteq 0..Len(db.messages)
      BY <3>1, LenProperties
    <3> QED BY <3>2, <3>3 DEF TablesInv, RowIn
  <2>5. ASSUME NEW a \in assets, NEW b \in assets, a.msg = b.msg PROVE a = b
    <3>1. MediaMessage(a) = MediaMessage(b)
      BY <2>5 DEF MediaInv, AssetsKept, IsFiled
    <3>2. IsRow(a) /\ IsRow(b)
      BY DEF TablesInv
    <3> QED BY <2>5, <3>1, <3>2 DEF MediaMessage, IsRow
  <2> QED BY <2>1, <2>3, <2>4, <2>5 DEF MediaTypeOK
<1> QED BY <1>1, TablesInvariant, PTL

\* A stored message is by a member of the workspace it is filed under, those
\* that uploads store as well as the hub's.
THEOREM UploadersAreMembers == HandlesValid => (MediaSpec => []AuthorsAreMembers)
<1> SUFFICES ASSUME HandlesValid PROVE MediaSpec => []AuthorsAreMembers
  OBVIOUS
<1>1. TablesInv => AuthorsAreMembers
  BY DEF TablesInv, HubInv, DbOK, AuthorsOK, AuthorsAreMembers
<1> QED BY <1>1, TablesInvariant, PTL

\* The constraints of the schema hold with uploads joining beside the hub.
THEOREM UploadsConsistent == HandlesValid => (MediaSpec => []TablesConsistent)
<1> SUFFICES ASSUME HandlesValid PROVE MediaSpec => []TablesConsistent
  OBVIOUS
<1>1. TablesInv => TablesConsistent
  BY DEF TablesInv, Consistent, TablesConsistent
<1> QED BY <1>1, TablesInvariant, PTL

\* A stored message belongs to a channel of its own workspace that its author
\* has been added to, with uploads failing half-way beside the hub, if a client
\* names one workspace on a connection and keeps its account.
THEOREM UploadsFiled ==
  HandlesValid /\ OneWorkspacePerScript => (MediaSpec /\ []KeepsAccount => []MessagesFiled)
<1> SUFFICES ASSUME HandlesValid, OneWorkspacePerScript
             PROVE  MediaSpec /\ []KeepsAccount => []MessagesFiled
  OBVIOUS
<1>1. MediaInit => MessagesFiled /\ InChannels /\ WorkspaceFixed
  <2> SUFFICES ASSUME MediaInit PROVE MessagesFiled /\ InChannels /\ WorkspaceFixed
    OBVIOUS
  <2>1. db.messages = <<>>
    BY DEF MediaInit, Init, EmptyDB
  <2>2. \A s \in Session : sess[s].user.id = NoUser /\ sess[s].current = NoChannel
    BY DEF MediaInit, Init, NewSession
  <2>3. WorkspaceFixed
    BY WorkspaceFixedInit DEF MediaInit
  <2> QED BY <2>1, <2>2, <2>3 DEF MessagesFiled, InChannels
<1>2. (MediaInv /\ TodoOK /\ TablesInv) /\ (MessagesFiled /\ InChannels /\ WorkspaceFixed)
        /\ KeepsAccount /\ [MediaNext]_<<vars, media>> => (MessagesFiled /\ InChannels /\ WorkspaceFixed)'
  <2> SUFFICES ASSUME MediaInv, TodoOK, TablesInv, MessagesFiled, InChannels, WorkspaceFixed,
                      KeepsAccount, [MediaNext]_<<vars, media>>
               PROVE  MessagesFiled' /\ InChannels' /\ WorkspaceFixed'
    OBVIOUS
  <2>1. HubInv
    BY DEF TablesInv
  <2>2. CASE UNCHANGED <<vars, media>>
    BY <2>2 DEF vars, MessagesFiled, InChannels, WorkspaceFixed
  <2>3. CASE Next /\ UNCHANGED media
    <3>1. StaysInWorkspace
      BY <2>1, FixedStays
    <3> QED BY <2>1, <2>3, <3>1, MessagesFiledStep, InChannelsStep, WorkspaceFixedStep
  <2>4. CASE \E u \in Upload : (UploadStep(u) \/ UploadPublish(u)) /\ UNCHANGED Others
    <3>1. UNCHANGED <<sess, todo, inbound>>
      BY <2>4 DEF Others
    <3>2. MessagesFiled' /\ TablesGrow(db, db')
      BY <2>4, UploadTables
    <3>3. InChannels'
      BY <3>1, <3>2 DEF InChannels, TablesGrow
    <3>4. WorkspaceFixed'
      BY <3>1 DEF WorkspaceFixed
    <3> QED BY <3>2, <3>3, <3>4
  <2> QED BY <2>2, <2>3, <2>4, MediaCases
<1> QED BY <1>1, <1>2, TablesInvariant, PTL DEF MediaSpec
=============================================================================
