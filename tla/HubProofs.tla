----------------------------- MODULE HubProofs -----------------------------
(***************************************************************************)
(* Proofs about Hub.tla, for any sessions, scripts, texts, capacities and  *)
(* any set of store methods that may fail: first what the tables hold and  *)
(* how often pings may come, then what the hub tells its sessions, that is *)
(* the messages it files and queues, the presence it shows and the types   *)
(* of all it sends.                                                        *)
(*                                                                         *)
(* Several of the latter need to know how clients use a connection.  The   *)
(* program's client asks for one workspace on it, but may ask twice: the   *)
(* join of a connection that was lost before writeLoop had sent it goes    *)
(* out on the next one, ahead of that one's own.  (A session that joins    *)
(* another workspace stays attached to the one it left.)  The theorems     *)
(* about filing, presence and queues therefore assume                      *)
(* OneWorkspacePerScript.  Those about users assume []KeepsAccount too: a  *)
(* second join of a session is for the user of the first, which fails when *)
(* another device took the account over in between and renamed it.         *)
(* HubTyped assumes nothing, and PresenceNamesFresh only that there is one *)
(* workspace.                                                              *)
(***************************************************************************)
EXTENDS Hub, StoreProofs

\* A session that carries a user acts for a member of its workspace, and only
\* such a session has a workspace or a channel.
Attached(me, d) ==
  /\ me.ws # Blank \/ me.current # NoChannel => me.user.id # NoUser
  /\ me.user.id # NoUser => /\ me.user.id \in DOMAIN d.users
                            /\ <<me.ws, me.user.id>> \in d.members

AuthorsOK(d) ==
  \A i \in DOMAIN d.messages : <<d.messages[i].ws, d.messages[i].user>> \in d.members

\* The types of sessions, waiting events and tables.
CoreOK ==
  /\ sess \in [Session -> SessionRecord]
  /\ inbound \in Seq([from : Session, event : EventType])
  /\ IsTables(db)

DbOK(d) == IsTables(d) /\ DevicesKnown(d) /\ AuthorsOK(d)

\* The inductive invariant: a message is filed by its session's fields, so
\* these must agree with the tables at every moment.
HubInv ==
  /\ CoreOK
  /\ DbOK(db)
  /\ \A s \in Session : Attached(sess[s], db)

\* What a client has still to send are events.
TodoOK == todo \in [Session -> Seq(SUBSET ClientEvent)]

-----------------------------------------------------------------------------
\* What the handlers read is well typed.
LEMMA EventTyped ==
  ASSUME CoreOK, inbound # <<>>
  PROVE  /\ Sender \in Session /\ Event \in EventType
         /\ Tail(inbound) \in Seq([from : Session, event : EventType])
<1>1. Head(inbound) \in [from : Session, event : EventType]
  BY HeadTailProperties DEF CoreOK
<1>2. Tail(inbound) \in Seq([from : Session, event : EventType])
  BY HeadTailProperties DEF CoreOK
<1> QED BY <1>1, <1>2 DEF Sender, Event

\* An event has the fields its type calls for.
LEMMA FieldTyped ==
  ASSUME NEW e \in EventType
  PROVE  /\ e.type = "identify" => e.token \in Text /\ e.handle \in Text
         /\ e.type = "join_workspace" => e.workspace \in Text /\ e.code \in Text
         /\ e.type = "join_channel" => e.channel \in Text
         /\ e.type \in {"send_message", "send_emote"} => e.body \in Text
         /\ e.type = "ping_user" => e.handle \in Text /\ e.effect \in Text /\ e.ms \in Int
         /\ e.type = "ping_all" => e.effect \in Text /\ e.ms \in Int
         /\ e.type = "change_handle" => e.handle \in Text
  BY DEF EventType

LEMMA CleanTyped ==
  ASSUME NEW t \in Text
  PROVE  Trim[t] \in Text /\ Lower[t] \in Text /\ Clean(t) \in Text
  BY StoreAssumption DEF StoreAssumption, Clean

\* A database that only grew keeps every other session attached.
LEMMA StaysAttached ==
  ASSUME NEW me, NEW d, NEW e, Attached(me, d),
         DOMAIN d.users \subseteq DOMAIN e.users, d.members \subseteq e.members
  PROVE  Attached(me, e)
  BY DEF Attached

\* Steps that change neither the sessions' fields nor the tables.
LEMMA QuietStep ==
  ASSUME HubInv, UNCHANGED <<sess, db>>,
         inbound' \in Seq([from : Session, event : EventType])
  PROVE  HubInv'
  BY DEF HubInv, CoreOK, DbOK, DevicesKnown, AuthorsOK, Attached

\* Steps that change one session's fields and the tables.
LEMMA OneSessionStep ==
  ASSUME HubInv, NEW s \in Session, NEW me \in SessionRecord,
         sess' = [sess EXCEPT ![s] = me], Attached(me, db'), DbOK(db'),
         DOMAIN db.users \subseteq DOMAIN db'.users, db.members \subseteq db'.members,
         inbound' \in Seq([from : Session, event : EventType])
  PROVE  HubInv'
<1>1. sess' \in [Session -> SessionRecord]
  BY DEF HubInv, CoreOK
<1>2. ASSUME NEW t \in Session PROVE Attached(sess'[t], db')
  <2>1. CASE t = s
    BY <2>1 DEF HubInv, CoreOK
  <2>2. CASE t # s
    BY <2>2, StaysAttached DEF HubInv, CoreOK
  <2> QED BY <2>1, <2>2
<1>3. CoreOK'
  BY <1>1 DEF CoreOK, DbOK
<1>4. \A t \in Session : Attached(sess[t], db)'
  BY <1>2 DEF Attached
<1>5. DbOK(db)'
  BY DEF DbOK, DevicesKnown, AuthorsOK
<1> QED BY <1>3, <1>4, <1>5 DEF HubInv

-----------------------------------------------------------------------------
(* One lemma per handler that changes a session or a table.                *)

LEMMA IdentifyStep == HubInv /\ Identify => HubInv'
<1> SUFFICES ASSUME HubInv, Identify PROVE HubInv'
  OBVIOUS
<1> DEFINE s == Sender
           token == Trim[Event.token]
           handle == NormalizeHandle(Event.handle)
<1>1. CoreOK /\ inbound # <<>> /\ inbound' = Tail(inbound) /\ Event.type = "identify" /\ db' = db
  BY DEF Identify, Serve, HubInv, Event
<1>2. s \in Session /\ Event \in EventType /\ inbound' \in Seq([from : Session, event : EventType])
  BY <1>1, EventTyped
<1>3. token \in Text
  BY <1>1, <1>2, FieldTyped, CleanTyped
<1>4. CASE sess' = sess
  BY <1>1, <1>2, <1>4, QuietStep
<1>5. ASSUME NEW pending \in HandlePattern \cup {Blank},
             sess' = [sess EXCEPT ![s].token = token, ![s].pending = pending]
      PROVE  HubInv'
  <2> DEFINE me == [sess[s] EXCEPT !.token = token, !.pending = pending]
  <2>1. sess[s] \in SessionRecord /\ Attached(sess[s], db)
    BY <1>1, <1>2 DEF CoreOK, HubInv
  <2>2. me \in SessionRecord /\ Attached(me, db)
    BY <1>3, <2>1 DEF SessionRecord, Attached
  <2>3. sess' = [sess EXCEPT ![s] = me]
    BY <1>1, <1>2, <1>5 DEF CoreOK
  <2> QED BY <1>1, <1>2, <2>2, <2>3, OneSessionStep DEF HubInv
<1>6. CASE sess' = [sess EXCEPT ![s].token = token]
  <2>1. sess[s].pending \in HandlePattern \cup {Blank}
    BY <1>1, <1>2 DEF CoreOK, SessionRecord
  <2>2. sess' = [sess EXCEPT ![s].token = token, ![s].pending = sess[s].pending]
    BY <1>1, <1>2, <1>6 DEF CoreOK, SessionRecord
  <2> QED BY <1>5, <2>1, <2>2
<1>7. CASE ValidHandle(Event.handle) /\ sess' = [sess EXCEPT ![s].token = token, ![s].pending = handle]
  BY <1>5, <1>7 DEF ValidHandle
<1>8. \/ sess' = sess
      \/ sess' = [sess EXCEPT ![s].token = token, ![s].pending = Blank]
      \/ ValidHandle(Event.handle) /\ sess' = [sess EXCEPT ![s].token = token, ![s].pending = handle]
      \/ sess' = [sess EXCEPT ![s].token = token]
  BY DEF Identify
<1> QED BY <1>4, <1>5, <1>6, <1>7, <1>8

\* What a join that is not rejected leaves behind, up to each of its queries.
LEMMA JoinLeaves ==
  ASSUME HubInv, inbound # <<>>, Event.type = "join_workspace", ~JoinRejected
  PROVE  LET me == JoinedSess[Sender] IN
         /\ Sender \in Session
         /\ me \in SessionRecord /\ JoinedSess = [sess EXCEPT ![Sender] = me]
         /\ Lobby \in Channel
         /\ \A d \in {JoinedDB, WithLobby, InLobby} :
              /\ DbOK(d) /\ Attached(me, d)
              /\ Attached([me EXCEPT !.current = Lobby], d)
              /\ DOMAIN db.users \subseteq DOMAIN d.users /\ db.members \subseteq d.members
<1> DEFINE s == Sender
           fp == Fingerprint(s)
           u == JoinedUser
           d1 == JoinedDB
           me == JoinedSess[s]
<1>1. s \in Session /\ Event \in EventType
  BY EventTyped DEF HubInv
<1>2. sess[s] \in SessionRecord
  BY <1>1 DEF HubInv, CoreOK
<1>3. JoinTarget \in Text /\ JoinCode \in Text
  BY <1>1, FieldTyped, CleanTyped DEF JoinTarget, JoinCode
<1>4. fp \in Fingerprints
  BY <1>1, <1>2 DEF Fingerprint, Fingerprints, SessionRecord
<1>5. JoinHandle \in HandlePattern \cup {Blank}
  BY <1>1, <1>2, StoreAssumption DEF StoreAssumption, JoinHandle, SessionRecord
<1>6. DbOK(db) /\ ~JoinRefused(db, JoinTarget, JoinCode, fp, JoinHandle)
  BY DEF HubInv, JoinRejected
<1>7. /\ IsTables(d1) /\ DevicesKnown(d1) /\ u \in DOMAIN d1.users
      /\ d1.members = db.members \cup {<<JoinTarget, u>>}
      /\ DOMAIN db.users \subseteq DOMAIN d1.users /\ d1.messages = db.messages
  BY <1>3, <1>4, <1>5, <1>6, JoinWorkspaceTxOK DEF JoinedDB, JoinedUser, DbOK
<1>8. DbOK(d1)
  BY <1>6, <1>7 DEF DbOK, AuthorsOK
<1>9. d1.users \in Seq(HandlePattern) /\ u \in Nat \ {0} /\ d1.users[u] \in HandlePattern
  BY <1>7 DEF IsTables
<1> HIDE DEF d1, u
<1>10. Lobby \in Channel
  BY <1>3, HubAssumption, CleanTyped DEF HubAssumption, Lobby, Channel
<1>11. /\ IsTables(WithLobby)
       /\ \A t \in {"users", "devices", "workspaces", "members", "messages"} : WithLobby[t] = d1[t]
  BY <1>3, <1>7, HubAssumption, EnsureChannelOK DEF HubAssumption, WithLobby, d1
<1>12. /\ IsTables(InLobby)
       /\ \A t \in {"users", "devices", "workspaces", "members", "messages"} : InLobby[t] = WithLobby[t]
  BY <1>9, <1>10, <1>11, AddChannelMemberOK DEF InLobby, u
<1>13. /\ me = [sess[s] EXCEPT !.user = [id |-> u, handle |-> d1.users[u]],
                               !.ws = JoinTarget, !.pending = d1.users[u]]
       /\ JoinedSess = [sess EXCEPT ![s] = me]
  BY <1>1, <1>2 DEF JoinedSess, HubInv, CoreOK, u, d1
<1> HIDE DEF me, s
<1>14. me \in SessionRecord /\ me.user.id = u /\ me.ws = JoinTarget
  BY <1>2, <1>3, <1>9, <1>13 DEF SessionRecord
<1>15. ASSUME NEW d \in {d1, WithLobby, InLobby}
       PROVE  /\ DbOK(d) /\ Attached(me, d) /\ Attached([me EXCEPT !.current = Lobby], d)
              /\ DOMAIN db.users \subseteq DOMAIN d.users /\ db.members \subseteq d.members
  <2>1. /\ IsTables(d) /\ d.users = d1.users /\ d.devices = d1.devices
        /\ d.members = d1.members /\ d.messages = d1.messages
    BY <1>7, <1>11, <1>12
  <2>2. DbOK(d)
    BY <1>8, <2>1 DEF DbOK, DevicesKnown, AuthorsOK
  <2>3. Attached(me, d)
    BY <1>7, <1>9, <1>14, <2>1 DEF Attached, NoUser
  <2>4. Attached([me EXCEPT !.current = Lobby], d)
    BY <1>7, <1>9, <1>14, <2>1 DEF Attached, NoUser, SessionRecord
  <2> QED BY <1>7, <2>1, <2>2, <2>3, <2>4
<1> QED BY <1>1, <1>10, <1>13, <1>14, <1>15 DEF d1, me, s

LEMMA JoinWorkspaceStep ==
  HubInv /\ (JoinWorkspaceAbandoned \/ JoinWorkspace) => HubInv'
<1> SUFFICES ASSUME HubInv, JoinWorkspaceAbandoned \/ JoinWorkspace PROVE HubInv'
  OBVIOUS
<1> DEFINE me == JoinedSess[Sender]
<1>1. /\ inbound # <<>> /\ inbound' = Tail(inbound) /\ Event.type = "join_workspace" /\ ~JoinRejected
      /\ \/ db' \in {JoinedDB, WithLobby} /\ sess' = JoinedSess
         \/ db' = InLobby /\ sess' = InLobbySess
  BY DEF JoinWorkspace, JoinWorkspaceAbandoned, Serve, Event
<1>2. inbound' \in Seq([from : Session, event : EventType])
  BY <1>1, EventTyped DEF HubInv
<1>3. /\ Sender \in Session /\ me \in SessionRecord /\ JoinedSess = [sess EXCEPT ![Sender] = me]
      /\ Lobby \in Channel
      /\ DbOK(db') /\ Attached(me, db') /\ Attached([me EXCEPT !.current = Lobby], db')
      /\ DOMAIN db.users \subseteq DOMAIN db'.users /\ db.members \subseteq db'.members
  BY <1>1, JoinLeaves
<1> HIDE DEF me
<1>4. [me EXCEPT !.current = Lobby] \in SessionRecord
  BY <1>3 DEF SessionRecord
<1>5. InLobbySess = [sess EXCEPT ![Sender] = [me EXCEPT !.current = Lobby]]
  BY <1>3 DEF InLobbySess, HubInv, CoreOK
<1>6. CASE sess' = JoinedSess
  BY <1>2, <1>3, <1>6, OneSessionStep
<1>7. CASE sess' = InLobbySess
  BY <1>2, <1>3, <1>4, <1>5, <1>7, OneSessionStep
<1> QED BY <1>1, <1>6, <1>7

LEMMA JoinChannelStep == HubInv /\ JoinChannel => HubInv'
<1> SUFFICES ASSUME HubInv, JoinChannel PROVE HubInv'
  OBVIOUS
<1> DEFINE s == Sender
           me == sess[s]
           chan == <<me.ws, Clean(Event.channel)>>
           withChan == EnsureChannel(db, me.ws, Event.channel)
           inChan == AddChannelMember(withChan, chan, me.user.id)
           entered == [me EXCEPT !.current = chan]
<1>1. /\ inbound # <<>> /\ inbound' = Tail(inbound) /\ Event.type = "join_channel"
      /\ \/ UNCHANGED <<sess, db>>
         \/ me.ws # Blank /\ db' = withChan /\ UNCHANGED sess
         \/ /\ me.ws # Blank /\ db' = inChan
            /\ sess' = [sess EXCEPT ![s].current = chan]
  BY DEF JoinChannel, Serve, Event
<1>2. s \in Session /\ Event \in EventType /\ inbound' \in Seq([from : Session, event : EventType])
  BY <1>1, EventTyped DEF HubInv
<1>3. me \in SessionRecord /\ Attached(me, db) /\ DbOK(db)
  BY <1>2 DEF HubInv, CoreOK
<1>4. Event.channel \in Text /\ Clean(Event.channel) \in Text
  BY <1>1, <1>2, FieldTyped, CleanTyped
<1>5. me.ws \in Text /\ chan \in Channel /\ me.user.id \in Nat
  BY <1>3, <1>4 DEF SessionRecord, Channel
<1>6. /\ IsTables(withChan)
      /\ \A t \in {"users", "devices", "workspaces", "members", "messages"} : withChan[t] = db[t]
  BY <1>3, <1>4, <1>5, EnsureChannelOK DEF DbOK
<1> HIDE DEF withChan
<1>7. /\ IsTables(inChan)
      /\ \A t \in {"users", "devices", "workspaces", "members", "messages"} : inChan[t] = withChan[t]
  BY <1>5, <1>6, AddChannelMemberOK
<1> HIDE DEF inChan
<1>8. ASSUME NEW d \in {withChan, inChan}, me.ws # Blank
      PROVE  /\ DbOK(d) /\ Attached(me, d) /\ Attached(entered, d)
             /\ DOMAIN db.users \subseteq DOMAIN d.users /\ db.members \subseteq d.members
  <2>1. /\ IsTables(d) /\ d.users = db.users /\ d.devices = db.devices
        /\ d.members = db.members /\ d.messages = db.messages
    BY <1>6, <1>7
  <2>2. DbOK(d)
    BY <1>3, <2>1 DEF DbOK, DevicesKnown, AuthorsOK
  <2>3. Attached(me, d)
    BY <1>3, <2>1 DEF Attached
  <2>4. Attached(entered, d)
    BY <1>3, <1>8, <2>1 DEF Attached, SessionRecord
  <2> QED BY <2>1, <2>2, <2>3, <2>4
<1>9. CASE UNCHANGED <<sess, db>>
  BY <1>2, <1>9, QuietStep
<1>10. CASE me.ws # Blank /\ db' = withChan /\ UNCHANGED sess
  <2>1. sess' = [sess EXCEPT ![s] = me]
    BY <1>2, <1>10 DEF HubInv, CoreOK
  <2> QED BY <1>2, <1>3, <1>8, <1>10, <2>1, OneSessionStep
<1>11. CASE me.ws # Blank /\ db' = inChan /\ sess' = [sess EXCEPT ![s].current = chan]
  <2>1. sess' = [sess EXCEPT ![s] = entered]
    BY <1>2, <1>11 DEF HubInv, CoreOK
  <2>2. entered \in SessionRecord
    BY <1>3, <1>5 DEF SessionRecord
  <2> QED BY <1>2, <1>8, <1>11, <2>1, <2>2, OneSessionStep
<1> QED BY <1>1, <1>9, <1>10, <1>11

\* The hub stores with the session's workspace and user, so that the new row
\* is a member's because the session is attached.
LEMMA SendMessageStep == HubInv /\ SendMessage => HubInv'
<1> SUFFICES ASSUME HubInv, SendMessage PROVE HubInv'
  OBVIOUS
<1> DEFINE me == sess[Sender]
           kind == IF Event.type = "send_message" THEN "chat" ELSE "emote"
           saved == SaveMessage(db, me.ws, me.current, me.user.id, kind)
<1>1. inbound # <<>> /\ inbound' = Tail(inbound) /\ sess' = sess
  BY DEF SendMessage, Serve
<1>2. Sender \in Session /\ inbound' \in Seq([from : Session, event : EventType])
  BY <1>1, EventTyped DEF HubInv
<1>3. me \in SessionRecord /\ Attached(me, db) /\ DbOK(db)
  BY <1>2 DEF HubInv, CoreOK
<1>4. db' = db \/ (me.current # NoChannel /\ db' = saved)
  BY Zenon DEF SendMessage
<1>5. CASE db' = db
  BY <1>1, <1>2, <1>5, QuietStep
<1>6. CASE me.current # NoChannel /\ db' = saved
  <2> HIDE DEF me
  <2>1. me.ws \in Text /\ me.current \in Channel /\ me.user.id \in Nat /\ kind \in MessageType
    BY <1>3 DEF SessionRecord, MessageType
  <2>2. <<me.ws, me.user.id>> \in db.members
    BY <1>3, <1>6 DEF Attached
  <2> HIDE DEF kind
  <2> HIDE DEF saved
  <2>3. IsTables(db) /\ saved = SaveMessage(db, me.ws, me.current, me.user.id, kind)
    BY <1>3 DEF DbOK, saved
  <2>4. /\ IsTables(saved) /\ saved.users = db.users
        /\ saved.devices = db.devices /\ saved.members = db.members
        /\ DOMAIN saved.messages = DOMAIN db.messages \cup {Len(db.messages) + 1}
        /\ \A i \in DOMAIN db.messages : saved.messages[i] = db.messages[i]
        /\ saved.messages[Len(db.messages) + 1].ws = me.ws
        /\ saved.messages[Len(db.messages) + 1].user = me.user.id
    BY <2>1, <2>3, SaveMessageOK
  <2>5. AuthorsOK(saved)
    BY <1>3, <2>2, <2>4 DEF AuthorsOK, DbOK
  <2>6. DbOK(saved)
    BY <1>3, <2>4, <2>5 DEF DbOK, DevicesKnown
  <2>7. Attached(me, saved)
    BY <1>3, <2>4 DEF Attached
  <2>8. sess' = [sess EXCEPT ![Sender] = me]
    BY <1>1, <1>2 DEF HubInv, CoreOK, me
  <2> QED BY <1>2, <1>3, <1>6, <2>4, <2>6, <2>7, <2>8, OneSessionStep
<1> QED BY <1>4, <1>5, <1>6

LEMMA ChangeHandleStep == HubInv /\ ChangeHandle => HubInv'
<1> SUFFICES ASSUME HubInv, ChangeHandle PROVE HubInv'
  OBVIOUS
<1> DEFINE s == Sender
           me == sess[s]
           h == NormalizeHandle(Event.handle)
           renamed == [me EXCEPT !.user.handle = h]
           e == UpdateUserHandle(db, me.user.id, h)
<1>1. /\ inbound # <<>> /\ inbound' = Tail(inbound)
      /\ \/ UNCHANGED <<sess, db>>
         \/ /\ h \in HandlePattern /\ db' = e
            /\ sess' = [sess EXCEPT ![s].user.handle = h]
  BY DEF ChangeHandle, Serve, ValidHandle
<1>2. s \in Session /\ inbound' \in Seq([from : Session, event : EventType])
  BY <1>1, EventTyped DEF HubInv
<1>3. me \in SessionRecord /\ Attached(me, db) /\ DbOK(db)
  BY <1>2 DEF HubInv, CoreOK
<1>4. CASE UNCHANGED <<sess, db>>
  BY <1>2, <1>4, QuietStep
<1>5. CASE h \in HandlePattern /\ db' = e /\ sess' = [sess EXCEPT ![s].user.handle = h]
  <2>1. sess' = [sess EXCEPT ![s] = renamed]
    BY <1>2, <1>5 DEF HubInv, CoreOK
  <2> HIDE DEF me, h
  <2>2. renamed \in SessionRecord
    BY <1>3, <1>5 DEF SessionRecord
  <2>3. /\ IsTables(e) /\ DOMAIN e.users = DOMAIN db.users
        /\ \A t \in {"devices", "members", "messages"} : e[t] = db[t]
    BY <1>3, <1>5, UpdateUserHandleOK DEF DbOK, SessionRecord
  <2> HIDE DEF e
  <2>4. e.devices = db.devices /\ e.members = db.members /\ e.messages = db.messages
    BY <2>3
  <2>5. DbOK(e)
    BY <1>3, <2>3, <2>4 DEF DbOK, DevicesKnown, AuthorsOK
  <2>6. Attached(renamed, e)
    BY <1>3, <2>3, <2>4 DEF Attached, SessionRecord
  <2> QED BY <1>2, <1>5, <2>1, <2>2, <2>3, <2>4, <2>5, <2>6, OneSessionStep
<1> QED BY <1>1, <1>4, <1>5

-----------------------------------------------------------------------------
\* Everything else: the pumps, the broadcasts and the handlers that only reply.
LEMMA OtherStep ==
  ASSUME HubInv, TodoOK, [Next]_vars,
         ~Identify, ~JoinWorkspaceAbandoned, ~JoinWorkspace, ~JoinChannel, ~SendMessage, ~ChangeHandle
  PROVE  HubInv'
<1> DEFINE Events == Seq([from : Session, event : EventType])
<1>1. inbound \in Events
  BY DEF HubInv, CoreOK
<1>2. CASE UNCHANGED vars
  BY <1>1, <1>2, QuietStep DEF vars
<1>3. ASSUME NEW s \in Session, Register(s) \/ EndRead(s) \/ WriteOut(s) \/ RemoveSession(s)
      PROVE  HubInv'
  BY <1>1, <1>3, QuietStep DEF Register, EndRead, WriteOut, RemoveSession
<1>4. ASSUME NEW s \in Session, ReadScript(s) PROVE HubInv'
  <2>1. PICK e \in Head(todo[s]) : Read(s, e)
    BY <1>4 DEF ReadScript
  <2>2. Head(todo[s]) \in SUBSET ClientEvent
    BY <1>4, HeadTailProperties DEF ReadScript, TodoOK
  <2>3. e \in EventType
    BY <2>1, <2>2, HubAssumption DEF HubAssumption
  <2>4. Append(inbound, [from |-> s, event |-> e]) \in Events
    BY <1>1, <2>3, AppendProperties
  <2> QED BY <2>1, <2>4, QuietStep DEF Read
<1>5. CASE Post \/ Tick \/ \E b \in spawned : RunSpawned(b)
  BY <1>1, <1>5, QuietStep DEF Post, Tick, RunSpawned
<1>6. CASE JoinWorkspaceRefused \/ RequestHistory \/ RequestUsers \/ RequestChannels \/ Typing
           \/ Reply \/ PingUser \/ PingAll
  <2>1. inbound # <<>> /\ inbound' = Tail(inbound) /\ UNCHANGED <<sess, db>>
    BY <1>6 DEF JoinWorkspaceRefused, RequestHistory, RequestUsers, RequestChannels, Typing, Reply,
                PingUser, PingAll, Serve
  <2>2. inbound' \in Events
    BY <2>1, EventTyped DEF HubInv
  <2> QED BY <2>1, <2>2, QuietStep
<1> QED BY <1>2, <1>3, <1>4, <1>5, <1>6 DEF Next, Pump, Handle

LEMMA HubStep ==
  HubInv /\ TodoOK /\ [Next]_vars => HubInv'
  BY IdentifyStep, JoinWorkspaceStep, JoinChannelStep, SendMessageStep, ChangeHandleStep, OtherStep

\* What is left of a script is one.
LEMMA TodoStep ==
  TodoOK /\ [Next]_vars => TodoOK'
<1> SUFFICES ASSUME TodoOK, [Next]_vars PROVE TodoOK'
  OBVIOUS
<1>1. ASSUME NEW s \in Session, ReadScript(s) PROVE TodoOK'
  <2>1. Tail(todo[s]) \in Seq(SUBSET ClientEvent)
    BY <1>1, HeadTailProperties DEF ReadScript, TodoOK
  <2> QED BY <1>1, <2>1 DEF ReadScript, Read, TodoOK
<1>2. ASSUME NEW s \in Session, Register(s) \/ EndRead(s) \/ WriteOut(s) \/ RemoveSession(s)
      PROVE  todo' = todo
  BY <1>2 DEF Register, EndRead, WriteOut, RemoveSession
<1>3. CASE Post \/ Tick \/ (\E b \in spawned : RunSpawned(b)) \/ UNCHANGED vars
  BY <1>3 DEF Post, Tick, RunSpawned, vars, TodoOK
<1>4. CASE Handle
  BY <1>4 DEF Handle, Identify, JoinWorkspaceRefused, JoinWorkspaceAbandoned, JoinWorkspace, JoinChannel,
              SendMessage, RequestHistory, RequestUsers, RequestChannels, Typing, Reply, PingUser,
              PingAll, ChangeHandle, Serve, TodoOK
<1> QED BY <1>1, <1>2, <1>3, <1>4 DEF Next, Pump, TodoOK

LEMMA HubInit == Init => HubInv /\ TodoOK
<1> SUFFICES ASSUME Init PROVE HubInv /\ TodoOK
  OBVIOUS
<1>1. IsTables(EmptyDB) /\ DevicesKnown(EmptyDB) /\ AuthorsOK(EmptyDB)
  BY EmptySeq DEF EmptyDB, IsTables, DevicesKnown, AuthorsOK
<1>2. NewSession \in SessionRecord /\ Attached(NewSession, EmptyDB)
  BY StoreAssumption DEF StoreAssumption, NewSession, SessionRecord, Attached, NoUser, NoChannel,
                         Channel, Blank
<1>3. inbound \in Seq([from : Session, event : EventType]) /\ sess = [s \in Session |-> NewSession]
      /\ db = EmptyDB /\ TodoOK
  BY EmptySeq, HubAssumption DEF Init, HubAssumption, TodoOK
<1> QED BY <1>1, <1>2, <1>3 DEF HubInv, CoreOK, DbOK

LEMMA HubInvariant == Spec => []HubInv
<1>1. HubInv /\ TodoOK /\ [Next]_vars => HubInv' /\ TodoOK'
  BY HubStep, TodoStep
<1> QED BY <1>1, HubInit, PTL DEF Spec

\* Every stored message was written by a member of the workspace it is filed
\* under, whichever joins were abandoned half-way.
THEOREM AuthorsCorrect == Spec => []AuthorsAreMembers
<1>1. HubInv => AuthorsAreMembers
  BY DEF HubInv, DbOK, AuthorsOK, AuthorsAreMembers
<1> QED BY <1>1, HubInvariant, PTL

-----------------------------------------------------------------------------
(* The constraints of the schema hold without a check at run time.         *)

\* The steps that change a table are five handlers.
LEMMA DbChanges ==
  ASSUME [Next]_vars
  PROVE  \/ db' = db \/ JoinWorkspaceAbandoned \/ JoinWorkspace \/ JoinChannel
         \/ SendMessage \/ ChangeHandle
<1>1. ASSUME NEW t \in Session, Pump(t) PROVE db' = db
  BY <1>1 DEF Pump, Register, ReadScript, Read, EndRead, WriteOut, RemoveSession
<1>2. CASE Post \/ Tick \/ (\E b \in spawned : RunSpawned(b)) \/ UNCHANGED vars
  BY <1>2 DEF Post, Tick, RunSpawned, vars
<1>3. CASE Identify \/ JoinWorkspaceRefused \/ RequestHistory \/ RequestUsers \/ RequestChannels
           \/ Typing \/ Reply \/ PingUser \/ PingAll
  BY <1>3 DEF Identify, JoinWorkspaceRefused, RequestHistory, RequestUsers, RequestChannels, Typing,
              Reply, PingUser, PingAll
<1> QED BY <1>1, <1>2, <1>3 DEF Next, Handle

LEMMA TablesStep ==
  ASSUME HubInv, Consistent(db), [Next]_vars
  PROVE  Consistent(db')
<1> DEFINE me == sess[Sender]
<1>1. CASE db' = db
  BY <1>1
<1>2. CASE JoinWorkspaceAbandoned \/ JoinWorkspace
  <2> DEFINE fp == Fingerprint(Sender)
  <2>1. /\ inbound # <<>> /\ Event.type = "join_workspace" /\ ~JoinRejected
        /\ db' \in {JoinedDB, WithLobby, InLobby}
    BY <1>2 DEF JoinWorkspace, JoinWorkspaceAbandoned, Serve, Event
  <2>2. Sender \in Session /\ Event \in EventType /\ me \in SessionRecord
    BY <2>1, EventTyped DEF HubInv, CoreOK
  <2>3. JoinTarget \in Text /\ JoinCode \in Text
    BY <2>1, <2>2, FieldTyped, CleanTyped DEF JoinTarget, JoinCode
  <2>4. fp \in Fingerprints
    BY <2>2 DEF Fingerprint, Fingerprints, SessionRecord
  <2>5. JoinHandle \in HandlePattern \cup {Blank}
    BY <2>2, StoreAssumption DEF StoreAssumption, JoinHandle, SessionRecord
  <2>6. DbOK(db) /\ ~JoinRefused(db, JoinTarget, JoinCode, fp, JoinHandle)
    BY <2>1 DEF HubInv, JoinRejected
  <2>7. IsTables(db) /\ DevicesKnown(db)
    BY <2>6 DEF DbOK
  <2>8. Consistent(JoinedDB)
    BY <2>3, <2>4, <2>5, <2>6, <2>7, JoinWorkspaceTxConsistent DEF JoinedDB
  <2>9. IsTables(JoinedDB)
    BY <2>1, JoinLeaves DEF DbOK
  <2> HIDE DEF me, fp
  <2>10. JoinedDB = [users |-> JoinedDB.users, workspaces |-> JoinedDB.workspaces,
                    devices |-> JoinedDB.devices, members |-> JoinedDB.members,
                    channels |-> JoinedDB.channels, inChannel |-> JoinedDB.inChannel,
                    messages |-> JoinedDB.messages]
    BY <2>9 DEF IsTables
  <2>11. \A d \in {WithLobby, InLobby} :
          d.users = JoinedDB.users /\ d.devices = JoinedDB.devices /\ d.workspaces = JoinedDB.workspaces
    BY <2>10 DEF WithLobby, InLobby, EnsureChannel, AddChannelMember
  <2> QED BY <2>1, <2>8, <2>11, ConsistentTables
<1>3. CASE JoinChannel \/ SendMessage
  <2>1. db.users = db'.users /\ db.devices = db'.devices /\ db.workspaces = db'.workspaces
    BY <1>3 DEF JoinChannel, SendMessage, EnsureChannel, AddChannelMember, SaveMessage, HubInv, DbOK,
                IsTables
  <2> QED BY <2>1, ConsistentTables
<1>4. CASE ChangeHandle
  <2> DEFINE h == NormalizeHandle(Event.handle)
             u == me.user.id
  <2>1. inbound # <<>>
    BY <1>4 DEF ChangeHandle, Serve
  <2>2. Sender \in Session /\ me \in SessionRecord /\ Attached(me, db)
    BY <2>1, EventTyped DEF HubInv, CoreOK
  <2>3. CASE db' = UpdateUserHandle(db, u, h) /\ u # NoUser /\ h \in HandlePattern /\ ~HandleTaken(db, u, h)
    <3>1. u \in DOMAIN db.users
      BY <2>2, <2>3 DEF Attached
    <3>2. IsTables(db)
      BY DEF HubInv, DbOK
    <3> HIDE DEF u, h
    <3> QED BY <2>3, <3>1, <3>2, UpdateUserHandleConsistent
  <2>4. \/ db' = db
        \/ db' = UpdateUserHandle(db, u, h) /\ u # NoUser /\ h \in HandlePattern /\ ~HandleTaken(db, u, h)
    BY <1>4 DEF ChangeHandle, ValidHandle
  <2> QED BY <2>3, <2>4
<1> QED BY <1>1, <1>2, <1>3, <1>4, DbChanges

\* The steps that change a device row are joins, and their row is of a
\* fingerprint of the hub's.
LEMMA DevicesStep ==
  ASSUME HubInv, NEW FP, Fingerprints \subseteq FP, DevicesFrom(db, FP), [Next]_vars
  PROVE  DevicesFrom(db', FP)
<1>1. CASE db'.devices = db.devices
  BY <1>1 DEF DevicesFrom
<1>2. CASE JoinWorkspaceAbandoned \/ JoinWorkspace
  <2> DEFINE fp == Fingerprint(Sender)
  <2>1. /\ inbound # <<>> /\ Event.type = "join_workspace" /\ ~JoinRejected
        /\ db' \in {JoinedDB, WithLobby, InLobby}
    BY <1>2 DEF JoinWorkspace, JoinWorkspaceAbandoned, Serve, Event
  <2>2. fp \in FP
    BY <2>1, EventTyped DEF HubInv, CoreOK, Fingerprint, Fingerprints, SessionRecord
  <2>3. IsTables(db)
    BY DEF HubInv, CoreOK
  <2> HIDE DEF fp
  <2>4. DevicesFrom(JoinedDB, FP)
    BY <2>2, <2>3, JoinWorkspaceTxDevices DEF JoinedDB, fp
  <2>5. IsTables(JoinedDB)
    BY <2>1, JoinLeaves DEF DbOK
  <2>6. WithLobby.devices = JoinedDB.devices /\ InLobby.devices = JoinedDB.devices
    BY <2>5, TableIsRecord DEF WithLobby, InLobby, EnsureChannel, AddChannelMember
  <2> QED BY <2>1, <2>4, <2>6 DEF DevicesFrom
<1>3. CASE JoinChannel \/ SendMessage
  <2> QED BY <1>1, <1>3 DEF JoinChannel, SendMessage, EnsureChannel, AddChannelMember, SaveMessage,
                            HubInv, DbOK, IsTables
<1>4. CASE ChangeHandle
  <2> DEFINE u == sess[Sender].user.id
             h == NormalizeHandle(Event.handle)
  <2>1. db' = db \/ db' = UpdateUserHandle(db, u, h)
    BY <1>4 DEF ChangeHandle
  <2> HIDE DEF u, h
  <2>2. UpdateUserHandle(db, u, h).devices = db.devices
    BY TableIsRecord DEF UpdateUserHandle, HubInv, DbOK
  <2> QED BY <1>1, <2>1, <2>2
<1> QED BY <1>1, <1>2, <1>3, <1>4, DbChanges

\* Session fields, waiting events and tables have their types, in every run of
\* any clients and whatever queries fail.
THEOREM CoreTyped == Spec => []CoreTypes
<1>1. Init => DevicesFrom(db, Fingerprints)
  BY DEF Init, EmptyDB, DevicesFrom
<1>2. HubInv /\ DevicesFrom(db, Fingerprints) /\ [Next]_vars => DevicesFrom(db, Fingerprints)'
  BY DevicesStep DEF DevicesFrom, Fingerprints
<1>3. HubInv /\ DevicesFrom(db, Fingerprints) => CoreTypes
  BY TablesTyped DEF HubInv, CoreOK, CoreTypes
<1> QED BY <1>1, <1>2, <1>3, HubInvariant, PTL DEF Spec

\* Handles and device rows stay unique and owner_handle stays a copy of the
\* owner's handle, in every run: no insert or update trips on an index.
THEOREM TablesCorrect == Spec => []TablesConsistent
<1>1. Init => Consistent(db)
  BY DEF Init, EmptyDB, Consistent, HandlesUnique, DevicesUnique, OwnersConsistent
<1>2. HubInv /\ Consistent(db) /\ [Next]_vars => Consistent(db)'
  <2>1. Consistent(db)' <=> Consistent(db')
    BY DEF Consistent, HandlesUnique, DevicesUnique, OwnersConsistent
  <2> QED BY <2>1, TablesStep
<1>3. Consistent(db) => TablesConsistent
  BY DEF Consistent, TablesConsistent
<1> QED BY <1>1, <1>2, <1>3, HubInvariant, PTL DEF Spec
-----------------------------------------------------------------------------
(* The cooldown of pings.                                                  *)

\* The clock and the times of the accepted pings are numbers, and no ping is
\* from the future.
PingTimes == now \in Nat /\ \A k \in DOMAIN lastPing : lastPing[k] \in Nat

\* What a step does to the accepted pings: nothing, or one is accepted now that
\* was not cooling down.
PingStep ==
  \/ lastPing' = lastPing
  \/ \E key : lastPing' = With(lastPing, key, now) /\ ~CoolingDown(key)

LEMMA ClockStep == [Next]_vars => now' = now \/ (now < MaxTime /\ now' = now + 1)
<1> SUFFICES ASSUME [Next]_vars PROVE now' = now \/ (now < MaxTime /\ now' = now + 1)
  OBVIOUS
<1>1. ASSUME NEW t \in Session, Pump(t) PROVE now' = now
  <2>1. CASE Register(t) \/ EndRead(t)
    BY <2>1 DEF Register, EndRead
  <2>2. CASE ReadScript(t) \/ WriteOut(t)
    BY <2>2 DEF ReadScript, Read, WriteOut
  <2>3. CASE RemoveSession(t)
    BY <2>3 DEF RemoveSession
  <2> QED BY <1>1, <2>1, <2>2, <2>3 DEF Pump
<1>2. CASE Post \/ Tick \/ (\E b \in spawned : RunSpawned(b)) \/ UNCHANGED vars
  BY <1>2 DEF Post, Tick, RunSpawned, vars
<1>3. CASE Identify \/ JoinWorkspaceRefused \/ RequestHistory \/ RequestUsers \/ RequestChannels
           \/ Typing \/ Reply
  BY <1>3 DEF Identify, JoinWorkspaceRefused, RequestHistory, RequestUsers, RequestChannels, Typing,
              Reply, Serve
<1>4. CASE JoinWorkspaceAbandoned \/ JoinWorkspace
  BY <1>4 DEF JoinWorkspaceAbandoned, JoinWorkspace, Serve
<1>5. CASE JoinChannel \/ SendMessage \/ ChangeHandle
  BY <1>5 DEF JoinChannel, SendMessage, ChangeHandle, Serve
<1>6. CASE PingUser \/ PingAll
  BY <1>6 DEF PingUser, PingAll, Serve
<1> QED BY <1>1, <1>2, <1>3, <1>4, <1>5, <1>6 DEF Next, Handle

LEMMA PingSteps == [Next]_vars => PingStep
<1> SUFFICES ASSUME [Next]_vars PROVE PingStep
  OBVIOUS
<1>1. ASSUME NEW t \in Session, Pump(t) PROVE lastPing' = lastPing
  BY <1>1 DEF Pump, Register, ReadScript, Read, EndRead, WriteOut, RemoveSession
<1>2. CASE Post \/ Tick \/ (\E b \in spawned : RunSpawned(b)) \/ UNCHANGED vars
  <2>1. lastPing' = lastPing
    BY <1>2 DEF Post, Tick, RunSpawned, vars
  <2> QED BY <2>1 DEF PingStep
<1>3. CASE PingUser
  BY <1>3 DEF PingUser, PingStep
<1>4. CASE PingAll
  BY <1>4 DEF PingAll, PingStep
<1>5. CASE Identify \/ JoinWorkspaceRefused \/ RequestHistory \/ RequestUsers \/ RequestChannels
           \/ Typing \/ Reply \/ JoinChannel \/ SendMessage
  <2>1. lastPing' = lastPing
    BY <1>5 DEF Identify, JoinWorkspaceRefused, RequestHistory, RequestUsers, RequestChannels, Typing,
                Reply, JoinChannel, SendMessage
  <2> QED BY <2>1 DEF PingStep
<1>6. CASE JoinWorkspaceAbandoned \/ JoinWorkspace \/ ChangeHandle
  <2>1. lastPing' = lastPing
    BY <1>6 DEF JoinWorkspaceAbandoned, JoinWorkspace, ChangeHandle
  <2> QED BY <2>1 DEF PingStep
<1> QED BY <1>1, <1>2, <1>3, <1>4, <1>5, <1>6 DEF Next, Handle, PingStep

\* Two accepted pings of one user, scope and effect are at least three seconds
\* apart, eight when they went to everybody, in every run and for any number of
\* sessions of the user.
THEOREM PingsLimited == Spec => PingsRateLimited
<1> DEFINE Apart ==
      \A k \in DOMAIN lastPing :
        \/ lastPing'[k] = lastPing[k]
        \/ lastPing'[k] - lastPing[k] >= (IF k[2] = "all" THEN 8 ELSE 3)
<1>1. Init => PingTimes
  BY DEF Init, PingTimes
<1>2. PingTimes /\ [Next]_vars => PingTimes'
  <2> SUFFICES ASSUME PingTimes, [Next]_vars PROVE PingTimes'
    OBVIOUS
  <2>1. now' \in Nat
    BY ClockStep DEF PingTimes
  <2>2. \A k \in DOMAIN lastPing' : lastPing'[k] \in Nat
    BY PingSteps DEF PingTimes, PingStep, With
  <2> QED BY <2>1, <2>2 DEF PingTimes
<1>3. PingTimes /\ [Next]_vars => [Apart]_vars
  <2> SUFFICES ASSUME PingTimes, [Next]_vars, NEW k \in DOMAIN lastPing
               PROVE \/ lastPing'[k] = lastPing[k]
                     \/ lastPing'[k] - lastPing[k] >= (IF k[2] = "all" THEN 8 ELSE 3)
    OBVIOUS
  <2>1. CASE lastPing' = lastPing
    BY <2>1
  <2>2. ASSUME NEW key, lastPing' = With(lastPing, key, now), ~CoolingDown(key)
        PROVE \/ lastPing'[k] = lastPing[k]
              \/ lastPing'[k] - lastPing[k] >= (IF k[2] = "all" THEN 8 ELSE 3)
    <3>1. CASE k # key
      BY <2>2, <3>1 DEF With
    <3>2. CASE k = key
      <4>1. lastPing'[k] = now
        BY <2>2, <3>2 DEF With
      <4>2. ~(now - lastPing[k] < Cooldown(k))
        BY <2>2, <3>2 DEF CoolingDown
      <4>3. Cooldown(k) \in Nat /\ Cooldown(k) >= (IF k[2] = "all" THEN 8 ELSE 3)
        BY DEF Cooldown
      <4>4. now \in Nat /\ lastPing[k] \in Nat
        BY DEF PingTimes
      <4> QED BY <4>1, <4>2, <4>3, <4>4
    <3> QED BY <3>1, <3>2
  <2> QED BY <2>1, <2>2, PingSteps DEF PingStep
<1> QED BY <1>1, <1>2, <1>3, PTL DEF Spec, PingsRateLimited
-----------------------------------------------------------------------------
(* Sessions, presence and where messages are filed.                        *)

\* The hub is about to let in a session that carries a user already.
Rejoin ==
  /\ inbound # <<>> /\ Event.type = "join_workspace"
  /\ ~JoinRejected /\ sess[Sender].user.id # NoUser

\* Such a join is of the workspace the session is in, and for its user.
StaysInWorkspace == Rejoin => JoinTarget = sess[Sender].ws
KeepsAccount     == Rejoin => JoinedUser = sess[Sender].user.id

Joining == JoinWorkspaceAbandoned \/ JoinWorkspace

PresenceRow == [handle : Text, channel : Text, online : BOOLEAN]

\* Presence has its type and names users that exist.
PresenceOK ==
  /\ presence \in [DOMAIN presence -> PresenceRow]
  /\ DOMAIN presence \subseteq Text \X DOMAIN db.users

\* A session is attached to the workspace it carries, and no other.
ScopedOK ==
  \A p \in scoped : \E s \in Session :
    p = <<sess[s].ws, s>> /\ sess[s].ws # Blank /\ sess[s].user.id # NoUser

\* The channel a session is in exists, is of its workspace and has its user.
InChannels ==
  \A s \in Session : sess[s].current # NoChannel =>
    /\ sess[s].current \in db.channels /\ sess[s].current[1] = sess[s].ws
    /\ <<sess[s].current, sess[s].user.id>> \in db.inChannel

\* Sessions and messages are in channels of their own workspace.
ChannelsOwn ==
  \A s \in Session : sess[s].current # NoChannel => sess[s].current[1] = sess[s].ws
RoomsOwn == \A i \in DOMAIN db.messages : db.messages[i].chan[1] = db.messages[i].ws
PlacesInv == ScopedOK /\ ChannelsOwn /\ RoomsOwn

\* Nothing of a session reaches the hub before it is registered.
NewIsFresh ==
  \A s \in Session : link[s] = "new" =>
    sess[s].user.id = NoUser /\ \A i \in DOMAIN inbound : inbound[i].from # s
LinkOK == link \in [Session -> {"new", "reading", "ended", "gone"}] /\ sessions \subseteq Session

\* An attached session whose user no other session is, is shown online.
SoleOnline ==
  \A s \in sessions :
    /\ <<sess[s].ws, s>> \in scoped
    /\ \A t \in Session \ {s} : sess[t].user.id # sess[s].user.id
    => /\ <<sess[s].ws, sess[s].user.id>> \in DOMAIN presence
       /\ presence[<<sess[s].ws, sess[s].user.id>>].online

SessionInv ==
  /\ PresenceOK /\ ScopedOK /\ InChannels /\ NewIsFresh /\ LinkOK
  /\ MessagesFiled /\ OnlineIsAttached

\* What is queued for a session is about messages of its workspace.
Own(d, me, env) ==
  \A j \in DOMAIN env.msgs :
    /\ env.msgs[j] \in DOMAIN d.messages /\ d.messages[env.msgs[j]].ws = me.ws
    /\ me.user.id # NoUser
QueuesOwn ==
  /\ \A s \in Session : \A i \in DOMAIN sendq[s] : Own(db, sess[s], sendq[s][i])
  /\ \A i \in DOMAIN outbox : \A s \in outbox[i].to : Own(db, sess[s], outbox[i].env)
  /\ \A b \in spawned : b.env.msgs = <<>>

\* All clients name one workspace.
OneWorkspace(ws) == \A e \in ClientEvent : e.type = "join_workspace" => Clean(e.workspace) = ws
OneWorkspaceInv(ws) ==
  /\ PresenceHandleFresh
  /\ DOMAIN presence \subseteq {ws} \X DOMAIN db.users
  /\ \A s \in Session : sess[s].user.id # NoUser => sess[s].ws = ws
-----------------------------------------------------------------------------
(* What the steps do to the sessions' fields.                              *)

\* The steps that leave all of them alone.
LEMMA SessKept ==
  ASSUME [Next]_vars, ~Joining, ~Identify, ~JoinChannel, ~ChangeHandle
  PROVE  sess' = sess
<1>1. ASSUME NEW t \in Session, Pump(t) PROVE sess' = sess
  BY <1>1 DEF Pump, Register, ReadScript, Read, EndRead, WriteOut, RemoveSession
<1>2. CASE Post \/ Tick \/ (\E b \in spawned : RunSpawned(b)) \/ UNCHANGED vars
  BY <1>2 DEF Post, Tick, RunSpawned, vars
<1>3. CASE JoinWorkspaceRefused \/ SendMessage \/ RequestHistory \/ RequestUsers \/ RequestChannels
           \/ Typing \/ Reply \/ PingUser \/ PingAll
  BY <1>3 DEF JoinWorkspaceRefused, SendMessage, RequestHistory, RequestUsers, RequestChannels, Typing,
              Reply, PingUser, PingAll
<1> QED BY <1>1, <1>2, <1>3 DEF Next, Handle, Joining

\* Only a join changes who a session acts for.
LEMMA IdentityKept ==
  ASSUME HubInv, [Next]_vars, ~Joining
  PROVE  \A s \in Session :
           /\ sess'[s].user.id = sess[s].user.id /\ sess'[s].ws = sess[s].ws
           /\ JoinChannel \/ sess'[s].current = sess[s].current
<1> SUFFICES ASSUME NEW s \in Session
             PROVE  /\ sess'[s].user.id = sess[s].user.id /\ sess'[s].ws = sess[s].ws
                    /\ JoinChannel \/ sess'[s].current = sess[s].current
  OBVIOUS
<1>1. sess \in [Session -> SessionRecord]
  BY DEF HubInv, CoreOK
<1>2. CASE sess' = sess
  BY <1>2
<1>3. CASE Identify
  <2>1. PICK token, pending : \/ sess' = sess
                              \/ sess' = [sess EXCEPT ![Sender].token = token]
                              \/ sess' = [sess EXCEPT ![Sender].token = token, ![Sender].pending = pending]
    BY <1>3 DEF Identify
  <2> QED BY <1>1, <2>1 DEF SessionRecord
<1>4. CASE JoinChannel
  <2>1. PICK chan : sess' = sess \/ sess' = [sess EXCEPT ![Sender].current = chan]
    BY <1>4 DEF JoinChannel
  <2> QED BY <1>1, <1>4, <2>1 DEF SessionRecord
<1>5. CASE ChangeHandle
  <2>1. PICK h : sess' = sess \/ sess' = [sess EXCEPT ![Sender].user.handle = h]
    BY <1>5 DEF ChangeHandle
  <2> QED BY <1>1, <2>1 DEF SessionRecord
<1> QED BY <1>2, <1>3, <1>4, <1>5, SessKept

\* What a join does to the session it is of.
LEMMA JoinIdentity ==
  ASSUME HubInv, Joining
  PROVE  LET s == Sender
             me == sess'[s]
         IN /\ s \in Session /\ inbound # <<>> /\ inbound' = Tail(inbound) /\ Event.type = "join_workspace"
            /\ ~JoinRejected
            /\ sess[s].user.id = NoUser => sess[s].current = NoChannel /\ sess[s].ws = Blank
            /\ sess[s].user.id # NoUser => Rejoin
            /\ \A t \in Session \ {s} : sess'[t] = sess[t]
            /\ me.user.id = JoinedUser /\ me.user.handle = JoinedDB.users[JoinedUser]
            /\ me.ws = JoinTarget /\ JoinTarget \in Text \ {Blank}
            /\ JoinedUser \in DOMAIN JoinedDB.users /\ JoinedUser \in DOMAIN db'.users /\ JoinedUser # NoUser
            /\ DOMAIN db.users \subseteq DOMAIN db'.users
            /\ \/ me.current = sess[s].current /\ db' \in {JoinedDB, WithLobby} /\ scoped' = scoped
                  /\ presence' = presence
               \/ me.current = Lobby /\ db' = InLobby /\ scoped' = scoped \cup {<<JoinTarget, s>>}
<1> DEFINE s == Sender
           me == JoinedSess[s]
<1>1. /\ inbound # <<>> /\ inbound' = Tail(inbound) /\ Event.type = "join_workspace" /\ ~JoinRejected
      /\ \/ sess' = JoinedSess /\ db' \in {JoinedDB, WithLobby} /\ scoped' = scoped /\ presence' = presence
         \/ sess' = InLobbySess /\ db' = InLobby /\ scoped' = scoped \cup {<<JoinTarget, s>>}
  BY DEF Joining, JoinWorkspace, JoinWorkspaceAbandoned, Serve, Event
<1>2. /\ s \in Session /\ me \in SessionRecord /\ JoinedSess = [sess EXCEPT ![s] = me]
      /\ Lobby \in Channel
      /\ \A d \in {JoinedDB, WithLobby, InLobby} :
           /\ Attached(me, d) /\ DOMAIN db.users \subseteq DOMAIN d.users
  BY <1>1, JoinLeaves
<1>3. sess \in [Session -> SessionRecord] /\ Attached(sess[s], db)
  BY <1>2 DEF HubInv, CoreOK
<1>4. sess[s].user.id # NoUser => Rejoin
  BY <1>1 DEF Rejoin
<1>5. sess[s].user.id = NoUser => sess[s].current = NoChannel /\ sess[s].ws = Blank
  BY <1>3 DEF Attached
<1>6. /\ me = [sess[s] EXCEPT !.user = [id |-> JoinedUser, handle |-> JoinedDB.users[JoinedUser]],
                              !.ws = JoinTarget, !.pending = JoinedDB.users[JoinedUser]]
  BY <1>2, <1>3 DEF JoinedSess
<1>7. /\ me.user.id = JoinedUser /\ me.user.handle = JoinedDB.users[JoinedUser] /\ me.ws = JoinTarget
      /\ me.current = sess[s].current
  BY <1>3, <1>6 DEF SessionRecord
<1>8. InLobbySess = [sess EXCEPT ![s] = [me EXCEPT !.current = Lobby]]
  <2> HIDE DEF me
  <2> QED BY <1>2, <1>3 DEF InLobbySess
<1> HIDE DEF me
<1>9. JoinTarget \in Text /\ JoinTarget # Blank
  <2>1. Event \in EventType /\ Event.workspace \in Text
    BY <1>1, EventTyped, FieldTyped DEF HubInv
  <2>2. Trim[Event.workspace] # Blank
    BY <1>1 DEF JoinRejected
  <2> QED BY <2>1, <2>2, CleanTyped, StoreAssumption DEF StoreAssumption, JoinTarget, Clean
<1>10. JoinedUser # NoUser /\ \A d \in {JoinedDB, WithLobby, InLobby} : JoinedUser \in DOMAIN d.users
  BY <1>2, <1>7, <1>9 DEF Attached
<1>11. /\ \A t \in Session \ {s} : sess'[t] = sess[t]
       /\ \/ sess'[s] = me /\ db' \in {JoinedDB, WithLobby} /\ scoped' = scoped /\ presence' = presence
          \/ sess'[s] = [me EXCEPT !.current = Lobby] /\ db' = InLobby
             /\ scoped' = scoped \cup {<<JoinTarget, s>>}
  BY <1>1, <1>2, <1>3, <1>8
<1>12. /\ sess'[s].user = me.user /\ sess'[s].ws = me.ws
       /\ \/ sess'[s].current = sess[s].current /\ db' \in {JoinedDB, WithLobby} /\ scoped' = scoped
             /\ presence' = presence
          \/ sess'[s].current = Lobby /\ db' = InLobby /\ scoped' = scoped \cup {<<JoinTarget, s>>}
  BY <1>2, <1>7, <1>11 DEF SessionRecord
<1> QED BY <1>1, <1>2, <1>4, <1>5, <1>7, <1>9, <1>10, <1>11, <1>12
-----------------------------------------------------------------------------
(* Clients that name one workspace on a connection.                        *)

IsJoin(e) == e.type = "join_workspace"
Names(e, ws) == IsJoin(e) => Clean(e.workspace) = ws

\* What a client asks for on a connection is one workspace, however often.
OneWorkspacePerScript ==
  \A f \in Script : \A s \in Session : \E ws \in Text :
    \A i \in DOMAIN f[s] : \A e \in f[s][i] : Names(e, ws)

\* A session's joins, those to be sent and those on their way to the hub, are
\* of one workspace, and it is in no other.
WorkspaceFixed ==
  \A s \in Session : \E ws \in Text :
    /\ \A i \in DOMAIN todo[s] : \A e \in todo[s][i] : Names(e, ws)
    /\ \A i \in DOMAIN inbound : inbound[i].from = s => Names(inbound[i].event, ws)
    /\ sess[s].user.id # NoUser => sess[s].ws = ws

\* The event the hub is about to take is of the fixed workspace.
LEMMA FixedStays == HubInv /\ WorkspaceFixed => StaysInWorkspace
<1> SUFFICES ASSUME HubInv, WorkspaceFixed, Rejoin PROVE JoinTarget = sess[Sender].ws
  BY DEF StaysInWorkspace
<1>1. 1 \in DOMAIN inbound /\ inbound[1].from = Sender /\ inbound[1].event = Event
  BY DEF Rejoin, HubInv, CoreOK, Sender, Event
<1>2. Sender \in Session
  BY EventTyped DEF Rejoin, HubInv
<1> QED BY <1>1, <1>2 DEF WorkspaceFixed, Rejoin, Names, IsJoin, JoinTarget

\* A step takes the first element of a session's script and puts an event of
\* it behind the others, or takes the first event, or leaves both.
LEMMA TodoSteps ==
  ASSUME [Next]_vars
  PROVE  \/ todo' = todo /\ inbound' = inbound /\ sess' = sess
         \/ todo' = todo /\ inbound # <<>> /\ inbound' = Tail(inbound)
         \/ \E s \in Session : /\ todo[s] # <<>> /\ todo' = [todo EXCEPT ![s] = Tail(@)] /\ sess' = sess
                               /\ \E e \in Head(todo[s]) :
                                    inbound' = Append(inbound, [from |-> s, event |-> e])
<1>1. CASE \E t \in Session : Register(t) \/ EndRead(t) \/ RemoveSession(t) \/ WriteOut(t)
  BY <1>1 DEF Register, EndRead, RemoveSession, WriteOut
<1>2. CASE \E t \in Session : ReadScript(t)
  BY <1>2 DEF ReadScript, Read
<1>3. CASE Post \/ Tick \/ (\E b \in spawned : RunSpawned(b)) \/ UNCHANGED vars
  BY <1>3 DEF Post, Tick, RunSpawned, vars
<1>4. CASE Handle
  <2>1. ASSUME NEW types, Serve(types) PROVE todo' = todo /\ inbound # <<>> /\ inbound' = Tail(inbound)
    BY <2>1 DEF Serve
  <2>2. CASE Identify \/ JoinWorkspaceRefused \/ JoinWorkspaceAbandoned \/ JoinWorkspace \/ JoinChannel
             \/ SendMessage \/ RequestHistory
    BY <2>1, <2>2 DEF Identify, JoinWorkspaceRefused, JoinWorkspaceAbandoned, JoinWorkspace, JoinChannel,
                      SendMessage, RequestHistory
  <2>3. CASE RequestUsers \/ RequestChannels \/ Typing \/ Reply \/ PingUser \/ PingAll \/ ChangeHandle
    BY <2>1, <2>3 DEF RequestUsers, RequestChannels, Typing, Reply, PingUser, PingAll, ChangeHandle
  <2> QED BY <1>4, <2>2, <2>3 DEF Handle
<1> QED BY <1>1, <1>2, <1>3, <1>4 DEF Next, Pump

LEMMA WorkspaceFixedStep ==
  ASSUME HubInv, TodoOK, WorkspaceFixed, [Next]_vars
  PROVE  WorkspaceFixed'
<1> DEFINE Fixed(me, q, left, s, ws) ==
             /\ \A i \in DOMAIN left : \A e \in left[i] : Names(e, ws)
             /\ \A i \in DOMAIN q : q[i].from = s => Names(q[i].event, ws)
             /\ me.user.id # NoUser => me.ws = ws
<1> SUFFICES ASSUME NEW s \in Session
             PROVE  \E ws \in Text : Fixed(sess'[s], inbound', todo'[s], s, ws)
  BY DEF WorkspaceFixed
<1>1. PICK ws \in Text : Fixed(sess[s], inbound, todo[s], s, ws)
  BY DEF WorkspaceFixed
<1>2. inbound \in Seq([from : Session, event : EventType]) /\ todo \in [Session -> Seq(SUBSET ClientEvent)]
  BY DEF HubInv, CoreOK, TodoOK
<1> SUFFICES Fixed(sess'[s], inbound', todo'[s], s, ws)
  OBVIOUS
<1>3. CASE todo' = todo /\ inbound' = inbound /\ sess' = sess
  BY <1>1, <1>3
<1>4. CASE todo' = todo /\ inbound # <<>> /\ inbound' = Tail(inbound)
  <2>1. /\ 1 \in DOMAIN inbound /\ inbound[1] = Head(inbound)
        /\ \A i \in DOMAIN inbound' : i + 1 \in DOMAIN inbound /\ inbound'[i] = inbound[i + 1]
    BY <1>2, <1>4
  <2>2. \A i \in DOMAIN inbound' : inbound'[i].from = s => Names(inbound'[i].event, ws)
    BY <1>1, <2>1
  <2>3. sess'[s].user.id # NoUser => sess'[s].ws = ws
    <3>1. CASE Joining /\ s = Sender
      <4>1. Event.type = "join_workspace" /\ sess'[s].ws = JoinTarget
        BY <3>1, JoinIdentity
      <4>2. Names(Event, ws)
        BY <1>1, <2>1, <3>1 DEF Sender, Event
      <4> QED BY <4>1, <4>2 DEF Names, IsJoin, JoinTarget
    <3>2. CASE sess'[s].user.id = sess[s].user.id /\ sess'[s].ws = sess[s].ws
      BY <1>1, <3>2
    <3>3. CASE Joining /\ s # Sender
      BY <3>2, <3>3, JoinIdentity
    <3> QED BY <3>1, <3>2, <3>3, IdentityKept
  <2> QED BY <1>1, <1>4, <2>2, <2>3
<1>5. CASE \E t \in Session : /\ todo[t] # <<>> /\ todo' = [todo EXCEPT ![t] = Tail(@)] /\ sess' = sess
                              /\ \E e \in Head(todo[t]) :
                                   inbound' = Append(inbound, [from |-> t, event |-> e])
  <2>1. PICK t \in Session : /\ todo[t] # <<>> /\ todo' = [todo EXCEPT ![t] = Tail(@)] /\ sess' = sess
                             /\ \E e \in Head(todo[t]) :
                                  inbound' = Append(inbound, [from |-> t, event |-> e])
    BY <1>5
  <2>2. PICK e \in Head(todo[t]) : inbound' = Append(inbound, [from |-> t, event |-> e])
    BY <2>1
  <2> DEFINE r == [from |-> t, event |-> e]
             n == Len(inbound) + 1
             left == todo[t]
  <2>3. r.from = t /\ r.event = e
    OBVIOUS
  <2> HIDE DEF r
  <2>4. /\ DOMAIN inbound' = DOMAIN inbound \cup {n} /\ inbound'[n] = r
        /\ \A i \in DOMAIN inbound : inbound'[i] = inbound[i]
    BY <1>2, <2>2 DEF r
  <2> HIDE DEF n
  <2>5. left \in Seq(SUBSET ClientEvent) /\ left # <<>> /\ todo'[t] = Tail(left)
    BY <1>2, <2>1
  <2> HIDE DEF left
  <2>6. /\ 1 \in DOMAIN left /\ left[1] = Head(left)
        /\ \A i \in DOMAIN Tail(left) : i + 1 \in DOMAIN left /\ Tail(left)[i] = left[i + 1]
    BY <2>5
  <2>7. CASE t = s
    <3>1. \A i \in DOMAIN left : \A x \in left[i] : Names(x, ws)
      BY <1>1, <2>7 DEF left
    <3>2. Names(e, ws)
      BY <2>2, <2>6, <3>1 DEF left
    <3>3. \A i \in DOMAIN todo'[s] : \A x \in todo'[s][i] : Names(x, ws)
      BY <2>5, <2>6, <2>7, <3>1
    <3> QED BY <1>1, <2>1, <2>3, <2>4, <3>2, <3>3
  <2>8. CASE t # s
    <3>1. todo'[s] = todo[s]
      BY <1>2, <2>1, <2>8
    <3> QED BY <1>1, <2>1, <2>3, <2>4, <2>8, <3>1
  <2> QED BY <2>7, <2>8
<1> QED BY <1>3, <1>4, <1>5, TodoSteps

LEMMA WorkspaceFixedInit == OneWorkspacePerScript /\ Init => WorkspaceFixed
<1> SUFFICES ASSUME OneWorkspacePerScript, Init PROVE WorkspaceFixed
  OBVIOUS
<1>1. todo \in Script /\ inbound = <<>> /\ \A s \in Session : sess[s].user.id = NoUser
  BY DEF Init, NewSession
<1> QED BY <1>1 DEF WorkspaceFixed, OneWorkspacePerScript

\* If a client names one workspace on a connection, as the program's does, a
\* session never leaves the workspace it is in, although the join that a lost
\* connection left to be sent goes out on the next one as well.
THEOREM OneWorkspaceJoined == OneWorkspacePerScript => (Spec => []StaysInWorkspace)
<1> SUFFICES ASSUME OneWorkspacePerScript PROVE Spec => []StaysInWorkspace
  OBVIOUS
<1>1. Init => WorkspaceFixed /\ TodoOK
  BY WorkspaceFixedInit, HubAssumption DEF Init, TodoOK, HubAssumption
<1>2. HubInv /\ TodoOK /\ WorkspaceFixed /\ [Next]_vars => WorkspaceFixed'
  BY WorkspaceFixedStep
<1>3. HubInv /\ WorkspaceFixed => StaysInWorkspace
  BY FixedStays
<1> QED BY <1>1, <1>2, <1>3, TodoStep, HubInvariant, PTL DEF Spec
-----------------------------------------------------------------------------
(* The presence manager.                                                   *)

LEMMA PresenceRowUpdate ==
  ASSUME NEW r \in PresenceRow, NEW h \in Text, NEW c \in Text
  PROVE  /\ [handle |-> h, channel |-> c, online |-> TRUE] \in PresenceRow
         /\ [r EXCEPT !.online = FALSE] \in PresenceRow /\ ~[r EXCEPT !.online = FALSE].online
         /\ [r EXCEPT !.online = FALSE].handle = r.handle
         /\ [r EXCEPT !.channel = c] \in PresenceRow /\ [r EXCEPT !.channel = c].handle = r.handle
         /\ ([r EXCEPT !.channel = c].online <=> r.online)
         /\ [r EXCEPT !.handle = h] \in PresenceRow /\ [r EXCEPT !.handle = h].handle = h
         /\ ([r EXCEPT !.handle = h].online <=> r.online)
  BY DEF PresenceRow

\* Replacing the row of a key that is there by one of the type.
LEMMA RowReplaced ==
  ASSUME NEW p, p \in [DOMAIN p -> PresenceRow], NEW key \in DOMAIN p, NEW row \in PresenceRow
  PROVE  LET q == [p EXCEPT ![key] = row] IN
         /\ q \in [DOMAIN q -> PresenceRow] /\ DOMAIN q = DOMAIN p /\ q[key] = row
         /\ \A k \in DOMAIN p \ {key} : q[k] = p[k]
  OBVIOUS

LEMMA SetOfflineOK ==
  ASSUME NEW p, p \in [DOMAIN p -> PresenceRow], NEW key
  PROVE  LET q == SetOffline(p, key) IN
         /\ q \in [DOMAIN q -> PresenceRow] /\ DOMAIN q = DOMAIN p
         /\ key \in DOMAIN p => ~q[key].online
         /\ \A k \in DOMAIN p \ {key} : q[k] = p[k]
         /\ \A k \in DOMAIN p : q[k].handle = p[k].handle
<1> DEFINE row == [p[key] EXCEPT !.online = FALSE]
<1>1. CASE key \in DOMAIN p
  <2>1. row \in PresenceRow /\ ~row.online /\ row.handle = p[key].handle
    BY <1>1, PresenceRowUpdate, StoreAssumption DEF StoreAssumption
  <2> DEFINE q == SetOffline(p, key)
  <2>2. q = [p EXCEPT ![key] = row]
    BY <1>1 DEF SetOffline
  <2> HIDE DEF row, q
  <2>3. /\ q \in [DOMAIN q -> PresenceRow] /\ DOMAIN q = DOMAIN p /\ q[key] = row
        /\ \A k \in DOMAIN p \ {key} : q[k] = p[k]
    BY <1>1, <2>1, <2>2, RowReplaced
  <2>4. \A k \in DOMAIN p : k = key \/ q[k] = p[k]
    BY <2>3
  <2> QED BY <2>1, <2>3, <2>4, Zenon DEF q
<1>2. CASE key \notin DOMAIN p
  BY <1>2 DEF SetOffline
<1> QED BY <1>1, <1>2

LEMMA UpdateChannelOK ==
  ASSUME NEW p, p \in [DOMAIN p -> PresenceRow], NEW key, NEW c \in Text
  PROVE  LET q == UpdateChannel(p, key, c) IN
         /\ q \in [DOMAIN q -> PresenceRow] /\ DOMAIN q = DOMAIN p
         /\ \A k \in DOMAIN p : q[k].handle = p[k].handle /\ (q[k].online <=> p[k].online)
<1> DEFINE row == [p[key] EXCEPT !.channel = c]
<1>1. CASE key \in DOMAIN p
  <2>1. row \in PresenceRow /\ (row.online <=> p[key].online) /\ row.handle = p[key].handle
    BY <1>1, PresenceRowUpdate
  <2> DEFINE q == UpdateChannel(p, key, c)
  <2>2. q = [p EXCEPT ![key] = row]
    BY <1>1 DEF UpdateChannel
  <2> HIDE DEF row, q
  <2>3. /\ q \in [DOMAIN q -> PresenceRow] /\ DOMAIN q = DOMAIN p /\ q[key] = row
        /\ \A k \in DOMAIN p \ {key} : q[k] = p[k]
    BY <1>1, <2>1, <2>2, RowReplaced
  <2>4. \A k \in DOMAIN p : k = key \/ q[k] = p[k]
    BY <2>3
  <2> QED BY <2>1, <2>3, <2>4, Zenon DEF q
<1>2. CASE key \notin DOMAIN p
  BY <1>2 DEF UpdateChannel
<1> QED BY <1>1, <1>2

LEMMA PresenceRenameOK ==
  ASSUME NEW p, p \in [DOMAIN p -> PresenceRow], NEW key, NEW h \in Text
  PROVE  LET q == PresenceRename(p, key, h) IN
         /\ q \in [DOMAIN q -> PresenceRow] /\ DOMAIN q = DOMAIN p
         /\ key \in DOMAIN p => q[key].handle = h
         /\ \A k \in DOMAIN p \ {key} : q[k] = p[k]
         /\ \A k \in DOMAIN p : q[k].online <=> p[k].online
<1> DEFINE row == [p[key] EXCEPT !.handle = h]
<1>1. CASE key \in DOMAIN p
  <2>1. row \in PresenceRow /\ (row.online <=> p[key].online) /\ row.handle = h
    BY <1>1, PresenceRowUpdate
  <2> DEFINE q == PresenceRename(p, key, h)
  <2>2. q = [p EXCEPT ![key] = row]
    BY <1>1 DEF PresenceRename
  <2> HIDE DEF row, q
  <2>3. /\ q \in [DOMAIN q -> PresenceRow] /\ DOMAIN q = DOMAIN p /\ q[key] = row
        /\ \A k \in DOMAIN p \ {key} : q[k] = p[k]
    BY <1>1, <2>1, <2>2, RowReplaced
  <2>4. \A k \in DOMAIN p : k = key \/ q[k] = p[k]
    BY <2>3
  <2> QED BY <2>1, <2>3, <2>4, Zenon DEF q
<1>2. CASE key \notin DOMAIN p
  BY <1>2 DEF PresenceRename
<1> QED BY <1>1, <1>2
PresenceTyped == presence \in [DOMAIN presence -> PresenceRow]

\* Every step but a join leaves the keys, and all but a removal who is online.
LEMMA PresenceKept ==
  ASSUME HubInv, PresenceTyped, [Next]_vars, ~JoinWorkspace, \A s \in Session : ~RemoveSession(s)
  PROVE  /\ PresenceTyped' /\ DOMAIN presence' = DOMAIN presence
         /\ \A k \in DOMAIN presence : presence'[k].online <=> presence[k].online
         /\ ChangeHandle \/ \A k \in DOMAIN presence : presence'[k].handle = presence[k].handle
<1>1. CASE presence' = presence
  BY <1>1 DEF PresenceTyped
<1>2. CASE JoinChannel
  <2> DEFINE key == <<sess[Sender].ws, sess[Sender].user.id>>
             c == Clean(Event.channel)
             q == UpdateChannel(presence, key, c)
  <2>1. inbound # <<>> /\ Event.type = "join_channel" /\ presence' \in {presence, q}
    BY <1>2 DEF JoinChannel, Serve, Event
  <2>2. c \in Text
    BY <2>1, EventTyped, FieldTyped, CleanTyped DEF HubInv
  <2> HIDE DEF key, c
  <2>3. /\ q \in [DOMAIN q -> PresenceRow] /\ DOMAIN q = DOMAIN presence
        /\ \A k \in DOMAIN presence : q[k].handle = presence[k].handle /\ (q[k].online <=> presence[k].online)
    BY <2>2, UpdateChannelOK DEF PresenceTyped
  <2> HIDE DEF q
  <2> QED BY <1>1, <2>1, <2>3, Zenon DEF PresenceTyped
<1>3. CASE ChangeHandle
  <2> DEFINE key == <<sess[Sender].ws, sess[Sender].user.id>>
             h == NormalizeHandle(Event.handle)
             q == PresenceRename(presence, key, h)
  <2>1. presence' = presence \/ (ValidHandle(Event.handle) /\ presence' = q)
    BY <1>3 DEF ChangeHandle
  <2>2. CASE ValidHandle(Event.handle) /\ presence' = q
    <3>1. h \in Text
      BY <2>2, StoreAssumption DEF StoreAssumption, ValidHandle
    <3> HIDE DEF key, h
    <3>2. /\ q \in [DOMAIN q -> PresenceRow] /\ DOMAIN q = DOMAIN presence
          /\ \A k \in DOMAIN presence : q[k].online <=> presence[k].online
      BY <3>1, PresenceRenameOK DEF PresenceTyped
    <3> HIDE DEF q
    <3> QED BY <1>3, <2>2, <3>2, Zenon DEF PresenceTyped
  <2> QED BY <1>1, <2>1, <2>2
<1>4. presence' = presence \/ JoinChannel \/ ChangeHandle
  <2>1. ASSUME NEW t \in Session, Pump(t) PROVE presence' = presence
    BY <2>1 DEF Pump, Register, ReadScript, Read, EndRead, WriteOut
  <2>2. CASE Post \/ Tick \/ (\E b \in spawned : RunSpawned(b)) \/ UNCHANGED vars
    BY <2>2 DEF Post, Tick, RunSpawned, vars
  <2>3. CASE Identify \/ JoinWorkspaceRefused \/ JoinWorkspaceAbandoned \/ SendMessage \/ RequestHistory
             \/ RequestUsers \/ RequestChannels \/ Typing \/ Reply \/ PingUser \/ PingAll
    BY <2>3 DEF Identify, JoinWorkspaceRefused, JoinWorkspaceAbandoned, SendMessage, RequestHistory,
                RequestUsers, RequestChannels, Typing, Reply, PingUser, PingAll
  <2> QED BY <2>1, <2>2, <2>3 DEF Next, Handle
<1> QED BY <1>1, <1>2, <1>3, <1>4

\* A removal takes the user of the session offline in its workspace.
LEMMA RemovalTakesOffline ==
  ASSUME HubInv, PresenceTyped, NEW s \in Session, RemoveSession(s)
  PROVE  LET key == <<sess[s].ws, sess[s].user.id>> IN
         /\ PresenceTyped' /\ DOMAIN presence' = DOMAIN presence
         /\ \A k \in DOMAIN presence \ {key} : presence'[k] = presence[k]
         /\ \A k \in DOMAIN presence : presence'[k].handle = presence[k].handle
         /\ sess[s].ws # Blank /\ key \in DOMAIN presence => ~presence'[key].online
         /\ scoped' = scoped \ {<<sess[s].ws, s>>}
<1> DEFINE key == <<sess[s].ws, sess[s].user.id>>
           q == SetOffline(presence, key)
           known == sess[s].ws # Blank /\ key \in DOMAIN presence
<1>1. scoped' = scoped \ {<<sess[s].ws, s>>} /\ presence' = IF known THEN q ELSE presence
  BY DEF RemoveSession
<1>2. /\ q \in [DOMAIN q -> PresenceRow] /\ DOMAIN q = DOMAIN presence
      /\ key \in DOMAIN presence => ~q[key].online
      /\ \A k \in DOMAIN presence \ {key} : q[k] = presence[k]
      /\ \A k \in DOMAIN presence : q[k].handle = presence[k].handle
  BY SetOfflineOK DEF PresenceTyped
<1> HIDE DEF q, key
<1>3. CASE known
  BY <1>1, <1>2, <1>3, Zenon DEF PresenceTyped, key
<1>4. CASE ~known
  BY <1>1, <1>4, Zenon DEF PresenceTyped, key
<1> QED BY <1>3, <1>4

\* A whole join shows its user online, and nobody else differently.
LEMMA JoinSetsOnline ==
  ASSUME HubInv, PresenceTyped, JoinWorkspace
  PROVE  LET key == <<JoinTarget, JoinedUser>> IN
         /\ PresenceTyped' /\ DOMAIN presence' = DOMAIN presence \cup {key}
         /\ presence'[key].online /\ presence'[key].handle = JoinedDB.users[JoinedUser]
         /\ \A k \in DOMAIN presence \ {key} : presence'[k] = presence[k]
         /\ scoped' = scoped \cup {<<JoinTarget, Sender>>} /\ db' = InLobby
<1> DEFINE user == JoinedSess[Sender].user
           key == <<JoinTarget, user.id>>
           h == user.handle
           c == Lobby[2]
           q == SetOnline(presence, key, h, c)
<1>1. presence' = q /\ scoped' = scoped \cup {<<JoinTarget, Sender>>} /\ db' = InLobby
  BY DEF JoinWorkspace
<1>2. inbound # <<>> /\ Event.type = "join_workspace" /\ ~JoinRejected
  BY DEF JoinWorkspace, Serve, Event
<1>3. JoinedSess[Sender] \in SessionRecord /\ Lobby \in Channel /\ Sender \in Session
  BY <1>2, JoinLeaves
<1>4. key = <<JoinTarget, JoinedUser>> /\ h = JoinedDB.users[JoinedUser]
  BY <1>3 DEF JoinedSess, HubInv, CoreOK, SessionRecord
<1>5. h \in Text /\ c \in Text
  BY <1>3, StoreAssumption DEF StoreAssumption, SessionRecord, Channel
<1> HIDE DEF key, h, c
<1>6. /\ q \in [DOMAIN q -> PresenceRow] /\ DOMAIN q = DOMAIN presence \cup {key}
      /\ q[key].online /\ q[key].handle = h
      /\ \A k \in DOMAIN presence \ {key} : q[k] = presence[k]
  <2> DEFINE row == [handle |-> h, channel |-> c, online |-> TRUE]
  <2>1. row \in PresenceRow /\ row.online /\ row.handle = h
    BY <1>5 DEF PresenceRow
  <2>2. q = With(presence, key, row)
    BY DEF SetOnline
  <2> HIDE DEF row, q
  <2>3. /\ q \in [DOMAIN q -> PresenceRow] /\ DOMAIN q = DOMAIN presence \cup {key}
        /\ q[key] = row /\ \A k \in DOMAIN presence \ {key} : q[k] = presence[k]
    BY <2>1, <2>2 DEF PresenceTyped, With
  <2> QED BY <2>1, <2>3, Zenon
<1> HIDE DEF q
<1> QED BY <1>1, <1>4, <1>6, Zenon DEF PresenceTyped

LEMMA TypedStep ==
  ASSUME HubInv, PresenceTyped, [Next]_vars PROVE PresenceTyped'
<1>1. CASE JoinWorkspace
  BY <1>1, JoinSetsOnline
<1>2. CASE \E s \in Session : RemoveSession(s)
  BY <1>2, RemovalTakesOffline
<1>3. CASE ~JoinWorkspace /\ \A s \in Session : ~RemoveSession(s)
  BY <1>3, PresenceKept
<1> QED BY <1>1, <1>2, <1>3
-----------------------------------------------------------------------------
(* What the steps do to the tables.                                        *)

\* What the transactions of a join do to the channels, the handles and the
\* messages.
LEMMA JoinedTables ==
  ASSUME HubInv, inbound # <<>>, Event.type = "join_workspace", ~JoinRejected
  PROVE  /\ InLobby.channels = db.channels \cup {Lobby}
         /\ InLobby.inChannel = db.inChannel \cup {<<Lobby, JoinedUser>>}
         /\ JoinedDB.inChannel = db.inChannel /\ WithLobby.inChannel = db.inChannel
         /\ JoinTarget \in Text \ {Blank} /\ JoinedUser \in DOMAIN JoinedDB.users
         /\ \A d \in {JoinedDB, WithLobby, InLobby} :
              /\ db.channels \subseteq d.channels /\ db.inChannel \subseteq d.inChannel
              /\ d.messages = db.messages /\ d.users = JoinedDB.users
              /\ d.members = db.members \cup {<<JoinTarget, JoinedUser>>}
              /\ DOMAIN db.users \subseteq DOMAIN d.users
              /\ \A u \in DOMAIN db.users : d.users[u] = db.users[u]
<1> DEFINE fp == Fingerprint(Sender)
           me == sess[Sender]
<1>1. Sender \in Session /\ Event \in EventType /\ me \in SessionRecord
  BY EventTyped DEF HubInv, CoreOK
<1>2. JoinTarget \in Text /\ JoinCode \in Text
  BY <1>1, FieldTyped, CleanTyped DEF JoinTarget, JoinCode
<1>3. fp \in Fingerprints
  BY <1>1 DEF Fingerprint, Fingerprints, SessionRecord
<1>4. JoinHandle \in HandlePattern \cup {Blank}
  BY <1>1, StoreAssumption DEF StoreAssumption, JoinHandle, SessionRecord
<1>5. /\ IsTables(db) /\ DevicesKnown(db)
      /\ ~JoinRefused(db, JoinTarget, JoinCode, fp, JoinHandle)
  BY DEF HubInv, DbOK, JoinRejected
<1>6. /\ IsTables(JoinedDB) /\ JoinedDB.messages = db.messages
      /\ JoinedDB.members = db.members \cup {<<JoinTarget, JoinedUser>>}
      /\ DOMAIN db.users \subseteq DOMAIN JoinedDB.users /\ JoinedUser \in DOMAIN JoinedDB.users
  BY <1>2, <1>3, <1>4, <1>5, JoinWorkspaceTxOK DEF JoinedDB, JoinedUser
<1>7. /\ JoinedDB.channels = db.channels /\ JoinedDB.inChannel = db.inChannel
      /\ \A u \in DOMAIN db.users : JoinedDB.users[u] = db.users[u]
  BY <1>2, <1>3, <1>4, <1>5, JoinWorkspaceTxGrows DEF JoinedDB
<1> HIDE DEF me, fp
<1>8. /\ IsTables(WithLobby)
      /\ WithLobby.users = JoinedDB.users /\ WithLobby.messages = JoinedDB.messages
      /\ WithLobby.members = JoinedDB.members
  <2>1. /\ IsTables(WithLobby)
        /\ \A t \in {"users", "devices", "workspaces", "members", "messages"} : WithLobby[t] = JoinedDB[t]
    BY <1>2, <1>6, HubAssumption, EnsureChannelOK DEF HubAssumption, WithLobby
  <2> QED BY <2>1
<1>9. WithLobby.channels = JoinedDB.channels \cup {Lobby} /\ WithLobby.inChannel = JoinedDB.inChannel
  BY <1>6, ChannelTables DEF WithLobby, Lobby
<1>10. Lobby \in Channel /\ JoinedUser \in Nat
  BY <1>6, JoinLeaves DEF IsTables
<1>11. /\ InLobby.users = WithLobby.users /\ InLobby.messages = WithLobby.messages
       /\ InLobby.members = WithLobby.members
  BY <1>8, <1>10, AddChannelMemberOK DEF InLobby
<1>12. /\ InLobby.channels = WithLobby.channels
       /\ InLobby.inChannel = WithLobby.inChannel \cup {<<Lobby, JoinedUser>>}
  BY <1>8, ChannelTables DEF InLobby
<1>13. JoinTarget # Blank
  <2>1. Event.workspace \in Text /\ Trim[Event.workspace] # Blank
    BY <1>1, FieldTyped DEF JoinRejected
  <2> QED BY <2>1, CleanTyped, StoreAssumption DEF StoreAssumption, JoinTarget, Clean
<1> QED BY <1>2, <1>6, <1>7, <1>8, <1>9, <1>11, <1>12, <1>13

\* The rows a step may add: users, channels and the members of both only grow,
\* users keep their handles unless one is renamed, and only SendMessage writes
\* a message.
LEMMA DbGrows ==
  ASSUME HubInv, [Next]_vars
  PROVE  /\ DOMAIN db.users \subseteq DOMAIN db'.users /\ db.members \subseteq db'.members
         /\ db.channels \subseteq db'.channels /\ db.inChannel \subseteq db'.inChannel
         /\ SendMessage \/ db'.messages = db.messages
         /\ ChangeHandle \/ \A u \in DOMAIN db.users : db'.users[u] = db.users[u]
<1> DEFINE me == sess[Sender]
<1>1. CASE db' = db
  BY <1>1
<1>2. CASE Joining
  <2>1. /\ inbound # <<>> /\ Event.type = "join_workspace" /\ ~JoinRejected
        /\ db' \in {JoinedDB, WithLobby, InLobby}
    BY <1>2 DEF Joining, JoinWorkspace, JoinWorkspaceAbandoned, Serve, Event
  <2> QED BY <2>1, JoinedTables
<1>3. CASE JoinChannel
  <2> DEFINE e == EnsureChannel(db, me.ws, Event.channel)
             chan == <<me.ws, Clean(Event.channel)>>
             f == AddChannelMember(e, chan, me.user.id)
  <2>1. /\ inbound # <<>> /\ Event.type = "join_channel"
        /\ db' \in {db, e} \/ (db' = f /\ me.ws # Blank)
    BY <1>3 DEF JoinChannel, Serve, Event
  <2>2. /\ Sender \in Session /\ me \in SessionRecord /\ Event.channel \in Text
        /\ IsTables(db)
    BY <2>1, EventTyped, FieldTyped DEF HubInv, CoreOK
  <2>3. me.ws \in Text /\ me.user.id \in Nat /\ chan \in Channel
    BY <2>2, CleanTyped DEF SessionRecord, Channel
  <2> HIDE DEF me
  <2>4. /\ IsTables(e)
        /\ \A t \in {"users", "devices", "workspaces", "members", "messages"} : e[t] = db[t]
    BY <2>2, <2>3, EnsureChannelOK
  <2>5. db.channels \subseteq e.channels /\ e.inChannel = db.inChannel
    BY <2>2, ChannelTables
  <2> HIDE DEF e, chan
  <2>6. \A t \in {"users", "devices", "workspaces", "members", "messages"} : f[t] = e[t]
    BY <2>3, <2>4, AddChannelMemberOK
  <2>7. f.channels = e.channels /\ e.inChannel \subseteq f.inChannel
    BY <2>4, ChannelTables
  <2> HIDE DEF f
  <2> QED BY <2>1, <2>4, <2>5, <2>6, <2>7
<1>4. CASE SendMessage
  <2>1. PICK kind : db' = db \/ db' = SaveMessage(db, me.ws, me.current, me.user.id, kind)
    BY <1>4 DEF SendMessage
  <2>2. IsTables(db)
    BY DEF HubInv, CoreOK
  <2>3. db'.users = db.users /\ db'.members = db.members
    BY <2>1, <2>2, TableIsRecord DEF SaveMessage
  <2> QED BY <1>1, <1>4, <2>1, <2>2, <2>3, SaveMessageTables
<1>5. CASE ChangeHandle
  <2> DEFINE h == NormalizeHandle(Event.handle)
             u == me.user.id
  <2>1. CASE db' = UpdateUserHandle(db, u, h) /\ h \in HandlePattern
    <3>1. inbound # <<>>
      BY <1>5 DEF ChangeHandle, Serve
    <3>2. IsTables(db) /\ u \in Nat
      BY <3>1, EventTyped DEF HubInv, CoreOK, SessionRecord
    <3> HIDE DEF u, h
    <3>3. /\ DOMAIN db'.users = DOMAIN db.users
          /\ \A t \in {"devices", "members", "messages"} : db'[t] = db[t]
      BY <2>1, <3>2, UpdateUserHandleOK
    <3> DEFINE e == UpdateUserHandle(db, u, h)
    <3>4. e.channels = db.channels /\ e.inChannel = db.inChannel
      BY <3>2, UpdateUserHandleTables
    <3> HIDE DEF e
    <3> QED BY <1>5, <2>1, <3>3, <3>4 DEF e
  <2>2. db' = db \/ (db' = UpdateUserHandle(db, u, h) /\ h \in HandlePattern)
    BY <1>5 DEF ChangeHandle, ValidHandle
  <2> QED BY <1>1, <2>1, <2>2
<1>6. db' = db \/ Joining \/ JoinChannel \/ SendMessage \/ ChangeHandle
  <2>1. ASSUME NEW t \in Session, Pump(t) PROVE db' = db
    BY <2>1 DEF Pump, Register, ReadScript, Read, EndRead, WriteOut, RemoveSession
  <2>2. CASE Post \/ Tick \/ (\E b \in spawned : RunSpawned(b)) \/ UNCHANGED vars
    BY <2>2 DEF Post, Tick, RunSpawned, vars
  <2>3. CASE Identify \/ JoinWorkspaceRefused \/ RequestHistory \/ RequestUsers \/ RequestChannels
             \/ Typing \/ Reply \/ PingUser \/ PingAll
    BY <2>3 DEF Identify, JoinWorkspaceRefused, RequestHistory, RequestUsers, RequestChannels, Typing,
                Reply, PingUser, PingAll
  <2> QED BY <2>1, <2>2, <2>3 DEF Next, Handle, Joining
<1> QED BY <1>1, <1>2, <1>3, <1>4, <1>5, <1>6
-----------------------------------------------------------------------------
(* The hub's map by workspace, and the life of a connection.               *)

\* Only a join attaches a session and only a removal detaches one.
LEMMA ScopedKept ==
  ASSUME [Next]_vars, ~Joining, \A s \in Session : ~RemoveSession(s)
  PROVE  scoped' = scoped
<1>1. ASSUME NEW t \in Session, Pump(t) PROVE scoped' = scoped
  BY <1>1 DEF Pump, Register, ReadScript, Read, EndRead, WriteOut, table
<1>2. CASE Post \/ Tick \/ (\E b \in spawned : RunSpawned(b)) \/ UNCHANGED vars
  BY <1>2 DEF Post, Tick, RunSpawned, vars, table
<1>3. CASE Identify \/ JoinWorkspaceRefused \/ JoinChannel \/ SendMessage \/ RequestHistory \/ RequestUsers
           \/ RequestChannels
  BY <1>3 DEF Identify, JoinWorkspaceRefused, JoinChannel, SendMessage, RequestHistory, RequestUsers,
              RequestChannels
<1>4. CASE Typing \/ Reply \/ PingUser \/ PingAll \/ ChangeHandle
  BY <1>4 DEF Typing, Reply, PingUser, PingAll, ChangeHandle
<1> QED BY <1>1, <1>2, <1>3, <1>4 DEF Next, Handle, Joining

LEMMA ScopedStep ==
  ASSUME HubInv, ScopedOK, StaysInWorkspace, [Next]_vars
  PROVE  ScopedOK'
<1>1. CASE Joining
  <2>1. /\ Sender \in Session
        /\ sess[Sender].user.id # NoUser => JoinTarget = sess[Sender].ws
        /\ \A t \in Session \ {Sender} : sess'[t] = sess[t]
        /\ sess'[Sender].ws = JoinTarget /\ sess'[Sender].user.id = JoinedUser
        /\ JoinTarget # Blank /\ JoinedUser # NoUser
        /\ scoped' \subseteq scoped \cup {<<JoinTarget, Sender>>}
    BY <1>1, JoinIdentity DEF StaysInWorkspace
  <2> QED BY <2>1 DEF ScopedOK
<1>2. CASE ~Joining
  <2>1. \A s \in Session : sess'[s].user.id = sess[s].user.id /\ sess'[s].ws = sess[s].ws
    BY <1>2, IdentityKept
  <2>2. scoped' \subseteq scoped
    BY <1>2, ScopedKept DEF RemoveSession
  <2> QED BY <2>1, <2>2 DEF ScopedOK
<1> QED BY <1>1, <1>2

\* Who a session's pumps are for, step by step.
LEMMA LinkStep ==
  ASSUME LinkOK, [Next]_vars
  PROVE  LinkOK' /\ \A s \in Session : link'[s] = "new" => link[s] = "new"
<1>1. CASE \E t \in Session : Register(t) \/ EndRead(t) \/ RemoveSession(t)
  <2>1. PICK t \in Session, l \in {"reading", "ended", "gone"} :
          link' = [link EXCEPT ![t] = l] /\ sessions' \subseteq sessions \cup {t}
    BY <1>1 DEF Register, EndRead, RemoveSession, table
  <2> QED BY <2>1 DEF LinkOK
<1>2. CASE link' = link /\ sessions' = sessions
  BY <1>2 DEF LinkOK
<1>3. CASE \E t \in Session : ReadScript(t) \/ WriteOut(t)
  BY <1>2, <1>3 DEF ReadScript, Read, WriteOut, table
<1>4. CASE Post \/ Tick \/ (\E b \in spawned : RunSpawned(b)) \/ UNCHANGED vars
  BY <1>2, <1>4 DEF Post, Tick, RunSpawned, vars, table
<1>5. CASE Handle
  <2>1. ASSUME NEW types, Serve(types) PROVE link' = link /\ sessions' = sessions
    BY <2>1 DEF Serve
  <2>2. CASE Identify \/ JoinWorkspaceRefused \/ JoinWorkspaceAbandoned \/ JoinWorkspace \/ JoinChannel
             \/ SendMessage \/ RequestHistory
    BY <1>2, <2>1, <2>2 DEF Identify, JoinWorkspaceRefused, JoinWorkspaceAbandoned, JoinWorkspace,
                            JoinChannel, SendMessage, RequestHistory
  <2>3. CASE RequestUsers \/ RequestChannels \/ Typing \/ Reply \/ PingUser \/ PingAll \/ ChangeHandle
    BY <1>2, <2>1, <2>3 DEF RequestUsers, RequestChannels, Typing, Reply, PingUser, PingAll, ChangeHandle
  <2> QED BY <1>5, <2>2, <2>3 DEF Handle
<1> QED BY <1>1, <1>3, <1>4, <1>5 DEF Next, Pump

\* What reaches the hub: a reading session's event behind the others, or one
\* less.
LEMMA InboundStep ==
  ASSUME [Next]_vars
  PROVE  \/ inbound' = inbound
         \/ inbound # <<>> /\ inbound' = Tail(inbound)
         \/ \E s \in Session : \E e :
              /\ link[s] = "reading" /\ Len(inbound) < InboundCap
              /\ todo[s] # <<>> /\ e \in Head(todo[s])
              /\ inbound' = Append(inbound, [from |-> s, event |-> e])
<1>1. CASE \E t \in Session : Register(t) \/ EndRead(t) \/ RemoveSession(t) \/ WriteOut(t)
  BY <1>1 DEF Register, EndRead, RemoveSession, WriteOut
<1>2. CASE \E t \in Session : ReadScript(t)
  BY <1>2 DEF ReadScript, Read
<1>3. CASE Post \/ Tick \/ (\E b \in spawned : RunSpawned(b)) \/ UNCHANGED vars
  BY <1>3 DEF Post, Tick, RunSpawned, vars
<1>4. CASE Handle
  <2>1. ASSUME NEW types, Serve(types) PROVE inbound # <<>> /\ inbound' = Tail(inbound)
    BY <2>1 DEF Serve
  <2>2. CASE Identify \/ JoinWorkspaceRefused \/ JoinWorkspaceAbandoned \/ JoinWorkspace \/ JoinChannel
             \/ SendMessage \/ RequestHistory
    BY <2>1, <2>2 DEF Identify, JoinWorkspaceRefused, JoinWorkspaceAbandoned, JoinWorkspace, JoinChannel,
                      SendMessage, RequestHistory
  <2>3. CASE RequestUsers \/ RequestChannels \/ Typing \/ Reply \/ PingUser \/ PingAll \/ ChangeHandle
    BY <2>1, <2>3 DEF RequestUsers, RequestChannels, Typing, Reply, PingUser, PingAll, ChangeHandle
  <2> QED BY <1>4, <2>2, <2>3 DEF Handle
<1> QED BY <1>1, <1>2, <1>3, <1>4 DEF Next, Pump

LEMMA NewIsFreshStep ==
  ASSUME HubInv, LinkOK, NewIsFresh, [Next]_vars
  PROVE  NewIsFresh'
<1> SUFFICES ASSUME NEW s \in Session, link'[s] = "new"
             PROVE  sess'[s].user.id = NoUser /\ \A i \in DOMAIN inbound' : inbound'[i].from # s
  BY DEF NewIsFresh
<1>1. /\ link[s] = "new" /\ sess[s].user.id = NoUser
      /\ \A i \in DOMAIN inbound : inbound[i].from # s
  BY LinkStep DEF NewIsFresh
<1>2. inbound \in Seq([from : Session, event : EventType])
  BY DEF HubInv, CoreOK
<1>3. \A i \in DOMAIN inbound' : inbound'[i].from # s
  <2>1. CASE inbound' = inbound
    BY <1>1, <2>1
  <2>2. CASE inbound # <<>> /\ inbound' = Tail(inbound)
    BY <1>1, <1>2, <2>2
  <2>3. CASE \E t \in Session : \E e : link[t] = "reading" /\ inbound' = Append(inbound, [from |-> t, event |-> e])
    <3>0. PICK t \in Session : \E e : link[t] = "reading" /\ inbound' = Append(inbound, [from |-> t, event |-> e])
      BY <2>3
    <3>1. PICK e : link[t] = "reading" /\ inbound' = Append(inbound, [from |-> t, event |-> e])
      BY <3>0
    <3> DEFINE r == [from |-> t, event |-> e]
    <3>2. t # s /\ r.from = t
      BY <1>1, <3>1
    <3> HIDE DEF r
    <3> QED BY <1>1, <1>2, <3>1, <3>2, AppendProperties DEF r
  <2> QED BY <2>1, <2>2, <2>3, InboundStep
<1>4. sess'[s].user.id = NoUser
  <2>1. CASE Joining
    <3>1. inbound # <<>> /\ \A t \in Session \ {Sender} : sess'[t] = sess[t]
      BY <2>1, JoinIdentity
    <3>2. Sender # s
      BY <1>1, <1>2, <3>1 DEF Sender
    <3> QED BY <1>1, <3>1, <3>2
  <2> QED BY <1>1, <2>1, IdentityKept
<1> QED BY <1>3, <1>4
-----------------------------------------------------------------------------
(* Channels, and the messages filed in them.                               *)

LEMMA InChannelsStep ==
  ASSUME HubInv, InChannels, StaysInWorkspace, KeepsAccount, [Next]_vars
  PROVE  InChannels'
<1> DEFINE Placed(me, d) ==
             me.current # NoChannel =>
               /\ me.current \in d.channels /\ me.current[1] = me.ws
               /\ <<me.current, me.user.id>> \in d.inChannel
<1> SUFFICES ASSUME NEW s \in Session PROVE Placed(sess'[s], db')
  BY DEF InChannels
<1>1. Placed(sess[s], db)
  BY DEF InChannels
<1>2. db.channels \subseteq db'.channels /\ db.inChannel \subseteq db'.inChannel
  BY DbGrows
<1>3. CASE /\ sess'[s].user.id = sess[s].user.id /\ sess'[s].ws = sess[s].ws
           /\ sess'[s].current = sess[s].current
  BY <1>1, <1>2, <1>3
<1>4. CASE Joining
  <2>1. /\ inbound # <<>> /\ Event.type = "join_workspace" /\ ~JoinRejected
        /\ \A t \in Session \ {Sender} : sess'[t] = sess[t]
        /\ sess'[Sender].user.id = JoinedUser /\ sess'[Sender].ws = JoinTarget
        /\ \/ sess[Sender].current = NoChannel
           \/ sess[Sender].user.id = JoinedUser /\ sess[Sender].ws = JoinTarget
        /\ \/ sess'[Sender].current = sess[Sender].current
           \/ sess'[Sender].current = Lobby /\ db' = InLobby
    BY <1>4, JoinIdentity DEF StaysInWorkspace, KeepsAccount
  <2>2. Lobby \in InLobby.channels /\ <<Lobby, JoinedUser>> \in InLobby.inChannel
    BY <2>1, JoinedTables
  <2>3. Lobby[1] = JoinTarget
    BY DEF Lobby
  <2>4. CASE s = Sender
    BY <1>3, <2>1, <2>2, <2>3, <2>4
  <2> QED BY <1>3, <2>1, <2>4
<1>5. CASE JoinChannel
  <2> DEFINE me == sess[Sender]
             chan == <<me.ws, Clean(Event.channel)>>
             e == EnsureChannel(db, me.ws, Event.channel)
             f == AddChannelMember(e, chan, me.user.id)
  <2>1. /\ inbound # <<>> /\ Event.type = "join_channel"
        /\ \/ sess' = sess
           \/ sess' = [sess EXCEPT ![Sender].current = chan] /\ db' = f
    BY <1>5 DEF JoinChannel, Serve, Event
  <2>2. /\ Sender \in Session /\ me \in SessionRecord /\ Event.channel \in Text
        /\ IsTables(db) /\ sess \in [Session -> SessionRecord]
    BY <2>1, EventTyped, FieldTyped DEF HubInv, CoreOK
  <2>3. CASE sess' = [sess EXCEPT ![Sender].current = chan] /\ db' = f /\ s = Sender
    <3>1. sess'[s].current = chan /\ sess'[s].ws = me.ws /\ sess'[s].user.id = me.user.id
      BY <2>2, <2>3 DEF SessionRecord
    <3>2. chan \in e.channels /\ chan[1] = me.ws /\ IsTables(e)
      <4>1. me.ws \in Text
        BY <2>2 DEF SessionRecord
      <4> HIDE DEF me
      <4>2. IsTables(e)
        BY <2>2, <4>1, EnsureChannelOK
      <4>3. e.channels = db.channels \cup {chan}
        BY <2>2, ChannelTables
      <4> QED BY <4>2, <4>3
    <3> HIDE DEF e, chan, me
    <3>3. f.channels = e.channels /\ <<chan, me.user.id>> \in f.inChannel
      BY <3>2, ChannelTables
    <3> HIDE DEF f
    <3> QED BY <2>3, <3>1, <3>2, <3>3
  <2>4. CASE sess'[s] = sess[s]
    BY <1>3, <2>4
  <2> QED BY <2>1, <2>2, <2>3, <2>4
<1> QED BY <1>3, <1>4, <1>5, IdentityKept

LEMMA MessagesFiledStep ==
  ASSUME HubInv, InChannels, MessagesFiled, [Next]_vars
  PROVE  MessagesFiled'
<1> DEFINE Filed(m, d) == /\ m.chan \in d.channels /\ m.chan[1] = m.ws
                          /\ <<m.chan, m.user>> \in d.inChannel
<1> SUFFICES ASSUME NEW i \in DOMAIN db'.messages PROVE Filed(db'.messages[i], db')
  BY DEF MessagesFiled
<1>1. \A j \in DOMAIN db.messages : Filed(db.messages[j], db)
  BY DEF MessagesFiled
<1>2. db.channels \subseteq db'.channels /\ db.inChannel \subseteq db'.inChannel
  BY DbGrows
<1>3. CASE db'.messages = db.messages
  BY <1>1, <1>2, <1>3
<1>4. CASE SendMessage
  <2> DEFINE me == sess[Sender]
             n == Len(db.messages) + 1
  <2>1. PICK kind \in MessageType :
          \/ db' = db
          \/ me.current # NoChannel /\ db' = SaveMessage(db, me.ws, me.current, me.user.id, kind)
    BY <1>4 DEF SendMessage, MessageType
  <2>2. inbound # <<>>
    BY <1>4 DEF SendMessage, Serve
  <2>3. /\ Sender \in Session /\ me \in SessionRecord /\ IsTables(db)
    BY <2>2, EventTyped DEF HubInv, CoreOK
  <2>4. me.ws \in Text /\ me.current \in Channel /\ me.user.id \in Nat
    BY <2>3 DEF SessionRecord
  <2>5. me.current # NoChannel => /\ me.current \in db.channels /\ me.current[1] = me.ws
                                  /\ <<me.current, me.user.id>> \in db.inChannel
    BY <2>3 DEF InChannels
  <2> HIDE DEF me
  <2>6. CASE me.current # NoChannel /\ db' = SaveMessage(db, me.ws, me.current, me.user.id, kind)
    <3>1. /\ DOMAIN db'.messages = DOMAIN db.messages \cup {n}
          /\ \A j \in DOMAIN db.messages : db'.messages[j] = db.messages[j]
          /\ db'.messages[n].ws = me.ws /\ db'.messages[n].chan = me.current
          /\ db'.messages[n].user = me.user.id
      BY <2>3, <2>4, <2>6, SaveMessageOK
    <3> QED BY <1>1, <1>2, <2>5, <2>6, <3>1
  <2> QED BY <1>3, <2>1, <2>6
<1> QED BY <1>3, <1>4, DbGrows

\* Whose user a session acts for does not matter to where it is.
LEMMA ChannelsOwnStep ==
  ASSUME HubInv, ChannelsOwn, StaysInWorkspace, [Next]_vars
  PROVE  ChannelsOwn'
<1> SUFFICES ASSUME NEW s \in Session, sess'[s].current # NoChannel
             PROVE  sess'[s].current[1] = sess'[s].ws
  BY DEF ChannelsOwn
<1>1. sess[s].current # NoChannel => sess[s].current[1] = sess[s].ws
  BY DEF ChannelsOwn
<1>2. CASE sess'[s].ws = sess[s].ws /\ sess'[s].current = sess[s].current
  BY <1>1, <1>2
<1>3. CASE Joining
  <2>1. /\ \A t \in Session \ {Sender} : sess'[t] = sess[t]
        /\ sess'[Sender].ws = JoinTarget
        /\ sess[Sender].current = NoChannel \/ sess[Sender].ws = JoinTarget
        /\ sess'[Sender].current \in {sess[Sender].current, Lobby}
    BY <1>3, JoinIdentity DEF StaysInWorkspace
  <2>2. Lobby[1] = JoinTarget
    BY DEF Lobby
  <2> HIDE DEF Lobby
  <2> QED BY <1>1, <1>2, <2>1, <2>2
<1>4. CASE JoinChannel
  <2> DEFINE me == sess[Sender]
             chan == <<me.ws, Clean(Event.channel)>>
  <2>1. inbound # <<>> /\ (sess' = sess \/ sess' = [sess EXCEPT ![Sender].current = chan])
    BY <1>4 DEF JoinChannel, Serve
  <2>2. Sender \in Session /\ sess \in [Session -> SessionRecord]
    BY <2>1, EventTyped DEF HubInv, CoreOK
  <2>3. CASE sess' = [sess EXCEPT ![Sender].current = chan] /\ s = Sender
    <3>1. sess'[s].current = chan /\ sess'[s].ws = me.ws
      BY <2>2, <2>3 DEF SessionRecord
    <3> QED BY <3>1
  <2>4. CASE sess'[s] = sess[s]
    BY <1>2, <2>4
  <2> QED BY <2>1, <2>2, <2>3, <2>4
<1> QED BY <1>2, <1>3, <1>4, IdentityKept

LEMMA RoomsOwnStep ==
  ASSUME HubInv, ChannelsOwn, RoomsOwn, [Next]_vars
  PROVE  RoomsOwn'
<1> SUFFICES ASSUME NEW i \in DOMAIN db'.messages
             PROVE  db'.messages[i].chan[1] = db'.messages[i].ws
  BY DEF RoomsOwn
<1>1. CASE db'.messages = db.messages
  BY <1>1 DEF RoomsOwn
<1>2. CASE SendMessage
  <2> DEFINE me == sess[Sender]
             n == Len(db.messages) + 1
  <2>1. PICK kind \in MessageType :
          \/ db' = db
          \/ me.current # NoChannel /\ db' = SaveMessage(db, me.ws, me.current, me.user.id, kind)
    BY <1>2 DEF SendMessage, MessageType
  <2>2. inbound # <<>>
    BY <1>2 DEF SendMessage, Serve
  <2>3. /\ Sender \in Session /\ me \in SessionRecord /\ IsTables(db)
    BY <2>2, EventTyped DEF HubInv, CoreOK
  <2>4. me.ws \in Text /\ me.current \in Channel /\ me.user.id \in Nat
    BY <2>3 DEF SessionRecord
  <2>5. me.current # NoChannel => me.current[1] = me.ws
    BY <2>3 DEF ChannelsOwn
  <2> HIDE DEF me
  <2>6. CASE me.current # NoChannel /\ db' = SaveMessage(db, me.ws, me.current, me.user.id, kind)
    <3>1. /\ DOMAIN db'.messages = DOMAIN db.messages \cup {n}
          /\ \A j \in DOMAIN db.messages : db'.messages[j] = db.messages[j]
          /\ db'.messages[n].ws = me.ws /\ db'.messages[n].chan = me.current
      BY <2>3, <2>4, <2>6, SaveMessageOK
    <3> QED BY <2>5, <2>6, <3>1 DEF RoomsOwn
  <2> QED BY <1>1, <2>1, <2>6
<1> QED BY <1>1, <1>2, DbGrows

LEMMA PlacesInvariant == OneWorkspacePerScript => (Spec => []PlacesInv)
<1> SUFFICES ASSUME OneWorkspacePerScript PROVE Spec => []PlacesInv
  OBVIOUS
<1>1. Init => PlacesInv
  <2> SUFFICES ASSUME Init PROVE PlacesInv
    OBVIOUS
  <2>1. scoped = {} /\ db.messages = <<>> /\ \A s \in Session : sess[s].current = NoChannel
    BY DEF Init, NewSession, EmptyDB
  <2> QED BY <2>1 DEF PlacesInv, ScopedOK, ChannelsOwn, RoomsOwn
<1>2. HubInv /\ PlacesInv /\ StaysInWorkspace /\ [Next]_vars => PlacesInv'
  BY ScopedStep, ChannelsOwnStep, RoomsOwnStep DEF PlacesInv
<1>3. Spec => []StaysInWorkspace
  BY OneWorkspaceJoined
<1> QED BY <1>1, <1>2, <1>3, HubInvariant, PTL DEF Spec
-----------------------------------------------------------------------------
(* Who is shown online.                                                    *)

LEMMA PresenceOKStep ==
  ASSUME HubInv, PresenceOK, [Next]_vars
  PROVE  PresenceOK'
<1>1. PresenceTyped /\ DOMAIN db.users \subseteq DOMAIN db'.users
  BY DbGrows DEF PresenceOK, PresenceTyped
<1>2. CASE JoinWorkspace
  <2>1. PresenceTyped' /\ DOMAIN presence' = DOMAIN presence \cup {<<JoinTarget, JoinedUser>>}
    BY <1>1, <1>2, JoinSetsOnline
  <2>2. JoinTarget \in Text /\ JoinedUser \in DOMAIN db'.users
    <3>1. inbound # <<>> /\ Event.type = "join_workspace" /\ ~JoinRejected /\ db' = InLobby
      BY <1>2 DEF JoinWorkspace, Serve, Event
    <3> QED BY <3>1, JoinedTables
  <2> QED BY <1>1, <2>1, <2>2 DEF PresenceOK, PresenceTyped
<1>3. CASE \E s \in Session : RemoveSession(s)
  <2>1. PresenceTyped' /\ DOMAIN presence' = DOMAIN presence
    BY <1>1, <1>3, RemovalTakesOffline
  <2> QED BY <1>1, <2>1 DEF PresenceOK, PresenceTyped
<1>4. CASE ~JoinWorkspace /\ ~\E s \in Session : RemoveSession(s)
  <2>1. PresenceTyped' /\ DOMAIN presence' = DOMAIN presence
    BY <1>1, <1>4, PresenceKept
  <2> QED BY <1>1, <2>1 DEF PresenceOK, PresenceTyped
<1> QED BY <1>2, <1>3, <1>4

\* A removal touches no session's fields.
LEMMA RemovalKeepsSessions ==
  ASSUME NEW s \in Session, RemoveSession(s)
  PROVE  sess' = sess /\ sessions' = sessions \ {s} /\ scoped' = scoped \ {<<sess[s].ws, s>>}
  BY DEF RemoveSession

LEMMA OnlineStep ==
  ASSUME HubInv, PresenceOK, ScopedOK, OnlineIsAttached, KeepsAccount, [Next]_vars
  PROVE  OnlineIsAttached'
<1> SUFFICES ASSUME NEW k \in DOMAIN presence', presence'[k].online
             PROVE  \E s \in Session : <<k[1], s>> \in scoped' /\ sess'[s].user.id = k[2]
  BY DEF OnlineIsAttached, Members
<1>1. PresenceTyped
  BY DEF PresenceOK, PresenceTyped
<1>2. \A j \in DOMAIN presence : presence[j].online =>
        \E s \in Session : <<j[1], s>> \in scoped /\ sess[s].user.id = j[2] /\ j[2] # NoUser
  <2>1. \A j \in DOMAIN presence : j[2] \in DOMAIN db.users
    BY DEF PresenceOK
  <2>2. NoUser \notin DOMAIN db.users
    BY DEF HubInv, CoreOK, IsTables, NoUser
  <2> QED BY <2>1, <2>2 DEF OnlineIsAttached, Members
<1>3. CASE Joining
  <2>1. /\ Sender \in Session /\ sess[Sender].user.id \in {NoUser, JoinedUser}
        /\ \A t \in Session \ {Sender} : sess'[t] = sess[t]
        /\ sess'[Sender].user.id = JoinedUser
    BY <1>3, JoinIdentity DEF KeepsAccount
  <2>2. scoped \subseteq scoped'
    BY <1>3 DEF Joining, JoinWorkspace, JoinWorkspaceAbandoned
  <2>3. CASE k \in DOMAIN presence /\ presence[k].online
    <3>1. PICK s \in Session : <<k[1], s>> \in scoped /\ sess[s].user.id = k[2] /\ k[2] # NoUser
      BY <1>2, <2>3
    <3> QED BY <2>1, <2>2, <3>1
  <2>4. CASE JoinWorkspace
    <3> DEFINE key == <<JoinTarget, JoinedUser>>
    <3>1. /\ DOMAIN presence' = DOMAIN presence \cup {key}
          /\ \A j \in DOMAIN presence \ {key} : presence'[j] = presence[j]
          /\ scoped' = scoped \cup {<<JoinTarget, Sender>>}
      BY <1>1, <2>4, JoinSetsOnline
    <3>2. CASE k = key
      BY <2>1, <3>1, <3>2
    <3> QED BY <2>3, <3>1, <3>2
  <2>5. CASE JoinWorkspaceAbandoned
    BY <2>3, <2>5 DEF JoinWorkspaceAbandoned
  <2> QED BY <1>3, <2>4, <2>5 DEF Joining
<1>4. CASE \E s \in Session : RemoveSession(s)
  <2>1. PICK s \in Session : RemoveSession(s)
    BY <1>4
  <2> DEFINE key == <<sess[s].ws, sess[s].user.id>>
  <2>2. /\ DOMAIN presence' = DOMAIN presence
        /\ \A j \in DOMAIN presence \ {key} : presence'[j] = presence[j]
        /\ sess[s].ws # Blank /\ key \in DOMAIN presence => ~presence'[key].online
        /\ scoped' = scoped \ {<<sess[s].ws, s>>} /\ sess' = sess
    BY <1>1, <2>1, RemovalTakesOffline, RemovalKeepsSessions
  <2>3. presence[k].online
    <3>1. CASE k = key /\ sess[s].ws = Blank
      <4>1. presence'[k] = presence[k]
        BY <2>1, <3>1 DEF RemoveSession
      <4> QED BY <4>1
    <3>2. CASE k # key
      BY <2>2, <3>2
    <3> QED BY <2>2, <3>1, <3>2
  <2>4. PICK t \in Session : <<k[1], t>> \in scoped /\ sess[t].user.id = k[2]
    BY <1>2, <2>2, <2>3
  <2>5. sess[t].ws = k[1] /\ sess[t].ws # Blank
    BY <2>4 DEF ScopedOK
  <2>6. k = <<k[1], k[2]>>
    BY <2>2 DEF PresenceOK
  <2>7. t # s
    BY <2>2, <2>4, <2>5, <2>6
  <2> QED BY <2>2, <2>4, <2>7
<1>5. CASE ~Joining /\ ~\E s \in Session : RemoveSession(s)
  <2>1. DOMAIN presence' = DOMAIN presence /\ presence[k].online
    BY <1>1, <1>5, PresenceKept DEF Joining
  <2>2. scoped' = scoped /\ \A s \in Session : sess'[s].user.id = sess[s].user.id
    BY <1>5, ScopedKept, IdentityKept
  <2> QED BY <1>2, <2>1, <2>2
<1> QED BY <1>3, <1>4, <1>5
-----------------------------------------------------------------------------
(* The theorems about sessions that stay in a workspace.                   *)

LEMMA SessionInvariant ==
  OneWorkspacePerScript => (Spec /\ []KeepsAccount => []SessionInv)
<1> SUFFICES ASSUME OneWorkspacePerScript PROVE Spec /\ []KeepsAccount => []SessionInv
  OBVIOUS
<1>1. Init => SessionInv
  <2> SUFFICES ASSUME Init PROVE SessionInv
    OBVIOUS
  <2>1. /\ presence = <<>> /\ scoped = {} /\ inbound = <<>> /\ sessions = {}
        /\ link = [s \in Session |-> "new"] /\ db = EmptyDB
    BY DEF Init
  <2>2. \A s \in Session : sess[s].user.id = NoUser /\ sess[s].current = NoChannel
    BY DEF Init, NewSession
  <2>3. db.messages = <<>>
    BY <2>1 DEF EmptyDB
  <2> QED BY <2>1, <2>2, <2>3 DEF SessionInv, PresenceOK, ScopedOK, InChannels, NewIsFresh, LinkOK,
                                  MessagesFiled, OnlineIsAttached
<1>2. HubInv /\ SessionInv /\ StaysInWorkspace /\ KeepsAccount /\ [Next]_vars => SessionInv'
  BY PresenceOKStep, ScopedStep, InChannelsStep, NewIsFreshStep, LinkStep, MessagesFiledStep, OnlineStep
     DEF SessionInv
<1>3. Spec => []StaysInWorkspace
  BY OneWorkspaceJoined
<1> QED BY <1>1, <1>2, <1>3, HubInvariant, PTL DEF Spec

\* A stored message belongs to a channel of its own workspace and its author
\* is in that channel, joins that are given up half-way and repeated included,
\* if a client names one workspace on a connection and keeps its account.
THEOREM MessagesInChannel ==
  OneWorkspacePerScript => (Spec /\ []KeepsAccount => []MessagesFiled)
<1> SUFFICES ASSUME OneWorkspacePerScript PROVE Spec /\ []KeepsAccount => []MessagesFiled
  OBVIOUS
<1>1. SessionInv => MessagesFiled
  BY DEF SessionInv
<1>2. Spec /\ []KeepsAccount => []SessionInv
  BY SessionInvariant
<1> QED BY <1>1, <1>2, PTL

\* Nobody is shown online after the last of their sessions left, whatever
\* order unregistrations, joins and renames are handled in, if a client names
\* one workspace on a connection and keeps its account.
THEOREM OnlineHaveSessions ==
  OneWorkspacePerScript => (Spec /\ []KeepsAccount => []OnlineIsAttached)
<1> SUFFICES ASSUME OneWorkspacePerScript PROVE Spec /\ []KeepsAccount => []OnlineIsAttached
  OBVIOUS
<1>1. SessionInv => OnlineIsAttached
  BY DEF SessionInv
<1>2. Spec /\ []KeepsAccount => []SessionInv
  BY SessionInvariant
<1> QED BY <1>1, <1>2, PTL

LEMMA SoleOnlineStep ==
  ASSUME Faults \cap {"ListChannels", "ListWorkspaceUsers"} = {},
         HubInv, SessionInv, SoleOnline, KeepsAccount, [Next]_vars
  PROVE  SoleOnline'
<1> DEFINE Alone(s) == \A t \in Session \ {s} : sess[t].user.id # sess[s].user.id
           Shown(s) == /\ <<sess[s].ws, sess[s].user.id>> \in DOMAIN presence
                       /\ presence[<<sess[s].ws, sess[s].user.id>>].online
<1> SUFFICES ASSUME NEW s \in sessions', <<sess'[s].ws, s>> \in scoped', Alone(s)'
             PROVE  Shown(s)'
  BY DEF SoleOnline
<1>1. /\ s \in Session /\ PresenceTyped /\ ScopedOK
      /\ \A t \in sessions : <<sess[t].ws, t>> \in scoped /\ Alone(t) => Shown(t)
  BY LinkStep DEF SessionInv, LinkOK, PresenceOK, PresenceTyped, SoleOnline
<1>2. CASE Joining
  <2>1. /\ Sender \in Session /\ sess[Sender].user.id \in {NoUser, JoinedUser}
        /\ \A t \in Session \ {Sender} : sess'[t] = sess[t]
        /\ sess'[Sender].ws = JoinTarget /\ sess'[Sender].user.id = JoinedUser
    BY <1>2, JoinIdentity DEF KeepsAccount
  <2>2. sessions' = sessions
    BY <1>2 DEF Joining, JoinWorkspace, JoinWorkspaceAbandoned, Serve
  <2>3. CASE s # Sender /\ <<sess[s].ws, s>> \in scoped
    <3>1. sess'[s] = sess[s] /\ sess[s].user.id # NoUser
      BY <1>1, <2>1, <2>3 DEF ScopedOK
    <3>2. Alone(s)
      BY <2>1, <3>1
    <3>3. Shown(s)
      BY <1>1, <2>2, <2>3, <3>2
    <3>4. CASE JoinWorkspace
      <4> DEFINE key == <<JoinTarget, JoinedUser>>
      <4>1. /\ DOMAIN presence' = DOMAIN presence \cup {key} /\ presence'[key].online
            /\ \A j \in DOMAIN presence \ {key} : presence'[j] = presence[j]
        BY <1>1, <3>4, JoinSetsOnline
      <4> HIDE DEF key
      <4> QED BY <3>1, <3>3, <4>1
    <3>5. CASE JoinWorkspaceAbandoned
      BY <3>1, <3>3, <3>5 DEF JoinWorkspaceAbandoned
    <3> QED BY <1>2, <3>4, <3>5 DEF Joining
  <2>4. CASE JoinWorkspace
    <3> DEFINE key == <<JoinTarget, JoinedUser>>
    <3>1. /\ DOMAIN presence' = DOMAIN presence \cup {key} /\ presence'[key].online
          /\ scoped' = scoped \cup {<<JoinTarget, Sender>>}
      BY <1>1, <2>4, JoinSetsOnline
    <3>2. CASE s = Sender
      BY <2>1, <3>1, <3>2
    <3>3. CASE s # Sender
      BY <1>1, <2>1, <2>3, <3>1, <3>3
    <3> QED BY <3>2, <3>3
  <2>5. CASE JoinWorkspaceAbandoned
    <3>1. scoped' = scoped /\ presence' = presence
      BY <2>5 DEF JoinWorkspaceAbandoned
    <3>2. CASE s = Sender
      <4>1. sess[s].ws = sess'[s].ws /\ sess[s].user.id # NoUser /\ <<sess[s].ws, s>> \in scoped
        BY <1>1, <2>1, <3>1, <3>2 DEF ScopedOK
      <4>2. sess'[s].user.id = sess[s].user.id
        BY <2>1, <3>2, <4>1
      <4>3. Alone(s)
        BY <2>1, <3>2, <4>2
      <4> QED BY <1>1, <2>2, <3>1, <4>1, <4>2, <4>3
    <3>3. CASE s # Sender
      BY <1>1, <2>1, <2>3, <3>1, <3>3
    <3> QED BY <3>2, <3>3
  <2> QED BY <1>2, <2>4, <2>5 DEF Joining
<1>3. CASE \E r \in Session : RemoveSession(r)
  <2>1. PICK r \in Session : RemoveSession(r)
    BY <1>3
  <2> DEFINE key == <<sess[r].ws, sess[r].user.id>>
  <2>2. /\ DOMAIN presence' = DOMAIN presence
        /\ \A j \in DOMAIN presence \ {key} : presence'[j] = presence[j]
        /\ scoped' = scoped \ {<<sess[r].ws, r>>} /\ sess' = sess /\ sessions' = sessions \ {r}
    BY <1>1, <2>1, RemovalTakesOffline, RemovalKeepsSessions
  <2>3. s # r /\ Alone(s) /\ Shown(s)
    BY <1>1, <2>2
  <2>4. <<sess[s].ws, sess[s].user.id>> # key
    BY <2>1, <2>3
  <2> QED BY <2>2, <2>3, <2>4
<1>4. CASE ~Joining /\ ~\E r \in Session : RemoveSession(r)
  <2>1. /\ DOMAIN presence' = DOMAIN presence
        /\ \A k \in DOMAIN presence : presence'[k].online <=> presence[k].online
    BY <1>1, <1>4, PresenceKept DEF Joining
  <2>2. /\ scoped' = scoped
        /\ \A t \in Session : sess'[t].user.id = sess[t].user.id /\ sess'[t].ws = sess[t].ws
    BY <1>4, ScopedKept, IdentityKept
  <2>3. Alone(s) /\ <<sess[s].ws, s>> \in scoped
    BY <1>1, <2>2
  <2>4. s \in sessions
    <3>1. CASE \E t \in Session : Register(t)
      <4>1. PICK t \in Session : link[t] = "new" /\ sessions' = sessions \cup {t}
        BY <3>1 DEF Register
      <4>2. sess[t].user.id = NoUser
        BY <4>1 DEF SessionInv, NewIsFresh
      <4>3. sess[s].user.id # NoUser
        BY <1>1, <2>3 DEF ScopedOK
      <4> QED BY <4>1, <4>2, <4>3
    <3>2. CASE ~\E t \in Session : Register(t)
      <4>1. ASSUME NEW t \in Session, Pump(t) PROVE sessions' = sessions
        BY <1>4, <3>2, <4>1 DEF Pump, ReadScript, Read, EndRead, WriteOut, table
      <4>2. CASE Post \/ Tick \/ (\E b \in spawned : RunSpawned(b)) \/ UNCHANGED vars
        BY <4>2 DEF Post, Tick, RunSpawned, vars, table
      <4>3. CASE Identify \/ JoinWorkspaceRefused \/ JoinChannel \/ SendMessage \/ RequestHistory
                 \/ RequestUsers \/ RequestChannels
        BY <4>3 DEF Identify, JoinWorkspaceRefused, JoinChannel, SendMessage, RequestHistory, RequestUsers,
                    RequestChannels, Serve
      <4>4. CASE Typing \/ Reply \/ PingUser \/ PingAll \/ ChangeHandle
        BY <4>4 DEF Typing, Reply, PingUser, PingAll, ChangeHandle, Serve
      <4> QED BY <1>4, <4>1, <4>2, <4>3, <4>4 DEF Next, Handle, Joining
    <3> QED BY <3>1, <3>2
  <2>5. Shown(s)
    BY <1>1, <2>3, <2>4
  <2> QED BY <1>1, <2>1, <2>2, <2>5
<1> QED BY <1>2, <1>3, <1>4

\* A connected session whose user no other session is, is shown online, if a
\* client names one workspace on a connection and keeps its account, and the
\* queries that follow the attachment in a join do not fail.
THEOREM SoleSessionOnline ==
  ASSUME Faults \cap {"ListChannels", "ListWorkspaceUsers"} = {}, OneWorkspacePerScript
  PROVE  Spec /\ []KeepsAccount => []SoleSessionIsOnline
<1>1. Init => SoleOnline
  BY DEF Init, SoleOnline
<1>2. HubInv /\ SessionInv /\ SoleOnline /\ KeepsAccount /\ [Next]_vars => SoleOnline'
  BY SoleOnlineStep
<1>3. SessionInv /\ SoleOnline => SoleSessionIsOnline
  BY DEF SessionInv, ScopedOK, SoleOnline, SoleSessionIsOnline
<1>4. Spec /\ []KeepsAccount => []SessionInv
  BY SessionInvariant
<1> QED BY <1>1, <1>2, <1>3, <1>4, HubInvariant, PTL DEF Spec
-----------------------------------------------------------------------------
(* The handles presence shows, in a server with one workspace.             *)

\* A join takes its session to the workspace it names and leaves the others,
\* whatever the session carried before.
LEMMA JoinMovesSession ==
  ASSUME HubInv, Joining
  PROVE  /\ inbound # <<>> /\ Event.type = "join_workspace" /\ ~JoinRejected
         /\ Sender \in Session /\ sess'[Sender].ws = JoinTarget
         /\ \A t \in Session \ {Sender} : sess'[t] = sess[t]
<1> DEFINE s == Sender
           me == JoinedSess[s]
<1>1. /\ inbound # <<>> /\ Event.type = "join_workspace" /\ ~JoinRejected
      /\ sess' = JoinedSess \/ sess' = InLobbySess
  BY DEF Joining, JoinWorkspace, JoinWorkspaceAbandoned, Serve, Event
<1>2. s \in Session /\ me \in SessionRecord /\ JoinedSess = [sess EXCEPT ![s] = me]
  BY <1>1, JoinLeaves
<1>3. sess \in [Session -> SessionRecord]
  BY DEF HubInv, CoreOK
<1>4. me.ws = JoinTarget
  BY <1>2, <1>3 DEF JoinedSess, SessionRecord
<1> HIDE DEF me
<1>5. InLobbySess = [sess EXCEPT ![s] = [me EXCEPT !.current = Lobby]]
  BY <1>2, <1>3 DEF InLobbySess, me
<1>6. [me EXCEPT !.current = Lobby].ws = me.ws
  BY <1>2 DEF SessionRecord
<1> QED BY <1>1, <1>2, <1>3, <1>4, <1>5, <1>6

LEMMA RenameKeepsFresh ==
  ASSUME NEW ws, HubInv, PresenceTyped, OneWorkspaceInv(ws), ChangeHandle
  PROVE  \A k \in DOMAIN presence : presence'[k].handle = db'.users[k[2]]
<1> DEFINE me == sess[Sender]
           u == me.user.id
           h == NormalizeHandle(Event.handle)
           key == <<me.ws, u>>
           q == PresenceRename(presence, key, h)
           e == UpdateUserHandle(db, u, h)
<1>1. /\ inbound # <<>>
      /\ \/ presence' = presence /\ db' = db
         \/ u # NoUser /\ h \in HandlePattern /\ presence' = q /\ db' = e
  BY DEF ChangeHandle, Serve, ValidHandle
<1>2. \A k \in DOMAIN presence : presence[k].handle = db.users[k[2]]
  BY DEF OneWorkspaceInv, PresenceHandleFresh
<1>3. CASE presence' = presence /\ db' = db
  BY <1>2, <1>3
<1>4. CASE u # NoUser /\ h \in HandlePattern /\ presence' = q /\ db' = e
  <2>1. Sender \in Session /\ IsTables(db) /\ me.ws = ws
    BY <1>1, <1>4, EventTyped DEF HubInv, CoreOK, OneWorkspaceInv
  <2>2. h \in Text
    BY <1>4, StoreAssumption DEF StoreAssumption
  <2>3. \A k \in DOMAIN presence : k = <<ws, k[2]>> /\ k[2] \in DOMAIN db.users
    BY DEF OneWorkspaceInv
  <2> HIDE DEF u, h
  <2>4. \A v \in DOMAIN db.users : e.users[v] = IF v = u THEN h ELSE db.users[v]
    BY <2>1, UpdateUserHandleTables
  <2> HIDE DEF e
  <2>5. /\ key \in DOMAIN presence => q[key].handle = h
        /\ \A k \in DOMAIN presence \ {key} : q[k] = presence[k]
    <3> HIDE DEF key
    <3> QED BY <2>2, PresenceRenameOK DEF PresenceTyped
  <2> HIDE DEF q
  <2> SUFFICES ASSUME NEW k \in DOMAIN presence PROVE presence'[k].handle = db'.users[k[2]]
    OBVIOUS
  <2>6. CASE k = key
    BY <1>4, <2>3, <2>4, <2>5, <2>6
  <2>7. CASE k # key
    BY <1>2, <1>4, <2>1, <2>3, <2>4, <2>5, <2>7
  <2> QED BY <2>6, <2>7
<1> QED BY <1>1, <1>3, <1>4

\* The joins the hub handles are for one workspace.
JoinsInto(ws) == inbound # <<>> /\ Event.type = "join_workspace" => Clean(Event.workspace) = ws

LEMMA HandleFreshStep ==
  ASSUME NEW ws, JoinsInto(ws), HubInv, PresenceTyped, OneWorkspaceInv(ws), [Next]_vars
  PROVE  PresenceTyped' /\ OneWorkspaceInv(ws)'
<1>1. /\ \A k \in DOMAIN presence : presence[k].handle = db.users[k[2]] /\ k[2] \in DOMAIN db.users
      /\ DOMAIN presence \subseteq {ws} \X DOMAIN db.users
      /\ \A s \in Session : sess[s].user.id # NoUser => sess[s].ws = ws
  BY DEF OneWorkspaceInv, PresenceHandleFresh
<1>2. DOMAIN db.users \subseteq DOMAIN db'.users
  BY DbGrows
<1>3. CASE Joining
  <2>1. /\ inbound # <<>> /\ Event.type = "join_workspace" /\ ~JoinRejected
        /\ Sender \in Session /\ sess'[Sender].ws = JoinTarget
        /\ \A t \in Session \ {Sender} : sess'[t] = sess[t]
    BY <1>3, JoinMovesSession
  <2>2. JoinTarget = ws
    BY <2>1 DEF JoinsInto, JoinTarget
  <2>3. \A s \in Session : sess'[s].user.id # NoUser => sess'[s].ws = ws
    BY <1>1, <2>1, <2>2
  <2>4. \A u \in DOMAIN db.users : db'.users[u] = db.users[u]
    <3>1. db' \in {JoinedDB, WithLobby, InLobby}
      BY <1>3 DEF Joining, JoinWorkspace, JoinWorkspaceAbandoned
    <3> QED BY <2>1, <3>1, JoinedTables
  <2>5. CASE JoinWorkspaceAbandoned
    <3>1. presence' = presence
      BY <2>5 DEF JoinWorkspaceAbandoned
    <3> QED BY <1>1, <1>2, <2>3, <2>4, <3>1 DEF OneWorkspaceInv, PresenceHandleFresh, PresenceTyped
  <2>6. CASE JoinWorkspace
    <3> DEFINE key == <<JoinTarget, JoinedUser>>
    <3>1. /\ PresenceTyped' /\ DOMAIN presence' = DOMAIN presence \cup {key}
          /\ presence'[key].handle = JoinedDB.users[JoinedUser]
          /\ \A k \in DOMAIN presence \ {key} : presence'[k] = presence[k]
          /\ db' = InLobby
      BY <2>6, JoinSetsOnline
    <3>2. JoinedUser \in DOMAIN InLobby.users /\ InLobby.users = JoinedDB.users
      <4>1. JoinedSess[Sender].user.id = JoinedUser /\ JoinedSess[Sender].ws = JoinTarget
        BY <2>1, JoinLeaves DEF JoinedSess, HubInv, CoreOK, SessionRecord
      <4>2. JoinTarget # Blank
        <5>1. Event \in EventType /\ Event.workspace \in Text
          BY <2>1, EventTyped, FieldTyped DEF HubInv
        <5>2. Trim[Event.workspace] # Blank
          BY <2>1 DEF JoinRejected
        <5> QED BY <5>1, <5>2, CleanTyped, StoreAssumption DEF StoreAssumption, JoinTarget, Clean
      <4>3. Attached(JoinedSess[Sender], InLobby)
        BY <2>1, JoinLeaves
      <4> QED BY <2>1, <4>1, <4>2, <4>3, JoinedTables DEF Attached
    <3>3. \A k \in DOMAIN presence' : presence'[k].handle = db'.users[k[2]]
      BY <1>1, <2>4, <3>1, <3>2
    <3>4. DOMAIN presence' \subseteq {ws} \X DOMAIN db'.users
      BY <1>1, <1>2, <2>2, <3>1, <3>2
    <3> QED BY <2>3, <3>1, <3>3, <3>4 DEF OneWorkspaceInv, PresenceHandleFresh
  <2> QED BY <1>3, <2>5, <2>6 DEF Joining
<1>4. CASE ~Joining
  <2>1. \A s \in Session : sess'[s].user.id # NoUser => sess'[s].ws = ws
    BY <1>1, <1>4, IdentityKept
  <2>2. PresenceTyped' /\ DOMAIN presence' = DOMAIN presence
    BY <1>4, PresenceKept, RemovalTakesOffline DEF Joining
  <2>3. \A k \in DOMAIN presence : presence'[k].handle = db'.users[k[2]]
    <3>1. CASE ChangeHandle
      BY <3>1, RenameKeepsFresh
    <3>2. CASE ~ChangeHandle
      <4>1. \A k \in DOMAIN presence : presence'[k].handle = presence[k].handle
        BY <1>4, <3>2, PresenceKept, RemovalTakesOffline DEF Joining
      <4> QED BY <1>1, <3>2, <4>1, DbGrows
    <3> QED BY <3>1, <3>2
  <2> QED BY <1>1, <1>2, <2>1, <2>2, <2>3 DEF OneWorkspaceInv, PresenceHandleFresh
<1> QED BY <1>3, <1>4

\* What waits in inbound was in the clients' scripts.
FromScripts == \A i \in DOMAIN inbound : inbound[i].event \in ClientEvent

LEMMA FromScriptsStep ==
  ASSUME HubInv, TodoOK, FromScripts, [Next]_vars
  PROVE  FromScripts'
<1>1. inbound \in Seq([from : Session, event : EventType])
  BY DEF HubInv, CoreOK
<1>2. CASE inbound' = inbound
  BY <1>2 DEF FromScripts
<1>3. CASE inbound # <<>> /\ inbound' = Tail(inbound)
  <2>1. \A i \in DOMAIN inbound' : i + 1 \in DOMAIN inbound /\ inbound'[i] = inbound[i + 1]
    BY <1>1, <1>3
  <2> QED BY <2>1 DEF FromScripts
<1>4. CASE \E s \in Session : \E e : /\ todo[s] # <<>> /\ e \in Head(todo[s])
                                     /\ inbound' = Append(inbound, [from |-> s, event |-> e])
  <2> PICK s \in Session : \E e : /\ todo[s] # <<>> /\ e \in Head(todo[s])
                                  /\ inbound' = Append(inbound, [from |-> s, event |-> e])
    BY <1>4
  <2>1. PICK e : todo[s] # <<>> /\ e \in Head(todo[s]) /\ inbound' = Append(inbound, [from |-> s, event |-> e])
    OBVIOUS
  <2>2. Head(todo[s]) \in SUBSET ClientEvent
    BY <2>1, HeadTailProperties DEF TodoOK
  <2>3. e \in ClientEvent
    BY <2>1, <2>2
  <2>4. \A i \in DOMAIN inbound' :
          \/ i \in DOMAIN inbound /\ inbound'[i] = inbound[i]
          \/ inbound'[i] = [from |-> s, event |-> e]
    BY <1>1, <2>1
  <2> QED BY <2>3, <2>4 DEF FromScripts
<1> QED BY <1>2, <1>3, <1>4, InboundStep

LEMMA InboundOfScripts == Spec => [](HubInv /\ FromScripts)
<1>1. Init => HubInv /\ TodoOK /\ FromScripts
  BY HubInit DEF Init, FromScripts
<1>2. HubInv /\ TodoOK /\ FromScripts /\ [Next]_vars => HubInv' /\ TodoOK' /\ FromScripts'
  BY HubStep, TodoStep, FromScriptsStep
<1> QED BY <1>1, <1>2, PTL DEF Spec

\* The presence pane names every user as the users table does, through renames
\* and rejoins by any session of that user, when the clients use one workspace.
THEOREM PresenceNamesFresh ==
  ASSUME NEW ws, OneWorkspace(ws) PROVE Spec => []PresenceHandleFresh
<1> DEFINE Inv == OneWorkspaceInv(ws)
<1>1. Init => PresenceTyped /\ Inv
  BY DEF Init, PresenceTyped, OneWorkspaceInv, PresenceHandleFresh, NewSession
<1>2. HubInv /\ FromScripts => JoinsInto(ws)
  <2> SUFFICES ASSUME HubInv, FromScripts, inbound # <<>>, Event.type = "join_workspace"
               PROVE  Clean(Event.workspace) = ws
    BY DEF JoinsInto
  <2>1. 1 \in DOMAIN inbound /\ Event = inbound[1].event
    BY DEF HubInv, CoreOK, Event
  <2> QED BY <2>1 DEF FromScripts, OneWorkspace
<1>3. HubInv /\ FromScripts /\ PresenceTyped /\ Inv /\ [Next]_vars => PresenceTyped' /\ Inv'
  BY <1>2, HandleFreshStep
<1>4. Inv => PresenceHandleFresh
  BY DEF OneWorkspaceInv
<1> HIDE DEF Inv
<1> QED BY <1>1, <1>3, <1>4, InboundOfScripts, PTL DEF Spec
-----------------------------------------------------------------------------
(* What is queued, and for whom: the envelopes have their types, and most  *)
(* carry no messages.                                                      *)

Out == [to : SUBSET Session, env : EnvelopeType]
Plain(o) == o \in Out /\ o.env.msgs = <<>>

LEMMA EnvelopeOK ==
  ASSUME NEW type \in ServerEvent
  PROVE  Envelope(type) \in EnvelopeType /\ Envelope(type).msgs = <<>>
<1>1. NoChannel \in Channel /\ Blank \in Text
  BY StoreAssumption DEF StoreAssumption, NoChannel, Channel
<1>2. NoEffect \in [from : Text, effect : Text \cup {"normal"}, ms : Nat]
  BY <1>1 DEF NoEffect
<1> QED BY <1>1, <1>2 DEF Envelope, EnvelopeType

\* One field of an envelope is replaced.
LEMMA EnvelopeField ==
  ASSUME NEW e \in EnvelopeType
  PROVE  /\ \A c \in Channel : [e EXCEPT !.chan = c] \in EnvelopeType /\ [e EXCEPT !.chan = c].msgs = e.msgs
         /\ \A m \in Seq(Nat) : [e EXCEPT !.msgs = m] \in EnvelopeType /\ [e EXCEPT !.msgs = m].msgs = m
         /\ \A p \in SUBSET PresenceRow :
              [e EXCEPT !.pres = p] \in EnvelopeType /\ [e EXCEPT !.pres = p].msgs = e.msgs
         /\ \A u \in SUBSET [id : Nat, handle : Text] :
              [e EXCEPT !.users = u] \in EnvelopeType /\ [e EXCEPT !.users = u].msgs = e.msgs
         /\ \A t \in Text : [e EXCEPT !.old = t] \in EnvelopeType /\ [e EXCEPT !.old = t].msgs = e.msgs
         /\ \A t \in Text : [e EXCEPT !.handle = t] \in EnvelopeType /\ [e EXCEPT !.handle = t].msgs = e.msgs
         /\ \A x \in [from : Text, effect : Text \cup {"normal"}, ms : Nat] :
              [e EXCEPT !.effect = x] \in EnvelopeType /\ [e EXCEPT !.effect = x].msgs = e.msgs
  BY DEF EnvelopeType, PresenceRow

\* The deliveries of the handlers, from the parts they carry.
LEMMA DeliveriesPlain ==
  ASSUME NEW to \in SUBSET Session, NEW s \in Session
  PROVE  /\ \A type \in ServerEvent : Plain(Tell(s, type)) /\ Plain(Broadcast(to, type))
         /\ Plain(Error(s))
         /\ \A c \in Channel : Plain(ChannelJoined(s, c))
         /\ \A h \in Text : Plain(Identified(s, h))
         /\ \A u \in SUBSET [id : Nat, handle : Text] : Plain(UsersList(to, u))
         /\ \A o, h \in Text : Plain(HandleChanged(to, o, h))
         /\ \A p \in SUBSET PresenceRow : Plain(PresenceUpdate(to, p))
         /\ \A x \in [from : Text, effect : Text \cup {"normal"}, ms : Nat] : Plain(PingEffect(to, x))
<1>1. to \in SUBSET Session /\ {s} \in SUBSET Session
  OBVIOUS
<1>2. \A type \in ServerEvent : Plain(Tell(s, type)) /\ Plain(Broadcast(to, type)) /\ Plain(Error(s))
  <2> SUFFICES ASSUME NEW type \in ServerEvent
               PROVE  Plain(Tell(s, type)) /\ Plain(Broadcast(to, type)) /\ Plain(Error(s))
    OBVIOUS
  <2> DEFINE e == Envelope(type)
             x == Envelope("error")
  <2>1. e \in EnvelopeType /\ e.msgs = <<>> /\ x \in EnvelopeType /\ x.msgs = <<>>
    <3>1. "error" \in ServerEvent
      BY DEF ServerEvent
    <3> QED BY <3>1, EnvelopeOK
  <2> HIDE DEF e, x
  <2>2. /\ Plain([to |-> {s}, env |-> e]) /\ Plain([to |-> to, env |-> e])
        /\ Plain([to |-> {s}, env |-> x])
    BY <1>1, <2>1 DEF Plain, Out
  <2> QED BY <2>2 DEF Tell, Broadcast, Error, e, x
<1>3. \A c \in Channel : Plain(ChannelJoined(s, c))
  <2> SUFFICES ASSUME NEW c \in Channel PROVE Plain(ChannelJoined(s, c))
    OBVIOUS
  <2> DEFINE e0 == Envelope("channel_joined")
             e1 == [e0 EXCEPT !.chan = c]
  <2>1. e0 \in EnvelopeType /\ e0.msgs = <<>>
    <3>1. "channel_joined" \in ServerEvent
      BY DEF ServerEvent
    <3> QED BY <3>1, EnvelopeOK
  <2> HIDE DEF e0
  <2>2. e1 \in EnvelopeType /\ e1.msgs = <<>>
    BY <2>1, EnvelopeField
  <2> HIDE DEF e1
  <2>3. Plain([to |-> {s}, env |-> e1])
    BY <1>1, <2>2 DEF Plain, Out
  <2>4. ChannelJoined(s, c) = [to |-> {s}, env |-> e1]
    BY DEF ChannelJoined, e0, e1
  <2> QED BY <2>3, <2>4
<1>4. \A h \in Text : Plain(Identified(s, h))
  <2> SUFFICES ASSUME NEW h \in Text PROVE Plain(Identified(s, h))
    OBVIOUS
  <2> DEFINE e0 == Envelope("identified")
             e1 == [e0 EXCEPT !.handle = h]
  <2>1. e0 \in EnvelopeType /\ e0.msgs = <<>>
    <3>1. "identified" \in ServerEvent
      BY DEF ServerEvent
    <3> QED BY <3>1, EnvelopeOK
  <2> HIDE DEF e0
  <2>2. e1 \in EnvelopeType /\ e1.msgs = <<>>
    BY <2>1, EnvelopeField
  <2> HIDE DEF e1
  <2>3. Plain([to |-> {s}, env |-> e1])
    BY <1>1, <2>2 DEF Plain, Out
  <2>4. Identified(s, h) = [to |-> {s}, env |-> e1]
    BY DEF Identified, e0, e1
  <2> QED BY <2>3, <2>4
<1>5. \A u \in SUBSET [id : Nat, handle : Text] : Plain(UsersList(to, u))
  <2> SUFFICES ASSUME NEW u \in SUBSET [id : Nat, handle : Text] PROVE Plain(UsersList(to, u))
    OBVIOUS
  <2> DEFINE e0 == Envelope("users_list")
             e1 == [e0 EXCEPT !.users = u]
  <2>1. e0 \in EnvelopeType /\ e0.msgs = <<>>
    <3>1. "users_list" \in ServerEvent
      BY DEF ServerEvent
    <3> QED BY <3>1, EnvelopeOK
  <2> HIDE DEF e0
  <2>2. e1 \in EnvelopeType /\ e1.msgs = <<>>
    BY <2>1, EnvelopeField
  <2> HIDE DEF e1
  <2>3. Plain([to |-> to, env |-> e1])
    BY <1>1, <2>2 DEF Plain, Out
  <2>4. UsersList(to, u) = [to |-> to, env |-> e1]
    BY DEF UsersList, e0, e1
  <2> QED BY <2>3, <2>4
<1>6. \A o, h \in Text : Plain(HandleChanged(to, o, h))
  <2> SUFFICES ASSUME NEW o \in Text, NEW h \in Text PROVE Plain(HandleChanged(to, o, h))
    OBVIOUS
  <2> DEFINE e0 == Envelope("handle_changed")
             e1 == [e0 EXCEPT !.old = o]
             e2 == [e1 EXCEPT !.handle = h]
  <2>1. e0 \in EnvelopeType /\ e0.msgs = <<>>
    <3>1. "handle_changed" \in ServerEvent
      BY DEF ServerEvent
    <3> QED BY <3>1, EnvelopeOK
  <2> HIDE DEF e0
  <2>2. e1 \in EnvelopeType /\ e1.msgs = <<>>
    BY <2>1, EnvelopeField
  <2> HIDE DEF e1
  <2>3. e2 \in EnvelopeType /\ e2.msgs = <<>>
    BY <2>2, EnvelopeField
  <2> HIDE DEF e2
  <2>4. Plain([to |-> to, env |-> e2])
    BY <1>1, <2>3 DEF Plain, Out
  <2>5. HandleChanged(to, o, h) = [to |-> to, env |-> e2]
    BY DEF HandleChanged, e0, e1, e2
  <2> QED BY <2>4, <2>5
<1>7. \A p \in SUBSET PresenceRow : Plain(PresenceUpdate(to, p))
  <2> SUFFICES ASSUME NEW p \in SUBSET PresenceRow PROVE Plain(PresenceUpdate(to, p))
    OBVIOUS
  <2> DEFINE e0 == Envelope("presence_update")
             e1 == [e0 EXCEPT !.pres = p]
  <2>1. e0 \in EnvelopeType /\ e0.msgs = <<>>
    <3>1. "presence_update" \in ServerEvent
      BY DEF ServerEvent
    <3> QED BY <3>1, EnvelopeOK
  <2> HIDE DEF e0
  <2>2. e1 \in EnvelopeType /\ e1.msgs = <<>>
    BY <2>1, EnvelopeField
  <2> HIDE DEF e1
  <2>3. Plain([to |-> to, env |-> e1])
    BY <1>1, <2>2 DEF Plain, Out
  <2>4. PresenceUpdate(to, p) = [to |-> to, env |-> e1]
    BY DEF PresenceUpdate, e0, e1
  <2> QED BY <2>3, <2>4
<1>8. \A x \in [from : Text, effect : Text \cup {"normal"}, ms : Nat] : Plain(PingEffect(to, x))
  <2> SUFFICES ASSUME NEW x \in [from : Text, effect : Text \cup {"normal"}, ms : Nat] PROVE Plain(PingEffect(to, x))
    OBVIOUS
  <2> DEFINE e0 == Envelope("ping_effect")
             e1 == [e0 EXCEPT !.effect = x]
  <2>1. e0 \in EnvelopeType /\ e0.msgs = <<>>
    <3>1. "ping_effect" \in ServerEvent
      BY DEF ServerEvent
    <3> QED BY <3>1, EnvelopeOK
  <2> HIDE DEF e0
  <2>2. e1 \in EnvelopeType /\ e1.msgs = <<>>
    BY <2>1, EnvelopeField
  <2> HIDE DEF e1
  <2>3. Plain([to |-> to, env |-> e1])
    BY <1>1, <2>2 DEF Plain, Out
  <2>4. PingEffect(to, x) = [to |-> to, env |-> e1]
    BY DEF PingEffect, e0, e1
  <2> QED BY <2>3, <2>4
<1>9. Plain(Error(s))
  <2>1. "error" \in ServerEvent
    BY DEF ServerEvent
  <2> QED BY <1>2, <2>1
<1> QED BY <1>2, <1>3, <1>4, <1>5, <1>6, <1>7, <1>8, <1>9
-----------------------------------------------------------------------------
(* What the handlers say.                                                  *)

Effects == [from : Text, effect : Text \cup {"normal"}, ms : Nat]
UserRows == SUBSET [id : Nat, handle : Text]

LEMMA UsersTyped ==
  ASSUME NEW d, IsTables(d), NEW ws
  PROVE  ListWorkspaceUsers(d, ws) \in UserRows
<1>1. d.users \in Seq(HandlePattern) /\ HandlePattern \subseteq Text
  BY StoreAssumption DEF StoreAssumption, IsTables
<1>2. \A u \in DOMAIN d.users : u \in Nat /\ d.users[u] \in Text
  BY <1>1
<1>3. \A u \in DOMAIN d.users : [id |-> u, handle |-> d.users[u]] \in [id : Nat, handle : Text]
  BY <1>2
<1> QED BY <1>3 DEF ListWorkspaceUsers, UserRows

LEMMA SnapshotTyped ==
  ASSUME NEW p, p \in [DOMAIN p -> PresenceRow], NEW ws
  PROVE  Snapshot(p, ws) \in SUBSET PresenceRow
  BY DEF Snapshot

LEMMA LaunchedTyped ==
  ASSUME HubInv, inbound # <<>>, Event.type \in {"ping_user", "ping_all"}
  PROVE  Launched(Sender) \in Effects
<1>1. Sender \in Session /\ Event \in EventType
  BY EventTyped DEF HubInv
<1>2. sess[Sender].user.handle \in Text
  BY <1>1, StoreAssumption DEF HubInv, CoreOK, SessionRecord, StoreAssumption
<1>3. Event.effect \in Text /\ Event.ms \in Int
  BY <1>1, FieldTyped
<1>4. NormalizePingEffect(Event.effect) \in Text \cup {"normal"}
  BY <1>3, CleanTyped DEF NormalizePingEffect
<1>5. ASSUME NEW e PROVE PingEffectDuration(e, Event.ms) \in Nat
  BY <1>3 DEF PingEffectDuration
<1> QED BY <1>2, <1>4, <1>5 DEF Launched, Effects

\* The deliveries that carry messages, and the one that answers a join.
LEMMA DeliveriesTold ==
  ASSUME NEW to \in SUBSET Session, NEW s \in Session, NEW chan \in Channel,
         NEW d, IsTables(d)
  PROVE  /\ LET o == HistoryBatch(s, d, chan) IN
              o \in Out /\ o.to = {s} /\ o.env.msgs = ListHistory(d, chan)
         /\ Plain(WorkspaceJoined(s, d, chan))
<1>1. LET o == HistoryBatch(s, d, chan) IN
        o \in Out /\ o.to = {s} /\ o.env.msgs = ListHistory(d, chan)
  <2> DEFINE e0 == Envelope("history_batch")
             e1 == [e0 EXCEPT !.chan = chan]
             m == ListHistory(d, chan)
             e2 == [e1 EXCEPT !.msgs = m]
             o == [to |-> {s}, env |-> e2]
  <2>1. e0 \in EnvelopeType /\ m \in Seq(Nat)
    <3>1. "history_batch" \in ServerEvent
      BY DEF ServerEvent
    <3> QED BY <3>1, EnvelopeOK, HistoryOf
  <2> HIDE DEF e0, m
  <2>2. e1 \in EnvelopeType
    BY <2>1, EnvelopeField
  <2> HIDE DEF e1
  <2>3. e2 \in EnvelopeType /\ e2.msgs = m
    BY <2>1, <2>2, EnvelopeField
  <2>4. HistoryBatch(s, d, chan) = o
    BY DEF HistoryBatch, e0, e1, m
  <2> HIDE DEF e2
  <2>5. o \in Out /\ o.to = {s} /\ o.env.msgs = m
    BY <2>3 DEF Out
  <2> HIDE DEF o
  <2> QED BY <2>4, <2>5 DEF m
<1>2. Plain(WorkspaceJoined(s, d, chan))
  <2> DEFINE e0 == Envelope("workspace_joined")
             e1 == [e0 EXCEPT !.chan = chan]
             u == ListWorkspaceUsers(d, chan[1])
             e2 == [e1 EXCEPT !.users = u]
             o == [to |-> {s}, env |-> e2]
  <2>1. e0 \in EnvelopeType /\ e0.msgs = <<>> /\ u \in SUBSET [id : Nat, handle : Text]
    <3>1. "workspace_joined" \in ServerEvent
      BY DEF ServerEvent
    <3> QED BY <3>1, EnvelopeOK, UsersTyped DEF UserRows
  <2> HIDE DEF e0, u
  <2>2. e1 \in EnvelopeType /\ e1.msgs = <<>>
    BY <2>1, EnvelopeField
  <2> HIDE DEF e1
  <2>3. e2 \in EnvelopeType /\ e2.msgs = <<>>
    BY <2>1, <2>2, EnvelopeField
  <2>4. WorkspaceJoined(s, d, chan) = o
    BY DEF WorkspaceJoined, e0, e1, u
  <2> HIDE DEF e2
  <2>5. Plain(o)
    BY <2>3 DEF Out, Plain
  <2> HIDE DEF o
  <2> QED BY <2>4, <2>5
<1> QED BY <1>1, <1>2
-----------------------------------------------------------------------------
\* What a handler may put in outbox: something without messages, the message
\* it has just saved, to the members of its workspace, or the history of the
\* channel its session is in, to that session.
SavedId == Len(db.messages) + 1
Speaks(o) ==
  \/ o.env.msgs = <<>>
  \/ /\ SendMessage /\ o.to = Members(sess[Sender].ws) /\ o.env.msgs = <<SavedId>>
     /\ SavedId \in DOMAIN db'.messages /\ db'.messages[SavedId].ws = sess[Sender].ws
  \/ /\ o.to = {Sender} /\ sess'[Sender].current # NoChannel
     /\ o.env.msgs = ListHistory(db', sess'[Sender].current)
Said == {o \in Out : Speaks(o)}

LEMMA PlainSaid ==
  ASSUME NEW o, Plain(o) PROVE o \in Said
  BY DEF Plain, Said, Speaks

LEMMA SaidOnce ==
  ASSUME NEW S, NEW a \in S PROVE <<a>> \in Seq(S)
  OBVIOUS

LEMMA RefusalSaid ==
  ASSUME HubInv, inbound # <<>>
  PROVE  /\ Error(Sender) \in Said /\ Sender \in Session
         /\ Refuse => outbox' \in Seq(Said)
<1>1. Sender \in Session
  BY EventTyped DEF HubInv
<1>2. Error(Sender) \in Said
  <2>1. {} \in SUBSET Session
    OBVIOUS
  <2> QED BY <1>1, <2>1, DeliveriesPlain, PlainSaid
<1>3. <<Error(Sender)>> \in Seq(Said)
  BY <1>2, SaidOnce
<1> QED BY <1>1, <1>2, <1>3 DEF Refuse

LEMMA MembersTyped == \A ws : Members(ws) \in SUBSET Session
  BY DEF Members

\* The handlers that answer without reading a table or presence.
LEMMA ShortAnswers ==
  ASSUME HubInv, Identify \/ JoinWorkspaceRefused \/ RequestChannels \/ Typing \/ Reply
  PROVE  outbox' \in Seq(Said)
<1>1. inbound # <<>> /\ outbox = <<>>
  BY DEF Identify, JoinWorkspaceRefused, RequestChannels, Typing, Reply, Serve
<1>2. Sender \in Session /\ (Refuse => outbox' \in Seq(Said))
  BY <1>1, RefusalSaid
<1>3. \A type \in ServerEvent :
        /\ Tell(Sender, type) \in Said
        /\ Broadcast(Members(sess[Sender].ws), type) \in Said
  BY <1>2, MembersTyped, DeliveriesPlain, PlainSaid
<1> DEFINE a == Tell(Sender, "channels_list")
           b == Broadcast(Members(sess[Sender].ws), "typing_update")
           c == Tell(Sender, "pong")
           d == Tell(Sender, "call_state_update")
<1>4. a \in Said /\ b \in Said /\ c \in Said /\ d \in Said
  <2>1. {"channels_list", "typing_update", "pong", "call_state_update"} \subseteq ServerEvent
    BY DEF ServerEvent
  <2> QED BY <1>3, <2>1
<1>5. Refuse \/ outbox' = outbox \/ outbox' \in {<<a>>, <<b>>, <<c>>, <<d>>}
  BY DEF Identify, JoinWorkspaceRefused, RequestChannels, Typing, Reply
<1>6. {<<>>, <<a>>, <<b>>, <<c>>, <<d>>} \subseteq Seq(Said)
  <2> HIDE DEF a, b, c, d, Said
  <2> QED BY <1>4
<1> HIDE DEF a, b, c, d, Said
<1> QED BY <1>1, <1>2, <1>5, <1>6

LEMMA SendMessageSaid ==
  ASSUME HubInv, SendMessage
  PROVE  outbox' \in Seq(Said)
<1> DEFINE me == sess[Sender]
           to == Members(me.ws)
<1>1. inbound # <<>>
  BY DEF SendMessage, Serve
<1>2. Sender \in Session /\ (Refuse => outbox' \in Seq(Said))
  BY <1>1, RefusalSaid
<1>3. /\ me.ws \in Text /\ me.current \in Channel /\ me.user.id \in Nat
      /\ IsTables(db)
  BY <1>2 DEF HubInv, CoreOK, SessionRecord
<1>4. CASE \E kind \in MessageType, type \in ServerEvent :
             /\ db' = SaveMessage(db, me.ws, me.current, me.user.id, kind)
             /\ outbox' = <<NewMessage(to, type, me.current, Len(db'.messages))>>
  <2>1. PICK kind \in MessageType, type \in ServerEvent :
             /\ db' = SaveMessage(db, me.ws, me.current, me.user.id, kind)
             /\ outbox' = <<NewMessage(to, type, me.current, Len(db'.messages))>>
    BY <1>4
  <2>2. /\ IsTables(db')
        /\ DOMAIN db'.messages = DOMAIN db.messages \cup {Len(db.messages) + 1}
        /\ db'.messages[Len(db.messages) + 1].ws = me.ws
    <3> HIDE DEF me
    <3> QED BY <1>3, <2>1, SaveMessageOK
  <2>3. db.messages \in Seq(MessageRow) /\ db'.messages \in Seq(MessageRow)
    BY <1>3, <2>2 DEF IsTables
  <2>4. Len(db'.messages) = SavedId /\ SavedId \in DOMAIN db'.messages /\ SavedId \in Nat
    <3>1. /\ DOMAIN db.messages = 1..Len(db.messages) /\ Len(db.messages) \in Nat
          /\ DOMAIN db'.messages = 1..Len(db'.messages) /\ Len(db'.messages) \in Nat
      BY <2>3
    <3> DEFINE n == Len(db.messages)
               m == Len(db'.messages)
    <3>2. n \in Nat /\ m \in Nat /\ 1..m = 1..n \cup {n + 1}
      BY <2>2, <3>1
    <3> HIDE DEF n, m
    <3>3. n + 1 \in 1..m /\ m \in 1..n \cup {n + 1}
      BY <3>2
    <3>4. m = n + 1
      BY <3>2, <3>3
    <3> QED BY <3>1, <3>3, <3>4 DEF SavedId, n, m
  <2> DEFINE o == NewMessage(to, type, me.current, SavedId)
  <2>5. o \in Out /\ o.to = to /\ o.env.msgs = <<SavedId>>
    <3>1. to \in SUBSET Session
      BY MembersTyped
    <3> HIDE DEF to, me
    <3> DEFINE m == <<SavedId>>
               c == me.current
               e0 == Envelope(type)
               e1 == [e0 EXCEPT !.chan = c]
               e2 == [e1 EXCEPT !.msgs = m]
    <3>2. m \in Seq(Nat) /\ c \in Channel /\ e0 \in EnvelopeType
      BY <1>3, <2>1, <2>4, EnvelopeOK
    <3>3. o = [to |-> to, env |-> e2]
      BY DEF NewMessage
    <3> HIDE DEF m, c, o, e0
    <3>4. e1 \in EnvelopeType
      BY <3>2, EnvelopeField
    <3> HIDE DEF e1
    <3>5. e2 \in EnvelopeType /\ e2.msgs = m
      BY <3>2, <3>4, EnvelopeField
    <3> HIDE DEF e2
    <3> QED BY <3>1, <3>3, <3>5 DEF Out, m
  <2>6. o \in Said
    <3> HIDE DEF o
    <3>1. db'.messages[SavedId].ws = me.ws
      BY <2>2 DEF SavedId
    <3> QED BY <2>4, <2>5, <3>1 DEF Said, Speaks
  <2>7. outbox' = <<o>>
    BY <2>1, <2>4
  <2> HIDE DEF o, Said
  <2> QED BY <2>6, <2>7, SaidOnce
<1>5. Refuse \/ \E kind \in MessageType, type \in ServerEvent :
             /\ db' = SaveMessage(db, me.ws, me.current, me.user.id, kind)
             /\ outbox' = <<NewMessage(to, type, me.current, Len(db'.messages))>>
  BY DEF SendMessage, MessageType, ServerEvent
<1> QED BY <1>2, <1>4, <1>5

\* The answer of sendHistory to the session whose channel it is about.
LEMMA HistorySaid ==
  ASSUME HubInv, inbound # <<>>, NEW d, IsTables(d), d = db',
         NEW chan \in Channel, chan # NoChannel, chan = sess'[Sender].current,
         NEW h \in SendHistory(Sender, d, chan)
  PROVE  h \in Said
<1> DEFINE o == HistoryBatch(Sender, d, chan)
<1>1. Sender \in Session /\ Error(Sender) \in Said /\ {} \in SUBSET Session
  BY RefusalSaid
<1>2. o \in Out /\ o.to = {Sender} /\ o.env.msgs = ListHistory(d, chan)
  BY <1>1, DeliveriesTold
<1>3. h \in {o, Error(Sender)}
  BY DEF SendHistory
<1> HIDE DEF o
<1>4. o \in Said
  BY <1>2 DEF Said, Speaks
<1> QED BY <1>1, <1>3, <1>4

LEMMA RequestsSaid ==
  ASSUME HubInv, PresenceTyped, RequestHistory \/ RequestUsers
  PROVE  outbox' \in Seq(Said)
<1> DEFINE me == sess[Sender]
<1>1. inbound # <<>> /\ UNCHANGED <<sess, db>>
  BY DEF RequestHistory, RequestUsers, Serve
<1>2. Sender \in Session /\ (Refuse => outbox' \in Seq(Said))
  BY <1>1, RefusalSaid
<1>3. me \in SessionRecord /\ IsTables(db)
  BY <1>2 DEF HubInv, CoreOK
<1>4. CASE me.current # NoChannel /\ \E h \in SendHistory(Sender, db, me.current) : outbox' = <<h>>
  <2>1. PICK h \in SendHistory(Sender, db, me.current) : outbox' = <<h>>
    BY <1>4
  <2> DEFINE chan == me.current
  <2>2. chan \in Channel /\ chan # NoChannel /\ chan = sess'[Sender].current
    BY <1>1, <1>3, <1>4 DEF SessionRecord
  <2>3. h \in SendHistory(Sender, db, chan) /\ db = db'
    BY <1>1, <2>1
  <2> HIDE DEF chan
  <2>4. h \in Said
    BY <1>1, <1>3, <2>2, <2>3, HistorySaid
  <2> QED BY <2>1, <2>4, SaidOnce
<1>5. CASE outbox' = <<UsersList({Sender}, ListWorkspaceUsers(db, me.ws)),
                       PresenceUpdate({Sender}, Snapshot(presence, me.ws))>>
  <2> DEFINE u == ListWorkspaceUsers(db, me.ws)
             p == Snapshot(presence, me.ws)
             to == {Sender}
             a == UsersList(to, u)
             b == PresenceUpdate(to, p)
  <2>1. u \in SUBSET [id : Nat, handle : Text]
    BY <1>3, UsersTyped DEF UserRows
  <2>2. p \in SUBSET PresenceRow
    BY SnapshotTyped DEF PresenceTyped
  <2>3. to \in SUBSET Session
    BY <1>2
  <2> HIDE DEF u, p, to
  <2>4. Plain(a) /\ Plain(b)
    BY <1>2, <2>1, <2>2, <2>3, DeliveriesPlain
  <2>5. outbox' = <<a, b>>
    BY <1>5 DEF a, b, u, p, to
  <2> HIDE DEF a, b
  <2>6. a \in Said /\ b \in Said
    BY <2>4, PlainSaid
  <2> HIDE DEF Said
  <2> QED BY <2>5, <2>6
<1>6. \/ Refuse
      \/ me.current # NoChannel /\ \E h \in SendHistory(Sender, db, me.current) : outbox' = <<h>>
      \/ outbox' = <<UsersList({Sender}, ListWorkspaceUsers(db, me.ws)),
                     PresenceUpdate({Sender}, Snapshot(presence, me.ws))>>
  BY DEF RequestHistory, RequestUsers
<1> QED BY <1>2, <1>4, <1>5, <1>6

LEMMA PingsSaid ==
  ASSUME HubInv, PingUser \/ PingAll
  PROVE  outbox' \in Seq(Said)
<1>1. inbound # <<>> /\ Event.type \in {"ping_user", "ping_all"}
  BY DEF PingUser, PingAll, Serve, Event
<1>2. Sender \in Session /\ (Refuse => outbox' \in Seq(Said)) /\ Error(Sender) \in Said
  BY <1>1, RefusalSaid
<1>3. Launched(Sender) \in Effects
  BY <1>1, LaunchedTyped
<1> DEFINE x == Launched(Sender)
           n == Tell(Sender, "system_notice")
<1>4. ASSUME NEW to \in SUBSET Session
      PROVE  /\ PingEffect(to, x) \in Said /\ Broadcast(to, "system_notice") \in Said
             /\ Broadcast(to, "ping_received") \in Said /\ n \in Said
  <2> HIDE DEF x
  <2>1. {"system_notice", "ping_received"} \subseteq ServerEvent
    BY DEF ServerEvent
  <2>2. /\ Plain(PingEffect(to, x)) /\ Plain(Broadcast(to, "system_notice"))
        /\ Plain(Broadcast(to, "ping_received")) /\ Plain(n)
    BY <1>2, <1>3, <2>1, DeliveriesPlain DEF Effects, x
  <2> QED BY <2>2, PlainSaid
<1>5. ASSUME NEW to \in SUBSET Session
      PROVE  /\ <<PingEffect(to, x), Broadcast(to, "system_notice"), n>> \in Seq(Said)
             /\ <<Broadcast(to, "ping_received"), PingEffect(to, x), n>> \in Seq(Said)
  <2> DEFINE a == PingEffect(to, x)
             b == Broadcast(to, "system_notice")
             c == Broadcast(to, "ping_received")
  <2>1. a \in Said /\ b \in Said /\ c \in Said /\ n \in Said
    BY <1>4
  <2> HIDE DEF a, b, c, n, Said
  <2>2. <<a, b, n>> \in Seq(Said) /\ <<c, a, n>> \in Seq(Said)
    BY <2>1
  <2> QED BY <2>2 DEF a, b, c
<1>6. \E to \in SUBSET Session :
        \/ Refuse
        \/ outbox' = <<PingEffect(to, x), Broadcast(to, "system_notice"), n>>
        \/ outbox' = <<Broadcast(to, "ping_received"), PingEffect(to, x), n>>
  <2>1. CASE PingUser
    <3> DEFINE to == {t \in Members(sess[Sender].ws) : sess[t].user.handle = NormalizeHandle(Event.handle)}
    <3>1. to \in SUBSET Session
      BY DEF Members
    <3>2. Refuse \/ outbox' = <<PingEffect(to, x), Broadcast(to, "system_notice"), n>>
      BY <2>1 DEF PingUser, Refuse
    <3> HIDE DEF to
    <3> QED BY <3>1, <3>2
  <2>2. CASE PingAll
    <3> DEFINE to == Members(sess[Sender].ws) \ {Sender}
    <3>1. to \in SUBSET Session
      BY DEF Members
    <3>2. Refuse \/ outbox' = <<Broadcast(to, "ping_received"), PingEffect(to, x), n>>
      BY <2>2 DEF PingAll
    <3> HIDE DEF to
    <3> QED BY <3>1, <3>2
  <2> QED BY <2>1, <2>2
<1> HIDE DEF x, n, Said
<1> QED BY <1>2, <1>5, <1>6

\* Two parts of what is said, one after the other.
LEMMA SaidBoth ==
  ASSUME NEW S, NEW p \in Seq(S), NEW q \in Seq(S) PROVE p \o q \in Seq(S)
  OBVIOUS

LEMMA JoinsSaid ==
  ASSUME HubInv, PresenceTyped, Joining
  PROVE  outbox' \in Seq(Said)
<1> DEFINE s == Sender
           user == JoinedSess[s].user
<1>1. inbound # <<>> /\ Event.type = "join_workspace" /\ ~JoinRejected
  BY DEF Joining, JoinWorkspace, JoinWorkspaceAbandoned, Serve, Event
<1>2. s \in Session /\ Error(s) \in Said
  BY <1>1, RefusalSaid
<1>3. JoinedSess[s] \in SessionRecord /\ JoinedSess = [sess EXCEPT ![s] = JoinedSess[s]]
  BY <1>1, JoinLeaves
<1>4. user.handle \in Text
  BY <1>3, StoreAssumption DEF SessionRecord, StoreAssumption
<1> DEFINE a == Identified(s, user.handle)
<1>5. a \in Said
  <2>1. {} \in SUBSET Session
    OBVIOUS
  <2> HIDE DEF s, user
  <2>2. Plain(a)
    BY <1>2, <1>4, <2>1, DeliveriesPlain
  <2> QED BY <2>2, PlainSaid
<1>6. CASE JoinWorkspaceAbandoned
  <2>1. outbox' = <<a, Error(s)>>
    BY <1>6 DEF JoinWorkspaceAbandoned
  <2> DEFINE b == Error(s)
  <2> HIDE DEF a, b, Said
  <2> QED BY <1>2, <1>5, <2>1 DEF b
<1>7. CASE JoinWorkspace
  <2>1. db' = InLobby /\ sess' = InLobbySess
    BY <1>7 DEF JoinWorkspace
  <2>2. HubInv'
    BY <1>7, JoinWorkspaceStep
  <2>3. Lobby \in Channel /\ Lobby # NoChannel /\ sess'[s].current = Lobby /\ JoinTarget \in Text
    <3>1. Lobby \in Channel
      BY <1>1, JoinLeaves
    <3>2. InLobbySess[s].current = Lobby
      <4> DEFINE me == JoinedSess[s]
      <4>1. InLobbySess = [JoinedSess EXCEPT ![s] = [me EXCEPT !.current = Lobby]]
        BY DEF InLobbySess
      <4>2. DOMAIN JoinedSess = Session
        BY <1>3 DEF HubInv, CoreOK
      <4> HIDE DEF me
      <4>3. me \in SessionRecord
        BY <1>3 DEF me
      <4> QED BY <1>2, <4>1, <4>2, <4>3 DEF SessionRecord
    <3>3. JoinTarget \in Text /\ JoinTarget # Blank
      <4>1. Event \in EventType /\ Event.workspace \in Text
        BY <1>1, EventTyped, FieldTyped DEF HubInv
      <4>2. Trim[Event.workspace] # Blank
        BY <1>1 DEF JoinRejected
      <4> QED BY <4>1, <4>2, CleanTyped, StoreAssumption DEF StoreAssumption, JoinTarget, Clean
    <3> QED BY <2>1, <3>1, <3>2, <3>3 DEF Lobby, NoChannel
  <2>4. IsTables(InLobby) /\ PresenceTyped'
    BY <1>7, <2>1, <2>2, JoinSetsOnline DEF HubInv, CoreOK
  <2> DEFINE all == Members(JoinTarget) \cup {s}
             one == {s}
             u == ListWorkspaceUsers(InLobby, JoinTarget)
             p == Snapshot(presence', JoinTarget)
  <2>5. u \in SUBSET [id : Nat, handle : Text] /\ p \in SUBSET PresenceRow
    <3>1. u \in UserRows
      BY <2>4, UsersTyped
    <3> QED BY <2>4, <3>1, SnapshotTyped DEF PresenceTyped, UserRows
  <2>6. all \in SUBSET Session /\ one \in SUBSET Session
    BY <1>2, MembersTyped
  <2> DEFINE b == WorkspaceJoined(s, InLobby, Lobby)
             c == UsersList(one, u)
             d == Tell(s, "channels_list")
             e == ChannelJoined(s, Lobby)
             f == Tell(s, "system_notice")
             i == PresenceUpdate(all, p)
             j == Broadcast(all, "user_joined")
  <2>7. PICK h \in SendHistory(s, InLobby, Lobby) : outbox' = <<a, b, c, d, e, f, h, i, j>>
    BY <1>7 DEF JoinWorkspace
  <2>8. h \in Said
    BY <1>1, <2>1, <2>3, <2>4, HistorySaid
  <2>9. Plain(b) /\ Plain(c) /\ Plain(d) /\ Plain(e) /\ Plain(f) /\ Plain(i) /\ Plain(j)
    <3>1. {"channels_list", "system_notice", "user_joined"} \subseteq ServerEvent
      BY DEF ServerEvent
    <3> HIDE DEF all, one, u, p, s
    <3>2. Plain(b)
      BY <1>2, <2>3, <2>4, <2>6, DeliveriesTold DEF s
    <3>3. Plain(c) /\ Plain(i)
      BY <1>2, <2>5, <2>6, DeliveriesPlain
    <3>4. Plain(d) /\ Plain(f) /\ Plain(j)
      BY <1>2, <2>6, <3>1, DeliveriesPlain
    <3>5. Plain(e)
      BY <1>2, <2>3, <2>6, DeliveriesPlain
    <3> QED BY <3>2, <3>3, <3>4, <3>5
  <2> HIDE DEF a, b, c, d, e, f, i, j
  <2>10. b \in Said /\ c \in Said /\ d \in Said /\ e \in Said /\ f \in Said /\ i \in Said /\ j \in Said
    BY <2>9, PlainSaid
  <2> HIDE DEF Said
  <2> QED BY <1>5, <2>7, <2>8, <2>10
<1> QED BY <1>6, <1>7 DEF Joining

LEMMA JoinChannelSaid ==
  ASSUME HubInv, PresenceTyped, JoinChannel
  PROVE  outbox' \in Seq(Said)
<1> DEFINE s == Sender
           me == sess[s]
           chan == <<me.ws, Clean(Event.channel)>>
           key == <<me.ws, me.user.id>>
           all == Members(me.ws)
           rows == {presence'[key]}
           pre == IF key \in DOMAIN presence THEN <<PresenceUpdate(all, rows)>> ELSE <<>>
           o == ChannelJoined(s, chan)
<1>1. inbound # <<>> /\ Event.type = "join_channel"
  BY DEF JoinChannel, Serve, Event
<1>2. s \in Session /\ (Refuse => outbox' \in Seq(Said))
  BY <1>1, RefusalSaid
<1>3. HubInv' /\ all \in SUBSET Session
  BY JoinChannelStep, MembersTyped
<1>4. CASE /\ me.ws # Blank /\ sess' = [sess EXCEPT ![s].current = chan]
           /\ presence' = UpdateChannel(presence, key, chan[2])
           /\ \E h \in SendHistory(s, db', chan) : outbox' = pre \o <<o, h>>
  <2>1. PICK h \in SendHistory(s, db', chan) : outbox' = pre \o <<o, h>>
    BY <1>4
  <2>2. chan \in Channel /\ chan # NoChannel /\ chan = sess'[s].current
    <3>1. sess \in [Session -> SessionRecord] /\ me.ws \in Text
      BY <1>2 DEF HubInv, CoreOK, SessionRecord
    <3>2. Clean(Event.channel) \in Text
      BY <1>1, EventTyped, FieldTyped, CleanTyped DEF HubInv
    <3> QED BY <1>2, <1>4, <3>1, <3>2 DEF Channel, NoChannel, SessionRecord
  <2>3. IsTables(db')
    BY <1>3 DEF HubInv, CoreOK
  <2> DEFINE d == db'
  <2>4. IsTables(d) /\ d = db' /\ h \in SendHistory(s, d, chan)
    BY <2>1, <2>3
  <2> HIDE DEF chan, d
  <2>5. h \in Said
    BY <1>1, <2>2, <2>4, HistorySaid
  <2>6. o \in Said
    <3>1. Plain(o)
      BY <1>2, <1>3, <2>2, DeliveriesPlain
    <3> QED BY <3>1, PlainSaid
  <2>7. pre \in Seq(Said)
    <3>1. ASSUME key \in DOMAIN presence PROVE PresenceUpdate(all, rows) \in Said
      <4>1. rows \in SUBSET PresenceRow
        <5> DEFINE c == chan[2]
                   q == UpdateChannel(presence, key, c)
        <5>1. c \in Text /\ presence' = q
          BY <1>4, <2>2 DEF Channel
        <5> HIDE DEF c, key
        <5>2. q \in [DOMAIN q -> PresenceRow] /\ DOMAIN q = DOMAIN presence
          BY <5>1, UpdateChannelOK DEF PresenceTyped
        <5> HIDE DEF q
        <5> QED BY <3>1, <5>1, <5>2
      <4> HIDE DEF all, rows
      <4>2. Plain(PresenceUpdate(all, rows))
        BY <1>2, <1>3, <4>1, DeliveriesPlain
      <4> QED BY <4>2, PlainSaid
    <3> DEFINE x == PresenceUpdate(all, rows)
    <3> HIDE DEF x, key
    <3>2. CASE key \in DOMAIN presence
      BY <3>1, <3>2, SaidOnce DEF x
    <3>3. CASE key \notin DOMAIN presence
      BY <3>3
    <3> QED BY <3>2, <3>3
  <2> HIDE DEF pre, o, Said
  <2>8. <<o, h>> \in Seq(Said)
    BY <2>5, <2>6
  <2> QED BY <2>1, <2>7, <2>8, SaidBoth
<1>5. \/ Refuse
      \/ /\ me.ws # Blank /\ sess' = [sess EXCEPT ![s].current = chan]
         /\ presence' = UpdateChannel(presence, key, chan[2])
         /\ \E h \in SendHistory(s, db', chan) : outbox' = pre \o <<o, h>>
  BY DEF JoinChannel
<1> QED BY <1>2, <1>4, <1>5

LEMMA ChangeHandleSaid ==
  ASSUME HubInv, PresenceTyped, ChangeHandle
  PROVE  outbox' \in Seq(Said)
<1> DEFINE s == Sender
           me == sess[s]
           u == me.user.id
           h == NormalizeHandle(Event.handle)
           key == <<me.ws, u>>
           all == Members(me.ws)
           rows == {presence'[key]}
           pre == IF key \in DOMAIN presence THEN <<PresenceUpdate(all, rows)>> ELSE <<>>
           users == ListWorkspaceUsers(UpdateUserHandle(db, u, h), me.ws)
           list == UsersList(all, users)
           a == Identified(s, h)
           b == HandleChanged(all, me.user.handle, h)
           c == Broadcast(all, "system_notice")
<1>1. inbound # <<>>
  BY DEF ChangeHandle, Serve
<1>2. s \in Session /\ (Refuse => outbox' \in Seq(Said)) /\ all \in SUBSET Session
  BY <1>1, RefusalSaid, MembersTyped
<1>3. me \in SessionRecord /\ HubInv'
  BY <1>2, ChangeHandleStep DEF HubInv, CoreOK
<1>4. CASE /\ ValidHandle(Event.handle) /\ db' = UpdateUserHandle(db, u, h)
           /\ presence' = PresenceRename(presence, key, h)
           /\ \E l \in {<<list>>, <<>>} : outbox' = pre \o l \o <<a, b, c>>
  <2>1. h \in Text /\ me.user.handle \in Text
    BY <1>3, <1>4, StoreAssumption DEF StoreAssumption, ValidHandle, SessionRecord
  <2>2. users \in SUBSET [id : Nat, handle : Text]
    <3>1. IsTables(db') /\ users = ListWorkspaceUsers(db', me.ws)
      BY <1>3, <1>4 DEF HubInv, CoreOK
    <3> QED BY <3>1, UsersTyped DEF UserRows
  <2>3. a \in Said /\ b \in Said /\ c \in Said /\ list \in Said
    <3>1. "system_notice" \in ServerEvent
      BY DEF ServerEvent
    <3> DEFINE old == me.user.handle
    <3> HIDE DEF s, all, h, old, users
    <3>2. Plain(a) /\ Plain(c) /\ Plain(list)
      BY <1>2, <2>1, <2>2, <3>1, DeliveriesPlain
    <3>3. Plain(HandleChanged(all, old, h))
      BY <1>2, <2>1, DeliveriesPlain DEF old
    <3>4. Plain(b)
      BY <3>3 DEF old
    <3> QED BY <3>2, <3>4, PlainSaid
  <2>4. pre \in Seq(Said)
    <3>1. ASSUME key \in DOMAIN presence PROVE PresenceUpdate(all, rows) \in Said
      <4>1. rows \in SUBSET PresenceRow
        <5> DEFINE q == PresenceRename(presence, key, h)
        <5>1. presence' = q
          BY <1>4
        <5> HIDE DEF h, key
        <5>2. q \in [DOMAIN q -> PresenceRow] /\ DOMAIN q = DOMAIN presence
          BY <2>1, PresenceRenameOK DEF PresenceTyped
        <5> HIDE DEF q
        <5> QED BY <3>1, <5>1, <5>2
      <4> HIDE DEF all, rows
      <4>2. Plain(PresenceUpdate(all, rows))
        BY <1>2, <4>1, DeliveriesPlain
      <4> QED BY <4>2, PlainSaid
    <3> DEFINE x == PresenceUpdate(all, rows)
    <3> HIDE DEF x, key
    <3>2. CASE key \in DOMAIN presence
      BY <3>1, <3>2, SaidOnce DEF x
    <3>3. CASE key \notin DOMAIN presence
      BY <3>3
    <3> QED BY <3>2, <3>3
  <2>5. PICK l \in {<<list>>, <<>>} : outbox' = pre \o l \o <<a, b, c>>
    BY <1>4
  <2> HIDE DEF pre, a, b, c, list, Said
  <2>6. l \in Seq(Said) /\ <<a, b, c>> \in Seq(Said)
    <3>1. {<<list>>, <<>>} \subseteq Seq(Said)
      BY <2>3
    <3>2. <<a, b, c>> \in Seq(Said)
      BY <2>3
    <3> QED BY <2>5, <3>1, <3>2
  <2>7. pre \o l \in Seq(Said)
    BY <2>4, <2>6, SaidBoth
  <2> QED BY <2>5, <2>6, <2>7, SaidBoth
<1>5. \/ Refuse
      \/ /\ ValidHandle(Event.handle) /\ db' = UpdateUserHandle(db, u, h)
         /\ presence' = PresenceRename(presence, key, h)
         /\ \E l \in {<<list>>, <<>>} : outbox' = pre \o l \o <<a, b, c>>
  BY DEF ChangeHandle
<1> QED BY <1>2, <1>4, <1>5

\* Every handler says only what it may.
LEMMA HandlerSaid ==
  ASSUME HubInv, PresenceTyped, Handle
  PROVE  outbox' \in Seq(Said)
  BY ShortAnswers, SendMessageSaid, RequestsSaid, PingsSaid, JoinsSaid, JoinChannelSaid, ChangeHandleSaid
     DEF Handle, Joining
-----------------------------------------------------------------------------
(* The channels of the sessions.                                           *)

\* The types of everything on its way to a session.
QueueTypes ==
  /\ sendq \in [Session -> Seq(EnvelopeType)] /\ outbox \in Seq(Out)
  /\ \A b \in spawned : b.env \in EnvelopeType /\ b.env.msgs = <<>>

\* What a Deliver puts in a session's channel.
LEMMA DeliverOK ==
  ASSUME sendq \in [Session -> Seq(EnvelopeType)], NEW to \in SUBSET Session, NEW env \in EnvelopeType,
         Deliver(to, env)
  PROVE  /\ sendq' \in [Session -> Seq(EnvelopeType)] /\ lost' \subseteq lost \cup Session
         /\ \A s \in Session :
              \/ sendq'[s] = sendq[s]
              \/ s \in to /\ Len(sendq[s]) < SendCap /\ sendq'[s] = Append(sendq[s], env)
<1>1. \A s \in Session : /\ sendq[s] \in Seq(EnvelopeType)
                         /\ Append(sendq[s], env) \in Seq(EnvelopeType)
  OBVIOUS
<1> HIDE DEF EnvelopeType
<1> QED BY <1>1 DEF Deliver, HasRoom

\* Every step leaves a session's channel, takes its oldest envelope, or adds
\* one the running handler, a goroutine of removeSession or ping_user sends.
LEMMA WireStep ==
  ASSUME HubInv, QueueTypes, [Next]_vars
  PROVE  /\ sendq' \in [Session -> Seq(EnvelopeType)] /\ lost' \subseteq lost \cup Session
         /\ \A s \in Session :
              \/ sendq'[s] = sendq[s]
              \/ sendq[s] # <<>> /\ sendq'[s] = Tail(sendq[s])
              \/ \E env \in EnvelopeType :
                   /\ Len(sendq[s]) < SendCap /\ sendq'[s] = Append(sendq[s], env)
                   /\ \/ env.msgs = <<>>
                      \/ outbox # <<>> /\ env = outbox[1].env /\ s \in outbox[1].to
<1>1. sendq \in [Session -> Seq(EnvelopeType)]
  BY DEF QueueTypes
<1>2. ASSUME NEW to \in SUBSET Session, NEW env \in EnvelopeType, Deliver(to, env),
             env.msgs = <<>> \/ (outbox # <<>> /\ env = outbox[1].env /\ to = outbox[1].to)
      PROVE  /\ sendq' \in [Session -> Seq(EnvelopeType)] /\ lost' \subseteq lost \cup Session
             /\ \A s \in Session :
                  \/ sendq'[s] = sendq[s]
                  \/ \E e \in EnvelopeType :
                       /\ Len(sendq[s]) < SendCap /\ sendq'[s] = Append(sendq[s], e)
                       /\ \/ e.msgs = <<>>
                          \/ outbox # <<>> /\ e = outbox[1].env /\ s \in outbox[1].to
  <2>1. /\ sendq' \in [Session -> Seq(EnvelopeType)] /\ lost' \subseteq lost \cup Session
        /\ \A s \in Session :
             \/ sendq'[s] = sendq[s]
             \/ s \in to /\ Len(sendq[s]) < SendCap /\ sendq'[s] = Append(sendq[s], env)
    BY <1>1, <1>2, DeliverOK
  <2> QED BY <1>2, <2>1
<1>3. CASE sendq' = sendq /\ lost' = lost
  BY <1>1, <1>3
<1>4. CASE \E s \in Session : WriteOut(s)
  <2>1. PICK s \in Session : sendq[s] # <<>> /\ sendq' = [sendq EXCEPT ![s] = Tail(sendq[s])] /\ lost' = lost
    BY <1>1, <1>4 DEF WriteOut
  <2>2. Tail(sendq[s]) \in Seq(EnvelopeType)
    BY <1>1, <2>1, HeadTailProperties
  <2> QED BY <1>1, <2>1, <2>2
<1>5. CASE Post
  <2>1. outbox # <<>> /\ outbox \in Seq(Out) /\ Deliver(Head(outbox).to, Head(outbox).env)
    BY <1>5 DEF Post, QueueTypes
  <2>2. Head(outbox) = outbox[1] /\ outbox[1] \in Out
    BY <2>1
  <2>3. outbox[1].env \in EnvelopeType /\ outbox[1].to \in SUBSET Session
    BY <2>2 DEF Out
  <2> QED BY <1>2, <2>1, <2>2, <2>3
<1>6. CASE \E b \in spawned : RunSpawned(b)
  <2>1. PICK b \in spawned : Deliver(Members(b.ws), b.env)
    BY <1>6 DEF RunSpawned
  <2>2. b.env \in EnvelopeType /\ b.env.msgs = <<>>
    BY DEF QueueTypes
  <2> QED BY <1>2, <2>1, <2>2, MembersTyped
<1>7. CASE PingUser
  <2>1. Envelope("ping_received") \in EnvelopeType /\ Envelope("ping_received").msgs = <<>>
    <3>1. "ping_received" \in ServerEvent
      BY DEF ServerEvent
    <3> QED BY <3>1, EnvelopeOK
  <2>2. (sendq' = sendq /\ lost' = lost) \/ \E to \in SUBSET Session : Deliver(to, Envelope("ping_received"))
    BY <1>7 DEF PingUser, wire, Members
  <2> QED BY <1>2, <1>3, <2>1, <2>2
<1>8. \/ (sendq' = sendq /\ lost' = lost) \/ Post \/ PingUser
      \/ (\E s \in Session : WriteOut(s)) \/ \E b \in spawned : RunSpawned(b)
  <2>1. ASSUME NEW s \in Session, Pump(s) PROVE (sendq' = sendq /\ lost' = lost) \/ WriteOut(s)
    BY <2>1 DEF Pump, Register, ReadScript, Read, EndRead, RemoveSession, wire
  <2>2. CASE Tick \/ UNCHANGED vars
    BY <2>2 DEF Tick, vars, wire
  <2>3. CASE Identify \/ JoinWorkspaceRefused \/ JoinWorkspaceAbandoned \/ JoinWorkspace \/ JoinChannel
             \/ SendMessage \/ RequestHistory
    BY <2>3 DEF Identify, JoinWorkspaceRefused, JoinWorkspaceAbandoned, JoinWorkspace, JoinChannel,
                SendMessage, RequestHistory, wire
  <2>4. CASE RequestUsers \/ RequestChannels \/ Typing \/ Reply \/ PingAll \/ ChangeHandle
    BY <2>4 DEF RequestUsers, RequestChannels, Typing, Reply, PingAll, ChangeHandle, wire
  <2> QED BY <2>1, <2>2, <2>3, <2>4 DEF Next, Handle
<1> QED BY <1>3, <1>4, <1>5, <1>6, <1>7, <1>2, <1>8

\* The messages of the database are kept, and more may come.
LEMMA MessagesKept ==
  ASSUME HubInv, [Next]_vars
  PROVE  /\ DOMAIN db.messages \subseteq DOMAIN db'.messages
         /\ \A i \in DOMAIN db.messages : db'.messages[i] = db.messages[i]
<1>1. CASE SendMessage
  <2> DEFINE me == sess[Sender]
  <2>1. PICK kind \in MessageType : db' = db \/ db' = SaveMessage(db, me.ws, me.current, me.user.id, kind)
    BY <1>1 DEF SendMessage, MessageType
  <2>2. /\ IsTables(db)
        /\ me.ws \in Text /\ me.current \in Channel /\ me.user.id \in Nat
    <3>1. inbound # <<>>
      BY <1>1 DEF SendMessage, Serve
    <3> QED BY <3>1, EventTyped DEF HubInv, CoreOK, SessionRecord
  <2> HIDE DEF me
  <2> DEFINE e == SaveMessage(db, me.ws, me.current, me.user.id, kind)
  <2>3. /\ DOMAIN e.messages = DOMAIN db.messages \cup {Len(db.messages) + 1}
        /\ \A i \in DOMAIN db.messages : e.messages[i] = db.messages[i]
    BY <2>2, SaveMessageOK
  <2> HIDE DEF e
  <2> QED BY <2>1, <2>3 DEF e
<1>2. CASE ~SendMessage
  BY <1>2, DbGrows
<1> QED BY <1>1, <1>2

\* What the running handler, and the goroutines a removal starts, have to say.
LEMMA OutboxStep ==
  ASSUME HubInv, PresenceTyped, [Next]_vars
  PROVE  \/ outbox' = outbox
         \/ outbox # <<>> /\ outbox' = Tail(outbox)
         \/ outbox' \in Seq(Said)
<1>1. CASE Handle
  BY <1>1, HandlerSaid
<1>2. CASE ~Handle
  <2>1. ASSUME NEW s \in Session, Pump(s) PROVE outbox' = outbox
    BY <2>1 DEF Pump, Register, ReadScript, Read, EndRead, WriteOut, RemoveSession
  <2>2. CASE Tick \/ (\E b \in spawned : RunSpawned(b)) \/ UNCHANGED vars
    BY <2>2 DEF Tick, RunSpawned, vars
  <2>3. CASE Post
    BY <2>3 DEF Post
  <2> QED BY <1>2, <2>1, <2>2, <2>3 DEF Next
<1> QED BY <1>1, <1>2

LEMMA SpawnedStep ==
  ASSUME HubInv, PresenceTyped, QueueTypes, [Next]_vars
  PROVE  \A b \in spawned' : b.env \in EnvelopeType /\ b.env.msgs = <<>>
<1>1. CASE \E s \in Session : RemoveSession(s)
  <2>1. PICK s \in Session : RemoveSession(s)
    BY <1>1
  <2> DEFINE me == sess[s]
             key == <<me.ws, me.user.id>>
             known == me.ws # Blank /\ key \in DOMAIN presence
             row == presence'[key]
             e0 == Envelope("presence_update")
             e1 == [e0 EXCEPT !.pres = {row}]
             e2 == Envelope("user_left")
             x == [by |-> s, ws |-> me.ws, env |-> e1]
             y == [by |-> s, ws |-> me.ws, env |-> e2]
  <2>2. spawned' = IF known THEN spawned \cup {x, y} ELSE spawned
    BY <2>1 DEF RemoveSession
  <2>3. CASE known
    <3>1. /\ e0 \in EnvelopeType /\ e0.msgs = <<>>
          /\ e2 \in EnvelopeType /\ e2.msgs = <<>>
      <4>1. "presence_update" \in ServerEvent /\ "user_left" \in ServerEvent
        BY DEF ServerEvent
      <4> QED BY <4>1, EnvelopeOK
    <3>2. row \in PresenceRow
      <4>1. PresenceTyped' /\ DOMAIN presence' = DOMAIN presence
        BY <2>1, RemovalTakesOffline
      <4> QED BY <2>3, <4>1 DEF PresenceTyped
    <3> DEFINE p == {row}
    <3>3. p \in SUBSET PresenceRow /\ e1 = [e0 EXCEPT !.pres = p]
      BY <3>2
    <3> HIDE DEF p, e0, e2
    <3>4. e1 \in EnvelopeType /\ e1.msgs = <<>>
      <4> DEFINE e == [e0 EXCEPT !.pres = p]
      <4>1. e \in EnvelopeType /\ e.msgs = <<>>
        BY <3>1, <3>3, EnvelopeField
      <4> HIDE DEF e1
      <4> QED BY <3>3, <4>1
    <3> HIDE DEF e1
    <3>5. /\ x.env \in EnvelopeType /\ x.env.msgs = <<>>
          /\ y.env \in EnvelopeType /\ y.env.msgs = <<>>
      BY <3>1, <3>4
    <3> HIDE DEF x, y
    <3> QED BY <2>2, <2>3, <3>5 DEF QueueTypes
  <2> QED BY <2>2, <2>3 DEF QueueTypes
<1>2. CASE ~\E s \in Session : RemoveSession(s)
  <2>1. ASSUME NEW s \in Session, Pump(s) PROVE spawned' = spawned
    BY <1>2, <2>1 DEF Pump, Register, ReadScript, Read, EndRead, WriteOut
  <2>2. ASSUME Tick \/ Post \/ UNCHANGED vars PROVE spawned' = spawned
    BY <2>2 DEF Tick, Post, vars
  <2>3. ASSUME NEW b \in spawned, RunSpawned(b) PROVE spawned' \subseteq spawned
    BY <2>3 DEF RunSpawned
  <2>4. ASSUME Identify \/ JoinWorkspaceRefused \/ JoinWorkspaceAbandoned \/ JoinWorkspace \/ JoinChannel
               \/ SendMessage \/ RequestHistory
        PROVE  spawned' = spawned
    BY <2>4 DEF Identify, JoinWorkspaceRefused, JoinWorkspaceAbandoned, JoinWorkspace, JoinChannel,
                SendMessage, RequestHistory, Serve
  <2>5. ASSUME RequestUsers \/ RequestChannels \/ Typing \/ Reply \/ PingUser \/ PingAll \/ ChangeHandle
        PROVE  spawned' = spawned
    BY <2>5 DEF RequestUsers, RequestChannels, Typing, Reply, PingUser, PingAll, ChangeHandle, Serve
  <2>6. spawned' \subseteq spawned
    BY <2>1, <2>2, <2>3, <2>4, <2>5 DEF Next, Handle
  <2> QED BY <2>6 DEF QueueTypes
<1> QED BY <1>1, <1>2

LEMMA QueueTypesStep ==
  ASSUME HubInv, PresenceTyped, QueueTypes, [Next]_vars
  PROVE  QueueTypes'
<1>1. outbox' \in Seq(Out)
  <2>1. CASE outbox' = outbox
    BY <2>1 DEF QueueTypes
  <2>2. CASE outbox # <<>> /\ outbox' = Tail(outbox)
    BY <2>2, HeadTailProperties DEF QueueTypes
  <2>3. CASE outbox' \in Seq(Said)
    <3>1. Said \subseteq Out
      BY DEF Said
    <3> HIDE DEF Said, Out
    <3> QED BY <2>3, <3>1
  <2> QED BY <2>1, <2>2, <2>3, OutboxStep
<1>2. sendq' \in [Session -> Seq(EnvelopeType)]
  BY WireStep
<1> QED BY <1>1, <1>2, SpawnedStep DEF QueueTypes
-----------------------------------------------------------------------------
(* What is queued for a session is about its own workspace.                *)

\* An envelope stays a session's own: its messages stay where they were filed
\* and a session that has any stays in its workspace.
LEMMA OwnKept ==
  ASSUME HubInv, StaysInWorkspace, [Next]_vars, NEW s \in Session, NEW env, Own(db, sess[s], env)
  PROVE  Own(db', sess'[s], env)
<1>1. /\ DOMAIN db.messages \subseteq DOMAIN db'.messages
      /\ \A i \in DOMAIN db.messages : db'.messages[i] = db.messages[i]
  BY MessagesKept
<1>2. CASE DOMAIN env.msgs = {}
  BY <1>2 DEF Own
<1>3. CASE DOMAIN env.msgs # {}
  <2>1. sess[s].user.id # NoUser
    BY <1>3 DEF Own
  <2>2. sess'[s].user.id # NoUser /\ sess'[s].ws = sess[s].ws
    <3>1. CASE Joining
      BY <2>1, <3>1, JoinIdentity DEF StaysInWorkspace
    <3>2. CASE ~Joining
      BY <2>1, <3>2, IdentityKept
    <3> QED BY <3>1, <3>2
  <2> QED BY <1>1, <2>1, <2>2 DEF Own
<1> QED BY <1>2, <1>3

\* What a handler says is the own of everyone it tells.
LEMMA SaidIsOwn ==
  ASSUME HubInv, PlacesInv, HubInv', PlacesInv', NEW o \in Said, NEW s \in o.to
  PROVE  Own(db', sess'[s], o.env)
<1>1. s \in Session
  BY DEF Said, Out
<1>2. CASE o.env.msgs = <<>>
  BY <1>2 DEF Own
<1>3. CASE /\ SendMessage /\ o.to = Members(sess[Sender].ws) /\ o.env.msgs = <<SavedId>>
           /\ SavedId \in DOMAIN db'.messages /\ db'.messages[SavedId].ws = sess[Sender].ws
  <2> DEFINE ws == sess[Sender].ws
             id == SavedId
  <2>1. <<ws, s>> \in scoped
    BY <1>3 DEF Members
  <2>2. sess[s].ws = ws /\ sess[s].user.id # NoUser
    BY <2>1 DEF PlacesInv, ScopedOK
  <2>3. sess' = sess
    BY <1>3 DEF SendMessage
  <2>4. o.env.msgs = <<id>> /\ id \in DOMAIN db'.messages /\ db'.messages[id].ws = ws
    BY <1>3
  <2> HIDE DEF ws, id
  <2> QED BY <2>2, <2>3, <2>4 DEF Own
<1>4. CASE /\ o.to = {Sender} /\ sess'[Sender].current # NoChannel
           /\ o.env.msgs = ListHistory(db', sess'[Sender].current)
  <2> DEFINE chan == sess'[s].current
             d == db'
             m == o.env.msgs
  <2>1. s = Sender /\ chan # NoChannel /\ m = ListHistory(d, chan)
    BY <1>4
  <2>2. IsTables(d)
    BY DEF HubInv, CoreOK
  <2>3. chan[1] = sess'[s].ws /\ sess'[s].user.id # NoUser
    BY <1>1, <2>1 DEF PlacesInv, ChannelsOwn, HubInv, Attached
  <2>4. \A i \in DOMAIN d.messages : d.messages[i].chan[1] = d.messages[i].ws
    BY DEF PlacesInv, RoomsOwn
  <2> HIDE DEF chan, d, m
  <2>5. \A j \in DOMAIN m : m[j] \in DOMAIN d.messages /\ d.messages[m[j]].chan = chan
    BY <2>1, <2>2, HistoryOf
  <2> QED BY <2>3, <2>4, <2>5 DEF Own, d, m
<1> QED BY <1>2, <1>3, <1>4 DEF Said, Speaks

LEMMA QueuesOwnStep ==
  ASSUME HubInv, PlacesInv, HubInv', PlacesInv', PresenceTyped, QueueTypes, QueuesOwn,
         StaysInWorkspace, [Next]_vars
  PROVE  QueuesOwn'
<1>2. \A i \in DOMAIN outbox : \A s \in outbox[i].to : s \in Session
  <2>1. \A i \in DOMAIN outbox : outbox[i] \in Out
    BY DEF QueueTypes
  <2> QED BY <2>1 DEF Out
<1>3. ASSUME NEW i \in DOMAIN outbox', NEW s \in outbox'[i].to
      PROVE  Own(db', sess'[s], outbox'[i].env)
  <2>1. CASE \E j \in DOMAIN outbox : outbox'[i] = outbox[j]
    BY <1>2, <2>1, OwnKept DEF QueuesOwn
  <2>2. CASE outbox' \in Seq(Said)
    <3> DEFINE o == outbox'[i]
    <3>1. o \in Said /\ s \in o.to
      <4> HIDE DEF Said
      <4> QED BY <2>2
    <3> HIDE DEF o
    <3>2. Own(db', sess'[s], o.env)
      BY <3>1, SaidIsOwn
    <3> QED BY <3>2 DEF o
  <2>3. CASE outbox # <<>> /\ outbox' = Tail(outbox)
    <3>1. outbox \in Seq(Out) /\ i \in DOMAIN Tail(outbox)
      BY <2>3 DEF QueueTypes
    <3>2. i + 1 \in DOMAIN outbox /\ Tail(outbox)[i] = outbox[i + 1]
      BY <2>3, <3>1, HeadTailProperties
    <3> QED BY <2>1, <2>3, <3>2
  <2>4. CASE outbox' = outbox
    BY <2>1, <2>4
  <2> QED BY <2>2, <2>3, <2>4, OutboxStep
<1>4. ASSUME NEW s \in Session, NEW i \in DOMAIN sendq'[s]
      PROVE  Own(db', sess'[s], sendq'[s][i])
  <2>1. CASE \E j \in DOMAIN sendq[s] : sendq'[s][i] = sendq[s][j]
    BY <2>1, OwnKept DEF QueuesOwn
  <2>2. sendq[s] \in Seq(EnvelopeType)
    BY DEF QueueTypes
  <2>3. CASE sendq[s] # <<>> /\ sendq'[s] = Tail(sendq[s])
    <3>1. i + 1 \in DOMAIN sendq[s] /\ Tail(sendq[s])[i] = sendq[s][i + 1]
      BY <2>2, <2>3, HeadTailProperties
    <3> QED BY <2>1, <2>3, <3>1
  <2>4. ASSUME NEW env \in EnvelopeType, sendq'[s] = Append(sendq[s], env),
               env.msgs = <<>> \/ (outbox # <<>> /\ env = outbox[1].env /\ s \in outbox[1].to)
        PROVE  Own(db', sess'[s], sendq'[s][i])
    <3> DEFINE q == sendq[s]
    <3>1. q \in Seq(EnvelopeType) /\ i \in DOMAIN Append(q, env)
      BY <2>2, <2>4
    <3>2. \/ i \in DOMAIN q /\ Append(q, env)[i] = q[i]
          \/ Append(q, env)[i] = env
      <4> HIDE DEF q, EnvelopeType
      <4> QED BY <3>1, AppendProperties
    <3>3. CASE i \in DOMAIN q /\ Append(q, env)[i] = q[i]
      BY <2>1, <2>4, <3>3
    <3>4. CASE Append(q, env)[i] = env
      <4>1. sendq'[s][i] = env
        BY <2>4, <3>4
      <4>2. CASE env.msgs = <<>>
        BY <4>1, <4>2 DEF Own
      <4>3. CASE outbox # <<>> /\ env = outbox[1].env /\ s \in outbox[1].to
        <5>1. 1 \in DOMAIN outbox
          BY <4>3 DEF QueueTypes
        <5>2. Own(db, sess[s], env)
          BY <4>3, <5>1 DEF QueuesOwn
        <5>3. Own(db', sess'[s], env)
          BY <5>2, OwnKept
        <5> QED BY <4>1, <5>3
      <4> QED BY <2>4, <4>2, <4>3
    <3> QED BY <3>2, <3>3, <3>4
  <2>5. CASE sendq'[s] = sendq[s]
    BY <2>1, <2>5
  <2> QED BY <2>3, <2>4, <2>5, WireStep
<1>5. \A b \in spawned' : b.env.msgs = <<>>
  BY SpawnedStep
<1> QED BY <1>3, <1>4, <1>5 DEF QueuesOwn

LEMMA QueueTypesInvariant == Spec => [](PresenceTyped /\ QueueTypes)
<1>1. Init => PresenceTyped /\ QueueTypes
  <2> SUFFICES ASSUME Init PROVE PresenceTyped /\ QueueTypes
    OBVIOUS
  <2>1. presence = <<>> /\ sendq = [s \in Session |-> <<>>] /\ outbox = <<>> /\ spawned = {}
    BY Zenon DEF Init
  <2> HIDE DEF Out, EnvelopeType
  <2> QED BY <2>1 DEF PresenceTyped, QueueTypes
<1>2. HubInv /\ PresenceTyped /\ QueueTypes /\ [Next]_vars => PresenceTyped' /\ QueueTypes'
  BY QueueTypesStep, TypedStep
<1> QED BY <1>1, <1>2, HubInvariant, PTL DEF Spec

\* What waits in a session's channel is news of its own workspace: no
\* broadcast or history of a room reaches a session of another, if a client
\* names one workspace on a connection, however often it joins.
THEOREM OwnNewsOnly == OneWorkspacePerScript => (Spec => []QueuedForOwnWorkspace)
<1> SUFFICES ASSUME OneWorkspacePerScript PROVE Spec => []QueuedForOwnWorkspace
  OBVIOUS
<1>1. Init => QueuesOwn
  <2> SUFFICES ASSUME Init PROVE QueuesOwn
    OBVIOUS
  <2>1. sendq = [s \in Session |-> <<>>] /\ outbox = <<>> /\ spawned = {}
    BY Zenon DEF Init
  <2> QED BY <2>1 DEF QueuesOwn
<1>2. /\ HubInv /\ PlacesInv /\ HubInv' /\ PlacesInv' /\ PresenceTyped /\ QueueTypes
      /\ QueuesOwn /\ StaysInWorkspace /\ [Next]_vars
      => QueuesOwn'
  BY QueuesOwnStep
<1>3. QueuesOwn => QueuedForOwnWorkspace
  BY DEF QueuesOwn, Own, QueuedForOwnWorkspace
<1>4. Spec => []PlacesInv /\ []StaysInWorkspace
  BY PlacesInvariant, OneWorkspaceJoined
<1>5. Spec => []PresenceTyped /\ []QueueTypes
  BY QueueTypesInvariant, PTL
<1> QED BY <1>1, <1>2, <1>3, <1>4, <1>5, HubInvariant, PTL DEF Spec
-----------------------------------------------------------------------------
(* The types of the whole state, whatever clients do with a connection.    *)

\* Memberships are of users and channels that exist.
TablesRefer ==
  /\ db.members \subseteq Text \X DOMAIN db.users
  /\ db.inChannel \subseteq db.channels \X DOMAIN db.users
ScopedTyped == scoped \subseteq (Text \ {Blank}) \X Session

\* The channels of the program are within their capacities.
Capacities ==
  /\ Len(inbound) <= InboundCap
  /\ \A s \in Session : Len(sendq[s]) <= SendCap
Clock == now \in 0..MaxTime /\ \A k \in DOMAIN lastPing : lastPing[k] \in 0..now

LEMMA TablesReferStep ==
  ASSUME HubInv, TablesRefer, [Next]_vars PROVE TablesRefer'
<1> DEFINE Refer(d) == /\ d.members \subseteq Text \X DOMAIN d.users
                       /\ d.inChannel \subseteq d.channels \X DOMAIN d.users
<1> SUFFICES Refer(db')
  BY DEF TablesRefer
<1>1. Refer(db) /\ DOMAIN db.users \subseteq DOMAIN db'.users /\ db.channels \subseteq db'.channels
  BY DbGrows DEF TablesRefer
<1>2. CASE db'.members = db.members /\ db'.inChannel = db.inChannel
  BY <1>1, <1>2
<1>3. CASE Joining
  <2>1. /\ inbound # <<>> /\ Event.type = "join_workspace" /\ ~JoinRejected
        /\ db' \in {JoinedDB, WithLobby, InLobby}
    BY <1>3 DEF Joining, JoinWorkspace, JoinWorkspaceAbandoned, Serve, Event
  <2>2. /\ InLobby.inChannel = db.inChannel \cup {<<Lobby, JoinedUser>>}
        /\ InLobby.channels = db.channels \cup {Lobby}
        /\ JoinedDB.inChannel = db.inChannel /\ WithLobby.inChannel = db.inChannel
        /\ JoinTarget \in Text /\ JoinedUser \in DOMAIN JoinedDB.users
        /\ db'.users = JoinedDB.users
        /\ db'.members = db.members \cup {<<JoinTarget, JoinedUser>>}
    BY <2>1, JoinedTables
  <2>3. db'.members \subseteq Text \X DOMAIN db'.users
    BY <1>1, <2>2
  <2>4. CASE db' \in {JoinedDB, WithLobby}
    BY <1>1, <2>2, <2>3, <2>4
  <2>5. CASE db' = InLobby
    BY <1>1, <2>2, <2>3, <2>5
  <2> QED BY <2>1, <2>4, <2>5
<1>4. CASE JoinChannel
  <2> DEFINE me == sess[Sender]
             e == EnsureChannel(db, me.ws, Event.channel)
             chan == <<me.ws, Clean(Event.channel)>>
             f == AddChannelMember(e, chan, me.user.id)
  <2>1. /\ inbound # <<>> /\ Event.type = "join_channel"
        /\ db' \in {db, e} \/ (db' = f /\ me.ws # Blank)
    BY <1>4 DEF JoinChannel, Serve, Event
  <2>2. /\ Sender \in Session /\ me \in SessionRecord /\ Event.channel \in Text
        /\ IsTables(db) /\ Attached(me, db)
    BY <2>1, EventTyped, FieldTyped DEF HubInv, CoreOK
  <2>3. me.ws \in Text /\ me.user.id \in Nat /\ chan \in Channel
    BY <2>2, CleanTyped DEF SessionRecord, Channel
  <2>4. me.ws # Blank => me.user.id \in DOMAIN db.users
    BY <2>2 DEF Attached
  <2> HIDE DEF me
  <2>5. /\ IsTables(e)
        /\ \A t \in {"users", "devices", "workspaces", "members", "messages"} : e[t] = db[t]
    BY <2>2, <2>3, EnsureChannelOK
  <2>6. e.channels = db.channels \cup {chan} /\ e.inChannel = db.inChannel
    BY <2>2, ChannelTables
  <2> HIDE DEF e, chan
  <2>7. \A t \in {"users", "devices", "workspaces", "members", "messages"} : f[t] = e[t]
    BY <2>3, <2>5, AddChannelMemberOK
  <2>8. f.channels = e.channels /\ f.inChannel = e.inChannel \cup {<<chan, me.user.id>>}
    BY <2>5, ChannelTables
  <2> HIDE DEF f
  <2>9. e.members = db.members /\ f.members = db.members /\ f.users = db.users
    BY <2>5, <2>7
  <2>10. CASE db' = f /\ me.ws # Blank
    BY <1>1, <2>4, <2>6, <2>8, <2>9, <2>10
  <2>11. CASE db' \in {db, e}
    BY <1>2, <2>6, <2>9, <2>11
  <2> QED BY <2>1, <2>10, <2>11
<1>5. CASE SendMessage
  <2> DEFINE me == sess[Sender]
  <2>1. PICK kind : db' = db \/ db' = SaveMessage(db, me.ws, me.current, me.user.id, kind)
    BY <1>5 DEF SendMessage
  <2>2. IsTables(db)
    BY DEF HubInv, CoreOK
  <2>3. db'.members = db.members /\ db'.inChannel = db.inChannel
    BY <2>1, <2>2, TableIsRecord DEF SaveMessage
  <2> QED BY <1>2, <2>3
<1>6. CASE ChangeHandle
  <2> DEFINE h == NormalizeHandle(Event.handle)
             u == sess[Sender].user.id
             e == UpdateUserHandle(db, u, h)
  <2>1. db' = db \/ (db' = e /\ h \in HandlePattern)
    BY <1>6 DEF ChangeHandle, ValidHandle
  <2>2. IsTables(db) /\ u \in Nat
    <3>1. inbound # <<>>
      BY <1>6 DEF ChangeHandle, Serve
    <3> QED BY <3>1, EventTyped DEF HubInv, CoreOK, SessionRecord
  <2> HIDE DEF u, h
  <2>3. h \in HandlePattern => \A t \in {"devices", "members", "messages"} : e[t] = db[t]
    BY <2>2, UpdateUserHandleOK
  <2>4. e.inChannel = db.inChannel
    BY <2>2, UpdateUserHandleTables
  <2> HIDE DEF e
  <2> QED BY <1>2, <2>1, <2>3, <2>4
<1>7. db' = db \/ Joining \/ JoinChannel \/ SendMessage \/ ChangeHandle
  <2>1. ASSUME NEW t \in Session, Pump(t) PROVE db' = db
    BY <2>1 DEF Pump, Register, ReadScript, Read, EndRead, WriteOut, RemoveSession
  <2>2. CASE Post \/ Tick \/ (\E b \in spawned : RunSpawned(b)) \/ UNCHANGED vars
    BY <2>2 DEF Post, Tick, RunSpawned, vars
  <2>3. CASE Identify \/ JoinWorkspaceRefused \/ RequestHistory \/ RequestUsers \/ RequestChannels
             \/ Typing \/ Reply \/ PingUser \/ PingAll
    BY <2>3 DEF Identify, JoinWorkspaceRefused, RequestHistory, RequestUsers, RequestChannels, Typing,
                Reply, PingUser, PingAll
  <2> QED BY <2>1, <2>2, <2>3 DEF Next, Handle, Joining
<1> QED BY <1>2, <1>3, <1>4, <1>5, <1>6, <1>7

\* Only a join adds to the map, and the workspace it adds has a name.
LEMMA ScopedTypedStep ==
  ASSUME HubInv, ScopedTyped, [Next]_vars PROVE ScopedTyped'
<1>1. CASE Joining
  <2>1. /\ inbound # <<>> /\ Event.type = "join_workspace" /\ ~JoinRejected
        /\ scoped' \subseteq scoped \cup {<<JoinTarget, Sender>>}
    BY <1>1 DEF Joining, JoinWorkspace, JoinWorkspaceAbandoned, Serve, Event
  <2>2. JoinTarget \in Text \ {Blank} /\ Sender \in Session
    BY <2>1, JoinedTables, EventTyped DEF HubInv
  <2> QED BY <2>1, <2>2 DEF ScopedTyped
<1>2. CASE ~Joining
  <2>1. scoped' \subseteq scoped
    BY <1>2, ScopedKept DEF RemoveSession
  <2> QED BY <2>1 DEF ScopedTyped
<1> QED BY <1>1, <1>2

LEMMA ClosedStep ==
  ASSUME [Next]_vars PROVE closed' \subseteq closed \cup Session
<1>1. ASSUME NEW s \in Session, Pump(s) PROVE closed' \subseteq closed \cup Session
  BY <1>1 DEF Pump, Register, ReadScript, Read, EndRead, WriteOut, RemoveSession, table
<1>2. ASSUME Post \/ Tick \/ (\E b \in spawned : RunSpawned(b)) \/ UNCHANGED vars PROVE closed' = closed
  BY <1>2 DEF Post, Tick, RunSpawned, vars, table
<1>3. ASSUME NEW types, Serve(types) PROVE closed' = closed
  BY <1>3 DEF Serve
<1>4. ASSUME Identify \/ JoinWorkspaceRefused \/ JoinWorkspaceAbandoned \/ JoinWorkspace \/ JoinChannel
             \/ SendMessage \/ RequestHistory
      PROVE  closed' = closed
  BY <1>3, <1>4 DEF Identify, JoinWorkspaceRefused, JoinWorkspaceAbandoned, JoinWorkspace, JoinChannel,
                    SendMessage, RequestHistory
<1>5. ASSUME RequestUsers \/ RequestChannels \/ Typing \/ Reply \/ PingUser \/ PingAll \/ ChangeHandle
      PROVE  closed' = closed
  BY <1>3, <1>5 DEF RequestUsers, RequestChannels, Typing, Reply, PingUser, PingAll, ChangeHandle
<1> QED BY <1>1, <1>2, <1>4, <1>5 DEF Next, Handle

LEMMA CapacitiesStep ==
  ASSUME HubInv, QueueTypes, Capacities, [Next]_vars PROVE Capacities'
<1>1. Len(inbound') <= InboundCap
  <2>1. inbound \in Seq([from : Session, event : EventType]) /\ Len(inbound) \in Nat /\ InboundCap \in Nat
    BY HubAssumption DEF HubInv, CoreOK, HubAssumption
  <2>2. CASE inbound' = inbound
    BY <2>2 DEF Capacities
  <2>3. CASE inbound # <<>> /\ inbound' = Tail(inbound)
    <3>1. Len(Tail(inbound)) = Len(inbound) - 1
      BY <2>1, <2>3, HeadTailProperties
    <3> QED BY <2>1, <2>3, <3>1 DEF Capacities
  <2>4. ASSUME NEW x, Len(inbound) < InboundCap, inbound' = Append(inbound, x)
        PROVE  Len(inbound') <= InboundCap
    <3>1. Len(Append(inbound, x)) = Len(inbound) + 1
      BY <2>1
    <3> QED BY <2>1, <2>4, <3>1
  <2> QED BY <2>2, <2>3, <2>4, InboundStep
<1>2. ASSUME NEW s \in Session PROVE Len(sendq'[s]) <= SendCap
  <2> DEFINE q == sendq[s]
  <2>1. q \in Seq(EnvelopeType) /\ Len(q) \in Nat /\ Len(q) <= SendCap /\ SendCap \in Nat
    <3>1. q \in Seq(EnvelopeType)
      BY DEF QueueTypes
    <3> HIDE DEF EnvelopeType
    <3> QED BY <3>1, HubAssumption DEF Capacities, HubAssumption
  <2>2. CASE sendq'[s] = q
    BY <2>1, <2>2
  <2>3. CASE q # <<>> /\ sendq'[s] = Tail(q)
    <3> HIDE DEF q, EnvelopeType
    <3>1. Len(Tail(q)) = Len(q) - 1
      BY <2>1, <2>3, HeadTailProperties
    <3> QED BY <2>1, <2>3, <3>1
  <2>4. ASSUME NEW env \in EnvelopeType, sendq'[s] = Append(q, env), Len(q) < SendCap
        PROVE  Len(sendq'[s]) <= SendCap
    <3> HIDE DEF q, EnvelopeType
    <3>1. Len(Append(q, env)) = Len(q) + 1
      BY <2>1
    <3> QED BY <2>1, <2>4, <3>1
  <2> QED BY <2>2, <2>3, <2>4, WireStep
<1> QED BY <1>1, <1>2 DEF Capacities

LEMMA TimeStep ==
  ASSUME Clock, [Next]_vars PROVE Clock'
<1>1. now \in Nat /\ MaxTime \in Nat /\ now <= MaxTime
  BY HubAssumption DEF Clock, HubAssumption
<1>2. now' \in 0..MaxTime /\ now <= now'
  BY <1>1, ClockStep
<1>3. \A k \in DOMAIN lastPing' : lastPing'[k] \in 0..now
  <2>1. CASE lastPing' = lastPing
    BY <2>1 DEF Clock
  <2>2. CASE \E key : lastPing' = With(lastPing, key, now)
    BY <1>1, <2>2 DEF Clock, With
  <2> QED BY <2>1, <2>2, PingSteps DEF PingStep
<1> QED BY <1>1, <1>2, <1>3 DEF Clock

TypeInv ==
  /\ PresenceOK /\ QueueTypes /\ LinkOK /\ TablesRefer /\ ScopedTyped
  /\ closed \cup lost \subseteq Session /\ Capacities /\ Clock

LEMMA TypeInvStep == HubInv /\ TypeInv /\ [Next]_vars => TypeInv'
<1> SUFFICES ASSUME HubInv, TypeInv, [Next]_vars PROVE TypeInv'
  OBVIOUS
<1>1. PresenceTyped
  BY DEF TypeInv, PresenceOK, PresenceTyped
<1>2. PresenceOK' /\ QueueTypes' /\ LinkOK' /\ TablesRefer' /\ ScopedTyped' /\ Capacities' /\ Clock'
  BY <1>1, PresenceOKStep, QueueTypesStep, LinkStep, TablesReferStep, ScopedTypedStep, CapacitiesStep, TimeStep
     DEF TypeInv
<1>3. closed' \cup lost' \subseteq Session
  BY ClosedStep, WireStep DEF TypeInv
<1> QED BY <1>2, <1>3 DEF TypeInv

LEMMA TypeInit == Init => TypeInv /\ TodoOK
<1> SUFFICES ASSUME Init PROVE TypeInv /\ TodoOK
  OBVIOUS
<1>1. /\ link = [s \in Session |-> "new"] /\ todo \in Script /\ inbound = <<>> /\ sessions = {}
      /\ scoped = {} /\ closed = {} /\ sendq = [s \in Session |-> <<>>] /\ lost = {} /\ presence = <<>>
      /\ lastPing = <<>> /\ now = 0 /\ db = EmptyDB /\ outbox = <<>> /\ spawned = {}
  BY Zenon DEF Init
<1>2. PresenceOK /\ LinkOK /\ ScopedTyped
  BY <1>1 DEF PresenceOK, LinkOK, ScopedTyped
<1>3. TablesRefer
  BY <1>1 DEF TablesRefer, EmptyDB
<1>4. Capacities /\ Clock
  BY <1>1, HubAssumption DEF Capacities, Clock, HubAssumption
<1>5. QueueTypes
  <2> HIDE DEF Out, EnvelopeType
  <2> QED BY <1>1 DEF QueueTypes
<1>6. TodoOK
  BY <1>1, HubAssumption DEF TodoOK, HubAssumption
<1> QED BY <1>1, <1>2, <1>3, <1>4, <1>5, <1>6 DEF TypeInv

\* Every variable of the hub keeps its type, ids refer to rows that exist and
\* the two channels stay within their capacities, whatever clients send,
\* however often a session joins and whichever queries fail.
THEOREM HubTyped == Spec => []TypeOK
<1>1. HubInv /\ (TypeInv /\ TodoOK) /\ [Next]_vars => (TypeInv /\ TodoOK)'
  BY TypeInvStep, TodoStep
<1>2. HubInv /\ TypeInv /\ TodoOK /\ CoreTypes => TypeOK
  <2> SUFFICES ASSUME HubInv, TypeInv, TodoOK, CoreTypes PROVE TypeOK
    OBVIOUS
  <2>1. ReferencesOK
    BY DEF HubInv, Attached, DbOK, DevicesKnown, TypeInv, TablesRefer, PresenceOK, ReferencesOK
  <2>2. QueuesOK
    <3>1. \A i \in DOMAIN outbox : outbox[i] \in Out
      BY DEF TypeInv, QueueTypes
    <3>2. \A s \in Session : sendq[s] \in Seq(EnvelopeType) /\ Len(sendq[s]) <= SendCap
      BY DEF TypeInv, QueueTypes, Capacities
    <3> HIDE DEF EnvelopeType
    <3> QED BY <3>1, <3>2 DEF Out, TypeInv, QueueTypes, Capacities, QueuesOK
  <2> QED BY <2>1, <2>2 DEF TypeInv, TodoOK, LinkOK, ScopedTyped, Clock, TypeOK
<1> QED BY <1>1, <1>2, HubInvariant, CoreTyped, TypeInit, PTL DEF Spec
=============================================================================
