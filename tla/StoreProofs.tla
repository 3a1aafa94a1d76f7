---------------------------- MODULE StoreProofs ----------------------------
(***************************************************************************)
(* Lemmas about the store's operators, for any database of the right type: *)
(* what each method preserves, adds and leaves alone.                      *)
(***************************************************************************)
EXTENDS Store, SequenceTheorems, TLAPS, FiniteSetTheorems

\* A database, whatever its devices' fingerprints are made from.
IsDevice(r) ==
  r = [ws |-> r.ws, fp |-> r.fp, user |-> r.user] /\ r.ws \in Text /\ r.user \in Nat
IsTables(d) ==
  /\ d = [users |-> d.users, workspaces |-> d.workspaces, devices |-> d.devices,
          members |-> d.members, channels |-> d.channels, inChannel |-> d.inChannel,
          messages |-> d.messages]
  /\ d.users \in Seq(HandlePattern) /\ d.workspaces \subseteq WorkspaceRow
  /\ \A r \in d.devices : IsDevice(r)
  /\ d.members \subseteq Text \X Nat /\ d.channels \subseteq Channel
  /\ d.inChannel \subseteq Channel \X Nat /\ d.messages \in Seq(MessageRow)

DevicesFrom(d, FP) == \A r \in d.devices : r.fp \in FP

DevicesKnown(d) == \A r \in d.devices : r.user \in DOMAIN d.users

\* With the fingerprints it is the type of the database.
LEMMA TablesTyped ==
  ASSUME NEW FP, NEW d
  PROVE  d \in Database(FP) <=> IsTables(d) /\ DevicesFrom(d, FP)
<1>1. d \in Database(FP) => IsTables(d) /\ DevicesFrom(d, FP)
  BY DEF Database, IsTables, IsDevice, DevicesFrom, DeviceRow
<1>2. IsTables(d) /\ DevicesFrom(d, FP) => d \in Database(FP)
  BY DEF Database, IsTables, IsDevice, DevicesFrom, DeviceRow
<1> QED BY <1>1, <1>2

\* Replacing a table by one of its type gives a database.
LEMMA ReplaceTable ==
  ASSUME NEW d, IsTables(d)
  PROVE  /\ \A t \in Seq(HandlePattern) : IsTables([d EXCEPT !.users = t])
         /\ \A t \in SUBSET WorkspaceRow :
              IsTables([d EXCEPT !.workspaces = t])
         /\ \A t : (\A r \in t : IsDevice(r)) => IsTables([d EXCEPT !.devices = t])
         /\ \A t \in SUBSET (Text \X Nat) : IsTables([d EXCEPT !.members = t])
         /\ \A t \in SUBSET Channel : IsTables([d EXCEPT !.channels = t])
         /\ \A t \in SUBSET (Channel \X Nat) : IsTables([d EXCEPT !.inChannel = t])
         /\ \A t \in Seq(MessageRow) : IsTables([d EXCEPT !.messages = t])
<1>1. ASSUME NEW t, t \in Seq(HandlePattern)
      PROVE  IsTables([d EXCEPT !.users = t])
  BY <1>1 DEF IsTables
<1>2. ASSUME NEW t, t \in SUBSET WorkspaceRow
      PROVE  IsTables([d EXCEPT !.workspaces = t])
  BY <1>2 DEF IsTables
<1>3. ASSUME NEW t, \A r \in t : IsDevice(r)
      PROVE  IsTables([d EXCEPT !.devices = t])
  BY <1>3 DEF IsTables
<1>4. ASSUME NEW t, t \in SUBSET (Text \X Nat)
      PROVE  IsTables([d EXCEPT !.members = t])
  BY <1>4 DEF IsTables
<1>5. ASSUME NEW t, t \in SUBSET Channel
      PROVE  IsTables([d EXCEPT !.channels = t])
  BY <1>5 DEF IsTables
<1>6. ASSUME NEW t, t \in SUBSET (Channel \X Nat)
      PROVE  IsTables([d EXCEPT !.inChannel = t])
  BY <1>6 DEF IsTables
<1>7. ASSUME NEW t, t \in Seq(MessageRow)
      PROVE  IsTables([d EXCEPT !.messages = t])
  BY <1>7 DEF IsTables
<1> QED BY <1>1, <1>2, <1>3, <1>4, <1>5, <1>6, <1>7

\* A user that is found or created: the handle has a row, ids stay valid.
LEMMA FindOrCreateUserOK ==
  ASSUME NEW d, IsTables(d), NEW h \in HandlePattern
  PROVE  LET e == FindOrCreateUser(d, h) IN
         /\ IsTables(e)
         /\ UserOf(e, h) \in DOMAIN e.users /\ e.users[UserOf(e, h)] = h
         /\ DOMAIN d.users \subseteq DOMAIN e.users
         /\ e.workspaces = d.workspaces /\ e.devices = d.devices
         /\ e.members = d.members /\ e.messages = d.messages
<1> DEFINE e == FindOrCreateUser(d, h)
<1>1. CASE HasHandle(d, h)
  BY <1>1 DEF FindOrCreateUser, HasHandle, UserOf
<1>2. CASE ~HasHandle(d, h)
  <2>1. e = [d EXCEPT !.users = Append(d.users, h)]
    BY <1>2 DEF FindOrCreateUser
  <2>2. d.users \in Seq(HandlePattern)
    BY DEF IsTables
  <2>3. /\ Append(d.users, h) \in Seq(HandlePattern)
        /\ DOMAIN d.users \subseteq DOMAIN Append(d.users, h)
        /\ Len(d.users) + 1 \in DOMAIN Append(d.users, h)
        /\ Append(d.users, h)[Len(d.users) + 1] = h
    BY <2>2, AppendProperties, LenProperties
  <2>4. IsTables(e) /\ e.users = Append(d.users, h)
    BY <2>1, <2>3 DEF IsTables
  <2>5. UserOf(e, h) \in DOMAIN e.users /\ e.users[UserOf(e, h)] = h
    BY <2>3, <2>4 DEF UserOf
  <2> QED BY <2>1, <2>3, <2>4, <2>5 DEF IsTables
<1> QED BY <1>1, <1>2

\* A join that is not refused: the types hold, the user it is for exists and
\* is a member afterwards, nobody loses a membership, no message is touched.
LEMMA JoinWorkspaceTxOK ==
  ASSUME NEW d, IsTables(d), DevicesKnown(d),
         NEW ws \in Text, NEW code \in Text, NEW fp,
         NEW handle \in HandlePattern \cup {Blank},
         ~JoinRefused(d, ws, code, fp, handle)
  PROVE  LET e == JoinWorkspaceTx(d, ws, code, fp, handle)
             u == JoiningUser(d, ws, fp, handle)
         IN /\ IsTables(e) /\ DevicesKnown(e)
            /\ u \in DOMAIN e.users
            /\ e.members = d.members \cup {<<ws, u>>}
            /\ DOMAIN d.users \subseteq DOMAIN e.users
            /\ e.messages = d.messages
<1> DEFINE u == JoiningUser(d, ws, fp, handle)
           known == KnownDevice(d, ws, fp)
           d1 == IF known THEN d ELSE FindOrCreateUser(d, handle)
           d2 == IF KnownWorkspace(d, ws) THEN d1 ELSE InsertWorkspace(d1, ws, code, u)
           d3 == IF known THEN d2 ELSE UpsertDevice(d2, ws, fp, u)
           e == AddWorkspaceMember(d3, ws, u)
<1>1. /\ IsTables(d1) /\ u \in DOMAIN d1.users
      /\ DOMAIN d.users \subseteq DOMAIN d1.users
      /\ d1.devices = d.devices /\ d1.members = d.members /\ d1.messages = d.messages
  <2>1. CASE known
    BY <2>1 DEF JoiningUser, KnownDevice, DeviceUser, DevicesKnown
  <2>2. CASE ~known
    <3>1. handle \in HandlePattern
      BY <2>2 DEF JoinRefused
    <3> QED BY <2>2, <3>1, FindOrCreateUserOK DEF JoiningUser
  <2> QED BY <2>1, <2>2
<1>2. d1.users \in Seq(HandlePattern) /\ u \in Nat /\ d1.users[u] \in HandlePattern
  BY <1>1 DEF IsTables
<1>3. /\ IsTables(d2) /\ d2.users = d1.users
      /\ d2.devices = d1.devices /\ d2.members = d1.members /\ d2.messages = d1.messages
  <2> DEFINE row == [name |-> ws, code |-> code, owner |-> u, ownerHandle |-> d1.users[u]]
             rows == d1.workspaces \cup {row}
  <2>1. row \in WorkspaceRow
    BY <1>2 DEF WorkspaceRow
  <2>2. rows \in SUBSET WorkspaceRow
    BY <1>1, <2>1 DEF IsTables
  <2>3. InsertWorkspace(d1, ws, code, u) = [d1 EXCEPT !.workspaces = rows]
    BY DEF InsertWorkspace
  <2> HIDE DEF u, d1, rows
  <2>4. IsTables([d1 EXCEPT !.workspaces = rows])
    BY <1>1, <2>2, ReplaceTable
  <2> QED BY <1>1, <2>3, <2>4 DEF IsTables
<1>4. /\ IsTables(d3) /\ d3.users = d1.users
      /\ d3.members = d1.members /\ d3.messages = d1.messages
  <2> DEFINE rows == {r \in d2.devices : ~(r.ws = ws /\ (r.fp = fp \/ r.user = u))}
                       \cup {[ws |-> ws, fp |-> fp, user |-> u]}
  <2>1. \A r \in rows : IsDevice(r)
    BY <1>2, <1>3 DEF IsTables, IsDevice
  <2>2. UpsertDevice(d2, ws, fp, u) = [d2 EXCEPT !.devices = rows]
    BY DEF UpsertDevice
  <2> HIDE DEF u, d2, rows
  <2>3. IsTables([d2 EXCEPT !.devices = rows])
    BY <1>3, <2>1, ReplaceTable
  <2> QED BY <1>3, <2>2, <2>3 DEF IsTables
<1>5. DevicesKnown(d3)
  BY <1>1, <1>3 DEF UpsertDevice, DevicesKnown, IsTables
<1>6. /\ IsTables(e) /\ e.users = d3.users /\ e.devices = d3.devices
      /\ e.messages = d3.messages /\ e.members = d3.members \cup {<<ws, u>>}
  <2>1. d3.members \cup {<<ws, u>>} \in SUBSET (Text \X Nat)
    BY <1>2, <1>4 DEF IsTables
  <2> HIDE DEF u, d3
  <2>2. IsTables(e)
    BY <1>4, <2>1, ReplaceTable DEF AddWorkspaceMember
  <2> QED BY <1>4, <2>2 DEF AddWorkspaceMember, IsTables
<1>7. e = JoinWorkspaceTx(d, ws, code, fp, handle)
  BY DEF JoinWorkspaceTx, JoinTables
<1> QED BY <1>1, <1>4, <1>5, <1>6, <1>7 DEF DevicesKnown

\* The one device row a join can add is of the fingerprint it came with.
LEMMA JoinWorkspaceTxDevices ==
  ASSUME NEW d, IsTables(d), NEW ws, NEW code, NEW fp, NEW handle, NEW FP, fp \in FP,
         DevicesFrom(d, FP)
  PROVE  DevicesFrom(JoinWorkspaceTx(d, ws, code, fp, handle), FP)
<1> DEFINE u == JoiningUser(d, ws, fp, handle)
           known == KnownDevice(d, ws, fp)
           d1 == IF known THEN d ELSE FindOrCreateUser(d, handle)
           d2 == IF KnownWorkspace(d, ws) THEN d1 ELSE InsertWorkspace(d1, ws, code, u)
           d3 == IF known THEN d2 ELSE UpsertDevice(d2, ws, fp, u)
           e == AddWorkspaceMember(d3, ws, u)
<1> HIDE DEF u, known
<1>1. "devices" \in DOMAIN d
  BY DEF IsTables
<1>2. d1.devices = d.devices /\ "devices" \in DOMAIN d1
  BY <1>1 DEF FindOrCreateUser
<1> HIDE DEF d1
<1>3. d2.devices = d1.devices /\ "devices" \in DOMAIN d2
  BY <1>2 DEF InsertWorkspace
<1> HIDE DEF d2
<1>4. DevicesFrom(d3, FP) /\ "devices" \in DOMAIN d3
  BY <1>2, <1>3 DEF UpsertDevice, DevicesFrom
<1> HIDE DEF d3
<1>5. e.devices = d3.devices
  BY <1>4 DEF AddWorkspaceMember
<1>6. e = JoinWorkspaceTx(d, ws, code, fp, handle)
  BY DEF JoinWorkspaceTx, JoinTables, u, d1, d2, d3, known
<1> QED BY <1>4, <1>5, <1>6 DEF DevicesFrom

\* Entering a channel touches neither users, members, devices nor messages.
LEMMA EnsureChannelOK ==
  ASSUME NEW d, IsTables(d), NEW ws \in Text, NEW name \in Text
  PROVE  LET e == EnsureChannel(d, ws, name) IN
         /\ IsTables(e)
         /\ \A t \in {"users", "devices", "workspaces", "members", "messages"} : e[t] = d[t]
<1>1. Clean(name) \in Text
  BY StoreAssumption DEF StoreAssumption, Clean
<1>2. d.channels \cup {<<ws, Clean(name)>>} \in SUBSET Channel
  BY <1>1 DEF IsTables, Channel
<1>3. IsTables(EnsureChannel(d, ws, name))
  BY <1>2, ReplaceTable DEF EnsureChannel
<1> QED BY <1>3 DEF EnsureChannel, IsTables

LEMMA AddChannelMemberOK ==
  ASSUME NEW d, IsTables(d), NEW chan \in Channel, NEW u \in Nat
  PROVE  LET e == AddChannelMember(d, chan, u) IN
         /\ IsTables(e)
         /\ \A t \in {"users", "devices", "workspaces", "members", "messages"} : e[t] = d[t]
<1>1. d.inChannel \cup {<<chan, u>>} \in SUBSET (Channel \X Nat)
  BY DEF IsTables
<1>2. IsTables(AddChannelMember(d, chan, u))
  BY <1>1, ReplaceTable DEF AddChannelMember
<1> QED BY <1>2 DEF AddChannelMember, IsTables

\* Storing a message appends one row and changes no other table.
LEMMA SaveMessageOK ==
  ASSUME NEW d, IsTables(d), NEW ws \in Text, NEW chan \in Channel, NEW u \in Nat,
         NEW kind \in MessageType, NEW e, e = SaveMessage(d, ws, chan, u, kind)
  PROVE  /\ IsTables(e)
         /\ e.users = d.users /\ e.workspaces = d.workspaces
         /\ e.devices = d.devices /\ e.members = d.members
         /\ DOMAIN e.messages = DOMAIN d.messages \cup {Len(d.messages) + 1}
         /\ Len(e.messages) = Len(d.messages) + 1
         /\ \A i \in DOMAIN d.messages : e.messages[i] = d.messages[i]
         /\ e.messages[Len(d.messages) + 1].ws = ws
         /\ e.messages[Len(d.messages) + 1].chan = chan
         /\ e.messages[Len(d.messages) + 1].user = u
<1> DEFINE row == [ws |-> ws, chan |-> chan, user |-> u, type |-> kind]
           m == d.messages
<1>1. m \in Seq(MessageRow) /\ row \in MessageRow
  BY DEF IsTables, MessageRow
<1>2. /\ Append(m, row) \in Seq(MessageRow) /\ DOMAIN Append(m, row) = DOMAIN m \cup {Len(m) + 1}
      /\ \A i \in DOMAIN m : Append(m, row)[i] = m[i]
      /\ Append(m, row)[Len(m) + 1] = row /\ Len(Append(m, row)) = Len(m) + 1
  BY <1>1, AppendProperties, LenProperties
<1> DEFINE log == Append(m, row)
<1>3. e = [d EXCEPT !.messages = log]
  BY DEF SaveMessage
<1>4. log \in Seq(MessageRow)
  BY <1>2
<1>5. log[Len(m) + 1].ws = ws /\ log[Len(m) + 1].chan = chan /\ log[Len(m) + 1].user = u
  BY <1>2
<1> HIDE DEF log
<1>6. IsTables(e)
  BY <1>3, <1>4, ReplaceTable
<1>7. e.messages = log
  BY <1>3 DEF IsTables
<1>8. e.users = d.users /\ e.workspaces = d.workspaces /\ e.devices = d.devices /\ e.members = d.members
  BY <1>3 DEF IsTables
<1> QED BY <1>2, <1>5, <1>6, <1>7, <1>8 DEF log

\* A rename keeps the ids, the memberships, the devices and the messages.
LEMMA UpdateUserHandleOK ==
  ASSUME NEW d, IsTables(d), NEW u \in Nat, NEW h \in HandlePattern
  PROVE  LET e == UpdateUserHandle(d, u, h) IN
         /\ IsTables(e)
         /\ DOMAIN e.users = DOMAIN d.users
         /\ \A t \in {"devices", "members", "messages"} : e[t] = d[t]
<1> DEFINE renamed == [d.users EXCEPT ![u] = h]
           owned == {IF w.owner = u THEN [w EXCEPT !.ownerHandle = h] ELSE w : w \in d.workspaces}
           e == UpdateUserHandle(d, u, h)
<1>1. renamed \in Seq(HandlePattern) /\ DOMAIN renamed = DOMAIN d.users
  <2>1. d.users \in Seq(HandlePattern)
    BY DEF IsTables
  <2>2. CASE u \in 1..Len(d.users)
    BY <2>1, <2>2, ExceptSeq
  <2>3. CASE u \notin 1..Len(d.users)
    <3>1. DOMAIN d.users = 1..Len(d.users)
      BY <2>1, LenProperties
    <3>2. renamed = d.users
      BY <2>1, <2>3, <3>1
    <3> QED BY <2>1, <3>2
  <2> QED BY <2>2, <2>3
<1>2. owned \in SUBSET WorkspaceRow
  BY DEF IsTables, WorkspaceRow
<1>3. e = [d EXCEPT !.users = renamed, !.workspaces = owned]
  BY DEF UpdateUserHandle
<1> HIDE DEF renamed, owned, e
<1>4. /\ e = [d EXCEPT !.users = renamed, !.workspaces = owned]
      /\ d = [users |-> d.users, workspaces |-> d.workspaces, devices |-> d.devices,
              members |-> d.members, channels |-> d.channels, inChannel |-> d.inChannel,
              messages |-> d.messages]
  BY <1>3 DEF IsTables
<1>5. /\ e.users = renamed
      /\ \A t \in {"devices", "members", "messages"} : e[t] = d[t]
  BY <1>4
<1>6. IsTables(e)
  BY <1>1, <1>2, <1>4 DEF IsTables
<1> QED BY <1>1, <1>5, <1>6 DEF e

-----------------------------------------------------------------------------
(* Users and channels: what each method adds, and that it removes nothing. *)

LEMMA TableIsRecord ==
  ASSUME NEW d, IsTables(d)
  PROVE  d = [users |-> d.users, workspaces |-> d.workspaces, devices |-> d.devices,
              members |-> d.members, channels |-> d.channels, inChannel |-> d.inChannel,
              messages |-> d.messages]
  BY DEF IsTables

\* A join enters nobody in a channel, and the users before it keep their handle.
LEMMA JoinWorkspaceTxGrows ==
  ASSUME NEW d, IsTables(d), DevicesKnown(d),
         NEW ws \in Text, NEW code \in Text, NEW fp,
         NEW handle \in HandlePattern \cup {Blank},
         ~JoinRefused(d, ws, code, fp, handle)
  PROVE  LET e == JoinWorkspaceTx(d, ws, code, fp, handle) IN
         /\ e.channels = d.channels /\ e.inChannel = d.inChannel
         /\ \A u \in DOMAIN d.users : e.users[u] = d.users[u]
<1> DEFINE u == JoiningUser(d, ws, fp, handle)
           known == KnownDevice(d, ws, fp)
           d1 == IF known THEN d ELSE FindOrCreateUser(d, handle)
           d2 == IF KnownWorkspace(d, ws) THEN d1 ELSE InsertWorkspace(d1, ws, code, u)
           d3 == IF known THEN d2 ELSE UpsertDevice(d2, ws, fp, u)
           e == AddWorkspaceMember(d3, ws, u)
           Same(a, b) == a.channels = b.channels /\ a.inChannel = b.inChannel
<1>1. Same(d1, d) /\ \A v \in DOMAIN d.users : d1.users[v] = d.users[v]
  <2>1. CASE known \/ HasHandle(d, handle)
    BY <2>1 DEF FindOrCreateUser
  <2>2. CASE ~known /\ ~HasHandle(d, handle)
    <3> DEFINE q == Append(d.users, handle)
    <3>1. handle \in HandlePattern /\ d.users \in Seq(HandlePattern)
      BY <2>2 DEF JoinRefused, IsTables
    <3>2. \A v \in DOMAIN d.users : q[v] = d.users[v]
      BY <3>1, AppendProperties, LenProperties
    <3>3. d1 = [d EXCEPT !.users = q]
      BY <2>2 DEF FindOrCreateUser
    <3> HIDE DEF q, d1
    <3> QED BY <3>2, <3>3, TableIsRecord
  <2> QED BY <2>1, <2>2
<1> HIDE DEF u
<1>2. d1 = [t \in DOMAIN d |-> d1[t]]
  BY TableIsRecord DEF FindOrCreateUser
<1>3. Same(d2, d1) /\ d2.users = d1.users /\ d2 = [t \in DOMAIN d |-> d2[t]]
  <2> HIDE DEF d1
  <2> QED BY <1>2, TableIsRecord DEF InsertWorkspace
<1>4. Same(d3, d2) /\ d3.users = d2.users /\ d3 = [t \in DOMAIN d |-> d3[t]]
  <2> HIDE DEF d2
  <2> QED BY <1>3, TableIsRecord DEF UpsertDevice
<1>5. Same(e, d3) /\ e.users = d3.users
  <2> HIDE DEF d3
  <2> QED BY <1>4, TableIsRecord DEF AddWorkspaceMember
<1>6. e = JoinWorkspaceTx(d, ws, code, fp, handle)
  BY DEF JoinWorkspaceTx, JoinTables, u
<1> HIDE DEF d1, d2, d3, e
<1> QED BY <1>1, <1>3, <1>4, <1>5, <1>6

LEMMA ChannelTables ==
  ASSUME NEW d, IsTables(d), NEW ws, NEW name, NEW chan, NEW u
  PROVE  /\ EnsureChannel(d, ws, name).channels = d.channels \cup {<<ws, Clean(name)>>}
         /\ EnsureChannel(d, ws, name).inChannel = d.inChannel
         /\ AddChannelMember(d, chan, u).channels = d.channels
         /\ AddChannelMember(d, chan, u).inChannel = d.inChannel \cup {<<chan, u>>}
  BY TableIsRecord DEF EnsureChannel, AddChannelMember

LEMMA SaveMessageTables ==
  ASSUME NEW d, IsTables(d), NEW ws, NEW chan, NEW u, NEW kind
  PROVE  /\ SaveMessage(d, ws, chan, u, kind).channels = d.channels
         /\ SaveMessage(d, ws, chan, u, kind).inChannel = d.inChannel
  BY TableIsRecord DEF SaveMessage

LEMMA UpdateUserHandleTables ==
  ASSUME NEW d, IsTables(d), NEW u, NEW h
  PROVE  LET e == UpdateUserHandle(d, u, h) IN
         /\ e.channels = d.channels /\ e.inChannel = d.inChannel
         /\ \A v \in DOMAIN d.users : e.users[v] = IF v = u THEN h ELSE d.users[v]
<1> DEFINE q == [d.users EXCEPT ![u] = h]
           w == {IF r.owner = u THEN [r EXCEPT !.ownerHandle = h] ELSE r : r \in d.workspaces}
<1>1. UpdateUserHandle(d, u, h) = [d EXCEPT !.users = q, !.workspaces = w]
  BY DEF UpdateUserHandle
<1> HIDE DEF q, w
<1>2. /\ UpdateUserHandle(d, u, h).channels = d.channels
      /\ UpdateUserHandle(d, u, h).inChannel = d.inChannel
      /\ UpdateUserHandle(d, u, h).users = q
  BY <1>1, TableIsRecord
<1>3. \A v \in DOMAIN d.users : q[v] = IF v = u THEN h ELSE d.users[v]
  BY DEF q, IsTables
<1> QED BY <1>2, <1>3

-----------------------------------------------------------------------------
(* What each method does to the constraints of the schema.                 *)

Consistent(d) == HandlesUnique(d) /\ DevicesUnique(d) /\ OwnersConsistent(d)

\* The constraints read three tables only.
LEMMA ConsistentTables ==
  ASSUME NEW d, NEW e, Consistent(d),
         e.users = d.users, e.devices = d.devices, e.workspaces = d.workspaces
  PROVE  Consistent(e)
  BY DEF Consistent, HandlesUnique, DevicesUnique, OwnersConsistent

LEMMA FindOrCreateUserConsistent ==
  ASSUME NEW d, IsTables(d), Consistent(d), NEW h \in HandlePattern
  PROVE  Consistent(FindOrCreateUser(d, h))
<1> DEFINE e == FindOrCreateUser(d, h)
           users == Append(d.users, h)
<1>1. CASE HasHandle(d, h)
  BY <1>1 DEF FindOrCreateUser
<1>2. CASE ~HasHandle(d, h)
  <2>1. d.users \in Seq(HandlePattern)
    BY DEF IsTables
  <2>2. /\ DOMAIN users = DOMAIN d.users \cup {Len(d.users) + 1}
        /\ \A u \in DOMAIN d.users : users[u] = d.users[u]
        /\ users[Len(d.users) + 1] = h
    BY <2>1, AppendProperties, LenProperties
  <2>3. e = [d EXCEPT !.users = users]
    BY <1>2 DEF FindOrCreateUser
  <2> HIDE DEF users, e
  <2>4. e.users = users /\ e.devices = d.devices /\ e.workspaces = d.workspaces
    BY <2>3 DEF IsTables
  <2>5. HandlesUnique(e)
    BY <1>2, <2>2, <2>4 DEF HandlesUnique, HasHandle, Consistent
  <2>6. OwnersConsistent(e)
    BY <2>2, <2>4 DEF OwnersConsistent, Consistent
  <2>7. DevicesUnique(e)
    BY <2>4 DEF DevicesUnique, Consistent
  <2> QED BY <2>5, <2>6, <2>7 DEF Consistent, e
<1> QED BY <1>1, <1>2

LEMMA InsertWorkspaceConsistent ==
  ASSUME NEW d, IsTables(d), Consistent(d), NEW ws \in Text, NEW code,
         NEW u \in DOMAIN d.users, ~KnownWorkspace(d, ws)
  PROVE  Consistent(InsertWorkspace(d, ws, code, u))
<1> DEFINE row == [name |-> ws, code |-> code, owner |-> u, ownerHandle |-> d.users[u]]
           e == InsertWorkspace(d, ws, code, u)
<1>1. e.users = d.users /\ e.devices = d.devices /\ e.workspaces = d.workspaces \cup {row}
  BY DEF InsertWorkspace, IsTables
<1> HIDE DEF e
<1>2. OwnersConsistent(e)
  BY <1>1 DEF OwnersConsistent, Consistent, KnownWorkspace
<1>3. HandlesUnique(e) /\ DevicesUnique(e)
  BY <1>1 DEF HandlesUnique, DevicesUnique, Consistent
<1> QED BY <1>2, <1>3 DEF Consistent, e

LEMMA UpsertDeviceConsistent ==
  ASSUME NEW d, IsTables(d), Consistent(d), NEW ws, NEW fp, NEW u
  PROVE  Consistent(UpsertDevice(d, ws, fp, u))
<1> DEFINE row == [ws |-> ws, fp |-> fp, user |-> u]
           e == UpsertDevice(d, ws, fp, u)
<1>1. /\ e.users = d.users /\ e.workspaces = d.workspaces
      /\ e.devices = {r \in d.devices : ~(r.ws = ws /\ (r.fp = fp \/ r.user = u))} \cup {row}
  BY DEF UpsertDevice, IsTables
<1> HIDE DEF e
<1>2. DevicesUnique(e)
  BY <1>1 DEF DevicesUnique, Consistent
<1>3. HandlesUnique(e) /\ OwnersConsistent(e)
  BY <1>1 DEF HandlesUnique, OwnersConsistent, Consistent
<1> QED BY <1>2, <1>3 DEF Consistent, e

\* A join never trips on a unique index.
LEMMA JoinWorkspaceTxConsistent ==
  ASSUME NEW d, IsTables(d), DevicesKnown(d), Consistent(d),
         NEW ws \in Text, NEW code \in Text, NEW fp,
         NEW handle \in HandlePattern \cup {Blank},
         ~JoinRefused(d, ws, code, fp, handle)
  PROVE  Consistent(JoinWorkspaceTx(d, ws, code, fp, handle))
<1> DEFINE u == JoiningUser(d, ws, fp, handle)
           known == KnownDevice(d, ws, fp)
           d1 == IF known THEN d ELSE FindOrCreateUser(d, handle)
           d2 == IF KnownWorkspace(d, ws) THEN d1 ELSE InsertWorkspace(d1, ws, code, u)
           d3 == IF known THEN d2 ELSE UpsertDevice(d2, ws, fp, u)
           e == AddWorkspaceMember(d3, ws, u)
<1>1. IsTables(d1) /\ u \in DOMAIN d1.users /\ Consistent(d1) /\ d1.workspaces = d.workspaces
  <2>1. CASE known
    BY <2>1 DEF JoiningUser, KnownDevice, DeviceUser, DevicesKnown
  <2>2. CASE ~known
    <3>1. handle \in HandlePattern
      BY <2>2 DEF JoinRefused
    <3> QED BY <2>2, <3>1, FindOrCreateUserOK, FindOrCreateUserConsistent DEF JoiningUser
  <2> QED BY <2>1, <2>2
<1> HIDE DEF u, d1
<1>2. IsTables(d2) /\ Consistent(d2)
  <2>1. CASE KnownWorkspace(d, ws)
    BY <1>1, <2>1
  <2>2. CASE ~KnownWorkspace(d, ws)
    <3>1. ~KnownWorkspace(d1, ws)
      BY <1>1, <2>2 DEF KnownWorkspace
    <3> DEFINE row == [name |-> ws, code |-> code, owner |-> u, ownerHandle |-> d1.users[u]]
               rows == d1.workspaces \cup {row}
    <3>2. u \in Nat /\ d1.users[u] \in HandlePattern
      BY <1>1 DEF IsTables
    <3>3. rows \in SUBSET WorkspaceRow
      BY <1>1, <3>2 DEF IsTables, WorkspaceRow
    <3>4. InsertWorkspace(d1, ws, code, u) = [d1 EXCEPT !.workspaces = rows]
      BY DEF InsertWorkspace
    <3> HIDE DEF rows
    <3>5. IsTables(InsertWorkspace(d1, ws, code, u))
      <4>1. IsTables([d1 EXCEPT !.workspaces = rows])
        BY <1>1, <3>3, ReplaceTable
      <4> QED BY <3>4, <4>1
    <3>6. Consistent(InsertWorkspace(d1, ws, code, u))
      BY <1>1, <3>1, InsertWorkspaceConsistent
    <3> QED BY <2>2, <3>5, <3>6
  <2> QED BY <2>1, <2>2
<1> HIDE DEF d2
<1>3. Consistent(d3)
  BY <1>2, UpsertDeviceConsistent
<1>4. d3.users = e.users /\ d3.devices = e.devices /\ d3.workspaces = e.workspaces
  <2>1. /\ {"users", "devices", "workspaces", "members"} \subseteq DOMAIN d2
        /\ DOMAIN d3 = DOMAIN d2
    BY <1>2 DEF UpsertDevice, IsTables
  <2> DEFINE members == d3.members \cup {<<ws, u>>}
  <2> HIDE DEF d3, members
  <2>2. e = [d3 EXCEPT !.members = members]
    BY DEF AddWorkspaceMember, members
  <2> QED BY <2>1, <2>2
<1> HIDE DEF d3
<1>5. Consistent(e)
  BY <1>3, <1>4, ConsistentTables
<1>6. e = JoinWorkspaceTx(d, ws, code, fp, handle)
  BY DEF JoinWorkspaceTx, JoinTables, d1, d2, d3, u
<1> QED BY <1>5, <1>6

\* A rename to a free handle reaches the owner_handle of every workspace.
LEMMA UpdateUserHandleConsistent ==
  ASSUME NEW d, IsTables(d), Consistent(d),
         NEW u \in DOMAIN d.users, NEW h \in HandlePattern, ~HandleTaken(d, u, h)
  PROVE  Consistent(UpdateUserHandle(d, u, h))
<1> DEFINE users == [d.users EXCEPT ![u] = h]
           new(w) == IF w.owner = u THEN [w EXCEPT !.ownerHandle = h] ELSE w
           e == UpdateUserHandle(d, u, h)
<1>1. /\ e.users = users /\ e.devices = d.devices
      /\ e.workspaces = {new(w) : w \in d.workspaces}
  BY DEF UpdateUserHandle, IsTables
<1>2. \A w \in d.workspaces :
         /\ new(w).name = w.name /\ new(w).owner = w.owner
         /\ new(w).ownerHandle = IF w.owner = u THEN h ELSE w.ownerHandle
  BY DEF IsTables
<1>3. DOMAIN users = DOMAIN d.users /\ \A v \in DOMAIN d.users : users[v] = IF v = u THEN h ELSE d.users[v]
  BY DEF IsTables
<1> HIDE DEF e, users, new
<1>4. HandlesUnique(e)
  BY <1>1, <1>3 DEF HandlesUnique, HandleTaken, Consistent
<1>5. OwnersConsistent(e)
  <2>1. ASSUME NEW w \in d.workspaces
        PROVE  new(w).owner \in DOMAIN users /\ new(w).ownerHandle = users[new(w).owner]
    BY <1>2, <1>3 DEF OwnersConsistent, Consistent
  <2>2. ASSUME NEW w \in d.workspaces, NEW v \in d.workspaces, new(w).name = new(v).name
        PROVE  new(w) = new(v)
    BY <1>2, <2>2 DEF OwnersConsistent, Consistent
  <2> QED BY <1>1, <2>1, <2>2 DEF OwnersConsistent
<1>6. DevicesUnique(e)
  BY <1>1 DEF DevicesUnique, Consistent
<1> QED BY <1>4, <1>5, <1>6 DEF Consistent, e
-----------------------------------------------------------------------------
(* The history a channel join returns.                                     *)

\* The numbers of a list grow.
Increasing(list) == \A i, j \in DOMAIN list : i < j => list[i] < list[j]

\* Ordered lists the elements of its set in their order.
LEMMA OrderedElements ==
  ASSUME NEW S \in SUBSET Nat, IsFiniteSet(S)
  PROVE  Ordered(S) \in Seq(S) /\ Increasing(Ordered(S))
<1> DEFINE Upto(i) == {j \in S : j <= i}
           N == Cardinality(S)
           r == [i \in S |-> Cardinality(Upto(i))]
<1>1. N \in Nat
  BY FS_CardinalityType
<1>2. ASSUME NEW i \in S
      PROVE  /\ IsFiniteSet(Upto(i)) /\ Cardinality(Upto(i)) \in 1..N /\ i \in Upto(i)
  <2>1. Upto(i) \in SUBSET S /\ i \in Upto(i)
    OBVIOUS
  <2> HIDE DEF Upto
  <2>2. IsFiniteSet(Upto(i)) /\ Cardinality(Upto(i)) <= N
    BY <2>1, FS_Subset
  <2>3. Cardinality(Upto(i)) \in Nat /\ Cardinality(Upto(i)) # 0
    BY <2>1, <2>2, FS_CardinalityType, FS_EmptySet
  <2> QED BY <1>1, <2>1, <2>2, <2>3
<1>3. ASSUME NEW i \in S, NEW j \in S, i < j PROVE Cardinality(Upto(i)) # Cardinality(Upto(j))
  <2>1. Upto(i) \in SUBSET Upto(j) /\ j \in Upto(j) /\ j \notin Upto(i)
    <3>1. \A k \in S : k \in Nat
      OBVIOUS
    <3>2. \A k \in S : k <= i => k <= j
      BY <1>3, <3>1
    <3>3. i \in Nat /\ j \in Nat /\ j <= j /\ ~(j <= i)
      BY <1>3, <3>1
    <3> QED BY <3>2, <3>3
  <2>2. IsFiniteSet(Upto(j))
    BY <1>2
  <2> HIDE DEF Upto
  <2> QED BY <2>1, <2>2, FS_Subset
<1>4. r \in Injection(S, 1..N)
  <2>1. r \in [S -> 1..N]
    BY <1>2
  <2>2. ASSUME NEW i \in S, NEW j \in S, r[i] = r[j] PROVE i = j
    <3>1. Cardinality(Upto(i)) = Cardinality(Upto(j))
      BY <2>2
    <3> HIDE DEF Upto
    <3> QED BY <1>3, <3>1
  <2> HIDE DEF r, N
  <2> QED BY <2>1, <2>2 DEF Injection, IsInjective
<1>5. IsFiniteSet(1..N) /\ Cardinality(1..N) = N
  BY <1>1, FS_Interval
<1>6. r \in Surjection(S, 1..N)
  <2> HIDE DEF r
  <2> QED BY <1>4, <1>5, FS_Injection
<1>7. \A n \in 1..N : \E i \in S : r[i] = n
  <2> HIDE DEF r, N
  <2> QED BY <1>6 DEF Surjection
<1> DEFINE Nth(n) == CHOOSE i \in S : Cardinality(Upto(i)) = n
<1>8. Ordered(S) = [n \in 1..N |-> Nth(n)]
  BY DEF Ordered
<1>9. \A n \in 1..N : Nth(n) \in S /\ Cardinality(Upto(Nth(n))) = n
  <2> SUFFICES ASSUME NEW n \in 1..N PROVE Nth(n) \in S /\ Cardinality(Upto(Nth(n))) = n
    OBVIOUS
  <2>1. \E i \in S : Cardinality(Upto(i)) = n
    BY <1>7
  <2> HIDE DEF Upto
  <2> QED BY <2>1
<1>10. ASSUME NEW m \in 1..N, NEW n \in 1..N, m < n PROVE Nth(m) < Nth(n)
  <2>1. Nth(m) \in S /\ Nth(n) \in S /\ Nth(m) \in Nat /\ Nth(n) \in Nat
    BY <1>9
  <2>2. Cardinality(Upto(Nth(m))) = m /\ Cardinality(Upto(Nth(n))) = n
    BY <1>9
  <2>3. IsFiniteSet(Upto(Nth(m)))
    BY <1>2, <2>1
  <2> HIDE DEF Nth
  <2>4. CASE Nth(n) <= Nth(m)
    <3>1. \A k \in S : k \in Nat
      OBVIOUS
    <3>2. \A k \in S : k <= Nth(n) => k <= Nth(m)
      BY <2>1, <2>4, <3>1
    <3>3. Upto(Nth(n)) \subseteq Upto(Nth(m))
      BY <3>2
    <3> HIDE DEF Upto
    <3>4. Cardinality(Upto(Nth(n))) <= Cardinality(Upto(Nth(m)))
      BY <2>3, <3>3, FS_Subset
    <3> HIDE DEF N
    <3> QED BY <1>1, <1>10, <2>2, <3>4
  <2> QED BY <2>1, <2>4
<1> HIDE DEF N, Nth
<1>11. Ordered(S) \in Seq(S)
  <2>1. \A n \in 1..N : Nth(n) \in S
    BY <1>9
  <2> QED BY <1>1, <1>8, <2>1
<1>12. Increasing(Ordered(S))
  BY <1>1, <1>8, <1>10 DEF Increasing
<1> QED BY <1>11, <1>12

\* Part of a list that grows is a list that grows.
LEMMA IncreasingPart ==
  ASSUME NEW list \in Seq(Nat), Increasing(list), NEW m \in Nat \ {0}, NEW n \in Nat, n <= Len(list)
  PROVE  Increasing(SubSeq(list, m, n))
<1> DEFINE part == SubSeq(list, m, n)
           k == IF m <= n + 1 THEN n - m + 1 ELSE 0
<1>1. Len(part) = k /\ \A i \in 1..k : part[i] = list[m + i - 1]
  BY SubSeqProperties
<1>2. DOMAIN part = 1..Len(part) /\ DOMAIN list = 1..Len(list) /\ Len(list) \in Nat
  BY SubSeqProperties
<1> HIDE DEF part
<1>3. \A i \in 1..k : m + i - 1 \in 1..Len(list)
  OBVIOUS
<1>4. k \in Nat
  OBVIOUS
<1> HIDE DEF k
<1>5. ASSUME NEW i \in 1..k, NEW j \in 1..k, i < j PROVE part[i] < part[j]
  <2>1. m + i - 1 < m + j - 1
    BY <1>4, <1>5
  <2> QED BY <1>1, <1>2, <1>3, <2>1 DEF Increasing
<1>6. \A i, j \in DOMAIN part : i < j => part[i] < part[j]
  BY <1>1, <1>2, <1>5
<1>7. Increasing(part)
  BY <1>6 DEF Increasing
<1> QED BY <1>7 DEF part

\* A history is of the channel it was asked for, oldest message first.
LEMMA HistoryOf ==
  ASSUME NEW d, IsTables(d), NEW chan
  PROVE  /\ ListHistory(d, chan) \in Seq(Nat) /\ Increasing(ListHistory(d, chan))
         /\ \A n \in DOMAIN ListHistory(d, chan) :
              /\ ListHistory(d, chan)[n] \in DOMAIN d.messages
              /\ d.messages[ListHistory(d, chan)[n]].chan = chan
<1> DEFINE S == {i \in DOMAIN d.messages : d.messages[i].chan = chan}
           ids == MessagesOf(d, chan)
           from == IF Len(ids) > HistoryLimit THEN Len(ids) - HistoryLimit + 1 ELSE 1
           L == ListHistory(d, chan)
<1>1. DOMAIN d.messages = 1..Len(d.messages) /\ Len(d.messages) \in Nat
  BY DEF IsTables
<1>2. IsFiniteSet(DOMAIN d.messages)
  BY <1>1, FS_Interval
<1>3. S \in SUBSET Nat /\ IsFiniteSet(S)
  <2>1. S \in SUBSET (DOMAIN d.messages)
    OBVIOUS
  <2> HIDE DEF S
  <2> QED BY <1>1, <1>2, <2>1, FS_Subset
<1>4. ids \in Seq(S) /\ Increasing(ids)
  <2>1. ids = Ordered(S)
    BY DEF MessagesOf
  <2> HIDE DEF S, ids
  <2> QED BY <1>3, <2>1, OrderedElements
<1>5. \A i \in S : i \in DOMAIN d.messages /\ d.messages[i].chan = chan
  OBVIOUS
<1>6. L = SubSeq(ids, from, Len(ids))
  BY DEF ListHistory
<1>7. Len(ids) \in Nat /\ from \in Nat \ {0} /\ DOMAIN ids = 1..Len(ids)
  <2> HIDE DEF S, ids
  <2> QED BY <1>4, StoreAssumption DEF StoreAssumption
<1>11. \A i \in S : i \in Nat
  BY <1>3
<1> HIDE DEF S, ids, from
<1>8. L \in Seq(S)
  <2> HIDE DEF L
  <2> QED BY <1>4, <1>6, <1>7, SubSeqProperties
<1> HIDE DEF L
<1>9. \A n \in DOMAIN L : L[n] \in S
  BY <1>8
<1>10. L \in Seq(Nat)
  BY <1>8, <1>11
<1>12. Increasing(L)
  <2>1. ids \in Seq(Nat)
    BY <1>4, <1>11
  <2> QED BY <1>4, <1>6, <1>7, <2>1, IncreasingPart
<1> QED BY <1>5, <1>9, <1>10, <1>12 DEF L
=============================================================================
