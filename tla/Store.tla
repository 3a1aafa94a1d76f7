------------------------------- MODULE Store -------------------------------
(***************************************************************************)
(* The tables behind internal/server/store/store.go and what each method   *)
(* of the store does to them.  A database is one record d of tables:       *)
(*   users       sequence of handles, a user's id is its position          *)
(*   workspaces  rows [name, code, owner, ownerHandle]                     *)
(*   devices     rows [ws, fp, user] of workspace_device_accounts          *)
(*   members     pairs <<ws, user>>                                        *)
(*   channels    pairs <<ws, name>>; such a pair is the channel's id       *)
(*   inChannel   pairs <<channel, user>> of channel_members                *)
(*   messages    sequence of rows [ws, chan, user, type]; a message's id   *)
(*               and its created_at are its position                       *)
(* A workspace's name stands for its id.  Methods are atomic here: each    *)
(* runs in one statement or one transaction.                               *)
(***************************************************************************)
EXTENDS Naturals, Sequences, FiniteSets

CONSTANTS
  Text,           \* the strings that clients send
  Trim,           \* strings.TrimSpace on them
  Lower,          \* strings.ToLower on them
  HandlePattern,  \* the texts that match auth's handlePattern
  HistoryLimit    \* rows of history a channel join returns

Blank == ""

\* Without strings.ToLower.
CleanCaseKept(t) == Trim[t]
Clean(t) == Lower[Trim[t]]
NormalizeHandle(t) == Trim[Lower[t]]
ValidHandle(t) == NormalizeHandle(t) \in HandlePattern

ASSUME StoreAssumption ==
  /\ Blank \in Text
  /\ Trim \in [Text -> Text] /\ Lower \in [Text -> Text]
  /\ \A t \in Text : Lower[t] = Blank <=> t = Blank
  /\ \A h \in HandlePattern \cup {Blank} : Clean(h) = h
  /\ HandlePattern \subseteq Text \ {Blank}
  /\ HistoryLimit \in Nat \ {0}

NoUser == 0
Channel == Text \X Text
MessageType == {"chat", "emote", "media"}
WorkspaceRow == [name : Text, code : Text, owner : Nat, ownerHandle : HandlePattern]
DeviceRow(FP) == [ws : Text, fp : FP, user : Nat]
MessageRow == [ws : Text, chan : Channel, user : Nat, type : MessageType]

\* The tables, over the fingerprints FP devices may have.
Database(FP) ==
  [users      : Seq(HandlePattern),
   workspaces : SUBSET WorkspaceRow,
   devices    : SUBSET DeviceRow(FP),
   members    : SUBSET (Text \X Nat),
   channels   : SUBSET Channel,
   inChannel  : SUBSET (Channel \X Nat),
   messages   : Seq(MessageRow)]

EmptyDB ==
  [users |-> <<>>, workspaces |-> {}, devices |-> {}, members |-> {},
   channels |-> {}, inChannel |-> {}, messages |-> <<>>]

\* users.handle is unique.
HasHandle(d, h) == \E u \in DOMAIN d.users : d.users[u] = h
UserOf(d, h)    == CHOOSE u \in DOMAIN d.users : d.users[u] = h

FindOrCreateUser(d, h) ==
  IF HasHandle(d, h) THEN d ELSE [d EXCEPT !.users = Append(@, h)]

\* Only the device's own row makes way.
UpsertDeviceKeepsUserRow(d, ws, fp, u) ==
  [d EXCEPT !.devices = {r \in @ : ~(r.ws = ws /\ r.fp = fp)}
                          \cup {[ws |-> ws, fp |-> fp, user |-> u]}]

\* The device's row and the user's row both make way for the new one.
UpsertDevice(d, ws, fp, u) ==
  [d EXCEPT !.devices =
     {r \in @ : ~(r.ws = ws /\ (r.fp = fp \/ r.user = u))}
       \cup {[ws |-> ws, fp |-> fp, user |-> u]}]

InsertWorkspace(d, ws, code, u) ==
  [d EXCEPT !.workspaces =
     @ \cup {[name |-> ws, code |-> code, owner |-> u, ownerHandle |-> d.users[u]]}]

AddWorkspaceMember(d, ws, u) == [d EXCEPT !.members = @ \cup {<<ws, u>>}]

KnownWorkspace(d, ws) == \E w \in d.workspaces : w.name = ws
KnownDevice(d, ws, fp) == \E r \in d.devices : r.ws = ws /\ r.fp = fp
DeviceUser(d, ws, fp) == (CHOOSE r \in d.devices : r.ws = ws /\ r.fp = fp).user

\* Why joinWorkspaceTx returns an error: the workspace exists with another
\* code, or neither the device nor the request names a user.
JoinRefused(d, ws, code, fp, handle) ==
  \/ \E w \in d.workspaces : w.name = ws /\ w.code # code
  \/ ~KnownDevice(d, ws, fp) /\ handle = Blank

\* The user a join is for: the device's, else the requested handle's.
JoiningUser(d, ws, fp, handle) ==
  IF KnownDevice(d, ws, fp) THEN DeviceUser(d, ws, fp)
  ELSE UserOf(FindOrCreateUser(d, handle), handle)

\* The rows joinWorkspaceTx adds or replaces before the membership.
JoinTables(d, ws, code, fp, handle) ==
  LET u == JoiningUser(d, ws, fp, handle)
      withUser == IF KnownDevice(d, ws, fp) THEN d ELSE FindOrCreateUser(d, handle)
      withWorkspace == IF KnownWorkspace(d, ws) THEN withUser
                       ELSE InsertWorkspace(withUser, ws, code, u)
  IN IF KnownDevice(d, ws, fp) THEN withWorkspace ELSE UpsertDevice(withWorkspace, ws, fp, u)

\* Only the owner of a new workspace becomes a member.
JoinWorkspaceTxOwnerOnly(d, ws, code, fp, handle) ==
  LET joined == JoinTables(d, ws, code, fp, handle)
  IN IF KnownWorkspace(d, ws) THEN joined
     ELSE AddWorkspaceMember(joined, ws, JoiningUser(d, ws, fp, handle))

\* joinWorkspaceTx, when it commits.
JoinWorkspaceTx(d, ws, code, fp, handle) ==
  AddWorkspaceMember(JoinTables(d, ws, code, fp, handle), ws, JoiningUser(d, ws, fp, handle))

EnsureChannelAsTyped(d, ws, name) == [d EXCEPT !.channels = @ \cup {<<ws, name>>}]
EnsureChannel(d, ws, name) == [d EXCEPT !.channels = @ \cup {<<ws, Clean(name)>>}]

AddChannelMember(d, chan, u) == [d EXCEPT !.inChannel = @ \cup {<<chan, u>>}]

SaveMessage(d, ws, chan, u, type) ==
  [d EXCEPT !.messages = Append(@, [ws |-> ws, chan |-> chan, user |-> u, type |-> type])]

\* The numbers of a finite set in order: the n-th has n up to it.
Ordered(S) ==
  [n \in 1..Cardinality(S) |-> CHOOSE i \in S : Cardinality({j \in S : j <= i}) = n]

\* The ids of a channel's messages, oldest first.
MessagesOf(d, chan) == Ordered({i \in DOMAIN d.messages : d.messages[i].chan = chan})

\* ListHistory without the loop that reverses the rows.
ListHistoryNewestFirst(d, chan) ==
  LET ids == MessagesOf(d, chan)
      n == IF Len(ids) > HistoryLimit THEN HistoryLimit ELSE Len(ids)
  IN [i \in 1..n |-> ids[Len(ids) + 1 - i]]

\* ListHistory: the latest HistoryLimit messages of a channel, oldest first.
\* (The seven-day window is not modelled: every message is recent.)
ListHistory(d, chan) ==
  LET ids == MessagesOf(d, chan)
  IN SubSeq(ids, IF Len(ids) > HistoryLimit THEN Len(ids) - HistoryLimit + 1 ELSE 1, Len(ids))

\* The members of a workspace, as the users panes are told of them.
ListWorkspaceUsers(d, ws) ==
  {[id |-> u, handle |-> d.users[u]] : u \in {v \in DOMAIN d.users : <<ws, v>> \in d.members}}

\* The unique index on users.handle refuses the update.
HandleTaken(d, u, h) == \E v \in DOMAIN d.users \ {u} : d.users[v] = h

\* The user's row alone.
UpdateUserHandleOnly(d, u, h) == [d EXCEPT !.users[u] = h]

\* UpdateUserHandle: the user's row, and the owner_handle it is copied to.
UpdateUserHandle(d, u, h) ==
  [d EXCEPT !.users[u] = h,
            !.workspaces = {IF w.owner = u THEN [w EXCEPT !.ownerHandle = h] ELSE w : w \in @}]
-----------------------------------------------------------------------------
(* What the schema's constraints and the code that relies on them promise. *)

HandlesUnique(d) ==
  \A u, v \in DOMAIN d.users : d.users[u] = d.users[v] => u = v

\* unique (workspace_id, device_fingerprint) and unique (workspace_id, user_id)
DevicesUnique(d) ==
  \A r, q \in d.devices :
    r.ws = q.ws /\ (r.fp = q.fp \/ r.user = q.user) => r = q

OwnersConsistent(d) ==
  /\ \A w, v \in d.workspaces : w.name = v.name => w = v
  /\ \A w \in d.workspaces : w.owner \in DOMAIN d.users /\ w.ownerHandle = d.users[w.owner]
=============================================================================
