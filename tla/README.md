# A verification project for TerminalChatSystem

TLA+ modules that model the chat server and its terminal client, TLC
configurations that check them on small instances, and TLAPS proofs of the
properties that matter most, for every instance.

    tlc -workers 2 -config HubTalk.cfg MCHub      # a run
    tlapm HubProofs.tla                           # a module of proofs

`PROJECT.json` lists the runs, the mutants that show each property can fail,
the lines of `src/` each definition models, the findings, the hazards and the
theorems.

## 1. The system

One Go server (`cmd/server`) and any number of Go terminal clients
(`cmd/client`) that keep a WebSocket to it. Files go to the server by HTTP.

| Component | State | Operations | Interacts by |
|---|---|---|---|
| WebSocket transport `server/ws` | per connection: socket, context, two goroutines | register, read an event, write an envelope, ping, give up | channels `Register`, `Unregister`, `Inbound` of the hub; `Session.send` |
| Hub `server/chat` | maps of sessions, `Session` fields, `lastPingByUser`, the inbound channel | one handler per client event, `addSession`, `removeSession`, `PublishMessage` | calls store and presence; `Session.Deliver` |
| Presence `server/presence` | workspace -> user -> presence | `SetOnline`, `SetOffline`, `UpdateChannel`, `UpdateUserHandle`, `Snapshot` | called by the hub; mirrored to Redis |
| Store `server/store` | PostgreSQL tables | `JoinWorkspace` (a transaction), `EnsureChannel`, `SaveMessage`, `ListHistory`, `UpdateUserHandle`, ... | called by hub and uploads |
| Handle validation `server/auth` | none | `NormalizeHandle`, `ValidateHandle` | called by hub |
| Uploads `server/httpapi` | none of its own | one POST: join, ensure channel, save message, put file, save record, publish | store, object storage, `Hub.PublishMessage` |
| Client manager `client/ws` | socket, queue `send`, channel `events`, `closeCh` | dial, resync, read, write, reconnect, `Close` | `Send` and `Events` of the UI |
| Client UI `client/ui`, `client/state` | messages, presence, roster, handle, current channel, overlay, form, status | keys, slash commands, one case per envelope | the manager |
| Client profile `client/profile` | `profile.json` | load, change, save | file shared by the machine's clients |
| Call scaffold, notifications, emotes, logging, configuration | little or none | | |

What is hard:

* **Two goroutines and one channel.** `Deliver` may run in the hub, in a
  goroutine `removeSession` started, or in an upload, while `Close` closes the
  channel it sends on.
* **Slow and vanished peers.** The hub must not wait for them, so it drops
  envelopes; a reader must be noticed to be gone by deadlines alone.
* **Random choice.** The hub's `select` may take the disconnect of a session
  before an event the session sent earlier.
* **State kept twice.** A session holds a copy of its user, presence another
  copy of the handle, `workspaces.owner_handle` a third; presence is per user
  and sessions are many per user.
* **Half-done work.** A join is a transaction followed by five more queries,
  each of which may fail; an upload is seven steps in a goroutine of its own.
* **Transactions.** The hub joins and renames one after the other, uploads join
  in goroutines of their own; PostgreSQL interleaves their statements at READ
  COMMITTED, with row locks and unique indexes to wait for.
* **Order.** History batches replace what live messages extend, broadcasts of
  spawned goroutines overtake those of the hub, and a client shows a channel
  before the server agrees to it.
* **Restarts.** The server keeps presence, sessions and cooldowns in memory; the
  clients keep what they showed, dial again and repeat what they were started with.
* **Reconnecting.** A manager may be closed between its dial and the moment it
  stores the socket; goroutines that wait for a replaced manager live on.

What makes it correct: nothing is sent on a closed channel; the hub always
returns to its `select`; a lost connection is released; a stored message
belongs to a member of its workspace and to a channel of it; handles and
device accounts stay unique through joins and renames, and concurrent
transactions have the effect of whole ones; presence names who is
there; a client shows every message once and in
order, knows its own handle and writes to the channel on its screen; each renewed
connection tells the server again who is there; a recorded file exists.

## 2. The modules

| Module | Models | State and actions |
|---|---|---|
| `Mailbox` | what `Session.send` promises: a bounded FIFO box that takes nothing in once shut | `box`, `shut`; `Put`, `Take`, `Shut` |
| `Connection` | one connection goroutine by goroutine: `ServeHTTP`/`readPump` (`reader`), `writePump` (`writer`), `Hub.Run` (`hub`), callers of `Deliver` (`inside`) | `Deliver` is `EnterDeliver` (lock, test of `closed`) and `Offer` (the `select`); `Close` is `RequestLock` and `CloseQueue`, as `sync.RWMutex` lets no reader in behind a waiting writer |
| `Store` | the tables and every query, as functions from database to database | no state of its own; used by `Hub` and `MediaUpload` |
| `Hub` | `handleEvent`, registration, `removeSession` and its goroutines, `lastPingByUser`, presence, and the pumps as far as they feed the hub | one action per event type; `Post` makes the broadcasts a handler has produced, one at a time |
| `AtomicStore` | what the hub and the uploads take the store for: whole joins and renames, one at a time | `db`; `Join`, `Rename` |
| `StoreTx` | `joinWorkspaceTx` and `UpdateUserHandle` statement by statement, any number of them open at once | `db` (what is committed), `tx`; one action per statement, `Commit`, `Abort` |
| `ChatClient` | the chat screen: what `handleWSEvent` keeps of an envelope, what a slash command changes and sends | no state of its own: functions on a view |
| `ChatSystem` | `Hub` composed with clients that type, lose connections and dial again, and a server that restarts | `view`, `queued`, `typing`, `plan`; `Dial`, `Show`, `Send`, `Type`, `EndEffect`, `Lose`, `Restart` |
| `MediaUpload` | `mediaUploadHandler` beside `Hub`, step by step | `at`, `row`, `assets`, `objects`; one action per step and one for failure |
| `ClientConn` | the client's managers and the goroutines of its UI that wait for their events | one action per statement of `run` that can block or be overtaken; `Connect`, `CtrlR`, `Back`, `Take`, `HandleWSEvent` |
| `ClientSetup` | the setup screen, and `profile.json` as the clients of one machine read and write it | `file`, `prof`, `writing`, the form, what was granted (history); one action per kind of key in each place, `Start`, `Crash`, `SaveStep`, `Identified` |
| `ConnectionProofs`, `StoreTxProofs`, `ClientConnProofs`, `ClientSetupProofs` | theorems of the modules they are named after | |
| `StoreProofs`, `HubProofs` | lemmas on the store's functions; theorems of the hub, first for any clients, then those that need one workspace per connection | `HubProofs` extends `StoreProofs` |
| `ChatSystemProofs` | theorems of the hub and its clients together: overlays, channels, what the screens show | extends `HubProofs` |
| `MediaUploadProofs` | theorems of uploads beside the hub | extends `HubProofs` |
| `MCConnection`, `MCHub`, `MCStoreTx`, `MCChatSystem`, `MCMediaUpload`, `MCClientConn`, `MCClientSetup` | instances for TLC: texts, scripts of events, requests, plans of what may happen, forms | |

`ChatSystem` extends `ChatClient`; this and `MediaUpload` extend `Hub`, which
extends `Store`. `StoreTx` looks at two of the store's methods from below: it
implements `AtomicStore`, whose steps are the functions of `Store` that `Hub`
and `MediaUpload` use. `Connection`
looks at the same sessions from below: it shows, at the granularity of lock
operations, that `Deliver` and `Close` behave as the single steps `Hub` takes
them for (the refinement of `Mailbox`).

How the code maps onto the actions of `Hub`:

* A handler is one action for all it does to sessions, presence and tables.
  The hub is one goroutine and takes its next event when its broadcasts are
  out, so nothing else can see these in between, except uploads (which
  `MediaUpload` interleaves at whole handlers) and the queues of the sessions,
  which `Post` fills one broadcast at a time.
* The first delivery of `ping_user` happens inside the handler's action,
  because whether it reached anybody decides the rest.
* A query that may fail is named in `Faults`, and the handler then has the
  outcome its error path gives, at the point where it stops.
* A client is a script: per session a sequence of sets of events, one of which
  is sent at each turn. `Script` is a set of such scripts, so that one run can
  check several. Events that come before their time, with blank or invalid
  fields, are in the scripts.
* Texts are members of a small set; `Trim`, `Lower` and `HandlePattern` are
  what `strings.TrimSpace`, `strings.ToLower` and the pattern do to them. The
  set has texts with capitals, a blank and an invalid handle.

### Abstractions

* The seven-day window of `ListHistory`, message bodies and the labels of media
  (and with them the count that numbers them) are left out: no property tells them apart.
* Keep-alive deadlines are the possibility to end reading or writing on an
  unusable socket. A write by a peer that does not read may last for ever in
  `Hub` (outside `Reading`); in `Connection` no fairness makes it happen.
* `hub.mu` is left out of `Connection`, which gives more interleavings.
* In `Hub` and `MediaUpload` a transaction is one step; `StoreTx` shows why it
  may be. There the rules are those of READ COMMITTED as the code relies on
  them: a statement sees what is committed when it starts; a locked row or an
  index entry of an open transaction makes it wait, and it looks again
  afterwards. Locks that foreign keys take are left out: the rows they would lock
  are not updated in the key, so nobody waits for them. `last_seen_at` is left
  out. `Abort` also stands for PostgreSQL's deadlock detector and for a cancelled
  context. Uploads in flight have different fingerprints because `RemoteAddr`
  includes the port and a TCP connection carries one request at a time; two
  transactions of the hub may have the same.
* In `ChatSystem` envelopes reach a client in the order they were queued; the
  exceptions after Ctrl+R and `/back` are the subject of `ClientConn`. A client
  has one manager. Connections are whole or lost, never half-open: what the
  server notices late is in `Hub` (`Leaving`) and `Connection`. While a handler
  makes its deliveries the clients wait. That is sound for what is checked: a
  client only takes from the queues the deliveries append to, and what it
  sends the hub reads after the handler, so each of its steps commutes with
  the rest of the handler; the broadcasts of `removeSession`'s goroutines and a
  crash do come in between.
* A command is a record of its fields; `strings.Fields` and the usage lines are
  left out, and so are commands that send nothing and keep nothing (`/help`,
  `/quit`, `/update`). A number of seconds is multiplied and wrapped as the code does.
* A view keeps two history variables: `touched`, the channels whose messages
  the user cleared or restored since their last batch, and `refused`, whether
  an error came after the channel that was entered last.
* In `ClientConn`, `Greet` waits until the read loop of the previous socket has
  ended. The code sleeps `ReconnectDelay` (3 s) after it closed that socket, and a
  full event channel serves its blocked senders in order, so the old loop's
  error comes first.

* In `ClientSetup` the clients of a machine run one after the other, use one
  server, and the user takes longer to fill in the form than the client to
  handle the one event that may still come after `/back`. Typing replaces the
  focused field's text in one step. `workspace_joined` is left out: it only
  replaces the lobby's name by the server's, which is the same after `keyFor`.
  A text is the sequence of its parts between bars, because the profile joins the
  server's address, a lobby's name and its code with bars (`keyFor`) and splits a
  key at the first two (`List`): a name or code with a bar may share its key with another pair, or
  come back from the list as another lobby and code. Both are in the model and in the run. Texts and
  their parts have no blanks around them, so `strings.TrimSpace` leaves them alone.
  A `Save` fails before it touches the file (`MkdirAll`, opening it), which then
  stays whole and stale, or after it has truncated it. `Open` then gives up; after
  `Remember`, `model.go:812` only warns, and the client goes on with what it has in memory.

## 3. The runs

| Run | Bounds | Shows |
|---|---|---|
| `conn_pumps` | two callers of `Deliver`, two envelopes, outbound capacity 2, inbound 1 | types and capacities, no send on the closed channel, `Connection` implements `Mailbox`; the hub always returns to its `select`; the write pump ends with the read pump even when a stopped hub takes no Unregister; a lost peer is released unless the hub has stopped |
| `hub_talk` | two sessions, both may leave, one never reads, queues of one | full type invariant; who is online is in the session map and the other way round; every event is handled and every leaver removed, whatever the peers do |
| `hub_data` | four scripts for two sessions, of one or two users in one or two workspaces; eight methods that may fail; clock to 8 s | what is stored is filed under one workspace, an existing channel and a member of both; nothing of one workspace is queued for another; tables consistent through joins, takeovers of an account and colliding renames; presence names users as the table does; pings keep their cooldown |
| `chat_views` | two clients of two connections each, nine plans (below), history and screen of 2 messages, an `int` of 16 bits | each message once, in order, without a gap; the users pane is the server's presence; what is typed goes to the channel on the screen; a client knows its own handle; overlays last between 0.9 and 10 s |
| `client_conn` | three managers, two sockets each, queue of 4, event channel of 3; five plans: renew (a message typed, an envelope), order (two envelopes), `/back` with two envelopes or two sockets, Ctrl+R while the replacement cannot get through | types and capacities; every connection is told who is there; the status settles to "connected" and envelopes keep their order before the first Ctrl+R; a manager that is closed, in the middle of a dial too, gives its connection up unless it is stuck at a full event channel |
| `client_setup` | one client started twice and admitted twice; lobbies `acme` (the configuration spells it `Acme`) and `acme\|x`, codes `k` and `x\|k`, so that two pairs share a key; two handles; a `Save` may fail or be cut off by a crash at each of its steps | the list's cursor is on an entry; memory holds, for every key, the handle the server granted last, a file that can be read what was granted before the last `Save` that succeeded; the device in use is the one on disk; a lobby whose grant is known is joined under a handle |
| `media_race` | two uploads, any step fails, one session that talks and renames | the invariants of the tables hold with uploads; a record's file exists; what is announced is recorded |
| `store_tx` | the hub's join, then its rename or a second join; two uploads' joins with handles and workspaces that collide; any of them rolled back at any point | `StoreTx` implements `AtomicStore`; every transaction ends |
| `client_ctrl_r`, `media_device`, `hub_twins`, `chat_restart` | | the findings (section 6) |

Why the bounds are enough. Each is chosen so that the case a property is about
happens, and the mutant listed with the property shows that it does.

* *Queues.* With capacities 1 and 2 both full, empty and, for 2, half-full
  occur, and envelopes are dropped in the middle of a sequence. `SendCap = 30`
  (or 40) in `hub_data` and `chat_views` is "never full": their properties are
  about what is sent, or hold only for a client that lost nothing.
* *Sessions.* Every property relates at most two sessions, two users or two
  connections of a user.
* *Workspaces.* This client names one workspace on a connection:
  `client/ws/client.go:155-158` is the only place that sends `join_workspace`,
  with what `Configure` was given once, and another lobby has another manager. It may send it twice: `Manager.send`
  outlives a connection, so the join of one that was lost before `writeLoop` drained its
  `resync` goes out on the next. A session of the runs therefore stays in one
  workspace, and `hub_data` has it join that one again. The properties of
  presence, filing and queues are about such clients, and so are their theorems
  (section 5 says which).
* *History* and *screen* of two messages, with one to three stored: shorter than,
  equal to and longer than the limits.
* *Plans.* What happens in `chat_views` is drawn from nine plans, each of which
  gives what the two users type, which sessions are dialed, read and lost, and how
  often the server restarts: reading, clearing and restoring; two spellings of a
  channel, and a direct one; more messages than the screen keeps; a rename while
  the other asks for lists and writes directly; a rename or a new channel around
  a lost connection; messages missed meanwhile; a user who leaves in the middle;
  a restart; pings. All at once would be beyond TLC; each plan has the two or
  three things whose order matters to some property. `first` has some clients
  join before the others are dialed, `late` says whether spawned broadcasts may be
  overtaken (only where somebody leaves for good: otherwise see section 7).
* *Width.* `IntMax = 32767` instead of 2^63-1 brings the overflow of a /ping's
  duration within small numbers: 33 seconds are negative, 66 half a second.
* *Transactions.* Three at a time: a property of two and one to interfere. The
  larger instance is the proof's.
* *Clock* to 8 s: the longest cooldown without an effect. `PingsRateLimited`
  claims the documented 3 s and 8 s; the two extra seconds of an effect are in
  the model.
* `MaxDial = 2`: a first connection and a renewed one. `MaxManager = 3`: one
  replaced by a key, one after it. An event channel of three holds what a manager
  that is closed in the middle of its dial still reports ("connected", "disconnected", the
  read loop's error), also when nobody waits for it any more, so `ClosedHangsUp`
  is about it; what a connection that is lost and dialed again reports fills it.
  The sockets are bounded per manager: two managers that both get through are
  left to `client_ctrl_r`, which stops at its counterexample, and to the proofs.
* `MaxStart = 2`: a client that makes the profile and one that finds it (or what
  a failed `Save` left of it, torn or stale). `MaxAdmit = 2`: a second lobby beside the first, or
  a new handle in the same one.

`CHECK_DEADLOCK FALSE` stands where the modelled system ends: scripts run out,
managers and sockets reach their bound, the hub stops.

Exceptions that are part of a property:

* `Resynced` excepts a connection whose `resync` found the queue full (`cut`):
  `Manager.Send` drops silently, and the workspace is then never joined. It
  takes 126 messages typed while disconnected.
* `ClosedHangsUp` excepts a manager whose goroutine is at a full event channel
  (`Stuck`; 128 events): `run` blocks there for ever when nobody takes its events.
  A full channel the goroutine need not write to is no excuse.
* `HandledInOrder` is about the time before the first Ctrl+R, after which two
  goroutines wait on the same manager and may finish in either order: it says
  nothing of these.
* `EntriesKept` and `DeviceOnDisk` except a file that a crash or a full disk left
  torn; every later start then runs without a profile. `EntriesKept` and
  `KnownLobbyIsJoined` count as known to a new client what a `Save` has written: a
  grant whose `Save` failed before the file was touched is forgotten when the
  client ends.
* `PaneConverges` excepts a user who came back (`CameBack`), after a lost connection or
  a restart of the server: the offline broadcast of the old session may be the
  last to arrive (section 7). So it says nothing of the pane of such users after a
  restart; `PaneOnlineTrue` (section 6) does. It compares channels of
  users shown online only.
* `ViewComplete` excepts channels the user cleared or restored (`touched`), and for
  channels other than the session's current one, clients that lost a connection:
  only the joined channel gets a batch.
* `SentWhereShown` excepts a client whose last answer was an error (`refused`), and
  `ViewComplete` and `SentWhereShown` a session that dropped something (`lost`).
* `HandleTrue` excepts a user with another client: a rename by that one reaches
  this one only while it is connected.
* `StatusTrueAtFirst` is about the time before the first Ctrl+R or `/back`
  (`FirstChat`); `client_ctrl_r` shows what comes after.

## 4. Fairness

* *Goroutines* that can go on do (weak fairness). That includes those blocked on
  a lock that is free.
* *`select`* chooses at random among its ready cases, and a Go channel serves
  blocked senders in order: a case that is ready again and again is taken
  (strong fairness on `TakeRegister`, `TakeInbound`, `TakeUnregister`,
  `HandInbound`, `Handle`, `RemoveSession`).
* *Peers* owe nothing. They need not send, read or answer; `Write` and
  `ReadEvent` have no fairness. A hub that depended on a reading peer would
  violate `HubAlwaysReturns` and `EventsHandled`, and the mutants do.
* *PostgreSQL* runs a statement that need not wait (weak fairness on `Run` in
  `StoreTx`); it need not begin or abort a transaction. `TransactionsEnd` therefore
  says that no two wait for each other without the deadlock detector's help.
* *The user* of `ClientConn` need do nothing; a dial returns, because the
  handshake has a timeout. `writeLoop` may take envelopes before it takes
  `closeCh`, finitely many.

## 5. What is proved

With TLAPS, for every value of the constants that meets the assumptions named
in the modules (`ConnectionAssumption`, `StoreAssumption`, `HubAssumption`,
`StoreTxAssumption`, `ClientConnAssumption`, `ClientSetupAssumption`, `ChatClientAssumption`,
`ChatSystemAssumption`, `MediaAssumption`: capacities are positive, scripts are
sequences of events, a session is one connection of one client, events carry texts and durations are integers, `Trim` and
`Lower` are functions on texts that leave valid handles alone, lower case is blank
for blank text only, a request to join from outside the hub has a fingerprint of
its own, a plan counts what it gives, what is typed or configured is text):

| Theorem | States |
|---|---|
| `ConnectionProofs!TypeCorrect` | `Spec => []TypeOK` |
| `ConnectionProofs!NoSendOnClosed` | `Spec => []NeverSendsOnClosed` |
| `ConnectionProofs!MailboxRefined` | `Spec => MailboxPromise`: `Connection` implements `Mailbox` |
| `HubProofs!CoreTyped` | `Spec => []CoreTypes` |
| `HubProofs!AuthorsCorrect` | `Spec => []AuthorsAreMembers` |
| `HubProofs!TablesCorrect` | `Spec => []TablesConsistent` |
| `HubProofs!PingsLimited` | `Spec => PingsRateLimited` |
| `HubProofs!HubTyped` | `Spec => []TypeOK`, of the hub |
| `HubProofs!MessagesInChannel` | `OneWorkspacePerScript => (Spec /\ []KeepsAccount => []MessagesFiled)` |
| `HubProofs!OnlineHaveSessions` | `OneWorkspacePerScript => (Spec /\ []KeepsAccount => []OnlineIsAttached)` |
| `HubProofs!OwnNewsOnly` | `OneWorkspacePerScript => (Spec => []QueuedForOwnWorkspace)` |
| `HubProofs!SoleSessionOnline` | `Spec /\ []KeepsAccount => []SoleSessionIsOnline`, under `OneWorkspacePerScript` and when `ListChannels` and `ListWorkspaceUsers` do not fail |
| `HubProofs!PresenceNamesFresh` | `Spec => []PresenceHandleFresh`, for clients of one workspace |
| `HubProofs!OneWorkspaceJoined` | `OneWorkspacePerScript => (Spec => []StaysInWorkspace)` |
| `MediaUploadProofs!RecordsOpen` | `MediaSpec => []RecordsHaveObjects` |
| `MediaUploadProofs!AnnouncedRecorded` | `MediaSpec => []AnnouncedIsRecorded` |
| `MediaUploadProofs!MediaTyped` | `HandlesValid => (MediaSpec => []MediaTypeOK)` |
| `MediaUploadProofs!UploadersAreMembers` | `HandlesValid => (MediaSpec => []AuthorsAreMembers)` |
| `MediaUploadProofs!UploadsConsistent` | `HandlesValid => (MediaSpec => []TablesConsistent)` |
| `MediaUploadProofs!UploadsFiled` | `HandlesValid /\ OneWorkspacePerScript => (MediaSpec /\ []KeepsAccount => []MessagesFiled)` |
| `ChatSystemProofs!OverlaysBounded` | `SysSpec => []OverlayBounded` |
| `ChatSystemProofs!ScreenAgrees` | `SysSpec => []SentWhereShown` |
| `ChatSystemProofs!ScreensOrdered` | `SysSpec => []ViewOrdered` |
| `ChatSystemProofs!ScreensComplete` | `HistoryLimit <= ViewCap /\ Faults = {} => (SysSpec => []ViewComplete)` |
| `ClientConnProofs!ClientConnTyped` | `Spec => []TypeOK`, of the client's managers |
| `ClientConnProofs!ConnectionsResynced` | `Spec => []Resynced` |
| `ClientConnProofs!FirstChatInOrder` | `Spec => []HandledInOrder` |
| `ClientConnProofs!FirstChatStatusTrue` | `Spec => []StatusTrueAtFirst` |
| `ClientSetupProofs!SetupTyped` | `Spec => []TypeOK`, of the setup screen and the profile |
| `ClientSetupProofs!CursorStaysInList` | `Spec => []CursorInList` |
| `ClientSetupProofs!EntriesAreKept` | `Spec => []EntriesKept` |
| `ClientSetupProofs!DeviceStaysOnDisk` | `Spec => []DeviceOnDisk` |
| `ClientSetupProofs!KnownLobbiesAreJoined` | `Spec => []KnownLobbyIsJoined` |
| `StoreTxProofs!TransactionsAtomic` | `Spec => AtomicSpec`: `StoreTx` implements `AtomicStore` |

Some theorems have a hypothesis besides the assumptions, and each says what the
code relies on.

* `OneWorkspacePerScript`: all a client may send on a connection are joins of one
  workspace, as many as it likes. This client's are `resync`'s
  (`client/ws/client.go:155-158`), and those that a lost connection left in
  `Manager.send`; both name the workspace its manager was configured with.
  `OneWorkspaceJoined` derives that no session leaves the workspace it is in
  (`StaysInWorkspace`): an event is in the script, in the inbound channel or
  behind it (`WorkspaceFixed`). The server does not refuse a join of another workspace, which leaves
  the session attached to both (section 7).
* `[]KeepsAccount`: a session that joins again does so for the user it has. The
  device's row decides, so this fails only if another device took the account
  over between the two joins of a connection, which deletes that row, and then renamed it.
  The session then goes on as the new user of its old name; presence would keep the
  other one online, and if that join is abandoned the session would keep a
  channel its new user was not added to. `OwnNewsOnly` does not need it.
* The workspace of `PresenceNamesFresh`: `UpdateUserHandle` renames the user in the
  table for all workspaces, the presence manager renames in the session's only.
  A user shown in two workspaces has two connections; the other workspace goes on
  showing the old handle.
* The failing queries of `SoleSessionOnline`: a join that is abandoned after
  `addWorkspaceSession` leaves a session attached that presence does not know.

* `HandlesValid`: the handle of an upload is, trimmed and in lower case, blank or one
  that `ValidateHandle` accepts. The server never asks (`httpapi/server.go:126`);
  this program's client sends the handle it goes by, which the server granted.
  Without it `users.handle` may hold any text, and that is all that is lost:
  `RecordsOpen` and `AnnouncedRecorded` do not have the hypothesis.
* The limits and queries of `ScreensComplete`. A history longer than `appendMessage`
  keeps (`CHAT_HISTORY_LIMIT` over 500; the default is 50) would be cut by the next
  live message, and a `ListHistory` that fails sends no batch: what was missed
  while the connection was down stays missing until the next one.

*No send on the closed channel.* The invariant is not inductive alone. `LockInv`
adds that the flag and the channel change together and that nobody is between
`RLock` and `RUnlock` once the channel is shut, which is what the exclusive lock in `Close`
gives; `Offer` then never meets a closed channel. The refinement follows: each
action puts, takes, shuts or leaves the box as it is.

*Authors are members.* `SaveMessage` uses the session's fields and no query, so
these must agree with the tables at every moment, including after a join that
was abandoned half-way. `HubInv` is the conjunction of the types, of the tables'
references (a device's row names an existing user, an author is a member) and
of `Attached` for every session: one that has a user acts for a member of its
workspace. One lemma per handler that changes any of it shows that it is
preserved; `OtherStep` covers the rest. The lemmas of `StoreProofs` say what each query keeps.

*Tables.* `Consistent` (unique handles, unique device rows by device and by
user, fresh `owner_handle`) is shown to be preserved by each query under the
references of `HubInv`. `joinWorkspaceTx` needs that a device whose row exists
names an existing user, and that the upsert clears both rows in its way;
`UpdateUserHandle` needs that the unique index refuses a handle in use.

*Pings.* No invariant is needed but that the clock and the entries of
`lastPingByUser` are numbers: `ClockStep` and `PingSteps` show, action by action,
that an entry changes only where the cooldown has passed and only to the clock.

*What is said, and to whom.* A message reaches a queue in four ways: the hub's
own broadcast (`outbox`), a goroutine `removeSession` started (`spawned`), the
ping that is delivered at once, and the answer to the sender. `Said` is the set of
what a step may say: something that carries no messages, the message just saved,
to the members of its workspace, or the history of the sender's channel, to the
sender. `HandlerSaid` shows it handler by handler; `WireStep`, `OutboxStep` and
`SpawnedStep` show that nothing else comes into a queue. Two invariants rest on
it. `TypeInv`: every envelope that waits anywhere carries the fields of its event,
with their types. `QueuesOwn`: every message in a queue is of the workspace of the
session it waits for, which needs that a session does not change workspaces while
envelopes wait (`StaysInWorkspace`), and that sessions and messages are in
channels of their own workspace (`PlacesInv`).

*Presence and filing.* `SessionInv` joins what depends on each other: a message is
filed under the session's current channel, so that channel must be of the
session's workspace and have its user (`InChannels`); whoever is online is
attached to that workspace (`OnlineIsAttached`), which `removeSession` keeps only
if a session is attached nowhere else (`ScopedOK`), and `Register` only if
nothing of a session reaches the hub before (`NewIsFresh`). `SoleOnline` is the
converse, for a user of one session; `OneWorkspaceInv` says of every presence
entry that its handle is the table's.

*Uploads.* An upload is seven steps, each of which trusts the earlier ones while the
hub goes on. `MediaInv` says what is left of them at each step: the message is
filed as the upload's row says, from its file on the file is stored, and from its
record on the record is there; and whatever waits in a queue or is about to be
broadcast is recorded if it is media. The hub's steps keep it since no
query changes or deletes a message, and since the hub's own messages are never
media. Nothing is assumed of the handle in the form, which no code validates.

*Tables, with uploads.* `TablesInv` is the hub's `HubInv` and `Consistent` with, for
each upload, that the rows it goes on with are still there (`RowIn`: the user it
joined as is a member, the channel exists, the user has been added to it). `HubInv`
is stated without the fingerprints of the devices (`DevicesFrom` has those), so that
rows of uploads, whose fingerprints no session has, do not break it. The hub's
steps keep `RowIn` because no query deletes a user, a member, a channel or a
message (`TablesGrow`), and the uploads keep what the hub relies on because each
step is one of the store's functions, for which `StoreProofs` has its lemma. For
`MessagesFiled` the hub's `SessionInv` is added: a session's channel still has its
user when an upload joins under that user's name.

*Clients and hub together.* `SysTypes` has the hub's invariants and the types of what
clients keep and send; `SysCases`, `SysWire`, `SysOutbox` and `SysViews` say once what
any step does to the queues, the broadcasts under way and the screens, and
`HandlerTold` (one lemma per handler) which envelopes a handler makes, for whom.
`LinkInv` says that a client has one connection at a time and that a session that was
never dialed has nothing under way.

* `OverlayBounded` follows the duration of a ping from `pingEffectDuration` through
  broadcasts and queues to the screen (`EffectsOK`); what the client computes, in
  whatever width, does not matter.
* `SentWhereShown`. `EnteredOK`: the last answer that is under way to a session, if it
  enters a channel, enters the one the session has (handlers answer after they
  have set it, and queues keep the order). `ShownOK`: if no answer is under
  way and none is to come, the screen is on that channel, or the last answer was an error, or
  the session has dropped something. A stale answer leaves the screen elsewhere for a
  while, but it comes only where another event or answer is under way.
* `ViewOrdered`. `AllCarriedOK`: what an envelope carries is in the table, in its
  order. `NewsInOrder`: news is newer than all that was queued before it for the
  same session, since the hub stores a message and broadcasts it before it reads
  the history for anybody. `NewsUnseen`: it is newer than everything its client keeps on
  the screen or under `/restore`, also after a new connection, which starts with
  nothing under way (`LinkInv`). `ListsOK`: what a client keeps is in the table's order.
* `ViewComplete` is about a client to which everything has come, so its invariant
  (`ScreenInv`) says what is missing while something is under way. `Coming` is the
  news still to come to a session. `NewsComplete`: who is to get one message gets
  every later one of the workspace. `BatchesComplete`: a history batch, with the
  news behind it, leaves no message of its channel out. `HereComplete`: the list of
  the session's channel has no gap that `Coming` does not fill and is as long as
  the history, or a batch for it is on its way. `FirstGapless`: on a first
  connection no list has a gap, since a list begins with the first news or batch
  and nothing was on the screen before (`StartsClear`). `AtHome`, `JoinedOnly`,
  `QuietOutside`, `CarriedFiled` and `ListsFiled` say that sessions, envelopes and
  lists are of the client's one workspace. A list without a gap to which
  nothing comes is a suffix of the channel (`TailOfAll`), which the cap on a list
  does not change (`AppendKeeps`).

*The client's connections.* `ConnInv` has three parts. `Told`: what a server has
heard on a connection, with what waits in the queue behind it, has an `identify`
and after it a `join_workspace`. `ShownInOrder`: in the first chat the envelopes shown, the one a
goroutine holds, those in the event channel and the one the read loop holds are
consecutive. `ConnectionReported`: after a connection is made, "connected" comes
after every other report still to be made, because the old read loop ended
before. The run has three managers; that a manager closed by `/back` in the
middle of a dial and two later ones do not disturb each other is from the proof,
for any number (`named` is kept per manager for it).

*The profile.* `SetupInv` is the five invariants of the setup screen with what
they need of each other. Clients of the machine run one after the other
(`OneRuns`), and one that does not run holds nothing (`OffIsBlank`). A write is of
a profile in memory, to a file it has truncated; unless that profile is still
empty, the file, if whole, has its token (`Saving`), so that a `Save` which fails early
leaves the same device on disk. While no client runs, the machine knows what was saved last
(`KnowsWhatIsSaved`), which is what the next client reads; where no file was ever
written that is nothing (`NothingSaved`), so that a client which finds no file may
start with an empty profile. The lemma
`RememberedProperties` says of `Store.Remember`, for any list of entries, that a
lobby's lookup finds the new handle, every other lobby's what it found before, and
the list never becomes shorter, which keeps the cursor inside it. The run has one client
started twice; the proof has any number of clients and starts.

*Transactions.* PostgreSQL lets each statement see what is committed at its
moment, so a transaction acts on what it read some statements ago. `TxInv` says
why that is safe: what a transaction has learned of the committed tables stays
true until it ends (`Facts`), because two open transactions have locked
different rows, inserted different handles and created different workspaces
(`Apart`), because the uploads' fingerprints differ, and because the hub's
transactions follow each other (`HubInOrder`), which keeps two joins off one
device's row. One lemma per statement shows that it keeps `TxInv`;
`FactsAfterJoin` and `FactsAfterRename` show it of the other transactions when
one commits. `WholeJoin` and `WholeRename` then show that what a commit writes is the
function of `Store` applied to the tables at that moment.

Only model-checked: liveness (the prover has no fairness and no `ENABLED`), and
two invariants of `ChatSystem`: `PaneConverges` and `HandleTrue`.
What a recursive definition computes for all inputs could not be proved; the
modules have none.

## 6. Findings

Each is a run that TLC ends with a counterexample.

* `hub_twins`: `removeSession` turns the user offline although another session
  of the same user is connected. That is the usual reconnect: the old connection
  ends at its deadline, after the new one joined (`hub.go:147`; `README.md:281`).
* `client_ctrl_r`: after Ctrl+R a status that the replaced manager still had to
  report is taken for the new one's, and stays (`model.go:789`; `README.md:254`).
* `media_device`: an upload's fingerprint hashes the address *with* its port;
  its join is by another device and replaces the remembered one of the user
  (`httpapi/server.go:127`; `README.md:186`).
* `chat_restart`: the client's presence map is never cleared. After a restart the
  server's presence holds only those who came back, so whoever did not stays
  online in the others' panes (`model.go:857`; `README.md:281`).

## 7. Seen while modelling, not kept as runs

* `handleEvent` does not ask whether the sender is still registered. If `select`
  takes a session's Unregister before a `join_workspace` of it that waits in the
  inbound channel, the user is online for good. `OnlineIsAttached` is what holds.
* The broadcasts of `removeSession` run in goroutines. If the user is back at
  once, the others may see the offline entry last.
* An upload that fails after `SaveMessage` leaves its message in the history
  without file or record. `RecordsHaveObjects` is what holds.
* Messages typed while disconnected are written before `resync`'s `identify`
  and refused; what is typed is lost.
* A `Save` that fails before it truncates `profile.json` leaves it whole but stale:
  the next client reads an older handle, or nothing of the lobby. `EntriesKept`
  says of the file only what the last `Save` that succeeded wrote.
* `keyFor` joins names with bars: the lobby "acme|x" with the code "k" shares its entry
  with the lobby "acme" and the code "x|k", and `List` shows it as the latter.
* A session that joins a second workspace stays in the session map of the first.
  Only a client other than this one does that.

* Two local clients share `profile.json`'s token and the address, so the second is
  the first one's device and joins as its user (`store.go:352`), although the
  `README.md:197` and `:203` start them as alice and bob.
* A message is filed under the channel of its session, and the `channel` that the
  client sends with it is not looked at. `/join #` is refused, and the screen stays on
  a channel that does not exist while messages go to the one before.
* `/muteeffects` mutes a handle, not a user, and does not end an overlay that
  runs; a duration of a /ping that overflows is taken for the default or clamped.
* `/restore` puts the cleared messages back in place of the list, so that those
  which arrived after `/clear` are gone.
* An offline broadcast may carry the channel of before, when the leaver's last
  `join_channel` was still in the inbound channel.
* `/back` keeps messages and presence, so the next lobby's panes may start with
  entries of the last. After a reconnect, `resync` returns to the channel given to
  `Configure`, not to the current one.
* Torn by a crash in `Save`, `profile.json` is never repaired: `Open` refuses it at
  every later start, the client warns in its log and uses a new device token
  each time.
* `connectFromSetup` looks a blank handle up, and so does Enter in the code field;
  both are redundant for what is typed, as every key prefills the handle first.

## 8. Not modelled, and the plan

Done in this order, most important first: `Connection` (everything depends on
it), `Store` and `Hub`, `ChatSystem` with `ChatClient`, `ClientConn`, `MediaUpload`,
`ClientSetup`, `StoreTx`, and the proofs beside them.

Left for the proofs: `PaneConverges`, which needs of presence entries what
`ScreenInv` says of messages, and `HandleTrue`, which needs hypotheses on
the accounts (two clients of one device share a user; a handle that two
spellings of `Account` share is granted to one of them).

Not modelled, because a run could not hold it beside what it is about: uploads
beside the clients' views (a view may show a message of an upload twice, or
miss it until the next batch, when `PublishMessage` overtakes a history batch);
two workspaces in `ChatSystem`, which `/back` would need; two clients of a
machine that write `profile.json` at the same time (the last wins).

Out: the Redis mirror (optional, its errors are ignored and nothing reads it),
rendering, notifications, the emote catalogue, configuration, logging, the
routes that keep no state, and the call scaffold beyond its answer to a call
event.
