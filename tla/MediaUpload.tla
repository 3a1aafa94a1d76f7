---------------------------- MODULE MediaUpload ----------------------------
(***************************************************************************)
(* Media uploads (internal/server/httpapi/server.go) beside the hub.  Each *)
(* POST runs in a goroutine of its own: it joins the workspace as a device *)
(* would, saves a message, puts the file in the object storage, records    *)
(* it, and broadcasts through Hub.PublishMessage without going through the *)
(* hub's goroutine.  Its store calls interleave with the hub's handlers,   *)
(* and any of them may fail, for one because the uploader hung up.         *)
(***************************************************************************)
EXTENDS Hub

CONSTANTS
  Upload,       \* the requests
  Form,         \* per request, the set its form fields are drawn from
  UploadFaults  \* the steps of the handler that may fail

\* Form fields are texts; a handle may be any of them.
ASSUME MediaAssumption ==
  /\ \A u \in Upload : \A f \in Form[u] :
       /\ f.token \in Text /\ f.handle \in Text /\ f.workspace \in Text
       /\ f.code \in Text /\ f.channel \in Text
  /\ \A t \in Text : Clean(Clean(t)) = Clean(t)

VARIABLES
  at,       \* per request, the next step of its handler
  row,      \* per request, what the handler has learnt: [ws, user, chan, msg]
  assets,   \* media_assets: rows [msg, ws, chan, user]
  objects   \* the messages whose file is in the object storage

media == <<at, row, assets, objects>>

NoRow == [ws |-> Blank, user |-> NoUser, chan |-> NoChannel, msg |-> 0]
Step  == {"join", "channel", "member", "message", "object", "asset", "publish", "done", "failed"}

MediaInit ==
  /\ Init
  /\ at = [u \in Upload |-> "join"] /\ row = [u \in Upload |-> NoRow]
  /\ assets = {} /\ objects = {}

Goes(u, from, to) == at[u] = from /\ at' = [at EXCEPT ![u] = to]

Others == <<link, todo, inbound, table, sess, presence, lastPing, now, outbox, spawned>>

\* deviceFingerprint of this file hashes the whole RemoteAddr, port included.
UploadFingerprint(f) == <<f.addr, Trim[f.token]>>

\* The form is checked and the workspace joined; the handle is not validated.
UploadJoin(u) ==
  \E f \in Form[u] :
    LET target == Clean(f.workspace)
        code   == Trim[f.code]
        fp     == UploadFingerprint(f)
        handle == Clean(f.handle)
        refused == \/ Trim[f.workspace] = Blank \/ code = Blank \/ Trim[f.token] = Blank
                   \/ JoinRefused(db, target, code, fp, handle)
        name == IF Trim[f.channel] = Blank THEN DefaultRoom ELSE f.channel
    IN /\ \/ /\ refused \/ "join" \in UploadFaults
             /\ Goes(u, "join", "failed") /\ UNCHANGED <<db, row>>
          \/ /\ ~refused
             /\ Goes(u, "join", "channel")
             /\ db' = JoinWorkspaceTx(db, target, code, fp, handle)
             /\ row' = [row EXCEPT ![u] = [NoRow EXCEPT !.ws = target, !.chan = <<target, Clean(name)>>,
                                             !.user = JoiningUser(db, target, fp, handle)]]
       /\ UNCHANGED <<assets, objects>>

UploadChannel(u) ==
  /\ Goes(u, "channel", "member")
  /\ db' = EnsureChannel(db, row[u].ws, row[u].chan[2])
  /\ UNCHANGED <<row, assets, objects>>

\* A channel is ensured and nobody added to it.
UploadMemberLost(u) == Goes(u, "member", "message") /\ UNCHANGED <<db, row, assets, objects>>

\* AddChannelMember, and the count that numbers the message.
UploadMember(u) ==
  /\ Goes(u, "member", "message")
  /\ db' = AddChannelMember(db, row[u].chan, row[u].user)
  /\ UNCHANGED <<row, assets, objects>>

UploadMessage(u) ==
  /\ Goes(u, "message", "object")
  /\ db' = SaveMessage(db, row[u].ws, row[u].chan, row[u].user, "media")
  /\ row' = [row EXCEPT ![u].msg = Len(db'.messages)]
  /\ UNCHANGED <<assets, objects>>

\* The file is put when the record exists.
UploadObjectLast(u) ==
  /\ \/ Goes(u, "object", "asset") /\ UNCHANGED objects
     \/ Goes(u, "publish", "done") /\ objects' = objects \cup {row[u].msg}
  /\ UNCHANGED <<db, row, assets>>

\* The broadcast does not wait for the record.
UploadObjectAnnounced(u) ==
  /\ Goes(u, "object", "publish")
  /\ objects' = objects \cup {row[u].msg}
  /\ UNCHANGED <<db, row, assets>>

UploadObject(u) ==
  /\ Goes(u, "object", "asset")
  /\ objects' = objects \cup {row[u].msg}
  /\ UNCHANGED <<db, row, assets>>

UploadAsset(u) ==
  /\ Goes(u, "asset", "publish")
  /\ assets' = assets \cup {row[u]}
  /\ UNCHANGED <<db, row, objects>>

\* PublishMessage, from this goroutine, to whoever is attached by now.
UploadPublish(u) ==
  /\ Goes(u, "publish", "done")
  /\ Deliver(Members(row[u].ws), NewMessage({}, "message_new", row[u].chan, row[u].msg).env)
  /\ UNCHANGED <<db, row, assets, objects>>

\* A store or storage call fails, and the handler answers with an error; what
\* it did before stays.  A put that failed may have stored the file.
UploadFails(u) ==
  /\ at[u] \in UploadFaults \ {"join", "publish", "done", "failed"}
  /\ at' = [at EXCEPT ![u] = "failed"]
  /\ objects' \in {objects, objects \cup (IF at[u] = "object" THEN {row[u].msg} ELSE {})}
  /\ UNCHANGED <<db, row, assets>>

UploadStep(u) ==
  /\ \/ UploadJoin(u) \/ UploadChannel(u) \/ UploadMember(u) \/ UploadMessage(u)
     \/ UploadObject(u) \/ UploadAsset(u) \/ UploadFails(u)
  /\ UNCHANGED wire

MediaNext ==
  \/ /\ UNCHANGED media
     /\ \/ \E s \in Session : Register(s) \/ ReadScript(s) \/ EndRead(s) \/ WriteOut(s) \/ RemoveSession(s)
        \/ \E b \in spawned : RunSpawned(b)
        \/ Post \/ Handle
  \/ \E u \in Upload : (UploadStep(u) \/ UploadPublish(u)) /\ UNCHANGED Others

MediaSpec == MediaInit /\ [][MediaNext]_<<vars, media>>
-----------------------------------------------------------------------------
(* Properties.                                                             *)

UploadFingerprints == UNION {{UploadFingerprint(f) : f \in Form[u]} : u \in Upload}

\* The handler's state and the two stores of media have their types; a row is
\* recorded once per message (unique message_id).
MediaTypeOK ==
  /\ at \in [Upload -> Step]
  /\ \A u \in Upload : row[u].user \in 0..Len(db.users) /\ row[u].msg \in 0..Len(db.messages)
  /\ db \in Database(Fingerprints \cup UploadFingerprints)
  /\ objects \subseteq DOMAIN db.messages
  /\ \A a, b \in assets : a.msg = b.msg => a = b

IsMedia(id) == db.messages[id].type = "media"
Recorded(id) == \E a \in assets : a.msg = id

\* Whichever step fails, what media_assets names is a media message of the
\* same workspace, channel and user, and its file is in the storage: /pub/<id>
\* never leads to a missing file.
RecordsHaveObjects ==
  \A a \in assets :
    /\ a.msg \in objects /\ IsMedia(a.msg)
    /\ LET m == db.messages[a.msg] IN m.ws = a.ws /\ m.chan = a.chan /\ m.user = a.user

\* A media message that is broadcast can be opened.
AnnouncedIsRecorded ==
  \A s \in Session : \A i \in DOMAIN sendq[s] :
    sendq[s][i].type = "message_new" =>
      \A j \in DOMAIN sendq[s][i].msgs :
        IsMedia(sendq[s][i].msgs[j]) => Recorded(sendq[s][i].msgs[j])

\* README.md:186: once a device has joined a workspace, its next join can reuse
\* the remembered handle.
DeviceRemembered ==
  \A s \in sessions : sess[s].ws # Blank => KnownDevice(db, sess[s].ws, Fingerprint(s))
=============================================================================
