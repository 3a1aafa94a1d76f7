------------------------------- MODULE StoreTx -------------------------------
(***************************************************************************)
(* The two transactions of internal/server/store/store.go, joinWorkspaceTx *)
(* and UpdateUserHandle, statement by statement.  The hub runs its own one *)
(* after the other; every media upload runs a join in a goroutine of its   *)
(* own.  They begin with pgx.TxOptions{}, so PostgreSQL runs them at READ  *)
(* COMMITTED: a statement sees what is committed when it starts, a row     *)
(* lock or a unique index entry of an open transaction makes it wait, and  *)
(* it looks again when that transaction has ended.                         *)
(*                                                                         *)
(* db is what is committed.  What an open transaction has written is in    *)
(* its record, and its commit puts it in db; a new user gets the next id   *)
(* there.  The selects of a workspace by name and of its code are one step *)
(* (neither ever changes), and last_seen_at is left out.  HandlePattern is *)
(* here any set of handles, as an upload's is not validated.               *)
(***************************************************************************)
EXTENDS Store

CONSTANTS
  HubTx,      \* the sequence of the hub's transactions
  UploadTx,   \* the transactions of uploads
  Request     \* per transaction, the set its request is drawn from:
              \* [kind |-> "join", ws, code, fp, handle], with a fingerprint no
              \* other upload has (its port is part of it), or
              \* [kind |-> "rename", of, handle]: the user that transaction of
              \* answered with gets another handle

HubTxs == {HubTx[i] : i \in DOMAIN HubTx}
Tx == HubTxs \cup UploadTx

ASSUME StoreTxAssumption ==
  /\ HubTx \in Seq(HubTxs)
  /\ \A t \in Tx : \A r \in Request[t] :
       \/ /\ r.kind = "join" /\ r.ws \in Text /\ r.code \in Text
          /\ r.handle \in HandlePattern \cup {Blank}
       \/ r.kind = "rename" /\ r.of \in Tx /\ r.handle \in HandlePattern
  /\ \A t, x \in Tx : t # x /\ ~({t, x} \subseteq HubTxs) =>
       \A r \in Request[t], q \in Request[x] : r.kind = "join" /\ q.kind = "join" => r.fp # q.fp

VARIABLES
  db,   \* the committed tables
  tx    \* per transaction: where it stands and what it has done

vars == <<db, tx>>

NoRequest == [kind |-> "none"]
NewTx == [at |-> "idle", req |-> NoRequest, user |-> NoUser, lock |-> NoUser, claim |-> Blank,
          creates |-> FALSE, known |-> FALSE, gone |-> {}]

Init == db = EmptyDB /\ tx = [t \in Tx |-> NewTx]

\* Without the deferred Rollback.
OpenUntilCommit(t) == tx[t].at \notin {"idle", "done"}
Open(t)  == tx[t].at \notin {"idle", "done", "failed"}
Ended(t) == tx[t].at \in {"done", "failed"}
Others(t) == {x \in Tx \ {t} : Open(x)}

\* Another transaction has the user's row locked.
RowLocked(t, u) == \E x \in Others(t) : tx[x].lock = u

\* Another transaction has inserted the handle, renames somebody to it, or has
\* the row locked that carries it.
OnlyClaimed(t, h) == \E x \in Others(t) : tx[x].claim = h
HandleBusy(t, h) ==
  \E x \in Others(t) : tx[x].claim = h \/ (tx[x].lock # NoUser /\ db.users[tx[x].lock] = h)

\* A statement of t that writes nothing to db, and what t has then.
Goes(t, new) == tx' = [tx EXCEPT ![t] = new] /\ UNCHANGED db
Step(t, at)  == [tx[t] EXCEPT !.at = at]
Fails(t)     == Goes(t, Step(t, "failed"))

\* The hub begins when its transaction before has ended.
Begin(t) ==
  /\ tx[t].at = "idle"
  /\ \A i \in DOMAIN HubTx : HubTx[i] = t => \A j \in 1..(i - 1) : Ended(HubTx[j])
  /\ \E r \in Request[t] :
       /\ r.kind = "rename" => tx[r.of].at = "done"
       /\ Goes(t, [NewTx EXCEPT !.req = r, !.at = IF r.kind = "join" THEN "workspace" ELSE "row"])

SelectWorkspace(t) ==
  /\ tx[t].at = "workspace"
  /\ LET r == tx[t].req
         found == KnownWorkspace(db, r.ws)
         wrong == \E w \in db.workspaces : w.name = r.ws /\ w.code # r.code
     IN \/ found /\ ~wrong /\ Goes(t, Step(t, "device"))
        \/ ~found /\ r.handle # Blank /\ Goes(t, [Step(t, "user") EXCEPT !.creates = TRUE])
        \/ wrong /\ Fails(t)
        \/ ~found /\ r.handle = Blank /\ Fails(t)

SelectDevice(t) ==
  /\ tx[t].at = "device"
  /\ LET r == tx[t].req
         found == KnownDevice(db, r.ws, r.fp)
     IN \/ found /\ Goes(t, [Step(t, "member") EXCEPT !.known = TRUE,
                                                     !.user = DeviceUser(db, r.ws, r.fp)])
        \/ ~found /\ r.handle # Blank /\ Goes(t, Step(t, "user"))
        \/ ~found /\ r.handle = Blank /\ Fails(t)

\* insert into users ... on conflict (handle) do update: the row is locked.
UpsertUser(t) ==
  /\ tx[t].at = "user"
  /\ LET h == tx[t].req.handle
         next == Step(t, IF tx[t].creates THEN "create" ELSE "delete")
     IN /\ ~HandleBusy(t, h)
        /\ \/ HasHandle(db, h)
              /\ Goes(t, [next EXCEPT !.user = UserOf(db, h), !.lock = UserOf(db, h)])
           \/ ~HasHandle(db, h) /\ Goes(t, [next EXCEPT !.claim = h])

\* insert into workspaces: the name is unique.
Creating(x, ws) ==
  tx[x].creates /\ tx[x].req.ws = ws /\ tx[x].at \in {"delete", "insert", "member", "commit"}
CreateWorkspace(t) ==
  /\ tx[t].at = "create"
  /\ ~\E x \in Others(t) : Creating(x, tx[t].req.ws)
  /\ IF KnownWorkspace(db, tx[t].req.ws) THEN Fails(t) ELSE Goes(t, Step(t, "delete"))

\* The rows of the device and of its user are deleted; the transaction of a
\* user who is new can only meet the device's.
RowsInTheWay(t) ==
  {d \in db.devices : d.ws = tx[t].req.ws /\ (d.fp = tx[t].req.fp \/ d.user = tx[t].user)}
DeleteDevices(t) ==
  /\ tx[t].at = "delete"
  /\ \A x \in Others(t) : tx[x].gone \cap RowsInTheWay(t) = {}
  /\ Goes(t, [Step(t, "insert") EXCEPT !.gone = RowsInTheWay(t)])

\* insert into workspace_device_accounts: both of its keys are unique.
InsertDevice(t) ==
  /\ tx[t].at = "insert"
  /\ IF RowsInTheWay(t) \subseteq tx[t].gone THEN Goes(t, Step(t, "member")) ELSE Fails(t)

InsertMember(t) == tx[t].at = "member" /\ Goes(t, Step(t, "commit"))

\* update users: the row first, then the index entry of the new handle.
LockRow(t) ==
  /\ tx[t].at = "row"
  /\ LET u == tx[tx[t].req.of].user
     IN ~RowLocked(t, u) /\ Goes(t, [Step(t, "handle") EXCEPT !.user = u, !.lock = u])

SetHandle(t) ==
  /\ tx[t].at = "handle"
  /\ LET h == tx[t].req.handle
     IN /\ ~HandleBusy(t, h)
        /\ IF HandleTaken(db, tx[t].user, h) THEN Fails(t)
           ELSE Goes(t, [Step(t, "owners") EXCEPT !.claim = h])

\* update workspaces: the rows of this owner that are committed by now.
UpdateOwners(t) ==
  /\ tx[t].at = "owners"
  /\ Goes(t, [Step(t, "commit") EXCEPT !.gone = {w \in db.workspaces : w.owner = tx[t].user}])

\* What the commit of a join leaves in the tables.
JoinedTables(t) ==
  LET r == tx[t].req
      withUser == IF tx[t].claim # Blank THEN [db EXCEPT !.users = Append(@, tx[t].claim)] ELSE db
      u == IF tx[t].claim # Blank THEN Len(withUser.users) ELSE tx[t].user
      withWorkspace == IF tx[t].creates THEN InsertWorkspace(withUser, r.ws, r.code, u) ELSE withUser
      withDevice == IF tx[t].known THEN withWorkspace
                    ELSE [withWorkspace EXCEPT !.devices = (@ \ tx[t].gone)
                                                 \cup {[ws |-> r.ws, fp |-> r.fp, user |-> u]}]
  IN AddWorkspaceMember(withDevice, r.ws, u)

\* What the commit of a rename leaves there.
RenamedTables(t) ==
  LET h == tx[t].req.handle
  IN [db EXCEPT !.users[tx[t].user] = h,
                !.workspaces = {IF w \in tx[t].gone THEN [w EXCEPT !.ownerHandle = h] ELSE w : w \in @}]

Commit(t) ==
  LET joins == tx[t].req.kind = "join" IN
  /\ tx[t].at = "commit"
  /\ db' = IF joins THEN JoinedTables(t) ELSE RenamedTables(t)
  /\ tx' = [tx EXCEPT ![t] = [Step(t, "done") EXCEPT
              !.user = IF tx[t].claim # Blank /\ joins THEN Len(db'.users) ELSE @]]

\* A query fails or the request's context is cancelled; Rollback is deferred.
Abort(t) == Open(t) /\ tx' = [tx EXCEPT ![t].at = "failed"] /\ UNCHANGED db

Run(t) ==
  \/ SelectWorkspace(t) \/ SelectDevice(t) \/ UpsertUser(t) \/ CreateWorkspace(t)
  \/ DeleteDevices(t) \/ InsertDevice(t) \/ InsertMember(t)
  \/ LockRow(t) \/ SetHandle(t) \/ UpdateOwners(t) \/ Commit(t)

Next == \E t \in Tx : Begin(t) \/ Run(t) \/ Abort(t)

Spec == Init /\ [][Next]_vars

\* A statement that need not wait is run.
FairSpec == Spec /\ \A t \in Tx : WF_vars(Run(t))
-----------------------------------------------------------------------------
(* Properties.                                                             *)

\* Whatever way the statements of joins and renames interleave and whichever
\* of them are rolled back, the tables change as if every one that committed
\* had run alone: nobody's device row, membership or owner_handle is lost or
\* given to another user.
JoinAs == {r \in UNION {Request[t] : t \in Tx} : r.kind = "join"}
RenameTo == {r.handle : r \in (UNION {Request[t] : t \in Tx}) \ JoinAs}
Atomic == INSTANCE AtomicStore
AtomicSpec == Atomic!Spec

\* No two transactions wait for each other: one that begins ends, whether or
\* not anything is cancelled.
TransactionsEnd == \A t \in Tx : Open(t) ~> Ended(t)
=============================================================================
