---------------------------- MODULE StoreTxProofs ----------------------------
(***************************************************************************)
(* The transactions of StoreTx, interleaved in any way, implement the      *)
(* joins and renames of AtomicStore: for any number of uploads, any        *)
(* sequence of the hub's transactions and any requests.                    *)
(*                                                                         *)
(* TxInv says what a transaction may rely on until it ends: what it has    *)
(* learned of the committed tables stays true (Facts), because two open    *)
(* transactions hold different rows, handles and new workspaces (Apart)    *)
(* and join from different devices.                                        *)
(***************************************************************************)
EXTENDS StoreTx, StoreProofs

Requests == UNION {Request[t] : t \in Tx}
TxFP     == {r.fp : r \in JoinAs}

JoinAt   == {"workspace", "device", "user", "create", "delete", "insert", "member", "commit"}
RenameAt == {"row", "handle", "owners", "commit"}

TxRecord ==
  [at : {"idle", "done", "failed"} \cup JoinAt \cup RenameAt, req : Requests \cup {NoRequest},
   user : Nat, lock : Nat, claim : HandlePattern \cup {Blank}, creates : BOOLEAN, known : BOOLEAN,
   gone : SUBSET (DeviceRow(TxFP) \cup WorkspaceRow)]

Active(T) == T.at \notin {"idle", "done", "failed"}
Joins(T)  == T.req.kind = "join"

\* The transaction has found or created the user of its handle.
Named(T) == T.at \in {"create", "delete", "insert"} \/ (T.at \in {"member", "commit"} /\ ~T.known)

InTheWay(T, row) == row.ws = T.req.ws /\ (row.fp = T.req.fp \/ row.user = T.user)

\* What holds of the user an upsert answered: the handle is inserted and nobody
\* else has it, or the row that has it is locked.
UserHeld(T, d) ==
  \/ /\ T.claim = T.req.handle /\ T.lock = NoUser /\ T.user = NoUser
     /\ ~HasHandle(d, T.req.handle)
  \/ /\ T.claim = Blank /\ T.lock = T.user
     /\ T.user \in DOMAIN d.users /\ d.users[T.user] = T.req.handle

\* What a join has learned of the committed tables stays true until it ends.
JoinFacts(T, d) ==
  /\ T.at \in JoinAt
  /\ T.at \in {"workspace", "device", "user"} =>
       T.claim = Blank /\ T.lock = NoUser /\ T.user = NoUser
  /\ T.at \notin {"member", "commit"} => ~T.known
  /\ T.at \in {"workspace", "device"} \/ T.known => ~T.creates
  /\ T.at = "create" => T.creates
  /\ T.at \in {"delete", "insert", "member", "commit"} /\ T.creates => ~KnownWorkspace(d, T.req.ws)
  /\ T.at # "workspace" /\ ~T.creates =>
       \E w \in d.workspaces : w.name = T.req.ws /\ w.code = T.req.code
  /\ T.at \notin {"workspace", "device"} /\ ~T.creates /\ ~T.known =>
       ~KnownDevice(d, T.req.ws, T.req.fp)
  /\ T.at = "user" \/ Named(T) => T.req.handle # Blank
  /\ Named(T) => UserHeld(T, d)
  /\ Named(T) /\ T.at \in {"insert", "member", "commit"} =>
       /\ \A row \in T.gone : InTheWay(T, row)
       /\ \A row \in d.devices : InTheWay(T, row) => row \in T.gone
  /\ T.known =>
       /\ T.claim = Blank /\ T.lock = NoUser
       /\ T.user \in DOMAIN d.users /\ <<T.req.ws, T.user>> \in d.members

\* A rename holds its user's row, then the new handle, and has reached every
\* workspace of that owner.
RenameFacts(T, d) ==
  /\ T.at \in RenameAt
  /\ T.at = "row" => T.lock = NoUser
  /\ T.at # "row" => T.lock = T.user /\ T.user \in DOMAIN d.users
  /\ T.at \in {"row", "handle"} => T.claim = Blank
  /\ T.at \in {"owners", "commit"} => T.claim = T.req.handle /\ ~HandleTaken(d, T.user, T.claim)
  /\ T.at = "commit" => T.gone = {w \in d.workspaces : w.owner = T.user}

Facts(T, d) ==
  /\ T.at = "idle" => T = NewTx
  /\ T.at = "done" => T.user \in DOMAIN d.users
  /\ Active(T) => IF Joins(T) THEN JoinFacts(T, d) ELSE RenameFacts(T, d)

\* Two open transactions have different rows locked, handles inserted and
\* workspaces created.
CreatesNow(T) == Joins(T) /\ T.creates /\ T.at \in {"delete", "insert", "member", "commit"}
Apart(T, X) ==
  /\ T.lock # NoUser => X.lock # T.lock
  /\ T.claim # Blank => X.claim # T.claim
  /\ CreatesNow(T) /\ CreatesNow(X) => T.req.ws # X.req.ws

\* Every device row belongs to a member of an existing workspace.
TablesOK(d) ==
  /\ d \in Database(TxFP) /\ DevicesKnown(d) /\ Consistent(d)
  /\ \A row \in d.devices : KnownWorkspace(d, row.ws) /\ <<row.ws, row.user>> \in d.members

\* The hub runs one transaction after the other.
HubInOrder ==
  \A i, j \in DOMAIN HubTx : i < j /\ tx[HubTx[j]].at # "idle" => Ended(HubTx[i])

\* An open transaction runs its request, and a rename is of a user that was joined.
Asked(t) ==
  /\ tx[t].req \in Request[t]
  /\ ~Joins(tx[t]) => tx[tx[t].req.of].at = "done"

TxInv ==
  /\ tx \in [Tx -> TxRecord]
  /\ \A t \in Tx : Active(tx[t]) => Asked(t)
  /\ \A t \in Tx : Facts(tx[t], db)
  /\ \A t, x \in Tx : t # x /\ Active(tx[t]) /\ Active(tx[x]) => Apart(tx[t], tx[x])
  /\ TablesOK(db)
  /\ HubInOrder
-----------------------------------------------------------------------------
(* Requests.                                                               *)

LEMMA RequestTyped ==
  ASSUME NEW t \in Tx, NEW r \in Request[t]
  PROVE  /\ r \in Requests
         /\ r.kind = "join" => /\ r \in JoinAs /\ r.fp \in TxFP /\ r.ws \in Text /\ r.code \in Text
                               /\ r.handle \in HandlePattern \cup {Blank}
         /\ r.kind # "join" => r.of \in Tx /\ r.handle \in HandlePattern /\ r.handle \in RenameTo
<1>1. r \in Requests
  BY DEF Requests
<1>2. ASSUME r.kind = "join"
      PROVE  r \in JoinAs /\ r.fp \in TxFP
  <2>1. r \in JoinAs
    BY <1>1, <1>2 DEF JoinAs, Requests
  <2> QED BY <2>1 DEF TxFP
<1>3. ASSUME r.kind # "join"
      PROVE  r.handle \in RenameTo
  <2>1. r \in Requests \ JoinAs
    BY <1>1, <1>3 DEF JoinAs
  <2> QED BY <2>1 DEF RenameTo, Requests
<1> QED BY <1>1, <1>2, <1>3, StoreTxAssumption DEF StoreTxAssumption

\* Only one transaction of the hub is open at a time.
LEMMA OneHubTx ==
  ASSUME HubInOrder, NEW t \in HubTxs, NEW x \in HubTxs, t # x, Active(tx[t]), Active(tx[x])
  PROVE  FALSE
<1>1. PICK i \in DOMAIN HubTx : t = HubTx[i]
  BY DEF HubTxs
<1>2. PICK j \in DOMAIN HubTx : x = HubTx[j]
  BY DEF HubTxs
<1>3. i \in Nat /\ j \in Nat /\ i # j
  BY <1>1, <1>2, StoreTxAssumption DEF StoreTxAssumption
<1>4. ~(i < j)
  BY <1>1, <1>2 DEF HubInOrder, Active, Ended
<1>5. ~(j < i)
  BY <1>1, <1>2 DEF HubInOrder, Active, Ended
<1> QED BY <1>3, <1>4, <1>5

\* Two open joins are from different devices.
LEMMA DevicesDiffer ==
  ASSUME TxInv, NEW t \in Tx, NEW x \in Tx, t # x, Active(tx[t]), Active(tx[x]),
         Joins(tx[t]), Joins(tx[x])
  PROVE  tx[t].req.fp # tx[x].req.fp
<1>1. ~({t, x} \subseteq HubTxs)
  BY OneHubTx DEF TxInv
<1>2. tx[t].req \in Request[t] /\ tx[x].req \in Request[x]
  BY DEF TxInv, Asked
<1> QED BY <1>1, <1>2, StoreTxAssumption DEF StoreTxAssumption, Joins
-----------------------------------------------------------------------------
(* One transaction moves.                                                  *)

LEMMA ApartSymmetric ==
  ASSUME NEW T, NEW X, Apart(T, X)
  PROVE  Apart(X, T)
  BY DEF Apart

\* What a step of t must show: of its new record, and of what the others rely on.
LEMMA Moves ==
  ASSUME TxInv, NEW t \in Tx, NEW N \in TxRecord, tx' = [tx EXCEPT ![t] = N],
         ~Ended(t), N.at # "idle",
         TablesOK(db'), Facts(N, db'),
         Active(N) => N.req \in Request[t] /\ (~Joins(N) => tx[N.req.of].at = "done"),
         \A x \in Tx \ {t} : Facts(tx[x], db'),
         \A x \in Tx \ {t} : Active(N) /\ Active(tx[x]) => Apart(N, tx[x]),
         tx[t].at = "idle" =>
           \A i \in DOMAIN HubTx : HubTx[i] = t => \A j \in 1..(i - 1) : Ended(HubTx[j])
  PROVE  TxInv'
<1>1. tx' \in [Tx -> TxRecord] /\ tx'[t] = N /\ \A x \in Tx \ {t} : tx'[x] = tx[x]
  BY DEF TxInv
<1>2. ASSUME NEW x \in Tx, Active(tx'[x])
      PROVE  Asked(x)'
  <2>1. tx'[x].req \in Request[x] /\ (~Joins(tx'[x]) => tx[tx'[x].req.of].at = "done")
    BY <1>1, <1>2 DEF TxInv, Asked
  <2>2. ASSUME ~Joins(tx'[x])
        PROVE  tx'[tx'[x].req.of].at = "done"
    <3>1. tx'[x].req.of \in Tx
      BY <2>1, <2>2, RequestTyped DEF Joins
    <3>2. tx'[x].req.of # t
      BY <2>1, <2>2 DEF Ended
    <3> QED BY <1>1, <2>1, <2>2, <3>1, <3>2
  <2> QED BY <2>1, <2>2 DEF Asked
<1>3. \A x \in Tx : Facts(tx'[x], db')
  BY <1>1
<1>4. ASSUME NEW x \in Tx, NEW y \in Tx, x # y, Active(tx'[x]), Active(tx'[y])
      PROVE  Apart(tx'[x], tx'[y])
  BY <1>1, <1>4, ApartSymmetric DEF TxInv
<1>5. HubInOrder'
  <2> SUFFICES ASSUME NEW i \in DOMAIN HubTx, NEW j \in DOMAIN HubTx, i < j,
                      tx'[HubTx[j]].at # "idle"
               PROVE  Ended(HubTx[i])'
    BY DEF HubInOrder
  <2>1. i \in Nat /\ j \in Nat /\ i >= 1 /\ HubTx[i] \in Tx /\ HubTx[j] \in Tx
    BY StoreTxAssumption DEF StoreTxAssumption, Tx, HubTxs
  <2>2. Ended(HubTx[i])
    <3>1. CASE tx[HubTx[j]].at # "idle"
      BY <3>1 DEF TxInv, HubInOrder
    <3>2. CASE tx[HubTx[j]].at = "idle"
      <4>1. HubTx[j] = t
        BY <1>1, <2>1, <3>2
      <4>2. i \in 1..(j - 1)
        BY <2>1
      <4> QED BY <3>2, <4>1, <4>2
    <3> QED BY <3>1, <3>2
  <2>3. HubTx[i] # t
    BY <2>2
  <2> QED BY <1>1, <2>1, <2>2, <2>3 DEF Ended
<1> QED BY <1>1, <1>2, <1>3, <1>4, <1>5 DEF TxInv

\* A statement that leaves the committed tables alone.
LEMMA Statement ==
  ASSUME TxInv, NEW t \in Tx, Active(tx[t]), NEW N \in TxRecord, Goes(t, N),
         N.at # "idle", N.req = tx[t].req, Facts(N, db),
         \A x \in Others(t) : Active(N) => Apart(N, tx[x])
  PROVE  TxInv'
<1>1. tx' = [tx EXCEPT ![t] = N] /\ db' = db
  BY DEF Goes
<1>2. ~Ended(t) /\ tx[t].at # "idle" /\ Asked(t)
  BY DEF Active, Ended, TxInv
<1>3. \A x \in Tx \ {t} : Active(tx[x]) => x \in Others(t)
  BY DEF Active, Others, Open
<1>4. Joins(N) <=> Joins(tx[t])
  BY DEF Joins
<1>5. Active(N) => N.req \in Request[t] /\ (~Joins(N) => tx[N.req.of].at = "done")
  BY <1>2, <1>4 DEF Asked
<1>6. TablesOK(db') /\ Facts(N, db') /\ \A x \in Tx \ {t} : Facts(tx[x], db')
  BY <1>1 DEF TxInv
<1>7. \A x \in Tx \ {t} : Active(N) /\ Active(tx[x]) => Apart(N, tx[x])
  BY <1>3
<1> HIDE DEF TxInv
<1> QED BY <1>1, <1>2, <1>5, <1>6, <1>7, Moves

\* The transaction is over without a trace.
LEMMA Failing ==
  ASSUME TxInv, NEW t \in Tx, Active(tx[t]), Fails(t)
  PROVE  TxInv'
<1> DEFINE N == Step(t, "failed")
<1>1. N \in TxRecord /\ N.at = "failed" /\ N.req = tx[t].req
  BY DEF TxInv, TxRecord, Step
<1>2. ~Active(N) /\ Facts(N, db) /\ Goes(t, N)
  BY <1>1 DEF Active, Facts, Fails
<1> HIDE DEF N
<1> QED BY <1>1, <1>2, Statement
-----------------------------------------------------------------------------
(* The statements, one by one.                                             *)

\* What is known of an open transaction's record and of the tables.
LEMMA Opened ==
  ASSUME TxInv, NEW t \in Tx, Active(tx[t])
  PROVE  /\ tx[t] \in TxRecord /\ Asked(t)
         /\ Joins(tx[t]) => JoinFacts(tx[t], db)
         /\ ~Joins(tx[t]) => RenameFacts(tx[t], db)
         /\ \A x \in Others(t) : tx[x] \in TxRecord /\ Apart(tx[t], tx[x])
  BY DEF TxInv, Facts, Others, Open, Active

LEMMA SelectWorkspaceStep ==
  ASSUME TxInv, NEW t \in Tx, SelectWorkspace(t)
  PROVE  TxInv'
<1> DEFINE T == tx[t]
<1>1. T.at = "workspace" /\ Active(T)
  BY DEF SelectWorkspace, Active
<1>2. T \in TxRecord /\ Joins(T) /\ JoinFacts(T, db) /\ \A x \in Others(t) : Apart(T, tx[x])
  BY <1>1, Opened DEF RenameFacts, RenameAt
<1>3. CASE Goes(t, Step(t, "device")) /\ KnownWorkspace(db, T.req.ws)
           /\ ~\E w \in db.workspaces : w.name = T.req.ws /\ w.code # T.req.code
  <2> DEFINE N == Step(t, "device")
  <2>1. N \in TxRecord /\ N = [T EXCEPT !.at = "device"]
    BY <1>2 DEF Step, TxRecord, JoinAt
  <2>2. /\ N.at = "device" /\ N.req = T.req /\ N.user = T.user /\ N.lock = T.lock
        /\ N.claim = T.claim /\ N.creates = T.creates /\ N.known = T.known
    BY <1>2, <2>1 DEF TxRecord
  <2>3. Goes(t, N)
    BY <1>3
  <2> HIDE DEF N
  <2>4. JoinFacts(N, db)
    BY <1>1, <1>2, <1>3, <2>2 DEF JoinFacts, JoinAt, Named, KnownWorkspace
  <2>5. Facts(N, db) /\ \A x \in Others(t) : Apart(N, tx[x])
    BY <1>2, <2>2, <2>4 DEF Facts, Joins, Apart, CreatesNow
  <2> QED BY <1>1, <2>1, <2>2, <2>3, <2>5, Statement
<1>4. CASE T.req.handle # Blank /\ Goes(t, [Step(t, "user") EXCEPT !.creates = TRUE])
  <2> DEFINE N == [Step(t, "user") EXCEPT !.creates = TRUE]
  <2>1. N \in TxRecord /\ N = [T EXCEPT !.at = "user", !.creates = TRUE]
    BY <1>2 DEF Step, TxRecord, JoinAt
  <2>2. /\ N.at = "user" /\ N.req = T.req /\ N.user = T.user /\ N.lock = T.lock
        /\ N.claim = T.claim /\ N.creates = TRUE /\ N.known = T.known
    BY <1>2, <2>1 DEF TxRecord
  <2>3. Goes(t, N)
    BY <1>4
  <2> HIDE DEF N
  <2>4. JoinFacts(N, db)
    BY <1>1, <1>2, <1>4, <2>2 DEF JoinFacts, JoinAt, Named
  <2>5. Facts(N, db) /\ \A x \in Others(t) : Apart(N, tx[x])
    BY <1>2, <2>2, <2>4 DEF Facts, Joins, Apart, CreatesNow
  <2> QED BY <1>1, <2>1, <2>2, <2>3, <2>5, Statement
<1>5. CASE Fails(t)
  BY <1>1, <1>5, Failing
<1> QED BY <1>3, <1>4, <1>5 DEF SelectWorkspace

LEMMA SelectDeviceStep ==
  ASSUME TxInv, NEW t \in Tx, SelectDevice(t)
  PROVE  TxInv'
<1> DEFINE T == tx[t]
           r == T.req
<1>1. T.at = "device" /\ Active(T)
  BY DEF SelectDevice, Active
<1>2. T \in TxRecord /\ Joins(T) /\ JoinFacts(T, db) /\ \A x \in Others(t) : Apart(T, tx[x])
  BY <1>1, Opened DEF RenameFacts, RenameAt
<1>3. CASE KnownDevice(db, r.ws, r.fp)
           /\ Goes(t, [Step(t, "member") EXCEPT !.known = TRUE, !.user = DeviceUser(db, r.ws, r.fp)])
  <2> DEFINE u == DeviceUser(db, r.ws, r.fp)
             N == [Step(t, "member") EXCEPT !.known = TRUE, !.user = u]
  <2>1. u \in DOMAIN db.users /\ <<r.ws, u>> \in db.members
    <3>1. \E row \in db.devices : row.ws = r.ws /\ row.fp = r.fp
      BY <1>3 DEF KnownDevice
    <3>2. \A row \in db.devices : row.user \in DOMAIN db.users /\ <<row.ws, row.user>> \in db.members
      BY DEF TxInv, TablesOK, DevicesKnown
    <3> QED BY <3>1, <3>2 DEF DeviceUser
  <2>2. db.users \in Seq(HandlePattern)
    BY DEF TxInv, TablesOK, Database
  <2>3. u \in Nat
    BY <2>1, <2>2
  <2> HIDE DEF u
  <2>4. N \in TxRecord /\ N = [T EXCEPT !.at = "member", !.known = TRUE, !.user = u]
    BY <1>2, <2>3 DEF Step, TxRecord, JoinAt
  <2>5. /\ N.at = "member" /\ N.req = T.req /\ N.user = u /\ N.lock = T.lock
        /\ N.claim = T.claim /\ N.creates = T.creates /\ N.known = TRUE
    BY <1>2, <2>4 DEF TxRecord
  <2>6. Goes(t, N)
    BY <1>3 DEF u
  <2> HIDE DEF N
  <2>7. JoinFacts(N, db)
    BY <1>1, <1>2, <2>1, <2>5 DEF JoinFacts, JoinAt, Named
  <2>8. Facts(N, db) /\ \A x \in Others(t) : Apart(N, tx[x])
    BY <1>1, <1>2, <2>5, <2>7 DEF Facts, Joins, Apart, CreatesNow, JoinFacts
  <2> QED BY <1>1, <2>4, <2>5, <2>6, <2>8, Statement
<1>4. CASE /\ ~KnownDevice(db, r.ws, r.fp) /\ r.handle # Blank
           /\ Goes(t, Step(t, "user"))
  <2> DEFINE N == Step(t, "user")
  <2>1. N \in TxRecord /\ N = [T EXCEPT !.at = "user"]
    BY <1>2 DEF Step, TxRecord, JoinAt
  <2>2. /\ N.at = "user" /\ N.req = T.req /\ N.user = T.user /\ N.lock = T.lock
        /\ N.claim = T.claim /\ N.creates = T.creates /\ N.known = T.known
    BY <1>2, <2>1 DEF TxRecord
  <2>3. Goes(t, N)
    BY <1>4
  <2> HIDE DEF N
  <2>4. JoinFacts(N, db)
    BY <1>1, <1>2, <1>4, <2>2 DEF JoinFacts, JoinAt, Named
  <2>5. Facts(N, db) /\ \A x \in Others(t) : Apart(N, tx[x])
    BY <1>2, <2>2, <2>4 DEF Facts, Joins, Apart, CreatesNow
  <2> QED BY <1>1, <2>1, <2>2, <2>3, <2>5, Statement
<1>5. CASE Fails(t)
  BY <1>1, <1>5, Failing
<1> QED BY <1>3, <1>4, <1>5 DEF SelectDevice

LEMMA UpsertUserStep ==
  ASSUME TxInv, NEW t \in Tx, UpsertUser(t)
  PROVE  TxInv'
<1> DEFINE T == tx[t]
           h == T.req.handle
           next == IF T.creates THEN "create" ELSE "delete"
<1>1. T.at = "user" /\ Active(T) /\ ~HandleBusy(t, h)
  BY DEF UpsertUser, Active
<1>2. T \in TxRecord /\ Joins(T) /\ JoinFacts(T, db) /\ Asked(t)
  BY <1>1, Opened DEF RenameFacts, RenameAt
<1>3. h \in HandlePattern /\ h # Blank
  BY <1>1, <1>2, RequestTyped DEF Asked, Joins, JoinFacts
<1>4. T.claim = Blank /\ T.lock = NoUser /\ T.user = NoUser /\ ~T.known
  BY <1>1, <1>2 DEF JoinFacts
<1>5. \A x \in Others(t) : tx[x].claim # h /\ (tx[x].lock # NoUser => db.users[tx[x].lock] # h)
  BY <1>1 DEF HandleBusy
<1> HIDE DEF next
<1>6. next \in {"create", "delete"} /\ (next = "create" <=> T.creates)
  BY <1>2 DEF next, TxRecord
<1>7. CASE /\ HasHandle(db, h)
           /\ Goes(t, [Step(t, next) EXCEPT !.user = UserOf(db, h), !.lock = UserOf(db, h)])
  <2> DEFINE u == UserOf(db, h)
             N == [Step(t, next) EXCEPT !.user = u, !.lock = u]
  <2>1. u \in DOMAIN db.users /\ db.users[u] = h
    BY <1>7 DEF HasHandle, UserOf
  <2>2. db.users \in Seq(HandlePattern)
    BY DEF TxInv, TablesOK, Database
  <2>3. u \in Nat
    BY <2>1, <2>2
  <2> HIDE DEF u
  <2>4. N \in TxRecord /\ N = [T EXCEPT !.at = next, !.user = u, !.lock = u]
    BY <1>2, <1>6, <2>3 DEF Step, TxRecord, JoinAt
  <2>5. /\ N.at = next /\ N.req = T.req /\ N.user = u /\ N.lock = u
        /\ N.claim = Blank /\ N.creates = T.creates /\ N.known = T.known
    BY <1>2, <1>4, <2>4 DEF TxRecord
  <2>6. Goes(t, N)
    BY <1>7 DEF u
  <2> HIDE DEF N
  <2>7. JoinFacts(N, db)
    BY <1>1, <1>2, <1>3, <1>4, <1>6, <2>1, <2>5 DEF JoinFacts, JoinAt, Named, UserHeld
  <2>8. Facts(N, db)
    BY <1>2, <1>6, <2>5, <2>7 DEF Facts, Joins
  <2>9. \A x \in Others(t) : Apart(N, tx[x])
    BY <1>5, <1>6, <2>1, <2>5 DEF Apart, CreatesNow
  <2> QED BY <1>1, <1>6, <2>4, <2>5, <2>6, <2>8, <2>9, Statement
<1>8. CASE ~HasHandle(db, h) /\ Goes(t, [Step(t, next) EXCEPT !.claim = h])
  <2> DEFINE N == [Step(t, next) EXCEPT !.claim = h]
  <2>1. N \in TxRecord /\ N = [T EXCEPT !.at = next, !.claim = h]
    BY <1>2, <1>3, <1>6 DEF Step, TxRecord, JoinAt
  <2>2. /\ N.at = next /\ N.req = T.req /\ N.user = NoUser /\ N.lock = NoUser
        /\ N.claim = h /\ N.creates = T.creates /\ N.known = T.known
    BY <1>2, <1>4, <2>1 DEF TxRecord
  <2>3. Goes(t, N)
    BY <1>8
  <2> HIDE DEF N
  <2>4. JoinFacts(N, db)
    BY <1>1, <1>2, <1>3, <1>4, <1>6, <1>8, <2>2 DEF JoinFacts, JoinAt, Named, UserHeld
  <2>5. Facts(N, db)
    BY <1>2, <1>6, <2>2, <2>4 DEF Facts, Joins
  <2>6. \A x \in Others(t) : Apart(N, tx[x])
    BY <1>5, <1>6, <2>2 DEF Apart, CreatesNow
  <2> QED BY <1>1, <1>6, <2>1, <2>2, <2>3, <2>5, <2>6, Statement
<1> QED BY <1>7, <1>8 DEF UpsertUser, next

LEMMA CreateWorkspaceStep ==
  ASSUME TxInv, NEW t \in Tx, CreateWorkspace(t)
  PROVE  TxInv'
<1> DEFINE T == tx[t]
<1>1. T.at = "create" /\ Active(T) /\ ~\E x \in Others(t) : Creating(x, T.req.ws)
  BY DEF CreateWorkspace, Active
<1>2. /\ T \in TxRecord /\ Joins(T) /\ JoinFacts(T, db)
      /\ \A x \in Others(t) : Apart(T, tx[x])
  BY <1>1, Opened DEF RenameFacts, RenameAt
<1>3. CASE ~KnownWorkspace(db, T.req.ws) /\ Goes(t, Step(t, "delete"))
  <2> DEFINE N == Step(t, "delete")
  <2>1. N \in TxRecord /\ N = [T EXCEPT !.at = "delete"]
    BY <1>2 DEF Step, TxRecord, JoinAt
  <2>2. /\ N.at = "delete" /\ N.req = T.req /\ N.user = T.user /\ N.lock = T.lock
        /\ N.claim = T.claim /\ N.creates = T.creates /\ N.known = T.known
    BY <1>2, <2>1 DEF TxRecord
  <2>3. Goes(t, N)
    BY <1>3
  <2> HIDE DEF N
  <2>4. JoinFacts(N, db)
    BY <1>1, <1>2, <1>3, <2>2 DEF JoinFacts, JoinAt, Named, UserHeld
  <2>5. Facts(N, db) /\ \A x \in Others(t) : Apart(N, tx[x])
    BY <1>1, <1>2, <2>2, <2>4 DEF Facts, Joins, Apart, CreatesNow, Creating
  <2> QED BY <1>1, <2>1, <2>2, <2>3, <2>5, Statement
<1>4. CASE Fails(t)
  BY <1>1, <1>4, Failing
<1> QED BY <1>3, <1>4 DEF CreateWorkspace

LEMMA DeleteDevicesStep ==
  ASSUME TxInv, NEW t \in Tx, DeleteDevices(t)
  PROVE  TxInv'
<1> DEFINE T == tx[t]
           gone == RowsInTheWay(t)
           N == [Step(t, "insert") EXCEPT !.gone = gone]
<1>1. T.at = "delete" /\ Active(T) /\ Goes(t, N)
  BY DEF DeleteDevices, Active
<1>2. /\ T \in TxRecord /\ Joins(T) /\ JoinFacts(T, db)
      /\ \A x \in Others(t) : Apart(T, tx[x])
  BY <1>1, Opened DEF RenameFacts, RenameAt
<1>3. gone = {row \in db.devices : InTheWay(T, row)}
  BY DEF RowsInTheWay, InTheWay
<1>4. gone \subseteq DeviceRow(TxFP)
  BY <1>3 DEF TxInv, TablesOK, Database
<1> HIDE DEF gone
<1>5. N \in TxRecord /\ N = [T EXCEPT !.at = "insert", !.gone = gone]
  BY <1>2, <1>4 DEF Step, TxRecord, JoinAt
<1>6. /\ N.at = "insert" /\ N.req = T.req /\ N.user = T.user /\ N.lock = T.lock
      /\ N.claim = T.claim /\ N.creates = T.creates /\ N.known = T.known /\ N.gone = gone
  BY <1>2, <1>5 DEF TxRecord
<1> HIDE DEF N
<1>7. JoinFacts(N, db)
  BY <1>1, <1>2, <1>3, <1>6 DEF JoinFacts, JoinAt, Named, UserHeld, InTheWay
<1>8. Facts(N, db) /\ \A x \in Others(t) : Apart(N, tx[x])
  BY <1>1, <1>2, <1>6, <1>7 DEF Facts, Joins, Apart, CreatesNow
<1> QED BY <1>1, <1>5, <1>6, <1>8, Statement

LEMMA InsertDeviceStep ==
  ASSUME TxInv, NEW t \in Tx, InsertDevice(t)
  PROVE  TxInv'
<1> DEFINE T == tx[t]
<1>1. T.at = "insert" /\ Active(T)
  BY DEF InsertDevice, Active
<1>2. /\ T \in TxRecord /\ Joins(T) /\ JoinFacts(T, db)
      /\ \A x \in Others(t) : Apart(T, tx[x])
  BY <1>1, Opened DEF RenameFacts, RenameAt
<1>3. CASE Goes(t, Step(t, "member"))
  <2> DEFINE N == Step(t, "member")
  <2>1. N \in TxRecord /\ N = [T EXCEPT !.at = "member"]
    BY <1>2 DEF Step, TxRecord, JoinAt
  <2>2. /\ N.at = "member" /\ N.req = T.req /\ N.user = T.user /\ N.lock = T.lock
        /\ N.claim = T.claim /\ N.creates = T.creates /\ N.known = T.known /\ N.gone = T.gone
    BY <1>2, <2>1 DEF TxRecord
  <2>3. Goes(t, N)
    BY <1>3
  <2> HIDE DEF N
  <2>4. JoinFacts(N, db)
    BY <1>1, <1>2, <2>2 DEF JoinFacts, JoinAt, Named, UserHeld, InTheWay
  <2>5. Facts(N, db) /\ \A x \in Others(t) : Apart(N, tx[x])
    BY <1>1, <1>2, <2>2, <2>4 DEF Facts, Joins, Apart, CreatesNow
  <2> QED BY <1>1, <2>1, <2>2, <2>3, <2>5, Statement
<1>4. CASE Fails(t)
  BY <1>1, <1>4, Failing
<1> QED BY <1>3, <1>4 DEF InsertDevice

LEMMA InsertMemberStep ==
  ASSUME TxInv, NEW t \in Tx, InsertMember(t)
  PROVE  TxInv'
<1> DEFINE T == tx[t]
           N == Step(t, "commit")
<1>1. T.at = "member" /\ Active(T) /\ Goes(t, N)
  BY DEF InsertMember, Active
<1>2. /\ T \in TxRecord /\ Joins(T) /\ JoinFacts(T, db)
      /\ \A x \in Others(t) : Apart(T, tx[x])
  BY <1>1, Opened DEF RenameFacts, RenameAt
<1>3. N \in TxRecord /\ N = [T EXCEPT !.at = "commit"]
  BY <1>2 DEF Step, TxRecord, JoinAt
<1>4. /\ N.at = "commit" /\ N.req = T.req /\ N.user = T.user /\ N.lock = T.lock
      /\ N.claim = T.claim /\ N.creates = T.creates /\ N.known = T.known /\ N.gone = T.gone
  BY <1>2, <1>3 DEF TxRecord
<1> HIDE DEF N
<1>5. JoinFacts(N, db)
  BY <1>1, <1>2, <1>4 DEF JoinFacts, JoinAt, Named, UserHeld, InTheWay
<1>6. Facts(N, db) /\ \A x \in Others(t) : Apart(N, tx[x])
  BY <1>1, <1>2, <1>4, <1>5 DEF Facts, Joins, Apart, CreatesNow
<1> QED BY <1>1, <1>3, <1>4, <1>6, Statement

LEMMA LockRowStep ==
  ASSUME TxInv, NEW t \in Tx, LockRow(t)
  PROVE  TxInv'
<1> DEFINE T == tx[t]
           u == tx[T.req.of].user
           N == [Step(t, "handle") EXCEPT !.user = u, !.lock = u]
<1>1. T.at = "row" /\ Active(T) /\ Goes(t, N) /\ ~RowLocked(t, u)
  BY DEF LockRow, Active
<1>2. /\ T \in TxRecord /\ ~Joins(T) /\ RenameFacts(T, db) /\ Asked(t)
      /\ \A x \in Others(t) : Apart(T, tx[x])
  BY <1>1, Opened DEF JoinFacts, JoinAt
<1>3. u \in DOMAIN db.users
  <2>1. T.req.of \in Tx /\ tx[T.req.of].at = "done"
    BY <1>2, RequestTyped DEF Asked, Joins
  <2> QED BY <2>1 DEF TxInv, Facts
<1>4. u \in Nat
  <2>1. db.users \in Seq(HandlePattern)
    BY DEF TxInv, TablesOK, Database
  <2> QED BY <1>3, <2>1
<1>5. \A x \in Others(t) : tx[x].lock # u
  BY <1>1 DEF RowLocked
<1> HIDE DEF u
<1>6. N \in TxRecord /\ N = [T EXCEPT !.at = "handle", !.user = u, !.lock = u]
  BY <1>2, <1>4 DEF Step, TxRecord, RenameAt
<1>7. /\ N.at = "handle" /\ N.req = T.req /\ N.user = u /\ N.lock = u
      /\ N.claim = T.claim
  BY <1>2, <1>6 DEF TxRecord
<1> HIDE DEF N
<1>8. RenameFacts(N, db) /\ ~Joins(N)
  BY <1>1, <1>2, <1>3, <1>7 DEF RenameFacts, RenameAt, Joins
<1>9. Facts(N, db) /\ \A x \in Others(t) : Apart(N, tx[x])
  BY <1>1, <1>2, <1>5, <1>7, <1>8 DEF Facts, Apart, CreatesNow
<1> QED BY <1>1, <1>6, <1>7, <1>9, Statement

LEMMA SetHandleStep ==
  ASSUME TxInv, NEW t \in Tx, SetHandle(t)
  PROVE  TxInv'
<1> DEFINE T == tx[t]
           h == T.req.handle
<1>1. T.at = "handle" /\ Active(T) /\ ~HandleBusy(t, h)
  BY DEF SetHandle, Active
<1>2. /\ T \in TxRecord /\ ~Joins(T) /\ RenameFacts(T, db) /\ Asked(t)
      /\ \A x \in Others(t) : Apart(T, tx[x])
  BY <1>1, Opened DEF JoinFacts, JoinAt
<1>3. h \in HandlePattern
  BY <1>2, RequestTyped DEF Asked, Joins
<1>4. \A x \in Others(t) : tx[x].claim # h
  BY <1>1 DEF HandleBusy
<1>5. CASE /\ ~HandleTaken(db, T.user, h)
           /\ Goes(t, [Step(t, "owners") EXCEPT !.claim = h])
  <2> DEFINE N == [Step(t, "owners") EXCEPT !.claim = h]
  <2>1. N \in TxRecord /\ N = [T EXCEPT !.at = "owners", !.claim = h]
    BY <1>2, <1>3 DEF Step, TxRecord, RenameAt
  <2>2. /\ N.at = "owners" /\ N.req = T.req /\ N.user = T.user /\ N.lock = T.lock
        /\ N.claim = h
    BY <1>2, <2>1 DEF TxRecord
  <2>3. Goes(t, N)
    BY <1>5
  <2> HIDE DEF N
  <2>4. RenameFacts(N, db) /\ ~Joins(N)
    BY <1>1, <1>2, <1>5, <2>2 DEF RenameFacts, RenameAt, Joins
  <2>5. Facts(N, db) /\ \A x \in Others(t) : Apart(N, tx[x])
    BY <1>2, <1>4, <2>2, <2>4 DEF Facts, Apart, CreatesNow
  <2> QED BY <1>1, <2>1, <2>2, <2>3, <2>5, Statement
<1>6. CASE Fails(t)
  BY <1>1, <1>6, Failing
<1> QED BY <1>5, <1>6 DEF SetHandle

LEMMA UpdateOwnersStep ==
  ASSUME TxInv, NEW t \in Tx, UpdateOwners(t)
  PROVE  TxInv'
<1> DEFINE T == tx[t]
           gone == {w \in db.workspaces : w.owner = T.user}
           N == [Step(t, "commit") EXCEPT !.gone = gone]
<1>1. T.at = "owners" /\ Active(T) /\ Goes(t, N)
  BY DEF UpdateOwners, Active
<1>2. /\ T \in TxRecord /\ ~Joins(T) /\ RenameFacts(T, db)
      /\ \A x \in Others(t) : Apart(T, tx[x])
  BY <1>1, Opened DEF JoinFacts, JoinAt
<1>3. gone \subseteq WorkspaceRow
  BY DEF TxInv, TablesOK, Database
<1> HIDE DEF gone
<1>4. N \in TxRecord /\ N = [T EXCEPT !.at = "commit", !.gone = gone]
  BY <1>2, <1>3 DEF Step, TxRecord, RenameAt
<1>5. /\ N.at = "commit" /\ N.req = T.req /\ N.user = T.user /\ N.lock = T.lock
      /\ N.claim = T.claim /\ N.gone = gone
  BY <1>2, <1>4 DEF TxRecord
<1> HIDE DEF N
<1>6. RenameFacts(N, db) /\ ~Joins(N)
  BY <1>1, <1>2, <1>5 DEF RenameFacts, RenameAt, Joins, gone
<1>7. Facts(N, db) /\ \A x \in Others(t) : Apart(N, tx[x])
  BY <1>2, <1>5, <1>6 DEF Facts, Apart, CreatesNow
<1> QED BY <1>1, <1>4, <1>5, <1>7, Statement

LEMMA AbortStep ==
  ASSUME TxInv, NEW t \in Tx, Abort(t)
  PROVE  TxInv'
<1>1. Active(tx[t]) /\ tx' = [tx EXCEPT ![t].at = "failed"] /\ UNCHANGED db
  BY DEF Abort, Open, Active
<1>2. tx' = [tx EXCEPT ![t] = Step(t, "failed")]
  BY <1>1 DEF Step, TxInv
<1>3. Fails(t)
  BY <1>1, <1>2 DEF Fails, Goes
<1> QED BY <1>1, <1>3, Failing

LEMMA BeginStep ==
  ASSUME TxInv, NEW t \in Tx, Begin(t)
  PROVE  TxInv'
<1>1. tx[t].at = "idle" /\ ~Ended(t)
  BY DEF Begin, Ended
<1>2. \A i \in DOMAIN HubTx : HubTx[i] = t => \A j \in 1..(i - 1) : Ended(HubTx[j])
  BY DEF Begin
<1>3. PICK r \in Request[t] :
        /\ r.kind = "rename" => tx[r.of].at = "done"
        /\ Goes(t, [NewTx EXCEPT !.req = r, !.at = IF r.kind = "join" THEN "workspace" ELSE "row"])
  BY DEF Begin
<1> DEFINE N == [NewTx EXCEPT !.req = r, !.at = IF r.kind = "join" THEN "workspace" ELSE "row"]
<1>4. r \in Requests /\ r.kind \in {"join", "rename"}
  BY RequestTyped, StoreTxAssumption DEF StoreTxAssumption
<1>5. N \in TxRecord
  BY <1>4 DEF NewTx, TxRecord, JoinAt, RenameAt, NoUser
<1>6. /\ N.req = r /\ N.at = (IF r.kind = "join" THEN "workspace" ELSE "row")
      /\ N.user = NoUser /\ N.lock = NoUser /\ N.claim = Blank
      /\ N.creates = FALSE /\ N.known = FALSE
  BY DEF NewTx
<1>7. tx' = [tx EXCEPT ![t] = N] /\ db' = db
  BY <1>3 DEF Goes
<1> HIDE DEF N
<1>8. Facts(N, db)
  BY <1>6 DEF Facts, Joins, JoinFacts, RenameFacts, JoinAt, RenameAt, Named
<1>9. \A x \in Tx \ {t} : Apart(N, tx[x])
  BY <1>6 DEF Apart, CreatesNow
<1>10. TablesOK(db') /\ Facts(N, db') /\ \A x \in Tx \ {t} : Facts(tx[x], db')
  BY <1>7, <1>8 DEF TxInv
<1>11. N.at # "idle" /\ N.req \in Request[t] /\ (~Joins(N) => tx[N.req.of].at = "done")
  BY <1>3, <1>4, <1>6 DEF Joins
<1> HIDE DEF TxInv
<1> QED BY <1>1, <1>2, <1>5, <1>7, <1>9, <1>10, <1>11, Moves
-----------------------------------------------------------------------------
(* What a commit does to what the others have learned.                     *)

\* A join commits: nobody's row of users changes, a new user has the handle the
\* transaction inserted, a new workspace the name it created and a new device
\* row its device.
LEMMA FactsAfterJoin ==
  ASSUME NEW d, NEW e, NEW T, NEW X, NEW u, Facts(T, d),
         Active(T) => Apart(T, X),
         Active(T) /\ Joins(T) => T.req.fp # X.req.fp,
         Joins(X), X.at = "commit",
         Active(T) /\ ~Joins(T) /\ T.at \in {"owners", "commit"} => T.claim # Blank,
         \A v \in DOMAIN d.users : v \in DOMAIN e.users /\ e.users[v] = d.users[v],
         \A v \in DOMAIN e.users :
           v \in DOMAIN d.users \/ (X.claim # Blank /\ e.users[v] = X.claim),
         d.workspaces \subseteq e.workspaces,
         \A w \in e.workspaces :
           w \in d.workspaces \/ (X.creates /\ w.name = X.req.ws /\ w.owner = u),
         \A row \in e.devices :
           row \in d.devices \/ (row.ws = X.req.ws /\ row.fp = X.req.fp /\ row.user = u),
         d.members \subseteq e.members,
         u # NoUser, u \in DOMAIN d.users => u = X.lock
  PROVE  Facts(T, e)
<1>1. T.at = "done" => T.user \in DOMAIN e.users
  BY DEF Facts
<1>2. ASSUME Active(T), Joins(T)
      PROVE  JoinFacts(T, e)
  <2>1. JoinFacts(T, d)
    BY <1>2 DEF Facts
  <2>2. CreatesNow(T) => ~KnownWorkspace(e, T.req.ws)
    <3>1. CreatesNow(X) <=> X.creates
      BY DEF CreatesNow
    <3>2. CreatesNow(T) => ~KnownWorkspace(d, T.req.ws)
      BY <2>1 DEF JoinFacts, CreatesNow
    <3> QED BY <1>2, <3>1, <3>2 DEF Apart, KnownWorkspace
  <2>3. ~KnownDevice(d, T.req.ws, T.req.fp) => ~KnownDevice(e, T.req.ws, T.req.fp)
    BY <1>2 DEF KnownDevice
  <2>4. UserHeld(T, d) /\ T.req.handle # Blank => UserHeld(T, e)
    <3>1. ASSUME T.claim = T.req.handle, T.req.handle # Blank, ~HasHandle(d, T.req.handle)
          PROVE  ~HasHandle(e, T.req.handle)
      BY <1>2, <3>1 DEF HasHandle, Apart
    <3> QED BY <3>1 DEF UserHeld
  <2>5. ASSUME Named(T), T.at \in {"insert", "member", "commit"},
               NEW row \in e.devices, InTheWay(T, row)
        PROVE  row \in T.gone
    <3>1. CASE row \in d.devices
      BY <2>1, <2>5, <3>1 DEF JoinFacts
    <3>2. CASE row.ws = X.req.ws /\ row.fp = X.req.fp /\ row.user = u
      <4>1. u = T.user
        BY <1>2, <2>5, <3>2 DEF InTheWay
      <4>2. UserHeld(T, d)
        BY <2>1, <2>5 DEF JoinFacts
      <4>3. T.lock = u /\ u \in DOMAIN d.users
        BY <4>1, <4>2 DEF UserHeld
      <4> QED BY <1>2, <4>3 DEF Apart
    <3> QED BY <3>1, <3>2
  <2>6. T.at \in {"delete", "insert", "member", "commit"} /\ T.creates => ~KnownWorkspace(e, T.req.ws)
    BY <1>2, <2>2 DEF CreatesNow
  <2>7. T.at # "workspace" /\ ~T.creates =>
          \E w \in e.workspaces : w.name = T.req.ws /\ w.code = T.req.code
    BY <2>1 DEF JoinFacts
  <2>8. T.known => T.user \in DOMAIN e.users /\ <<T.req.ws, T.user>> \in e.members
    BY <2>1 DEF JoinFacts
  <2> QED BY <2>1, <2>3, <2>4, <2>5, <2>6, <2>7, <2>8 DEF JoinFacts
<1>3. ASSUME Active(T), ~Joins(T)
      PROVE  RenameFacts(T, e)
  <2>1. RenameFacts(T, d)
    BY <1>3 DEF Facts
  <2>2. T.at # "row" => T.lock = T.user /\ T.user \in DOMAIN d.users /\ T.user # u
    <3>1. T.at # "row" => T.lock = T.user /\ T.user \in DOMAIN d.users
      BY <2>1 DEF RenameFacts
    <3> QED BY <1>3, <3>1 DEF Apart
  <2>3. ASSUME T.claim # Blank, ~HandleTaken(d, T.user, T.claim)
        PROVE  ~HandleTaken(e, T.user, T.claim)
    BY <1>3, <2>3 DEF HandleTaken, Apart
  <2>4. T.at = "commit" => {w \in e.workspaces : w.owner = T.user} = {w \in d.workspaces : w.owner = T.user}
    BY <2>2
  <2> QED BY <1>3, <2>1, <2>2, <2>3, <2>4 DEF RenameFacts
<1> QED BY <1>1, <1>2, <1>3 DEF Facts

\* In e one user's handle is new, and so is the owner_handle of that user's
\* workspaces.
SameOwner(w, y, u) == w.name = y.name /\ w.code = y.code /\ w.owner = y.owner /\ (y.owner # u => w = y)
OneRenamed(d, e, u, h) ==
  /\ DOMAIN e.users = DOMAIN d.users
  /\ \A v \in DOMAIN d.users : e.users[v] = IF v = u THEN h ELSE d.users[v]
  /\ e.devices = d.devices /\ e.members = d.members
  /\ \A w \in e.workspaces : \E y \in d.workspaces : SameOwner(w, y, u)
  /\ \A y \in d.workspaces : \E w \in e.workspaces : SameOwner(w, y, u)

\* A rename commits: one user has the handle that the transaction inserted.
LEMMA FactsAfterRename ==
  ASSUME NEW d, NEW e, NEW T, NEW X, Facts(T, d),
         Active(T) => Apart(T, X),
         Active(T) /\ ~Joins(T) /\ T.at \in {"owners", "commit"} => T.claim # Blank,
         X.lock = X.user, X.claim # Blank,
         OneRenamed(d, e, X.user, X.claim),
         X.user \in DOMAIN d.users, NoUser \notin DOMAIN d.users
  PROVE  Facts(T, e)
<1>1. DOMAIN e.users = DOMAIN d.users
  BY DEF OneRenamed
<1>2. T.at = "done" => T.user \in DOMAIN e.users
  BY <1>1 DEF Facts
<1>3. ASSUME Active(T), Joins(T)
      PROVE  JoinFacts(T, e)
  <2>1. JoinFacts(T, d)
    BY <1>3 DEF Facts
  <2>2. KnownWorkspace(e, T.req.ws) <=> KnownWorkspace(d, T.req.ws)
    BY DEF KnownWorkspace, OneRenamed, SameOwner
  <2>3. KnownDevice(e, T.req.ws, T.req.fp) <=> KnownDevice(d, T.req.ws, T.req.fp)
    BY DEF KnownDevice, OneRenamed
  <2>4. UserHeld(T, d) /\ T.req.handle # Blank => UserHeld(T, e)
    <3>1. ASSUME T.claim = T.req.handle, T.req.handle # Blank, ~HasHandle(d, T.req.handle)
          PROVE  ~HasHandle(e, T.req.handle)
      BY <1>3, <3>1 DEF HasHandle, Apart, OneRenamed
    <3>2. ASSUME T.lock = T.user, T.user \in DOMAIN d.users
          PROVE  e.users[T.user] = d.users[T.user]
      BY <1>3, <3>2 DEF Apart, OneRenamed
    <3> QED BY <1>1, <3>1, <3>2 DEF UserHeld
  <2>5. T.at # "workspace" /\ ~T.creates =>
          \E w \in e.workspaces : w.name = T.req.ws /\ w.code = T.req.code
    BY <2>1 DEF JoinFacts, OneRenamed, SameOwner
  <2>6. e.devices = d.devices /\ e.members = d.members
    BY DEF OneRenamed
  <2> QED BY <1>1, <2>1, <2>2, <2>3, <2>4, <2>5, <2>6 DEF JoinFacts
<1>4. ASSUME Active(T), ~Joins(T)
      PROVE  RenameFacts(T, e)
  <2>1. RenameFacts(T, d)
    BY <1>4 DEF Facts
  <2>2. T.at # "row" => T.user # X.user
    <3>1. T.at # "row" => T.lock = T.user /\ T.user \in DOMAIN d.users
      BY <2>1 DEF RenameFacts
    <3> QED BY <1>4, <3>1 DEF Apart
  <2>3. ASSUME T.claim # Blank, ~HandleTaken(d, T.user, T.claim)
        PROVE  ~HandleTaken(e, T.user, T.claim)
    BY <1>4, <2>3 DEF HandleTaken, Apart, OneRenamed
  <2>4. T.at = "commit" => {w \in e.workspaces : w.owner = T.user} = {w \in d.workspaces : w.owner = T.user}
    BY <2>2 DEF OneRenamed, SameOwner
  <2> QED BY <1>1, <1>4, <2>1, <2>3, <2>4 DEF RenameFacts
<1> QED BY <1>2, <1>3, <1>4 DEF Facts
-----------------------------------------------------------------------------
(* Commits.                                                                *)

\* The handle a rename has set is no blank.
LEMMA HandleSet ==
  ASSUME TxInv, NEW t \in Tx, Active(tx[t]), ~Joins(tx[t]), tx[t].at \in {"owners", "commit"}
  PROVE  tx[t].claim \in HandlePattern /\ tx[t].claim # Blank /\ tx[t].claim = tx[t].req.handle
<1>1. RenameFacts(tx[t], db) /\ Asked(t)
  BY Opened
<1>2. tx[t].req.handle \in HandlePattern
  BY <1>1, RequestTyped DEF Asked, Joins
<1> QED BY <1>1, <1>2, StoreAssumption DEF RenameFacts, StoreAssumption

\* A join of a device that has a row changes nothing but last_seen_at.
LEMMA KnownJoin ==
  ASSUME TxInv, NEW t \in Tx, tx[t].at = "commit", Joins(tx[t]), tx[t].known
  PROVE  JoinedTables(t) = db /\ tx[t].user \in DOMAIN db.users /\ tx[t].claim = Blank
<1> DEFINE T == tx[t]
           r == T.req
<1>1. T \in TxRecord /\ JoinFacts(T, db)
  BY Opened DEF Active
<1>2. /\ T.claim = Blank /\ ~T.creates /\ T.user \in DOMAIN db.users
      /\ <<r.ws, T.user>> \in db.members
  BY <1>1 DEF JoinFacts
<1>3. JoinedTables(t) = AddWorkspaceMember(db, r.ws, T.user)
  BY <1>2 DEF JoinedTables
<1>4. db \in Database(TxFP)
  BY DEF TxInv, TablesOK
<1>5. db.members \cup {<<r.ws, T.user>>} = db.members
  BY <1>2
<1>6. [db EXCEPT !.members = db.members] = db
  BY <1>4 DEF Database
<1> QED BY <1>2, <1>3, <1>5, <1>6 DEF AddWorkspaceMember

\* The user a join ends up with, and that the store's function finds the same.
NewUser(t) == IF tx[t].claim # Blank THEN Len(db.users) + 1 ELSE tx[t].user
WithUser(t) == IF tx[t].claim # Blank THEN [db EXCEPT !.users = Append(@, tx[t].claim)] ELSE db

LEMMA UserJoined ==
  ASSUME TxInv, NEW t \in Tx, tx[t].at = "commit", Joins(tx[t]), ~tx[t].known
  PROVE  /\ WithUser(t) = FindOrCreateUser(db, tx[t].req.handle)
         /\ NewUser(t) = UserOf(WithUser(t), tx[t].req.handle)
         /\ WithUser(t) \in Database(TxFP)
         /\ NewUser(t) \in DOMAIN WithUser(t).users /\ NewUser(t) \in Nat /\ NewUser(t) # NoUser
         /\ \A v \in DOMAIN db.users :
              v \in DOMAIN WithUser(t).users /\ WithUser(t).users[v] = db.users[v]
         /\ \A v \in DOMAIN WithUser(t).users :
              v \in DOMAIN db.users \/ (tx[t].claim # Blank /\ WithUser(t).users[v] = tx[t].claim)
         /\ NewUser(t) \in DOMAIN db.users => NewUser(t) = tx[t].lock
         /\ \A row \in db.devices : row.user = NewUser(t) <=> row.user = tx[t].user
         /\ tx[t].req.handle \in HandlePattern
         /\ \A f \in {"workspaces", "devices", "members"} : WithUser(t)[f] = db[f]
         /\ tx[t].claim # Blank => NewUser(t) = Len(WithUser(t).users)
<1> DEFINE T == tx[t]
           h == T.req.handle
<1>1. T \in TxRecord /\ JoinFacts(T, db) /\ Asked(t)
  BY Opened DEF Active
<1>2. h \in HandlePattern /\ h # Blank
  BY <1>1, RequestTyped DEF Asked, Joins, JoinFacts, Named
<1>3. UserHeld(T, db)
  BY <1>1 DEF JoinFacts, Named
<1>4. db \in Database(TxFP) /\ DevicesKnown(db) /\ HandlesUnique(db)
  BY DEF TxInv, TablesOK, Consistent
<1>5. db.users \in Seq(HandlePattern)
  BY <1>4 DEF Database
<1>6. CASE T.claim = h /\ T.user = NoUser /\ ~HasHandle(db, h)
  <2> DEFINE us == Append(db.users, h)
  <2>1. /\ us \in Seq(HandlePattern) /\ DOMAIN us = DOMAIN db.users \cup {Len(db.users) + 1}
        /\ \A v \in DOMAIN db.users : us[v] = db.users[v]
        /\ us[Len(db.users) + 1] = h /\ Len(us) = Len(db.users) + 1
    BY <1>2, <1>5, AppendProperties, LenProperties
  <2>2. Len(db.users) \in Nat /\ DOMAIN db.users = 1..Len(db.users)
    BY <1>5, LenProperties
  <2> HIDE DEF us
  <2>3. WithUser(t) = [db EXCEPT !.users = us] /\ NewUser(t) = Len(db.users) + 1
    BY <1>2, <1>6 DEF WithUser, NewUser, us
  <2>4. /\ WithUser(t) \in Database(TxFP) /\ WithUser(t).users = us
        /\ \A f \in {"workspaces", "devices", "members"} : WithUser(t)[f] = db[f]
    BY <1>4, <2>1, <2>3 DEF Database
  <2>5. WithUser(t) = FindOrCreateUser(db, h)
    BY <1>6, <2>3 DEF FindOrCreateUser, us
  <2>6. UserOf(WithUser(t), h) = Len(db.users) + 1
    BY <1>6, <2>1, <2>4 DEF UserOf, HasHandle
  <2>7. \A row \in db.devices : row.user \in 1..Len(db.users)
    BY <1>4, <2>2 DEF DevicesKnown
  <2> HIDE DEF T
  <2> QED BY <1>2, <1>6, <2>1, <2>2, <2>3, <2>4, <2>5, <2>6, <2>7 DEF NoUser, T
<1>7. CASE T.claim = Blank /\ T.lock = T.user /\ T.user \in DOMAIN db.users /\ db.users[T.user] = h
  <2>1. WithUser(t) = db /\ NewUser(t) = T.user
    BY <1>7 DEF WithUser, NewUser
  <2>2. FindOrCreateUser(db, h) = db
    BY <1>7 DEF FindOrCreateUser, HasHandle
  <2>3. UserOf(db, h) = T.user
    BY <1>4, <1>7 DEF UserOf, HandlesUnique
  <2>4. T.user \in Nat /\ T.user # NoUser
    BY <1>5, <1>7, LenProperties DEF NoUser
  <2> QED BY <1>2, <1>4, <1>7, <2>1, <2>2, <2>3, <2>4
<1> QED BY <1>3, <1>6, <1>7 DEF UserHeld

\* Any other join has the effect of the store's function on whole joins.
LEMMA WholeJoin ==
  ASSUME TxInv, NEW t \in Tx, tx[t].at = "commit", Joins(tx[t]), ~tx[t].known
  PROVE  LET r == tx[t].req IN
         /\ ~JoinRefused(db, r.ws, r.code, r.fp, r.handle)
         /\ JoinedTables(t) = JoinWorkspaceTx(db, r.ws, r.code, r.fp, r.handle)
<1> DEFINE T == tx[t]
           r == T.req
           u == NewUser(t)
           d1 == WithUser(t)
           d2 == IF T.creates THEN InsertWorkspace(d1, r.ws, r.code, u) ELSE d1
           d3 == UpsertDevice(d2, r.ws, r.fp, u)
<1>1. T \in TxRecord /\ JoinFacts(T, db)
  BY Opened DEF Active
<1>2. TablesOK(db) /\ OwnersConsistent(db)
  BY DEF TxInv, TablesOK, Consistent
<1>3. T.creates <=> ~KnownWorkspace(db, r.ws)
  BY <1>1 DEF JoinFacts, KnownWorkspace
<1>4. ~KnownDevice(db, r.ws, r.fp)
  BY <1>1, <1>2, <1>3 DEF JoinFacts, KnownDevice, TablesOK
<1>5. r.handle # Blank
  BY <1>1 DEF JoinFacts, Named
<1>6. ~JoinRefused(db, r.ws, r.code, r.fp, r.handle)
  BY <1>1, <1>2, <1>3, <1>5 DEF JoinFacts, JoinRefused, OwnersConsistent, KnownWorkspace
<1>7. /\ d1 = FindOrCreateUser(db, r.handle) /\ u = UserOf(d1, r.handle)
      /\ d1.devices = db.devices /\ d1 \in Database(TxFP)
  BY UserJoined
<1>8. JoiningUser(db, r.ws, r.fp, r.handle) = u
  BY <1>4, <1>7 DEF JoiningUser
<1>9. JoinWorkspaceTx(db, r.ws, r.code, r.fp, r.handle) = AddWorkspaceMember(d3, r.ws, u)
  <2>1. JoinTables(db, r.ws, r.code, r.fp, r.handle) = d3
    BY <1>3, <1>4, <1>7, <1>8 DEF JoinTables
  <2> QED BY <1>8, <2>1 DEF JoinWorkspaceTx
<1>10. JoinedTables(t) =
         AddWorkspaceMember([d2 EXCEPT !.devices = (@ \ T.gone)
                                          \cup {[ws |-> r.ws, fp |-> r.fp, user |-> u]}], r.ws, u)
  <2>1. T.claim # Blank => u = Len(d1.users)
    BY UserJoined
  <2>2. u = IF T.claim # Blank THEN Len(d1.users) ELSE T.user
    BY <2>1 DEF NewUser
  <2> QED BY <2>2 DEF JoinedTables, WithUser
<1>11. d2.devices = db.devices
  BY <1>7 DEF InsertWorkspace, Database
<1>12. {row \in db.devices : ~(row.ws = r.ws /\ (row.fp = r.fp \/ row.user = u))} = db.devices \ T.gone
  <2>1. \A row \in db.devices : row.user = u <=> row.user = T.user
    BY UserJoined
  <2>2. \A row \in db.devices : row \in T.gone <=> InTheWay(T, row)
    BY <1>1 DEF JoinFacts, Named
  <2> QED BY <2>1, <2>2 DEF InTheWay
<1> HIDE DEF d2, u
<1>13. d3 = [d2 EXCEPT !.devices = (db.devices \ T.gone)
                                     \cup {[ws |-> r.ws, fp |-> r.fp, user |-> u]}]
  BY <1>11, <1>12 DEF UpsertDevice
<1> QED BY <1>6, <1>9, <1>10, <1>11, <1>13

\* The tables after such a join.
LEMMA JoinedFields ==
  ASSUME TxInv, NEW t \in Tx, tx[t].at = "commit", Joins(tx[t]), ~tx[t].known
  PROVE  LET e == JoinedTables(t)
             u == NewUser(t)
             r == tx[t].req
         IN /\ e.users = WithUser(t).users
            /\ db.workspaces \subseteq e.workspaces
            /\ \A w \in e.workspaces : w \in db.workspaces
                 \/ (tx[t].creates /\ w.name = r.ws /\ w.owner = u)
            /\ \A row \in e.devices : row \in db.devices
                 \/ (row.ws = r.ws /\ row.fp = r.fp /\ row.user = u)
            /\ e.members = db.members \cup {<<r.ws, u>>}
            /\ KnownWorkspace(e, r.ws)
<1> DEFINE T == tx[t]
           r == T.req
           u == NewUser(t)
           d1 == WithUser(t)
           row1 == [name |-> r.ws, code |-> r.code, owner |-> u, ownerHandle |-> d1.users[u]]
           d2 == IF T.creates THEN InsertWorkspace(d1, r.ws, r.code, u) ELSE d1
           rows == (d2.devices \ T.gone) \cup {[ws |-> r.ws, fp |-> r.fp, user |-> u]}
           d3 == [d2 EXCEPT !.devices = rows]
<1>1. d1 \in Database(TxFP) /\ \A f \in {"workspaces", "devices", "members"} : d1[f] = db[f]
  BY UserJoined
<1>2. JoinedTables(t) = AddWorkspaceMember(d3, r.ws, u)
  <2>1. T.claim # Blank => u = Len(d1.users)
    BY UserJoined
  <2>2. u = IF T.claim # Blank THEN Len(d1.users) ELSE T.user
    BY <2>1 DEF NewUser
  <2> QED BY <2>2 DEF JoinedTables, WithUser
<1> HIDE DEF d1, u
<1>3. /\ d2.users = d1.users /\ d2.devices = db.devices /\ d2.members = db.members
      /\ d2.workspaces = (IF T.creates THEN db.workspaces \cup {row1} ELSE db.workspaces)
      /\ DOMAIN d2 = DOMAIN d1
  BY <1>1 DEF InsertWorkspace, Database
<1>4. DOMAIN d2 = {"users", "workspaces", "devices", "members", "channels", "inChannel", "messages"}
  BY <1>1, <1>3 DEF Database
<1> HIDE DEF d2
<1>5. /\ JoinedTables(t).users = d2.users /\ JoinedTables(t).workspaces = d2.workspaces
      /\ JoinedTables(t).devices = rows
      /\ JoinedTables(t).members = d2.members \cup {<<r.ws, u>>}
  BY <1>2, <1>4 DEF AddWorkspaceMember
<1> HIDE DEF rows
<1>6. KnownWorkspace(JoinedTables(t), r.ws)
  <2>1. T \in TxRecord /\ JoinFacts(T, db)
    BY Opened DEF Active
  <2>2. ~T.creates => KnownWorkspace(db, r.ws)
    BY <2>1 DEF JoinFacts, KnownWorkspace
  <2>3. CASE T.creates
    <3>1. row1 \in JoinedTables(t).workspaces /\ row1.name = r.ws
      BY <1>3, <1>5, <2>3
    <3> QED BY <3>1 DEF KnownWorkspace
  <2>4. CASE ~T.creates
    BY <1>3, <1>5, <2>2, <2>4 DEF KnownWorkspace
  <2> QED BY <2>3, <2>4
<1> QED BY <1>3, <1>5, <1>6 DEF d1, u, rows

\* A join's commit keeps the invariants of the tables.
LEMMA JoinedOK ==
  ASSUME TxInv, NEW t \in Tx, tx[t].at = "commit", Joins(tx[t]), ~tx[t].known
  PROVE  TablesOK(JoinedTables(t))
<1> DEFINE T == tx[t]
           r == T.req
           e == JoinedTables(t)
           u == NewUser(t)
<1>1. Asked(t)
  BY Opened DEF Active
<1>2. /\ r.ws \in Text /\ r.code \in Text /\ r.fp \in TxFP
      /\ r.handle \in HandlePattern \cup {Blank}
  BY <1>1, RequestTyped DEF Asked, Joins
<1>3. /\ TablesOK(db) /\ IsTables(db) /\ DevicesFrom(db, TxFP)
      /\ DevicesKnown(db) /\ Consistent(db)
  BY TablesTyped DEF TxInv, TablesOK
<1>4. /\ ~JoinRefused(db, r.ws, r.code, r.fp, r.handle)
      /\ e = JoinWorkspaceTx(db, r.ws, r.code, r.fp, r.handle)
  BY WholeJoin
<1>5. /\ db.workspaces \subseteq e.workspaces /\ KnownWorkspace(e, r.ws)
      /\ e.members = db.members \cup {<<r.ws, u>>}
      /\ \A row \in e.devices : row \in db.devices \/ (row.ws = r.ws /\ row.user = u)
  BY JoinedFields
<1> HIDE DEF e, u
<1>6. e \in Database(TxFP) /\ DevicesKnown(e)
  <2>1. IsTables(e) /\ DevicesKnown(e)
    BY <1>2, <1>3, <1>4, JoinWorkspaceTxOK
  <2>2. DevicesFrom(e, TxFP)
    BY <1>2, <1>3, <1>4, JoinWorkspaceTxDevices
  <2> QED BY <2>1, <2>2, TablesTyped
<1>7. Consistent(e)
  BY <1>2, <1>3, <1>4, JoinWorkspaceTxConsistent
<1>8. ASSUME NEW row \in e.devices
      PROVE  KnownWorkspace(e, row.ws) /\ <<row.ws, row.user>> \in e.members
  <2>1. CASE row \in db.devices
    BY <1>3, <1>5, <2>1 DEF TablesOK, KnownWorkspace
  <2>2. CASE row.ws = r.ws /\ row.user = u
    BY <1>5, <2>2
  <2> QED BY <1>5, <2>1, <2>2
<1> QED BY <1>6, <1>7, <1>8 DEF TablesOK, e

\* A rename has the effect of the store's function on whole renames.
LEMMA WholeRename ==
  ASSUME TxInv, NEW t \in Tx, tx[t].at = "commit", ~Joins(tx[t])
  PROVE  LET u == tx[t].user
             h == tx[t].req.handle
         IN /\ u \in DOMAIN db.users /\ u = tx[t].lock /\ h \in HandlePattern /\ h \in RenameTo
            /\ ~HandleTaken(db, u, h) /\ tx[t].claim = h
            /\ RenamedTables(t) = UpdateUserHandle(db, u, h)
<1> DEFINE T == tx[t]
           h == T.req.handle
<1>1. RenameFacts(T, db) /\ Asked(t)
  BY Opened DEF Active
<1>2. h \in HandlePattern /\ h \in RenameTo
  BY <1>1, RequestTyped DEF Asked, Joins
<1>3. \A w \in db.workspaces : w \in T.gone <=> w.owner = T.user
  BY <1>1 DEF RenameFacts
<1>4. {IF w \in T.gone THEN [w EXCEPT !.ownerHandle = h] ELSE w : w \in db.workspaces}
        = {IF w.owner = T.user THEN [w EXCEPT !.ownerHandle = h] ELSE w : w \in db.workspaces}
  BY <1>3
<1>5. RenamedTables(t) = UpdateUserHandle(db, T.user, h)
  BY <1>4 DEF RenamedTables, UpdateUserHandle
<1> QED BY <1>1, <1>2, <1>5 DEF RenameFacts

\* The tables after a rename.
LEMMA RenamedFields ==
  ASSUME NEW d \in Database(TxFP), NEW u \in DOMAIN d.users, NEW h \in HandlePattern,
         NEW e, e = UpdateUserHandle(d, u, h)
  PROVE  OneRenamed(d, e, u, h)
<1> DEFINE new(w) == IF w.owner = u THEN [w EXCEPT !.ownerHandle = h] ELSE w
           us == [d.users EXCEPT ![u] = h]
<1>1. d.users \in Seq(HandlePattern) /\ d.workspaces \subseteq WorkspaceRow
  BY DEF Database
<1>2. DOMAIN us = DOMAIN d.users /\ \A v \in DOMAIN d.users : us[v] = IF v = u THEN h ELSE d.users[v]
  BY <1>1
<1>3. /\ e.users = us /\ e.devices = d.devices /\ e.members = d.members
      /\ e.workspaces = {new(w) : w \in d.workspaces}
  BY DEF UpdateUserHandle, Database
<1>4. \A y \in d.workspaces :
        /\ new(y).name = y.name /\ new(y).code = y.code /\ new(y).owner = y.owner
        /\ y.owner # u => new(y) = y
  BY <1>1 DEF WorkspaceRow
<1> HIDE DEF new, us
<1>5. \A w \in e.workspaces : \E y \in d.workspaces : w = new(y)
  BY <1>3
<1>6. \A y \in d.workspaces : new(y) \in e.workspaces
  BY <1>3
<1> QED BY <1>2, <1>3, <1>4, <1>5, <1>6 DEF OneRenamed, SameOwner

LEMMA RenamedOK ==
  ASSUME TxInv, NEW t \in Tx, tx[t].at = "commit", ~Joins(tx[t])
  PROVE  TablesOK(RenamedTables(t))
<1> DEFINE u == tx[t].user
           h == tx[t].req.handle
           e == RenamedTables(t)
<1>1. /\ u \in DOMAIN db.users /\ h \in HandlePattern /\ ~HandleTaken(db, u, h)
      /\ e = UpdateUserHandle(db, u, h)
  BY WholeRename
<1>2. /\ db \in Database(TxFP) /\ IsTables(db) /\ DevicesFrom(db, TxFP)
      /\ DevicesKnown(db) /\ Consistent(db) /\ TablesOK(db)
  BY TablesTyped DEF TxInv, TablesOK
<1>3. u \in Nat
  BY <1>1, <1>2, LenProperties DEF IsTables
<1> HIDE DEF e, u, h
<1>4. /\ e \in Database(TxFP) /\ DOMAIN e.users = DOMAIN db.users
      /\ e.devices = db.devices /\ e.members = db.members
  <2>1. /\ IsTables(e) /\ DOMAIN e.users = DOMAIN db.users
        /\ e.devices = db.devices /\ e.members = db.members
    BY <1>1, <1>2, <1>3, UpdateUserHandleOK
  <2> QED BY <1>2, <2>1, TablesTyped DEF DevicesFrom
<1>5. Consistent(e)
  BY <1>1, <1>2, UpdateUserHandleConsistent
<1>6. \A ws : KnownWorkspace(db, ws) => KnownWorkspace(e, ws)
  <2>1. \A y \in db.workspaces : \E w \in e.workspaces : w.name = y.name
    BY <1>1, <1>2, RenamedFields DEF OneRenamed, SameOwner
  <2> QED BY <2>1 DEF KnownWorkspace
<1>7. DevicesKnown(e)
  BY <1>2, <1>4 DEF DevicesKnown
<1>8. \A row \in e.devices : KnownWorkspace(e, row.ws) /\ <<row.ws, row.user>> \in e.members
  BY <1>2, <1>4, <1>6 DEF TablesOK
<1> QED BY <1>4, <1>5, <1>7, <1>8 DEF TablesOK, e

LEMMA CommitStep ==
  ASSUME TxInv, NEW t \in Tx, Commit(t)
  PROVE  TxInv'
<1> DEFINE T == tx[t]
           new == IF T.claim # Blank /\ Joins(T) THEN Len(db'.users) ELSE T.user
           N == [Step(t, "done") EXCEPT !.user = new]
<1>1. /\ T.at = "commit" /\ Active(T) /\ ~Ended(t)
      /\ db' = IF Joins(T) THEN JoinedTables(t) ELSE RenamedTables(t)
      /\ tx' = [tx EXCEPT ![t] = N]
  BY DEF Commit, Active, Ended, Joins, Step, TxInv, TxRecord
<1>2. T \in TxRecord
  BY DEF TxInv
<1>3. /\ db \in Database(TxFP) /\ TablesOK(db)
      /\ db.users \in Seq(HandlePattern) /\ NoUser \notin DOMAIN db.users
  <2>1. db \in Database(TxFP) /\ TablesOK(db) /\ db.users \in Seq(HandlePattern)
    BY DEF TxInv, TablesOK, Database
  <2> QED BY <2>1, LenProperties DEF NoUser
<1>4. ASSUME TablesOK(db'), new \in DOMAIN db'.users,
             \A x \in Tx \ {t} : Facts(tx[x], db')
      PROVE  TxInv'
  <2>1. db'.users \in Seq(HandlePattern)
    BY <1>4 DEF TablesOK, Database
  <2>2. new \in Nat
    BY <1>4, <2>1
  <2> HIDE DEF new
  <2>3. N \in TxRecord /\ N.at = "done" /\ N.user = new
    BY <1>2, <2>2 DEF Step, TxRecord
  <2> HIDE DEF N
  <2>4. ~Active(N) /\ Facts(N, db')
    BY <1>4, <2>3 DEF Active, Facts
  <2> HIDE DEF TxInv
  <2> QED BY <1>1, <1>4, <2>3, <2>4, Moves
<1>5. \A x \in Tx \ {t} :
        /\ Facts(tx[x], db)
        /\ Active(tx[x]) => Apart(tx[x], T)
        /\ Active(tx[x]) /\ Joins(tx[x]) /\ Joins(T) => tx[x].req.fp # T.req.fp
        /\ Active(tx[x]) /\ ~Joins(tx[x]) /\ tx[x].at \in {"owners", "commit"} => tx[x].claim # Blank
  BY <1>1, DevicesDiffer, HandleSet DEF TxInv
<1>6. CASE Joins(T) /\ T.known
  <2>1. db' = db /\ T.user \in DOMAIN db.users /\ T.claim = Blank
    BY <1>1, <1>6, KnownJoin
  <2> QED BY <1>3, <1>4, <1>5, <2>1
<1>7. CASE Joins(T) /\ ~T.known
  <2> DEFINE u == NewUser(t)
  <2>1. db' = JoinedTables(t) /\ TablesOK(db')
    BY <1>1, <1>7, JoinedOK
  <2> DEFINE e == JoinedTables(t)
  <2>2. /\ e.users = WithUser(t).users
        /\ db.workspaces \subseteq e.workspaces
        /\ \A w \in e.workspaces : w \in db.workspaces
             \/ (T.creates /\ w.name = T.req.ws /\ w.owner = u)
        /\ \A row \in e.devices : row \in db.devices
             \/ (row.ws = T.req.ws /\ row.fp = T.req.fp /\ row.user = u)
        /\ db.members \subseteq e.members
    BY <1>1, <1>7, JoinedFields
  <2>3. /\ u \in DOMAIN e.users /\ u # NoUser
        /\ \A v \in DOMAIN db.users : v \in DOMAIN e.users /\ e.users[v] = db.users[v]
        /\ \A v \in DOMAIN e.users : v \in DOMAIN db.users \/ (T.claim # Blank /\ e.users[v] = T.claim)
        /\ u \in DOMAIN db.users => u = T.lock
        /\ T.claim # Blank => u = Len(e.users)
    BY <1>1, <1>7, <2>2, UserJoined
  <2>4. new = u /\ db' = e
    BY <1>7, <2>1, <2>3 DEF NewUser
  <2> HIDE DEF u, e, T, new, N, TxInv
  <2>5. ASSUME NEW x \in Tx \ {t}
        PROVE  Facts(tx[x], e)
    <3> DEFINE X == tx[x]
    <3>1. Facts(X, db) /\ (Active(X) => Apart(X, T)) /\ (Active(X) /\ Joins(X) => X.req.fp # T.req.fp)
      BY <1>5, <1>7
    <3>2. Active(X) /\ ~Joins(X) /\ X.at \in {"owners", "commit"} => X.claim # Blank
      BY <1>5
    <3> HIDE DEF X
    <3> QED BY <1>1, <1>7, <2>2, <2>3, <3>1, <3>2, FactsAfterJoin DEF X
  <2> QED BY <1>4, <2>1, <2>3, <2>4, <2>5
<1>8. CASE ~Joins(T)
  <2>1. db' = RenamedTables(t) /\ TablesOK(db')
    BY <1>1, <1>8, RenamedOK
  <2> DEFINE u == T.user
             h == T.req.handle
             e == UpdateUserHandle(db, u, h)
  <2>2. /\ u \in DOMAIN db.users /\ u = T.lock /\ h \in HandlePattern
        /\ T.claim = h /\ T.claim # Blank /\ db' = e
    BY <1>1, <1>8, <2>1, WholeRename, HandleSet
  <2>3. e = UpdateUserHandle(db, u, h)
    OBVIOUS
  <2> HIDE DEF u, h, T, new, N, TxInv, e
  <2>4. OneRenamed(db, e, u, h)
    BY <1>3, <2>2, <2>3, RenamedFields
  <2>5. ASSUME NEW x \in Tx \ {t}
        PROVE  Facts(tx[x], e)
    <3> DEFINE X == tx[x]
    <3>1. Facts(X, db) /\ (Active(X) => Apart(X, T))
      BY <1>5
    <3>2. Active(X) /\ ~Joins(X) /\ X.at \in {"owners", "commit"} => X.claim # Blank
      BY <1>5
    <3> HIDE DEF X
    <3> QED BY <1>3, <2>2, <2>4, <3>1, <3>2, FactsAfterRename DEF X, u
  <2>6. new \in DOMAIN db'.users
    BY <1>8, <2>2, <2>4 DEF new, u, OneRenamed
  <2> QED BY <1>4, <2>1, <2>2, <2>5, <2>6
<1> QED BY <1>6, <1>7, <1>8
-----------------------------------------------------------------------------
(* The invariant, and the refinement.                                      *)

LEMMA TxInitially == Init => TxInv
<1> SUFFICES ASSUME Init PROVE TxInv
  OBVIOUS
<1>1. \A t \in Tx : tx[t] = NewTx
  BY DEF Init
<1>2. NewTx \in TxRecord
  BY DEF NewTx, TxRecord, NoUser
<1>3. tx \in [Tx -> TxRecord]
  BY <1>2 DEF Init
<1>4. \A t \in Tx : Facts(tx[t], db) /\ ~Active(tx[t])
  <2>1. NewTx.at = "idle"
    BY DEF NewTx
  <2> QED BY <1>1, <2>1 DEF Facts, Active
<1>5. TablesOK(db)
  <2>1. db = EmptyDB
    BY DEF Init
  <2>2. EmptyDB \in Database(TxFP)
    BY DEF EmptyDB, Database
  <2>3. /\ EmptyDB.users = <<>> /\ EmptyDB.devices = {} /\ EmptyDB.workspaces = {}
    BY DEF EmptyDB
  <2>4. Consistent(EmptyDB) /\ DevicesKnown(EmptyDB)
    BY <2>3 DEF Consistent, HandlesUnique, DevicesUnique, OwnersConsistent, DevicesKnown
  <2> QED BY <2>1, <2>2, <2>3, <2>4 DEF TablesOK
<1>6. HubInOrder
  <2>1. \A j \in DOMAIN HubTx : HubTx[j] \in Tx
    BY StoreTxAssumption DEF StoreTxAssumption, Tx, HubTxs
  <2> QED BY <1>1, <2>1 DEF HubInOrder, NewTx
<1> QED BY <1>3, <1>4, <1>5, <1>6 DEF TxInv

LEMMA TxInvKept ==
  ASSUME TxInv, [Next]_vars
  PROVE  TxInv'
<1>1. CASE UNCHANGED vars
  <2>1. db' = db /\ tx' = tx
    BY <1>1 DEF vars
  <2> QED BY <2>1 DEF TxInv, Asked, HubInOrder, Ended
<1>2. ASSUME NEW t \in Tx, Run(t)
      PROVE  TxInv'
  <2> HIDE DEF TxInv
  <2> QED BY <1>2, SelectWorkspaceStep, SelectDeviceStep, UpsertUserStep, CreateWorkspaceStep,
             DeleteDevicesStep, InsertDeviceStep, InsertMemberStep, LockRowStep, SetHandleStep,
             UpdateOwnersStep, CommitStep DEF Run
<1> QED BY <1>1, <1>2, BeginStep, AbortStep DEF Next

\* A whole join is the abstract store's, and so is a whole rename.
LEMMA AtomicJoin ==
  ASSUME NEW r \in JoinAs, ~JoinRefused(db, r.ws, r.code, r.fp, r.handle),
         db' = JoinWorkspaceTx(db, r.ws, r.code, r.fp, r.handle)
  PROVE  Atomic!Next
<1>1. ~Atomic!JoinRefused(db, r.ws, r.code, r.fp, r.handle)
  BY DEF JoinRefused, KnownDevice, Blank, Atomic!JoinRefused, Atomic!KnownDevice, Atomic!Blank
<1>2. Atomic!JoiningUser(db, r.ws, r.fp, r.handle) = JoiningUser(db, r.ws, r.fp, r.handle)
  BY DEF JoiningUser, KnownDevice, DeviceUser, UserOf, FindOrCreateUser, HasHandle,
         Atomic!JoiningUser, Atomic!KnownDevice, Atomic!DeviceUser, Atomic!UserOf,
         Atomic!FindOrCreateUser, Atomic!HasHandle
<1>3. Atomic!JoinTables(db, r.ws, r.code, r.fp, r.handle) = JoinTables(db, r.ws, r.code, r.fp, r.handle)
  BY <1>2 DEF JoinTables, KnownDevice, KnownWorkspace, FindOrCreateUser, HasHandle, InsertWorkspace,
         UpsertDevice, Atomic!JoinTables, Atomic!KnownDevice, Atomic!KnownWorkspace,
         Atomic!FindOrCreateUser, Atomic!HasHandle, Atomic!InsertWorkspace, Atomic!UpsertDevice
<1>4. db' = Atomic!JoinWorkspaceTx(db, r.ws, r.code, r.fp, r.handle)
  BY <1>2, <1>3 DEF JoinWorkspaceTx, AddWorkspaceMember, Atomic!JoinWorkspaceTx, Atomic!AddWorkspaceMember
<1> QED BY <1>1, <1>4 DEF Atomic!Next, Atomic!Join

LEMMA AtomicRename ==
  ASSUME NEW u \in DOMAIN db.users, NEW h \in RenameTo, ~HandleTaken(db, u, h),
         db' = UpdateUserHandle(db, u, h)
  PROVE  Atomic!Next
<1>1. ~Atomic!HandleTaken(db, u, h) /\ db' = Atomic!UpdateUserHandle(db, u, h)
  BY DEF HandleTaken, UpdateUserHandle, Atomic!HandleTaken, Atomic!UpdateUserHandle
<1> QED BY <1>1 DEF Atomic!Next, Atomic!Rename

LEMMA StepsAtomic ==
  ASSUME TxInv, [Next]_vars
  PROVE  [Atomic!Next]_db
<1>1. CASE UNCHANGED vars
  BY <1>1 DEF vars
<1>2. ASSUME NEW t \in Tx, Begin(t) \/ Abort(t)
      PROVE  db' = db
  BY <1>2 DEF Begin, Abort, Goes
<1>3. ASSUME NEW t \in Tx, Run(t), ~Commit(t)
      PROVE  db' = db
  BY <1>3 DEF Run, SelectWorkspace, SelectDevice, UpsertUser, CreateWorkspace, DeleteDevices,
              InsertDevice, InsertMember, LockRow, SetHandle, UpdateOwners, Fails, Goes
<1>4. ASSUME NEW t \in Tx, Commit(t)
      PROVE  [Atomic!Next]_db
  <2>1. /\ tx[t].at = "commit"
        /\ db' = IF Joins(tx[t]) THEN JoinedTables(t) ELSE RenamedTables(t)
    BY <1>4 DEF Commit, Joins
  <2>2. Asked(t)
    BY <2>1, Opened DEF Active
  <2>3. CASE Joins(tx[t]) /\ tx[t].known
    BY <2>1, <2>3, KnownJoin
  <2>4. CASE Joins(tx[t]) /\ ~tx[t].known
    <3>1. tx[t].req \in JoinAs
      BY <2>2, <2>4, RequestTyped DEF Asked, Joins
    <3> QED BY <2>1, <2>4, <3>1, WholeJoin, AtomicJoin
  <2>5. CASE ~Joins(tx[t])
    BY <2>1, <2>5, WholeRename, AtomicRename
  <2> QED BY <2>3, <2>4, <2>5
<1> QED BY <1>1, <1>2, <1>3, <1>4 DEF Next, Run

\* However the statements of the transactions interleave and whichever of them
\* are rolled back, what is committed changes as if every transaction that
\* commits ran alone.
THEOREM TransactionsAtomic == Spec => AtomicSpec
<1>1. Init => Atomic!Init
  BY DEF Init, EmptyDB, Atomic!Init, Atomic!EmptyDB
<1>2. Init => TxInv
  BY TxInitially
<1>3. TxInv /\ [Next]_vars => TxInv'
  BY TxInvKept
<1>4. TxInv /\ [Next]_vars => [Atomic!Next]_db
  BY StepsAtomic
<1> QED BY <1>1, <1>2, <1>3, <1>4, PTL DEF Spec, AtomicSpec, Atomic!Spec
=============================================================================
