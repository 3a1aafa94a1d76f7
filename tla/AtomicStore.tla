----------------------------- MODULE AtomicStore -----------------------------
(***************************************************************************)
(* What the hub and the uploads take the store for: joins and renames that *)
(* happen one at a time, each in a single step on the tables.              *)
(***************************************************************************)
EXTENDS Store

CONSTANTS
  JoinAs,    \* the joins that are asked for: records [ws, code, fp, handle]
  RenameTo   \* the handles renames ask for

VARIABLE db

Init == db = EmptyDB

Join(r) ==
  /\ ~JoinRefused(db, r.ws, r.code, r.fp, r.handle)
  /\ db' = JoinWorkspaceTx(db, r.ws, r.code, r.fp, r.handle)

Rename(u, h) == ~HandleTaken(db, u, h) /\ db' = UpdateUserHandle(db, u, h)

Next ==
  \/ \E r \in JoinAs : Join(r)
  \/ \E u \in DOMAIN db.users, h \in RenameTo : Rename(u, h)

Spec == Init /\ [][Next]_db
=============================================================================
