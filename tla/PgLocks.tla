------------------------------- MODULE PgLocks -------------------------------
(***************************************************************************)
(* The row locks of PostgreSQL under READ COMMITTED, as the migrations     *)
(* rely on them (external: the database is not under src/).  A lock is a   *)
(* record [s, row, mode]; a transaction keeps its locks until it ends.     *)
(*                                                                         *)
(*   KeyShare     the referenced row of a foreign key checked by an INSERT *)
(*   NoKeyUpdate  an UPDATE that leaves the key columns alone              *)
(*   Update       SELECT ... FOR UPDATE, and the unique index entry of an  *)
(*                uncommitted INSERT, which a second INSERT waits for      *)
(***************************************************************************)

LockModes == {"KeyShare", "NoKeyUpdate", "Update"}

Conflict(m, n) ==
    \/ m = "Update"
    \/ n = "Update"
    \/ m = "NoKeyUpdate" /\ n = "NoKeyUpdate"

\* The sessions that keep s from taking the lock: its own locks never do.
Blockers(locks, s, row, mode) ==
    {l.s : l \in {k \in locks : k.s # s /\ k.row = row /\ Conflict(k.mode, mode)}}

Grantable(locks, s, row, mode) ==
    \A l \in locks : l.s # s /\ l.row = row => ~Conflict(l.mode, mode)

Grant(locks, s, row, mode) == locks \cup {[s |-> s, row |-> row, mode |-> mode]}

Holds(locks, s, row, mode) == [s |-> s, row |-> row, mode |-> mode] \in locks

\* COMMIT and ROLLBACK give back every lock of the transaction.
ReleaseAll(locks, s) == {l \in locks : l.s # s}

\* Two sessions never hold conflicting locks on one row.
Exclusive(locks) ==
    \A k, l \in locks : k.row = l.row /\ k.s # l.s => ~Conflict(k.mode, l.mode)
=============================================================================
