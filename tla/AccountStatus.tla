---------------------------- MODULE AccountStatus ----------------------------
(***************************************************************************)
(* users.status of one account with a verified identity, and everything    *)
(* that writes it: the moderation RPC, the hourly lift of suspensions, the *)
(* delete-account function (a read, then an update by id, as two           *)
(* statements), the operator's page of deletion requests (the same two     *)
(* statements) and the recovery of an account under a new number.          *)
(*                                                                         *)
(* Every write of status fires two triggers, which keep users.deleted_at   *)
(* and user_identities.banned; they belong to the write (SetStatus).       *)
(***************************************************************************)
EXTENDS Integers

CONSTANTS
    Edges,   \* requests that may be between their read and their write
    Ops,     \* the operations a run allows
    Grace,   \* days of grace before a deleted account is due
    Days     \* longest timed suspension

AllOps == {"suspend", "unsuspend", "ban", "unban", "lift",
           "delete", "reactivate", "admin_delete", "recover"}
Null == -1

ASSUME GraceAssumption == Grace \in Nat \ {0}
ASSUME DaysAssumption == Days \in Nat
ASSUME OpsAssumption == Ops \subseteq AllOps

VARIABLES
    status,      \* users.status; "gone" once the row is deleted
    left,        \* days until users.suspended_until, Null for none
    deletedAge,  \* days since users.deleted_at, Null for null
    asked,       \* days since the standing request to delete the account
    idBanned,    \* user_identities.banned
    audit,       \* the latest moderation_actions row that sets a status
    edge         \* what each request between its statements will write

statusVars == <<status, left, deletedAge, asked, idBanned, audit, edge>>

Statuses == {"active", "suspended", "banned", "deleted", "gone"}
Ages == (0 .. Grace) \cup {Null}

Init ==
    /\ status = "active"
    /\ left = Null
    /\ deletedAge = Null
    /\ asked = Null
    /\ idBanned = FALSE
    /\ audit = "none"
    /\ edge = [c \in Edges |-> "idle"]

Allowed(op) == op \in Ops /\ status # "gone"
-----------------------------------------------------------------------------
\* A wrong trigger: it stamps the date only for accounts that were active.
TrackDeletedAtFromActive(st) ==
    CASE st = "deleted" /\ status = "active" ->
             IF deletedAge = Null THEN 0 ELSE deletedAge
      [] st = "active" /\ status = "deleted" -> Null
      [] OTHER -> deletedAge

\* track_user_deleted_at keeps an earlier deleted_at, and clears it only on
\* the way from deleted to active.
TrackDeletedAt(st) ==
    CASE st = "deleted" /\ status # "deleted" ->
             IF deletedAge = Null THEN 0 ELSE deletedAge
      [] st = "active" /\ status = "deleted" -> Null
      [] OTHER -> deletedAge

\* A wrong sync_identity_ban: it looks at accounts that were active only.
SyncIdentityBanFromActive(st) ==
    CASE st = "banned" /\ status = "active" -> TRUE
      [] st = "active" /\ status = "banned" -> FALSE
      [] OTHER -> idBanned

\* sync_identity_ban
SyncIdentityBan(st) ==
    CASE st = "banned" /\ status # "banned" -> TRUE
      [] st = "active" /\ status = "banned" -> FALSE
      [] OTHER -> idBanned

SetStatus(st) ==
    /\ status' = st
    /\ deletedAge' = TrackDeletedAt(st)
    /\ idBanned' = SyncIdentityBan(st)
-----------------------------------------------------------------------------
\* A wrong RPC that stores one day more than the longest suspension.
SuspendTooLong(days) ==
    /\ Allowed("suspend")
    /\ SetStatus("suspended")
    /\ left' = days + 1
    /\ audit' = "suspend"
    /\ UNCHANGED <<asked, edge>>

\* admin_moderate_user: one transaction that locks the row and records the
\* action.  Only unsuspend and unban look at the status first.
Suspend(days) ==
    /\ Allowed("suspend")
    /\ SetStatus("suspended")
    /\ left' = days
    /\ audit' = "suspend"
    /\ UNCHANGED <<asked, edge>>

Unsuspend ==
    /\ Allowed("unsuspend") /\ status = "suspended"
    /\ SetStatus("active")
    /\ left' = Null
    /\ audit' = "unsuspend"
    /\ UNCHANGED <<asked, edge>>

Ban ==
    /\ Allowed("ban")
    /\ SetStatus("banned")
    /\ left' = Null
    /\ audit' = "ban"
    /\ UNCHANGED <<asked, edge>>

Unban ==
    /\ Allowed("unban") /\ status = "banned"
    /\ SetStatus("active")
    /\ audit' = "unban"
    /\ UNCHANGED <<left, asked, edge>>

\* A wrong job that lets suspensions without an end pass, and no other.
LiftOpenEnded ==
    /\ Allowed("lift") /\ status = "suspended" /\ left = Null
    /\ SetStatus("active")
    /\ audit' = "unsuspend"
    /\ UNCHANGED <<left, asked, edge>>

\* moderation_lift_expired_suspensions
LiftExpired ==
    /\ Allowed("lift") /\ status = "suspended" /\ left = 0
    /\ SetStatus("active")
    /\ left' = Null
    /\ audit' = "unsuspend"
    /\ UNCHANGED <<asked, edge>>
-----------------------------------------------------------------------------
\* delete-account {action: 'delete'}: only a banned account is refused.
ReadForDelete(c) ==
    /\ Allowed("delete") /\ edge[c] = "idle"
    /\ status # "banned"
    /\ edge' = [edge EXCEPT ![c] = "delete"]
    /\ UNCHANGED <<status, left, deletedAge, asked, idBanned, audit>>

\* handleRequest reads the status as well, and deletes an active account.
AdminReadForDelete(c) ==
    /\ Allowed("admin_delete") /\ edge[c] = "idle"
    /\ status = "active"
    /\ edge' = [edge EXCEPT ![c] = "delete"]
    /\ UNCHANGED <<status, left, deletedAge, asked, idBanned, audit>>

\* delete-account {action: 'reactivate'}
ReadForReactivate(c) ==
    /\ Allowed("reactivate") /\ edge[c] = "idle"
    /\ status = "deleted"
    /\ edge' = [edge EXCEPT ![c] = "reactivate"]
    /\ UNCHANGED <<status, left, deletedAge, asked, idBanned, audit>>

\* UPDATE users SET status = 'deleted' WHERE id = ...; the request counts
\* from now when the account was in use, else it repeats one that stands.
WriteDelete(c) ==
    /\ edge[c] = "delete" /\ status # "gone"
    /\ SetStatus("deleted")
    /\ asked' = IF asked = Null \/ status = "active" THEN 0 ELSE asked
    /\ edge' = [edge EXCEPT ![c] = "idle"]
    /\ UNCHANGED <<left, audit>>

\* UPDATE users SET status = 'active' WHERE id = ...
WriteReactivate(c) ==
    /\ edge[c] = "reactivate" /\ status # "gone"
    /\ SetStatus("active")
    /\ asked' = Null
    /\ edge' = [edge EXCEPT ![c] = "idle"]
    /\ UNCHANGED <<left, audit>>

\* The row is gone, or the request fails on the way: nothing is written.
EdgeFails(c) ==
    /\ edge[c] # "idle"
    /\ edge' = [edge EXCEPT ![c] = "idle"]
    /\ UNCHANGED <<status, left, deletedAge, asked, idBanned, audit>>

\* reactivateIfDeleted, the last step of an account recovery: its UPDATE
\* names the status it expects.
Recover ==
    /\ Allowed("recover") /\ status = "deleted"
    /\ SetStatus("active")
    /\ asked' = Null
    /\ UNCHANGED <<left, audit, edge>>

Older(age) == IF age = Null \/ age = Grace THEN age ELSE age + 1

\* A day passes.
Tick ==
    /\ status # "gone"
    /\ deletedAge' = Older(deletedAge)
    /\ asked' = Older(asked)
    /\ left' = IF left \in {Null, 0} THEN left ELSE left - 1
    /\ UNCHANGED <<status, idBanned, audit, edge>>
-----------------------------------------------------------------------------
Moderation ==
    \/ \E days \in (1 .. Days) \cup {Null} : Suspend(days)
    \/ Unsuspend \/ Ban \/ Unban \/ LiftExpired

EdgeStep(c) ==
    \/ ReadForDelete(c) \/ AdminReadForDelete(c) \/ ReadForReactivate(c)
    \/ WriteDelete(c) \/ WriteReactivate(c) \/ EdgeFails(c)

StatusNext == Moderation \/ Recover \/ Tick \/ \E c \in Edges : EdgeStep(c)

StatusSpec == Init /\ [][StatusNext]_statusVars
\* Days pass and the hourly job runs; nobody has to make a request.
FairStatusSpec == StatusSpec /\ WF_statusVars(Tick) /\ WF_statusVars(LiftExpired)
-----------------------------------------------------------------------------
\* Every variable stays within the values its column or request may hold.
StatusTypeOK ==
    /\ status \in Statuses
    /\ left \in (0 .. Days) \cup {Null}
    /\ deletedAge \in Ages
    /\ asked \in Ages
    /\ idBanned \in BOOLEAN
    /\ audit \in {"none", "suspend", "unsuspend", "ban", "unban"}
    /\ edge \in [Edges -> {"idle", "delete", "reactivate"}]

\* A banned account's identity is flagged, whichever operations overlapped on
\* the way: the trigger's flag follows the status, so that a new account under
\* another number is refused as well (0009 sync_identity_ban).
BanReachesIdentity == status = "banned" => idBanned

\* account_purge_candidates: deleted, and past the grace by the stored clock.
Due == status = "deleted" /\ deletedAge = Grace

\* An account is due only when its owner's own request is as old as the grace:
\* the stored deleted_at never dates from an earlier deletion (0019).
GraceKept == Due => asked = Grace

\* An account that stays deleted becomes due: no way into 'deleted' leaves it
\* without a running clock (0019 track_user_deleted_at).
DeletedBecomesDue == <>[](status = "deleted") => <>Due

\* A timed suspension does not outlive its end: the hourly job ends it, unless
\* another operation does (0020 moderation_lift_expired_suspensions).
SuspensionEnds == (status = "suspended" /\ left = 0) ~> ~(status = "suspended" /\ left = 0)

\* The flag on the identity goes only with the recorded action that lifts the
\* ban, never with the owner's own requests.
FlagClearedOnlyByUnban ==
    [][idBanned /\ ~idBanned' => audit' = "unban" /\ audit # "unban"]_statusVars
=============================================================================
