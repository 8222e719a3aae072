------------------------------ MODULE AdminMembers ------------------------------
(***************************************************************************)
(* The operators of the admin app and their sessions in the database: the  *)
(* transactions of migration 0033 side by side. What a transaction writes  *)
(* is seen when it commits; clock_timestamp() is the time of the statement.*)
(***************************************************************************)
EXTENDS Naturals, FiniteSets, PgLocks

CONSTANTS
    Operators,
    Orders,               \* bound: transactions at once
    Cookies,              \* bound: ids of sessions
    Nobody,
    MaxNow, MaxOrders     \* bounds

ASSUME MembersAssumption == Nobody \notin Operators \cup Cookies

VARIABLES
    now,
    seats,     \* admin_members
    sessions,  \* admin_sessions
    orders,    \* the transactions
    rowLocks,
    ended,     \* sessions a revocation that has committed found
    given      \* orders so far

adminMembers == <<now, seats, sessions, orders, rowLocks, ended, given>>

NoSeat == [role |-> "none", status |-> "disabled", cut |-> 0]
Unused == [of |-> Nobody, at |-> 0, kept |-> FALSE, revoked |-> FALSE]
\* want: the active owners the lock statement found, seen: those the count found;
\* found: the sessions at hand when the seat was written, hit: those the second
\* update saw
NoOrder == [pc |-> "none", op |-> "none", who |-> Nobody, to |-> "none", sid |-> Nobody,
            want |-> {}, seen |-> {}, cut |-> 0, found |-> {}, hit |-> {}]

AdminMembersInit ==
    /\ now = 1
    /\ seats = [o \in Operators |-> NoSeat]
    /\ sessions = [s \in Cookies |-> Unused]
    /\ orders = [t \in Orders |-> NoOrder]
    /\ rowLocks = {} /\ ended = {} /\ given = 0

ActiveOwner(o) == seats[o].role = "owner" /\ seats[o].status = "active"
ActiveOwners == {o \in Operators : ActiveOwner(o)}
Free(t, o, mode) == Grantable(rowLocks, t, o, mode)
Takes(t, o, mode) == Free(t, o, mode) /\ rowLocks' = Grant(rowLocks, t, o, mode)
Step(t, pc) == orders' = [orders EXCEPT ![t].pc = pc]
Done(t) == orders' = [orders EXCEPT ![t] = NoOrder] /\ rowLocks' = ReleaseAll(rowLocks, t)

Give(t, order) ==
    /\ orders[t] = NoOrder /\ given < MaxOrders
    /\ given' = given + 1
    /\ orders' = [orders EXCEPT ![t] = order]
    /\ UNCHANGED <<now, seats, sessions, rowLocks, ended>>

Order(op, pc, who, to) ==
    [pc |-> pc, op |-> op, who |-> who, to |-> to, sid |-> Nobody,
     want |-> {}, seen |-> {}, cut |-> 0, found |-> {}, hit |-> {}]
-----------------------------------------------------------------------------
(* Who may: admin_actor_is_owner before any lock, and requireOwner in the  *)
(* page; an operator may always end his or her own sessions.               *)

\* The script of the server names an account.
Bootstrap(t, o) == o # Nobody /\ Give(t, Order("bootstrap", "owners", o, "owner"))

AddMember(t, o, role) ==
    ActiveOwners # {} /\ seats[o] = NoSeat /\ Give(t, Order("add", "seat", o, role))

SetRole(t, o, role) == ActiveOwners # {} /\ Give(t, Order("role", "owners", o, role))

SetMemberStatus(t, o, status) == ActiveOwners # {} /\ Give(t, Order("status", "owners", o, status))

RevokeSessions(t, o) == seats[o] # NoSeat /\ Give(t, Order("revoke", "seat", o, "none"))

\* admin_session_issue reads the seat without a lock.
IssueSession(t, o) ==
    seats[o].role # "none" /\ seats[o].status = "active" /\ Give(t, Order("issue", "insert", o, "none"))
-----------------------------------------------------------------------------
(* admin_lock_active_owners                                                *)

FindOwners(t) ==
    /\ orders[t].pc = "owners"
    /\ orders' = [orders EXCEPT ![t].pc = "lock", ![t].want = ActiveOwners]
    /\ UNCHANGED <<now, seats, sessions, rowLocks, ended, given>>

\* Slip: the owners are counted and not locked.
MissingNone(t) == {}

Missing(t) == {o \in orders[t].want : ~Holds(rowLocks, t, o, "Update")}

\* The row is locked also when it is no active owner's any more.
LockOwner(t, o) ==
    /\ orders[t].pc = "lock" /\ o \in Missing(t)
    /\ Takes(t, o, "Update")
    /\ UNCHANGED <<now, seats, sessions, orders, ended, given>>

\* The count is a statement of its own: it sees what has committed meanwhile.
CountOwners(t) ==
    /\ orders[t].pc = "lock" /\ Missing(t) = {}
    /\ IF orders[t].op = "bootstrap" /\ ActiveOwners # {} THEN Done(t)
       ELSE /\ orders' = [orders EXCEPT ![t].pc = "seat", ![t].seen = ActiveOwners]
            /\ UNCHANGED rowLocks
    /\ UNCHANGED <<now, seats, sessions, ended, given>>
-----------------------------------------------------------------------------
(* The seat                                                                *)

\* The owner who leaves must not be the last one.
LastOwnerLeaves(t) ==
    /\ ActiveOwner(orders[t].who) /\ Cardinality(orders[t].seen) <= 1
    /\ orders[t].to \in {"viewer", "disabled"}

NothingToDo(t) ==
    LET seat == seats[orders[t].who] IN
    \/ orders[t].op = "add" /\ seat # NoSeat
    \/ orders[t].op \in {"role", "status"}
       /\ (seat = NoSeat \/ orders[t].to \in {seat.role, seat.status} \/ LastOwnerLeaves(t))

TakeSeat(t) ==
    /\ orders[t].pc = "seat"
    /\ Free(t, orders[t].who, IF orders[t].op = "revoke" THEN "NoKeyUpdate" ELSE "Update")
    /\ IF NothingToDo(t) THEN Done(t)
       ELSE /\ rowLocks' = Grant(rowLocks, t, orders[t].who,
                              IF orders[t].op = "revoke" THEN "NoKeyUpdate" ELSE "Update")
            /\ orders' = [orders EXCEPT ![t].pc = "write", ![t].cut = now,
                 ![t].found = {s \in Cookies : sessions[s].of = orders[t].who}]
    /\ UNCHANGED <<now, seats, sessions, ended, given>>

Revokes(t) == orders[t].op = "revoke" \/ orders[t].to = "disabled"

\* The second update sees the sessions that have committed.
HitSessions(t) ==
    /\ orders[t].pc = "write"
    /\ orders' = [orders EXCEPT ![t].pc = "commit",
         ![t].hit = IF Revokes(t) THEN {s \in Cookies : sessions[s].of = orders[t].who /\ sessions[s].kept} ELSE {}]
    /\ UNCHANGED <<now, seats, sessions, rowLocks, ended, given>>

Written(t) ==
    LET order == orders[t]
        seat == seats[order.who]
    IN CASE order.op = "bootstrap" -> [seat EXCEPT !.role = "owner", !.status = "active"]
         [] order.op = "add" -> [seat EXCEPT !.role = order.to, !.status = "active"]
         [] order.op = "role" -> [seat EXCEPT !.role = order.to]
         [] order.op = "status" -> [seat EXCEPT !.status = order.to, !.cut = IF Revokes(t) THEN order.cut ELSE @]
         [] OTHER -> [seat EXCEPT !.cut = order.cut]

CommitSeat(t) ==
    /\ orders[t].pc = "commit"
    /\ seats' = [seats EXCEPT ![orders[t].who] = Written(t)]
    /\ sessions' = [s \in Cookies |-> [sessions[s] EXCEPT !.revoked = @ \/ s \in orders[t].hit]]
    /\ ended' = IF Revokes(t) THEN ended \cup orders[t].found ELSE ended
    /\ Done(t)
    /\ UNCHANGED <<now, given>>
-----------------------------------------------------------------------------
(* Sessions                                                                *)

\* The time is taken with the values; the foreign key locks the seat afterwards.
InsertSession(t, s) ==
    /\ orders[t].pc = "insert" /\ sessions[s] = Unused
    /\ sessions' = [sessions EXCEPT ![s] = [Unused EXCEPT !.of = orders[t].who, !.at = now]]
    /\ orders' = [orders EXCEPT ![t].pc = "refer", ![t].sid = s]
    /\ UNCHANGED <<now, seats, rowLocks, ended, given>>

ReferSeat(t) ==
    /\ orders[t].pc = "refer" /\ Takes(t, orders[t].who, "KeyShare") /\ Step(t, "mark")
    /\ UNCHANGED <<now, seats, sessions, ended, given>>

\* mfa_verified_at is written to the seat, and the transaction commits.
CommitSession(t) ==
    /\ orders[t].pc = "mark" /\ Free(t, orders[t].who, "NoKeyUpdate")
    /\ sessions' = [sessions EXCEPT ![orders[t].sid].kept = TRUE]
    /\ Done(t)
    /\ UNCHANGED <<now, seats, ended, given>>

\* logout; what it ends is ended.
LogoutSession(s) ==
    /\ sessions[s].kept /\ ~sessions[s].revoked
    /\ sessions' = [sessions EXCEPT ![s].revoked = TRUE]
    /\ ended' = ended \cup {s}
    /\ UNCHANGED <<now, seats, orders, rowLocks, given>>

\* Slip: a session is good as long as its row says so.
AcceptedRow(s) ==
    sessions[s].kept /\ ~sessions[s].revoked /\ seats[sessions[s].of].status = "active"

\* admin_session_check, with every request
Accepted(s) ==
    /\ sessions[s].kept /\ ~sessions[s].revoked
    /\ seats[sessions[s].of].status = "active"
    /\ sessions[s].at > seats[sessions[s].of].cut
-----------------------------------------------------------------------------
(* Two transactions that wait for each other: one of them is rolled back.  *)

Needs(t) ==
    CASE orders[t].pc = "lock" -> {<<o, "Update">> : o \in Missing(t)}
      [] orders[t].pc = "seat" -> {<<orders[t].who, IF orders[t].op = "revoke" THEN "NoKeyUpdate" ELSE "Update">>}
      [] orders[t].pc = "refer" -> {<<orders[t].who, "KeyShare">>}
      [] orders[t].pc = "mark" -> {<<orders[t].who, "NoKeyUpdate">>}
      [] OTHER -> {}

WaitsFor(t, u) == \E need \in Needs(t) : u \in Blockers(rowLocks, t, need[1], need[2])

Victim(t) ==
    /\ \E u \in Orders \ {t} : WaitsFor(t, u) /\ WaitsFor(u, t)
    /\ Done(t)
    /\ sessions' = [s \in Cookies |-> IF s = orders[t].sid THEN Unused ELSE sessions[s]]
    /\ UNCHANGED <<now, seats, ended, given>>

ClockGoes ==
    /\ now < MaxNow /\ now' = now + 1
    /\ UNCHANGED <<seats, sessions, orders, rowLocks, ended, given>>

Ask0033(t, o) ==
    \/ Bootstrap(t, o) \/ RevokeSessions(t, o) \/ IssueSession(t, o)
    \/ \E role \in {"owner", "viewer"} : AddMember(t, o, role) \/ SetRole(t, o, role)
    \/ \E status \in {"active", "disabled"} : SetMemberStatus(t, o, status)

Run0033(t) ==
    \/ FindOwners(t) \/ CountOwners(t) \/ TakeSeat(t) \/ HitSessions(t) \/ CommitSeat(t)
    \/ ReferSeat(t) \/ CommitSession(t) \/ Victim(t)
    \/ \E o \in Operators : LockOwner(t, o)
    \/ \E s \in Cookies : InsertSession(t, s)

AdminMembersNext ==
    \/ \E t \in Orders, o \in Operators : Ask0033(t, o)
    \/ \E t \in Orders : Run0033(t)
    \/ \E s \in Cookies : LogoutSession(s)
    \/ ClockGoes

AdminMembersSpec == AdminMembersInit /\ [][AdminMembersNext]_adminMembers
-----------------------------------------------------------------------------
\* 1. A session that was there, committed or not, when the sessions of its
\* operator were cut off is never accepted again, also not when it commits after
\* the cut and also not when the operator is let in again later.
EndedStayOut == \A s \in ended : ~Accepted(s)

\* 2. Owners who remove each other, at once and on what they saw before they had
\* to wait, never remove the last one as long as each counted no owner but those
\* it has locked: a lock statement that waits, a row that changes before its lock
\* comes, a rollback or a count that is old when it is used does not break that.
CountedLocked(t) == orders[t].seen \subseteq orders[t].want
Commits(t) == orders[t].pc = "commit" /\ orders'[t] # orders[t]
CountedOwnersRemain ==
    [][ActiveOwners # {} /\ ActiveOwners' = {} => \E t \in Orders : Commits(t) /\ ~CountedLocked(t)]_adminMembers

\* 3. What 0033:9 and docs/security.md:64 say without that condition: the last
\* active owner stays, also under concurrent changes.
OwnerRemains == [][ActiveOwners # {} => ActiveOwners' # {}]_adminMembers
=============================================================================
