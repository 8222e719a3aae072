------------------------------- MODULE MatchTx -------------------------------
(***************************************************************************)
(* Likes, matches and everything that closes a match, as transactions that *)
(* take PostgreSQL row locks one statement at a time:                      *)
(*                                                                         *)
(*   accept   recommendation_accept -> handle_mutual_like                  *)
(*   like     a direct INSERT INTO likes (older clients)                   *)
(*   decline  a direct UPDATE of recommendations to 'skipped'              *)
(*   declare  a direct UPDATE of recommendations to 'accepted'             *)
(*   leave    conversation_leave                                           *)
(*   send     INSERT INTO messages -> handle_new_message                   *)
(*   block    INSERT INTO blocks -> handle_block                           *)
(*   ban      admin_moderate_user(..., 'ban')                              *)
(*                                                                         *)
(* The variables of the first group are the committed rows.  A session's   *)
(* writes reach them at its commit; until then they are implied by its pc, *)
(* and no other session sees them.                                         *)
(***************************************************************************)
EXTENDS Naturals, FiniteSets, PgLocks

CONSTANTS
    Users,        \* user ids, compared by least/greatest
    Sess,         \* database sessions
    Limit,        \* conversation_slot_limit()
    Introduced,   \* pairs <<u, v>> for which u already has a pending card of v
    Jobs,         \* the requests clients and operators may issue
    MaxMsgs       \* bound on the messages of one conversation

Ops == {"accept", "like", "decline", "declare", "leave", "send", "block", "ban"}
AllJobs == [op : Ops, u : Users, v : Users]
NoUser == 0
NoJob == [op |-> "none", u |-> NoUser, v |-> NoUser]

ASSUME UsersAssumption == Users \subseteq Nat \ {NoUser} /\ IsFiniteSet(Users)
ASSUME LimitAssumption == Limit \in Nat \ {0}
ASSUME JobsAssumption  == Jobs \subseteq {j \in AllJobs : j.u # j.v}
ASSUME IntroAssumption == Introduced \subseteq {e \in Users \X Users : e[1] # e[2]}
ASSUME MsgsAssumption  == MaxMsgs \in Nat

VARIABLES
    likes,       \* committed (from, to) pairs
    matchSt,     \* matches.status of each pair, "none" when there is no row
    closedBy,    \* matches.closed_by
    closeKind,   \* matches.close_kind
    recs,        \* recommendations.status of each card <<user, candidate>>
    blocks,      \* committed (blocker, blocked) pairs
    status,      \* users.status
    msgs,        \* how many messages the pair's conversation stores
    pc,          \* the statement each session is at
    job,         \* the request it serves
    mk,          \* it has inserted a match row
    close,       \* partners whose match with job.u it has closed
    todo,        \* partners whose match its UPDATE has still to visit
    locks        \* row locks held

rows == <<likes, matchSt, closedBy, closeKind, recs, blocks, status, msgs>>
local == <<mk, close, todo>>
vars == <<rows, pc, job, local, locks>>
-----------------------------------------------------------------------------
Cards == {e \in Users \X Users : e[1] # e[2]}
Pairs == {p \in Users \X Users : p[1] < p[2]}

Least(u, v) == IF u < v THEN u ELSE v
Greatest(u, v) == IF u < v THEN v ELSE u
Pair(u, v) == <<Least(u, v), Greatest(u, v)>>

UserRow(u) == <<"user", u, u>>
MatchRow(p) == <<"match", p[1], p[2]>>
CardRow(u, v) == <<"rec", u, v>>
LikeRow(u, v) == <<"like", u, v>>
BlockRow(u, v) == <<"block", u, v>>

ActiveOf(u) == {p \in Pairs : matchSt[p] = "active" /\ u \in {p[1], p[2]}}
ActiveCount(u) == Cardinality(ActiveOf(u))
BlockedPair(p) == p \in blocks \/ <<p[2], p[1]>> \in blocks

CanChat(p) ==
    /\ matchSt[p] = "active"
    /\ status[p[1]] = "active" /\ status[p[2]] = "active"
    /\ ~BlockedPair(p)

Init ==
    /\ likes = {} /\ blocks = {}
    /\ matchSt = [p \in Pairs |-> "none"]
    /\ closedBy = [p \in Pairs |-> NoUser]
    /\ closeKind = [p \in Pairs |-> "none"]
    /\ recs = [e \in Cards |-> IF e \in Introduced THEN "pending" ELSE "none"]
    /\ status = [u \in Users |-> "active"]
    /\ msgs = [p \in Pairs |-> 0]
    /\ pc = [s \in Sess |-> "idle"]
    /\ job = [s \in Sess |-> NoJob]
    /\ mk = [s \in Sess |-> FALSE]
    /\ close = [s \in Sess |-> {}]
    /\ todo = [s \in Sess |-> {}]
    /\ locks = {}
-----------------------------------------------------------------------------
\* The lock the statement at pc[s] has to take, if it takes one.
Me(s) == job[s].u
You(s) == job[s].v
PairOf(s) == Pair(Me(s), You(s))

LockPcs == {"rec", "like", "row", "fk_from", "fk_to", "lock_self", "lock_lo",
            "lock_hi", "match", "user", "visit"}

WantRow(s) ==
    CASE pc[s] = "rec"                    -> CardRow(Me(s), You(s))
      [] pc[s] = "like"                   -> LikeRow(Me(s), You(s))
      [] pc[s] = "row"                    -> BlockRow(Me(s), You(s))
      [] pc[s] \in {"fk_from", "lock_self", "user"} -> UserRow(Me(s))
      [] pc[s] = "fk_to"                  -> UserRow(You(s))
      [] pc[s] = "lock_lo"                -> UserRow(Least(Me(s), You(s)))
      [] pc[s] = "lock_hi"                -> UserRow(Greatest(Me(s), You(s)))
      [] OTHER                            -> MatchRow(PairOf(s))

WantMode(s) ==
    CASE pc[s] \in {"fk_from", "fk_to"}   -> "KeyShare"
      [] pc[s] = "visit"                  -> "NoKeyUpdate"
      [] pc[s] = "match" /\ job[s].op = "block" -> "NoKeyUpdate"
      [] pc[s] = "rec" /\ job[s].op # "accept"  -> "NoKeyUpdate"
      [] OTHER                            -> "Update"

\* handle_block's UPDATE finds no row to lock when the match is not active.
Wants(s) == pc[s] \in LockPcs
            /\ ~(pc[s] = "match" /\ job[s].op = "block" /\ matchSt[PairOf(s)] # "active")

Acquire(s) ==
    /\ Grantable(locks, s, WantRow(s), WantMode(s))
    /\ locks' = Grant(locks, s, WantRow(s), WantMode(s))

GoTo(s, label) == pc' = [pc EXCEPT ![s] = label]

\* The transaction ends: its locks go, and so does what it had not committed.
End(s) ==
    /\ pc' = [pc EXCEPT ![s] = "idle"]
    /\ job' = [job EXCEPT ![s] = NoJob]
    /\ mk' = [mk EXCEPT ![s] = FALSE]
    /\ close' = [close EXCEPT ![s] = {}]
    /\ todo' = [todo EXCEPT ![s] = {}]
    /\ locks' = ReleaseAll(locks, s)

Rollback(s) == End(s) /\ UNCHANGED rows
-----------------------------------------------------------------------------
FirstPc(op) ==
    CASE op \in {"accept", "decline", "declare"} -> "rec"
      [] op = "like"                             -> "like"
      [] op = "leave"                            -> "match"
      [] op = "send"                             -> "fk_from"
      [] op = "block"                            -> "row"
      [] op = "ban"                              -> "user"

\* What the first, unlocked look at the tables lets through: a card that
\* exists, a participant of the match, the INSERT policy of messages.
Admitted(j) ==
    CASE j.op \in {"accept", "decline", "declare", "like"} -> recs[<<j.u, j.v>>] # "none"
      [] j.op = "leave"                                    -> matchSt[Pair(j.u, j.v)] # "none"
      [] j.op = "send"                                     -> /\ CanChat(Pair(j.u, j.v))
                                                              /\ msgs[Pair(j.u, j.v)] < MaxMsgs
      [] OTHER                                             -> TRUE

Begin(s) ==
    /\ pc[s] = "idle"
    /\ \E j \in Jobs :
          /\ Admitted(j)
          /\ job' = [job EXCEPT ![s] = j]
          /\ GoTo(s, FirstPc(j.op))
    /\ UNCHANGED <<rows, local, locks>>

\* SELECT ... FROM recommendations FOR UPDATE, and what follows from the card
\* and the caller's account: a retry, a decided card and a restricted caller
\* return without a write.
AcceptCard(s) ==
    /\ pc[s] = "rec" /\ job[s].op = "accept"
    /\ \/ /\ status[Me(s)] = "active" /\ recs[<<Me(s), You(s)>>] = "pending"
          /\ Acquire(s)
          /\ GoTo(s, "like")
          /\ UNCHANGED <<rows, job, local>>
       \/ /\ status[Me(s)] # "active" \/ recs[<<Me(s), You(s)>>] # "pending"
          /\ Grantable(locks, s, WantRow(s), WantMode(s))
          /\ Rollback(s)

\* UPDATE of the card by its owner, under guard_recommendation_decision.
DecideCard(s) ==
    /\ pc[s] = "rec" /\ job[s].op \in {"decline", "declare"}
    /\ Grantable(locks, s, WantRow(s), WantMode(s))
    /\ \/ /\ recs[<<Me(s), You(s)>>] = "pending"
          /\ job[s].op = "declare" => ActiveCount(Me(s)) < Limit
          /\ recs' = [recs EXCEPT ![<<Me(s), You(s)>>] =
                         IF job[s].op = "declare" THEN "accepted" ELSE "skipped"]
          /\ End(s)
          /\ UNCHANGED <<likes, matchSt, closedBy, closeKind, blocks, status, msgs>>
       \/ /\ \/ recs[<<Me(s), You(s)>>] # "pending"
             \/ job[s].op = "declare" /\ ActiveCount(Me(s)) >= Limit
          /\ Rollback(s)

\* INSERT INTO likes waits for an uncommitted twin.  A committed twin makes it
\* insert nothing in recommendation_accept (ON CONFLICT DO NOTHING, so no
\* trigger runs) and fail in a direct insert.
InsertLike(s) ==
    /\ pc[s] = "like"
    /\ \/ /\ <<Me(s), You(s)>> \in likes /\ job[s].op = "like"
          /\ Grantable(locks, s, WantRow(s), WantMode(s))
          /\ Rollback(s)
       \/ /\ <<Me(s), You(s)>> \notin likes \/ job[s].op = "accept"
          /\ Acquire(s)
          /\ GoTo(s, IF <<Me(s), You(s)>> \in likes THEN "commit" ELSE "fk_from")
          /\ UNCHANGED <<rows, job, local>>

\* INSERT INTO blocks, unique on (blocker_id, blocked_id).
InsertBlock(s) ==
    /\ pc[s] = "row"
    /\ \/ /\ <<Me(s), You(s)>> \in blocks
          /\ Grantable(locks, s, WantRow(s), WantMode(s))
          /\ Rollback(s)
       \/ /\ <<Me(s), You(s)>> \notin blocks
          /\ Acquire(s)
          /\ GoTo(s, "fk_from")
          /\ UNCHANGED <<rows, job, local>>

AfterFrom(op) ==
    CASE op \in {"accept", "like", "block"} -> "fk_to"
      [] op = "send"                        -> "match"
      [] op = "leave"                       -> "commit"

AfterTo(op) ==
    CASE op \in {"accept", "like"} -> "existing"
      [] op = "block"              -> "match"
      [] op = "send"               -> "commit"

\* Slip: the second foreign key checked without keeping the row.
CheckFkToUnlocked(s) ==
    /\ pc[s] = "fk_to"
    /\ GoTo(s, AfterTo(job[s].op))
    /\ UNCHANGED <<rows, job, local, locks>>

\* The foreign keys of the inserted row, checked in the order of their columns
\* before any trigger of the table's own (their trigger names sort first).
CheckFkFrom(s) ==
    /\ pc[s] = "fk_from"
    /\ Acquire(s)
    /\ GoTo(s, AfterFrom(job[s].op))
    /\ UNCHANGED <<rows, job, local>>

CheckFkTo(s) ==
    /\ pc[s] = "fk_to"
    /\ Acquire(s)
    /\ GoTo(s, AfterTo(job[s].op))
    /\ UNCHANGED <<rows, job, local>>
-----------------------------------------------------------------------------
(* handle_mutual_like, one statement at a time.                            *)

\* A pair that was matched once is never matched again; a running match needs
\* nothing new.
SeeExisting(s) ==
    /\ pc[s] = "existing"
    /\ \/ matchSt[PairOf(s)] = "none" /\ GoTo(s, "lock_self")
                                      /\ UNCHANGED <<rows, job, local, locks>>
       \/ matchSt[PairOf(s)] = "active" /\ GoTo(s, "commit")
                                        /\ UNCHANGED <<rows, job, local, locks>>
       \/ matchSt[PairOf(s)] \in {"closed", "blocked"} /\ Rollback(s)

\* Slip: PERFORM 1 FROM users without FOR UPDATE.
LockSelfUnlocked(s) ==
    /\ pc[s] = "lock_self"
    /\ GoTo(s, "count_self")
    /\ UNCHANGED <<rows, job, local, locks>>

LockSelf(s) ==
    /\ pc[s] = "lock_self"
    /\ Acquire(s)
    /\ GoTo(s, "count_self")
    /\ UNCHANGED <<rows, job, local>>

\* Slip: no_slot_self caught without undoing the card's update.
CountSelfKeepsCard(s) ==
    /\ pc[s] = "count_self"
    /\ \/ /\ ActiveCount(Me(s)) >= Limit
          /\ recs' = [recs EXCEPT ![<<Me(s), You(s)>>] = "accepted"]
          /\ End(s)
          /\ UNCHANGED <<likes, matchSt, closedBy, closeKind, blocks, status, msgs>>
       \/ ActiveCount(Me(s)) < Limit /\ GoTo(s, "reverse")
                                     /\ UNCHANGED <<rows, job, local, locks>>

CountSelf(s) ==
    /\ pc[s] = "count_self"
    /\ \/ ActiveCount(Me(s)) >= Limit /\ Rollback(s)
       \/ ActiveCount(Me(s)) < Limit /\ GoTo(s, "reverse")
                                     /\ UNCHANGED <<rows, job, local, locks>>

SeeReverse(s) ==
    /\ pc[s] = "reverse"
    /\ GoTo(s, IF <<You(s), Me(s)>> \in likes THEN "lock_lo" ELSE "commit")
    /\ UNCHANGED <<rows, job, local, locks>>

LockLo(s) ==
    /\ pc[s] = "lock_lo"
    /\ Acquire(s)
    /\ GoTo(s, "lock_hi")
    /\ UNCHANGED <<rows, job, local>>

LockHi(s) ==
    /\ pc[s] = "lock_hi"
    /\ Acquire(s)
    /\ GoTo(s, "recheck")
    /\ UNCHANGED <<rows, job, local>>

\* Slip: only the caller's slot is looked at again.
RecheckSelfOnly(s) ==
    /\ pc[s] = "recheck"
    /\ \/ ActiveCount(Me(s)) >= Limit /\ Rollback(s)
       \/ /\ ActiveCount(Me(s)) < Limit
          /\ mk' = [mk EXCEPT ![s] = matchSt[PairOf(s)] = "none"]
          /\ GoTo(s, "commit")
          /\ UNCHANGED <<rows, job, close, todo, locks>>

\* Both slots again, then INSERT INTO matches ... ON CONFLICT DO NOTHING.  Both
\* counts may only fall while the users rows are locked, so one step stands for
\* the three statements.
Recheck(s) ==
    /\ pc[s] = "recheck"
    /\ \/ /\ ActiveCount(Me(s)) >= Limit \/ ActiveCount(You(s)) >= Limit
          /\ Rollback(s)
       \/ /\ ActiveCount(Me(s)) < Limit /\ ActiveCount(You(s)) < Limit
          /\ mk' = [mk EXCEPT ![s] = matchSt[PairOf(s)] = "none"]
          /\ GoTo(s, "commit")
          /\ UNCHANGED <<rows, job, close, todo, locks>>
-----------------------------------------------------------------------------
\* Slip: a leave that trusts the status it was shown.
LockMatchTrusting(s) ==
    /\ pc[s] = "match" /\ job[s].op \in {"leave", "send"}
    /\ Acquire(s)
    /\ GoTo(s, IF job[s].op = "leave" THEN "fk_from" ELSE "fk_to")
    /\ close' = [close EXCEPT ![s] = IF job[s].op = "leave" THEN {You(s)} ELSE {}]
    /\ UNCHANGED <<rows, job, mk, todo>>

\* Slip: the status read without FOR UPDATE.
LockMatchUnlocked(s) ==
    /\ pc[s] = "match" /\ job[s].op \in {"leave", "send"}
    /\ \/ matchSt[PairOf(s)] # "active" /\ Rollback(s)
       \/ /\ matchSt[PairOf(s)] = "active"
          /\ GoTo(s, IF job[s].op = "leave" THEN "fk_from" ELSE "fk_to")
          /\ close' = [close EXCEPT ![s] = IF job[s].op = "leave" THEN {You(s)} ELSE {}]
          /\ UNCHANGED <<rows, job, mk, todo, locks>>

\* conversation_leave and handle_new_message: the match row FOR UPDATE, then
\* its status as it is now.  A closed match ends the one (only the reason is
\* kept) and makes the other fail with conversation_closed.
LockMatch(s) ==
    /\ pc[s] = "match" /\ job[s].op \in {"leave", "send"}
    /\ \/ /\ matchSt[PairOf(s)] # "active"
          /\ Grantable(locks, s, WantRow(s), WantMode(s))
          /\ Rollback(s)
       \/ /\ matchSt[PairOf(s)] = "active"
          /\ Acquire(s)
          /\ GoTo(s, IF job[s].op = "leave" THEN "fk_from" ELSE "fk_to")
          /\ close' = [close EXCEPT ![s] = IF job[s].op = "leave" THEN {You(s)} ELSE {}]
          /\ UNCHANGED <<rows, job, mk, todo>>

\* Slip: WHERE status = 'active' forgotten.
BlockAnyMatch(s) ==
    /\ pc[s] = "match" /\ job[s].op = "block"
    /\ Acquire(s)
    /\ GoTo(s, "commit")
    /\ close' = [close EXCEPT ![s] = IF matchSt[PairOf(s)] = "none" THEN {} ELSE {You(s)}]
    /\ UNCHANGED <<rows, job, mk, todo>>

\* Slip: a match row in use is skipped (FOR UPDATE SKIP LOCKED).
BlockSkipsLocked(s) ==
    /\ pc[s] = "match" /\ job[s].op = "block"
    /\ GoTo(s, "commit")
    /\ IF matchSt[PairOf(s)] = "active" /\ Grantable(locks, s, WantRow(s), WantMode(s))
       THEN /\ locks' = Grant(locks, s, WantRow(s), WantMode(s))
            /\ close' = [close EXCEPT ![s] = {You(s)}]
       ELSE UNCHANGED <<locks, close>>
    /\ UNCHANGED <<rows, job, mk, todo>>

\* handle_block: UPDATE matches ... WHERE status = 'active'.
BlockMatch(s) ==
    /\ pc[s] = "match" /\ job[s].op = "block"
    /\ \/ /\ matchSt[PairOf(s)] # "active"
          /\ GoTo(s, "commit")
          /\ UNCHANGED <<rows, job, local, locks>>
       \/ /\ matchSt[PairOf(s)] = "active"
          /\ Acquire(s)
          /\ GoTo(s, "commit")
          /\ close' = [close EXCEPT ![s] = {You(s)}]
          /\ UNCHANGED <<rows, job, mk, todo>>

\* admin_moderate_user: the account FOR UPDATE; then an UPDATE that closes the
\* account's active matches, found in one snapshot and locked one by one, each
\* looked at again once its lock is granted.
\* Slip: the account read without FOR UPDATE.
LockAccountUnlocked(s) ==
    /\ pc[s] = "user"
    /\ GoTo(s, "scan")
    /\ UNCHANGED <<rows, job, local, locks>>

LockAccount(s) ==
    /\ pc[s] = "user"
    /\ Acquire(s)
    /\ GoTo(s, "scan")
    /\ UNCHANGED <<rows, job, local>>

ScanMatches(s) ==
    /\ pc[s] = "scan"
    /\ todo' = [todo EXCEPT ![s] = {v \in Users \ {Me(s)} : matchSt[Pair(Me(s), v)] = "active"}]
    /\ GoTo(s, "pick")
    /\ UNCHANGED <<rows, job, mk, close, locks>>

PickMatch(s) ==
    /\ pc[s] = "pick"
    /\ \/ /\ todo[s] = {}
          /\ GoTo(s, "commit")
          /\ UNCHANGED <<rows, job, local, locks>>
       \/ \E v \in todo[s] :
             /\ job' = [job EXCEPT ![s] = [op |-> "ban", u |-> Me(s), v |-> v]]
             /\ todo' = [todo EXCEPT ![s] = @ \ {v}]
             /\ GoTo(s, "visit")
             /\ UNCHANGED <<rows, mk, close, locks>>

VisitMatch(s) ==
    /\ pc[s] = "visit"
    /\ Acquire(s)
    /\ close' = [close EXCEPT ![s] =
                    IF matchSt[PairOf(s)] = "active" THEN @ \cup {You(s)} ELSE @]
    /\ GoTo(s, "pick")
    /\ UNCHANGED <<rows, job, mk, todo>>
-----------------------------------------------------------------------------
(* COMMIT, by what the transaction has written.                            *)

\* Slip: the RPC's result written where the status belongs.
CommitLikeResult(s) ==
    /\ pc[s] = "commit" /\ job[s].op \in {"accept", "like"}
    /\ likes' = likes \cup {<<Me(s), You(s)>>}
    /\ recs' = IF job[s].op = "accept"
               THEN [recs EXCEPT ![<<Me(s), You(s)>>] = "liked"] ELSE recs
    /\ matchSt' = IF mk[s] THEN [matchSt EXCEPT ![PairOf(s)] = "active"] ELSE matchSt
    /\ End(s)
    /\ UNCHANGED <<closedBy, closeKind, blocks, status, msgs>>

CommitLike(s) ==
    /\ pc[s] = "commit" /\ job[s].op \in {"accept", "like"}
    /\ likes' = likes \cup {<<Me(s), You(s)>>}
    /\ recs' = IF job[s].op = "accept"
               THEN [recs EXCEPT ![<<Me(s), You(s)>>] = "accepted"] ELSE recs
    /\ matchSt' = IF mk[s] THEN [matchSt EXCEPT ![PairOf(s)] = "active"] ELSE matchSt
    /\ End(s)
    /\ UNCHANGED <<closedBy, closeKind, blocks, status, msgs>>

CommitLeave(s) ==
    /\ pc[s] = "commit" /\ job[s].op = "leave"
    /\ matchSt' = [matchSt EXCEPT ![PairOf(s)] = "closed"]
    /\ closedBy' = [closedBy EXCEPT ![PairOf(s)] = Me(s)]
    /\ closeKind' = [closeKind EXCEPT ![PairOf(s)] = "left"]
    /\ End(s)
    /\ UNCHANGED <<likes, recs, blocks, status, msgs>>

CommitSend(s) ==
    /\ pc[s] = "commit" /\ job[s].op = "send"
    /\ msgs' = [msgs EXCEPT ![PairOf(s)] = @ + 1]
    /\ End(s)
    /\ UNCHANGED <<likes, matchSt, closedBy, closeKind, recs, blocks, status>>

CommitBlock(s) ==
    /\ pc[s] = "commit" /\ job[s].op = "block"
    /\ blocks' = blocks \cup {<<Me(s), You(s)>>}
    /\ matchSt' = [p \in Pairs |-> IF p = PairOf(s) /\ close[s] # {} THEN "blocked" ELSE matchSt[p]]
    /\ closeKind' = [p \in Pairs |-> IF p = PairOf(s) /\ close[s] # {} THEN "blocked" ELSE closeKind[p]]
    /\ End(s)
    /\ UNCHANGED <<likes, closedBy, recs, status, msgs>>

\* guard_match_lifecycle sees the account banned, so it fills in 'admin', and
\* keeps closed_by empty.
CommitBan(s) ==
    /\ pc[s] = "commit" /\ job[s].op = "ban"
    /\ status' = [status EXCEPT ![Me(s)] = "banned"]
    /\ LET closed == {Pair(Me(s), v) : v \in close[s]}
       IN  /\ matchSt' = [p \in Pairs |-> IF p \in closed THEN "closed" ELSE matchSt[p]]
           /\ closeKind' = [p \in Pairs |-> IF p \in closed THEN "admin" ELSE closeKind[p]]
    /\ End(s)
    /\ UNCHANGED <<likes, closedBy, recs, blocks, msgs>>
-----------------------------------------------------------------------------
\* The sessions that wait for each other in a circle (deadlock_timeout): every
\* member of such a set waits for another member.
BlockersOf(s) == IF Wants(s) THEN Blockers(locks, s, WantRow(s), WantMode(s)) ELSE {}
Deadlocked(S) == S # {} /\ \A s \in S : BlockersOf(s) \cap S # {}

\* Slip: the victim goes back to waiting with its locks.
AbortKeepsWaiting(s) ==
    /\ pc[s] # "idle"
    /\ \E S \in SUBSET Sess : s \in S /\ Deadlocked(S)
    /\ UNCHANGED vars

\* PostgreSQL aborts one transaction of the circle.
AbortDeadlock(s) ==
    /\ pc[s] # "idle"
    /\ \E S \in SUBSET Sess : s \in S /\ Deadlocked(S)
    /\ Rollback(s)

Statement(s) ==
    \/ AcceptCard(s) \/ DecideCard(s) \/ InsertLike(s) \/ InsertBlock(s)
    \/ CheckFkFrom(s) \/ CheckFkTo(s)
    \/ SeeExisting(s) \/ LockSelf(s) \/ CountSelf(s) \/ SeeReverse(s)
    \/ LockLo(s) \/ LockHi(s) \/ Recheck(s)
    \/ LockMatch(s) \/ BlockMatch(s)
    \/ LockAccount(s) \/ ScanMatches(s) \/ PickMatch(s) \/ VisitMatch(s)

Commit(s) ==
    \/ CommitLike(s) \/ CommitLeave(s) \/ CommitSend(s) \/ CommitBlock(s) \/ CommitBan(s)

Next == \E s \in Sess : Begin(s) \/ Statement(s) \/ Commit(s) \/ AbortDeadlock(s)

Spec == Init /\ [][Next]_vars

\* A statement that is not waiting runs, a lock whose holders keep ending is
\* granted in the end (PostgreSQL queues the waiters of a row), and a circle is
\* broken.  Nothing obliges a client to send a request.
Fairness ==
    /\ \A s \in Sess : SF_vars(Statement(s) \/ Commit(s))
    /\ WF_vars(\E s \in Sess : AbortDeadlock(s))

FairSpec == Spec /\ Fairness
-----------------------------------------------------------------------------
Labels == LockPcs \cup {"idle", "existing", "count_self", "reverse", "recheck",
                        "scan", "pick", "commit"}

\* Every variable has its type: rows hold the values their CHECK constraints
\* allow, locks belong to sessions.
TypeOK ==
    /\ likes \subseteq Cards
    /\ matchSt \in [Pairs -> {"none", "active", "closed", "blocked"}]
    /\ closedBy \in [Pairs -> Users \cup {NoUser}]
    /\ closeKind \in [Pairs -> {"none", "left", "blocked", "admin"}]
    /\ recs \in [Cards -> {"none", "pending", "accepted", "skipped"}]
    /\ blocks \subseteq Cards
    /\ status \in [Users -> {"active", "banned"}]
    /\ msgs \in [Pairs -> Nat]
    /\ pc \in [Sess -> Labels]
    /\ job \in [Sess -> {j \in AllJobs : j.u # j.v} \cup {NoJob}]
    /\ mk \in [Sess -> BOOLEAN]
    /\ close \in [Sess -> SUBSET Users]
    /\ todo \in [Sess -> SUBSET Users]
    /\ \A l \in locks : l.s \in Sess /\ l.mode \in LockModes

\* conversation_slot_limit: however acceptances of several people overlap with
\* each other and with matches being closed, nobody is in more than Limit
\* active matches (handle_mutual_like counts under locks on both users rows).
SlotLimit == \A u \in Users : ActiveCount(u) <= Limit

\* A mutual like is never lost: once both likes are committed the pair has a
\* match row.  The trigger looks for the reverse like before its own commits;
\* only the KEY SHARE locks of the likes' foreign keys keep two opposite likes
\* from both looking too early.
NoLostMatch ==
    \A p \in Pairs :
        p \in likes /\ <<p[2], p[1]>> \in likes => matchSt[p] # "none"

\* recommendation_accept leaves all or nothing: a card accepted through it has
\* its like.  (A client that declares a card accepted by itself may not: such
\* jobs are left out of the run that checks this.)
AcceptedHasLike ==
    \A e \in Cards : recs[e] = "accepted" => e \in likes

\* closed_by, close_kind and status tell one story, whichever of a leave, a
\* block and a ban of either side came first: the one who left is named, nobody
\* is named for a block or a ban, and an active match has no closing facts.
CloseFactsAgree ==
    \A p \in Pairs :
        /\ closeKind[p] = "none" <=> matchSt[p] \in {"none", "active"}
        /\ closeKind[p] = "blocked" <=> matchSt[p] = "blocked"
        /\ closeKind[p] = "left" <=> closedBy[p] # NoUser
        /\ closedBy[p] \in {NoUser, p[1], p[2]}

\* A match that has ended stays as it ended (guard_match_lifecycle, and the
\* UPDATEs that only touch active rows): no later leave, block, ban or like
\* reopens it or rewrites who ended it.
EndedIsFinal ==
    \A p \in Pairs : matchSt[p] \in {"closed", "blocked"} =>
        /\ matchSt'[p] = matchSt[p]
        /\ closedBy'[p] = closedBy[p]
        /\ closeKind'[p] = closeKind[p]

\* handle_new_message: a message is stored only in a match that is active, and
\* never across a block, even when the leave, block or ban commits between the
\* INSERT policy's look at the tables and the message's own commit.
StoresOnlyWhileOpen ==
    [][\A p \in Pairs : msgs'[p] # msgs[p] =>
          matchSt[p] = "active" /\ matchSt'[p] = "active" /\ ~BlockedPair(p)]_vars

\* handle_block: the moment a block commits the pair has no active match, also
\* when the match was being created at the same time (the block's foreign keys
\* and the trigger's FOR UPDATE exclude each other on the users rows).
BlockEndsMatch ==
    \A e \in Cards : e \in blocks' \ blocks => matchSt'[Pair(e[1], e[2])] # "active"

\* admin_moderate_user: the moment a ban commits the banned user has no active
\* match, also when one was being created while the UPDATE was looking.
BanEndsMatches ==
    \A u \in Users : status[u] = "active" /\ status'[u] = "banned" =>
        \A p \in Pairs : u \in {p[1], p[2]} => matchSt'[p] # "active"

\* What every step keeps to about the end of a match: those three.
HowMatchesEnd == [][EndedIsFinal /\ BlockEndsMatch /\ BanEndsMatches]_vars

\* The locked transactions implement the one-step requests: whatever the
\* interleaving, the committed rows change as if each request ran alone.
Registry == INSTANCE MatchRegistry
              WITH Users <- Users, Limit <- Limit, NoUser <- NoUser,
                   likes <- likes, matchSt <- matchSt, closedBy <- closedBy,
                   closeKind <- closeKind, blocks <- blocks, status <- status, msgs <- msgs
RegistrySpec == Registry!Spec

\* Every request gets its answer: no transaction waits for ever, although
\* likes in opposite directions and leave against ban do lock in a circle.
EveryRequestEnds == \A s \in Sess : pc[s] # "idle" ~> pc[s] = "idle"
=============================================================================
