----------------------------- MODULE MatchProofs -----------------------------
(***************************************************************************)
(* Proofs about MatchTx: its type invariant, the inductive invariant of    *)
(* MatchInv, the refinement of MatchRegistry and what follows from it.     *)
(***************************************************************************)
EXTENDS MatchInv, FiniteSetTheorems, TLAPS

Step(t) == Begin(t) \/ Statement(t) \/ Commit(t) \/ AbortDeadlock(t)

\* The session part of a step of t: what it may do to the session variables and
\* to the lock table.
Mine(t) ==
    /\ \A s \in Sess : s # t =>
          /\ pc'[s] = pc[s] /\ job'[s] = job[s] /\ mk'[s] = mk[s]
          /\ close'[s] = close[s] /\ todo'[s] = todo[s]
    /\ \/ locks' = locks
       \/ locks' = ReleaseAll(locks, t)
       \/ \E row, mode : Grantable(locks, t, row, mode) /\ locks' = Grant(locks, t, row, mode)

\* A step of one session leaves the program counter, the request and the
\* unwritten changes of every other session alone.
LEMMA StepIsMine ==
  ASSUME TypeOK, NEW t \in Sess, Step(t)
  PROVE  Mine(t)
  <1>1. CASE Begin(t)
    BY <1>1 DEF Begin, Mine, GoTo, TypeOK, local
  <1>2. CASE Statement(t)
    <2>1. CASE AcceptCard(t)
      BY <2>1 DEF AcceptCard, Mine, GoTo, TypeOK, local, Acquire, Rollback, End
    <2>2. CASE DecideCard(t)
      BY <2>2 DEF DecideCard, Mine, TypeOK, Rollback, End
    <2>3. CASE InsertLike(t)
      BY <2>3 DEF InsertLike, Mine, GoTo, TypeOK, local, Acquire, Rollback, End
    <2>4. CASE InsertBlock(t)
      BY <2>4 DEF InsertBlock, Mine, GoTo, TypeOK, local, Acquire, Rollback, End
    <2>5. CASE CheckFkFrom(t) \/ CheckFkTo(t)
      BY <2>5 DEF CheckFkFrom, CheckFkTo, Mine, GoTo, TypeOK, local, Acquire
    <2>6. CASE SeeExisting(t) \/ CountSelf(t) \/ SeeReverse(t) \/ Recheck(t)
      BY <2>6 DEF SeeExisting, CountSelf, SeeReverse, Recheck, Mine, GoTo, TypeOK, local, Rollback, End
    <2>7. CASE LockSelf(t) \/ LockLo(t) \/ LockHi(t)
      BY <2>7 DEF LockSelf, LockLo, LockHi, Mine, GoTo, TypeOK, local, Acquire
    <2>8. CASE LockMatch(t) \/ BlockMatch(t)
      BY <2>8 DEF LockMatch, BlockMatch, Mine, GoTo, TypeOK, local, Acquire, Rollback, End
    <2>9. CASE LockAccount(t) \/ ScanMatches(t) \/ VisitMatch(t)
      BY <2>9 DEF LockAccount, ScanMatches, VisitMatch, Mine, GoTo, TypeOK, local, Acquire
    <2>10. CASE PickMatch(t)
      BY <2>10 DEF PickMatch, Mine, GoTo, TypeOK, local
    <2>11. QED
      BY <1>2, <2>1, <2>2, <2>3, <2>4, <2>5, <2>6, <2>7, <2>8, <2>9, <2>10 DEF Statement
  <1>3. CASE Commit(t)
    BY <1>3 DEF Commit, CommitLike, CommitLeave, CommitSend, CommitBlock, CommitBan, Mine, End, TypeOK
  <1>4. CASE AbortDeadlock(t)
    BY <1>4 DEF AbortDeadlock, Rollback, End, Mine, TypeOK
  <1>5. QED
    BY <1>1, <1>2, <1>3, <1>4 DEF Step
-----------------------------------------------------------------------------
\* A session that serves a request serves two different users.
LEMMA Busy ==
  ASSUME TypeOK, NEW s \in Sess, SessionOK(s), pc[s] # "idle"
  PROVE  /\ job[s] \in AllJobs
         /\ Me(s) \in Users /\ You(s) \in Users /\ Me(s) # You(s)
  BY DEF TypeOK, SessionOK, OpsAt, Labels, LockPcs, InTrigger, NoJob, AllJobs, Ops, Me, You

LEMMA PairIsPair ==
  ASSUME NEW u \in Users, NEW v \in Users, u # v
  PROVE  /\ Pair(u, v) \in Pairs /\ Pair(u, v) = Pair(v, u)
         /\ {Pair(u, v)[1], Pair(u, v)[2]} = {u, v}
         /\ Pair(u, v) = <<u, v>> \/ Pair(u, v) = <<v, u>>
  BY UsersAssumption DEF Pair, Least, Greatest, Pairs

\* What the session variables may become, for the types.
SessTypeOK ==
    /\ pc \in [Sess -> Labels]
    /\ job \in [Sess -> {j \in AllJobs : j.u # j.v} \cup {NoJob}]
    /\ mk \in [Sess -> BOOLEAN]
    /\ close \in [Sess -> SUBSET Users]
    /\ todo \in [Sess -> SUBSET Users]
    /\ \A l \in locks : l.s \in Sess /\ l.mode \in LockModes

RowTypeOK ==
    /\ likes \subseteq Cards
    /\ matchSt \in [Pairs -> {"none", "active", "closed", "blocked"}]
    /\ closedBy \in [Pairs -> Users \cup {NoUser}]
    /\ closeKind \in [Pairs -> {"none", "left", "blocked", "admin"}]
    /\ recs \in [Cards -> {"none", "pending", "accepted", "skipped"}]
    /\ blocks \subseteq Cards
    /\ status \in [Users -> {"active", "banned"}]
    /\ msgs \in [Pairs -> Nat]

LEMMA TypeSplit == TypeOK <=> RowTypeOK /\ SessTypeOK
  BY DEF TypeOK, RowTypeOK, SessTypeOK

\* The mode a statement asks for is a mode.
LEMMA WantModeIsMode == ASSUME NEW s PROVE WantMode(s) \in LockModes
  BY DEF WantMode, LockModes

LEMMA AcquireTypes ==
  ASSUME TypeOK, NEW t \in Sess, Acquire(t)
  PROVE  \A l \in locks' : l.s \in Sess /\ l.mode \in LockModes
  BY WantModeIsMode DEF TypeOK, Acquire, Grant

\* The end of a transaction, for the session part.
LEMMA EndIsClean ==
  ASSUME TypeOK, NEW t \in Sess, End(t)
  PROVE  /\ SessTypeOK' /\ SessionOK(t)'
         /\ pc'[t] = "idle" /\ job'[t] = NoJob /\ ~mk'[t]
  <1>1. SessTypeOK'
    BY DEF End, TypeOK, SessTypeOK, ReleaseAll, Labels, LockPcs
  <1>2. pc'[t] = "idle" /\ job'[t] = NoJob /\ ~mk'[t] /\ close'[t] = {} /\ todo'[t] = {}
    BY DEF End, TypeOK
  <1>3. QED
    BY <1>1, <1>2 DEF SessionOK, OpsAt, NoJob, InTrigger

\* A step keeps the types, and leaves its session at a statement of the
\* operation it serves.
LEMMA StepTypes ==
  ASSUME TypeOK, NEW t \in Sess, SessionOK(t), BanOK(t), Step(t)
  PROVE  TypeOK' /\ SessionOK(t)'
  <1>1. CASE Begin(t)
    <2> PICK j \in Jobs : /\ job' = [job EXCEPT ![t] = j]
                          /\ pc' = [pc EXCEPT ![t] = FirstPc(j.op)]
      BY <1>1 DEF Begin, GoTo
    <2>1. j \in AllJobs /\ j.u # j.v /\ j.op \in Ops
      BY JobsAssumption DEF AllJobs
    <2>2. FirstPc(j.op) \in Labels /\ j.op \in OpsAt(FirstPc(j.op)) /\ FirstPc(j.op) # "idle"
      BY <2>1 DEF FirstPc, Ops, OpsAt, Labels, LockPcs, InTrigger
    <2>3. SessTypeOK'
      BY <1>1, <2>1, <2>2 DEF Begin, local, SessTypeOK, TypeOK
    <2>4. SessionOK(t)'
      BY <2>1, <2>2 DEF SessionOK, TypeOK
    <2>5. QED
      BY <1>1, <2>3, <2>4 DEF Begin, rows, TypeOK, SessTypeOK
  <1>2. CASE Statement(t)
    <2>1. CASE AcceptCard(t)
      <3>1. CASE Rollback(t)
        BY <3>1, EndIsClean DEF Rollback, rows, TypeOK, SessTypeOK
      <3>2. CASE Acquire(t) /\ GoTo(t, "like") /\ UNCHANGED <<rows, job, local>>
        BY <2>1, <3>2, AcquireTypes
        DEF AcceptCard, GoTo, rows, local, TypeOK, SessionOK, OpsAt, Labels, LockPcs, InTrigger
      <3>3. QED
        BY <2>1, <3>1, <3>2 DEF AcceptCard
    <2>2. CASE DecideCard(t)
      <3>1. CASE Rollback(t)
        BY <3>1, EndIsClean DEF Rollback, rows, TypeOK, SessTypeOK
      <3>2. CASE End(t) /\ UNCHANGED <<likes, matchSt, closedBy, closeKind, blocks, status, msgs>>
        BY <2>2, <3>1, <3>2, EndIsClean DEF DecideCard, TypeOK, SessTypeOK
      <3>3. QED
        BY <2>2, <3>1, <3>2 DEF DecideCard
    <2>3. CASE InsertLike(t)
      <3>1. CASE Rollback(t)
        BY <3>1, EndIsClean DEF Rollback, rows, TypeOK, SessTypeOK
      <3>2. CASE ~Rollback(t)
        BY <2>3, <3>2, AcquireTypes
        DEF InsertLike, GoTo, rows, local, TypeOK, SessionOK, OpsAt, Labels, LockPcs, InTrigger
      <3>3. QED
        BY <3>1, <3>2
    <2>4. CASE InsertBlock(t)
      <3>1. CASE Rollback(t)
        BY <3>1, EndIsClean DEF Rollback, rows, TypeOK, SessTypeOK
      <3>2. CASE ~Rollback(t)
        BY <2>4, <3>2, AcquireTypes
        DEF InsertBlock, GoTo, rows, local, TypeOK, SessionOK, OpsAt, Labels, LockPcs, InTrigger
      <3>3. QED
        BY <3>1, <3>2
    <2>5. CASE CheckFkFrom(t)
      BY <2>5, AcquireTypes
      DEF CheckFkFrom, GoTo, rows, local, TypeOK, SessionOK, OpsAt, Labels, LockPcs, InTrigger, AfterFrom
    <2>6. CASE CheckFkTo(t)
      BY <2>6, AcquireTypes
      DEF CheckFkTo, GoTo, rows, local, TypeOK, SessionOK, OpsAt, Labels, LockPcs, InTrigger, AfterTo
    <2>7. CASE SeeExisting(t)
      <3>1. CASE Rollback(t)
        BY <3>1, EndIsClean DEF Rollback, rows, TypeOK, SessTypeOK
      <3>2. CASE ~Rollback(t)
        BY <2>7, <3>2, AcquireTypes
        DEF SeeExisting, GoTo, rows, local, TypeOK, SessionOK, OpsAt, Labels, LockPcs, InTrigger
      <3>3. QED
        BY <3>1, <3>2
    <2>8. CASE LockSelf(t)
      BY <2>8, AcquireTypes
      DEF LockSelf, GoTo, rows, local, TypeOK, SessionOK, OpsAt, Labels, LockPcs, InTrigger
    <2>9. CASE CountSelf(t)
      <3>1. CASE Rollback(t)
        BY <3>1, EndIsClean DEF Rollback, rows, TypeOK, SessTypeOK
      <3>2. CASE ~Rollback(t)
        BY <2>9, <3>2, AcquireTypes
        DEF CountSelf, GoTo, rows, local, TypeOK, SessionOK, OpsAt, Labels, LockPcs, InTrigger
      <3>3. QED
        BY <3>1, <3>2
    <2>10. CASE SeeReverse(t)
      BY <2>10, AcquireTypes
      DEF SeeReverse, GoTo, rows, local, TypeOK, SessionOK, OpsAt, Labels, LockPcs, InTrigger
    <2>11. CASE LockLo(t)
      BY <2>11, AcquireTypes
      DEF LockLo, GoTo, rows, local, TypeOK, SessionOK, OpsAt, Labels, LockPcs, InTrigger
    <2>12. CASE LockHi(t)
      BY <2>12, AcquireTypes
      DEF LockHi, GoTo, rows, local, TypeOK, SessionOK, OpsAt, Labels, LockPcs, InTrigger
    <2>13. CASE Recheck(t)
      <3>1. CASE Rollback(t)
        BY <3>1, EndIsClean DEF Rollback, rows, TypeOK, SessTypeOK
      <3>2. CASE ~Rollback(t)
        <4>1. mk' \in [Sess -> BOOLEAN]
          BY <2>13, <3>2, Zenon DEF Recheck, TypeOK
        <4>2. GoTo(t, "commit") /\ UNCHANGED <<rows, job, close, todo, locks>>
          BY <2>13, <3>2 DEF Recheck
        <4>3. QED
          BY <2>13, <4>1, <4>2
          DEF Recheck, GoTo, rows, local, TypeOK, SessionOK, OpsAt, Labels, LockPcs, InTrigger
      <3>3. QED
        BY <3>1, <3>2
    <2>14. CASE LockMatch(t)
      <3>1. CASE Rollback(t)
        BY <3>1, EndIsClean DEF Rollback, rows, TypeOK, SessTypeOK
      <3>2. CASE ~Rollback(t)
        BY SMTT(30), <2>14, <3>2, AcquireTypes, Busy
        DEF LockMatch, GoTo, rows, local, TypeOK, SessionOK, OpsAt, Labels, LockPcs, InTrigger
      <3>3. QED
        BY <3>1, <3>2
    <2>15. CASE BlockMatch(t)
      BY <2>15, AcquireTypes, Busy
      DEF BlockMatch, GoTo, rows, local, TypeOK, SessionOK, OpsAt, Labels, LockPcs, InTrigger
    <2>16. CASE LockAccount(t)
      BY <2>16, AcquireTypes
      DEF LockAccount, GoTo, rows, local, TypeOK, SessionOK, OpsAt, Labels, LockPcs, InTrigger
    <2>17. CASE ScanMatches(t)
      BY <2>17, AcquireTypes
      DEF ScanMatches, GoTo, rows, local, TypeOK, SessionOK, OpsAt, Labels, LockPcs, InTrigger
    <2>18. CASE PickMatch(t)
      <3>1. CASE GoTo(t, "commit") /\ UNCHANGED <<rows, job, local, locks>>
        BY <2>18, <3>1 DEF PickMatch, GoTo, rows, local, TypeOK, SessionOK, OpsAt, Labels, LockPcs, InTrigger
      <3>2. CASE \E v \in todo[t] :
                    /\ job' = [job EXCEPT ![t] = [op |-> "ban", u |-> Me(t), v |-> v]]
                    /\ todo' = [todo EXCEPT ![t] = @ \ {v}]
                    /\ GoTo(t, "visit")
                    /\ UNCHANGED <<rows, mk, close, locks>>
        <4> PICK v \in todo[t] :
                    /\ job' = [job EXCEPT ![t] = [op |-> "ban", u |-> Me(t), v |-> v]]
                    /\ todo' = [todo EXCEPT ![t] = @ \ {v}]
                    /\ GoTo(t, "visit")
                    /\ UNCHANGED <<rows, mk, close, locks>>
          BY <3>2
        <4>1. v \in Users /\ Me(t) \in Users /\ v # Me(t)
          BY <2>18, Busy DEF PickMatch, TypeOK, BanOK, SessionOK, OpsAt, InTrigger
        <4>2. QED
          BY <2>18, <4>1 DEF PickMatch, AllJobs, Ops, GoTo, rows, local, TypeOK, SessionOK, OpsAt, Labels, LockPcs, InTrigger
      <3>3. QED
        BY <2>18, <3>1, <3>2 DEF PickMatch
    <2>19. CASE VisitMatch(t)
      BY <2>19, AcquireTypes, Busy
      DEF VisitMatch, GoTo, rows, local, TypeOK, SessionOK, OpsAt, Labels, LockPcs, InTrigger
    <2>20. QED
      BY <1>2, <2>1, <2>2, <2>3, <2>4, <2>5, <2>6, <2>7, <2>8, <2>9, <2>10, <2>11, <2>12, <2>13, <2>14, <2>15, <2>16, <2>17, <2>18, <2>19 DEF Statement
  <1>3. CASE Commit(t)
    <2>0. End(t)
      BY <1>3 DEF Commit, CommitLike, CommitLeave, CommitSend, CommitBlock, CommitBan
    <2>1. SessTypeOK' /\ SessionOK(t)'
      BY <2>0, EndIsClean
    <2>2. RowTypeOK'
      <3>0. Me(t) \in Users /\ You(t) \in Users /\ Me(t) # You(t) /\ <<Me(t), You(t)>> \in Cards
        BY <1>3, Busy DEF Commit, CommitLike, CommitLeave, CommitSend, CommitBlock, CommitBan, Cards
      <3>1. CASE CommitLike(t)
        BY <3>0, <3>1 DEF CommitLike, TypeOK, RowTypeOK
      <3>2. CASE CommitLeave(t)
        BY <3>0, <3>2 DEF CommitLeave, TypeOK, RowTypeOK
      <3>3. CASE CommitSend(t)
        <4>1. PairOf(t) \in Pairs /\ msgs[PairOf(t)] + 1 \in Nat
          BY <3>0, PairIsPair DEF PairOf, TypeOK
        <4>2. msgs' \in [Pairs -> Nat]
          BY <3>3, <4>1 DEF CommitSend, TypeOK
        <4>3. QED
          BY <3>3, <4>2 DEF CommitSend, TypeOK, RowTypeOK
      <3>4. CASE CommitBlock(t)
        BY <3>0, <3>4 DEF CommitBlock, TypeOK, RowTypeOK
      <3>5. CASE CommitBan(t)
        BY <3>0, <3>5 DEF CommitBan, TypeOK, RowTypeOK
      <3>6. QED
        BY <1>3, <3>1, <3>2, <3>3, <3>4, <3>5 DEF Commit
    <2>3. QED
      BY <2>1, <2>2 DEF TypeOK, RowTypeOK, SessTypeOK
  <1>4. CASE AbortDeadlock(t)
    BY <1>4, EndIsClean DEF AbortDeadlock, Rollback, rows, TypeOK, SessTypeOK
  <1>5. QED
    BY <1>1, <1>2, <1>3, <1>4 DEF Step
-----------------------------------------------------------------------------
(* Locks.                                                                  *)

LEMMA LocksStayExclusive ==
  ASSUME NEW t \in Sess, Mine(t), LocksExclude
  PROVE  LocksExclude'
  <1>1. CASE locks' = locks \/ locks' = ReleaseAll(locks, t)
    BY <1>1 DEF LocksExclude, Exclusive, ReleaseAll
  <1>2. CASE \E row, mode : Grantable(locks, t, row, mode) /\ locks' = Grant(locks, t, row, mode)
    <2> PICK row, mode : Grantable(locks, t, row, mode) /\ locks' = Grant(locks, t, row, mode)
      BY <1>2
    <2> QED
      BY DEF LocksExclude, Exclusive, Grantable, Grant, Conflict
  <1>3. QED
    BY <1>1, <1>2 DEF Mine

\* A step of t neither gives nor takes a lock of another session.
LEMMA OthersLocksStay ==
  ASSUME NEW t \in Sess, Mine(t), NEW s \in Sess, s # t, NEW row, NEW mode
  PROVE  Holds(locks', s, row, mode) <=> Holds(locks, s, row, mode)
  BY DEF Mine, Holds, ReleaseAll, Grant

\* A transaction that goes on keeps its locks and has what it asked for.
LEMMA OwnLocksStay ==
  ASSUME NEW t \in Sess, Acquire(t)
  PROVE  /\ Holds(locks', t, WantRow(t), WantMode(t))
         /\ \A row, mode : Holds(locks, t, row, mode) => Holds(locks', t, row, mode)
  BY DEF Acquire, Grant, Holds

\* FOR UPDATE on a users row shuts everybody else out of it.
LEMMA UserRowAlone ==
  ASSUME LocksExclude, NEW s \in Sess, NEW t \in Sess, s # t, NEW u, NEW m,
         HoldsUser(s, u, "Update"), HoldsUser(t, u, m)
  PROVE  FALSE
  BY DEF LocksExclude, Exclusive, Conflict, HoldsUser, Holds

\* So does any UPDATE of a match row, for other updates.
LEMMA MatchRowAlone ==
  ASSUME LocksExclude, NEW s \in Sess, NEW t \in Sess, s # t, NEW p,
         NEW m \in {"NoKeyUpdate", "Update"}, NEW n \in {"NoKeyUpdate", "Update"},
         HoldsMatch(s, p, m), HoldsMatch(t, p, n)
  PROVE  FALSE
  BY DEF LocksExclude, Exclusive, Conflict, HoldsMatch, Holds
-----------------------------------------------------------------------------
(* Counting a user's active matches.                                       *)

LEMMA PairsFinite == IsFiniteSet(Pairs) /\ \A u : IsFiniteSet(ActiveOf(u))
  <1>1. IsFiniteSet(Users \X Users)
    BY UsersAssumption, FS_Product
  <1>2. IsFiniteSet(Pairs)
    BY <1>1, FS_Subset DEF Pairs
  <1>3. ASSUME NEW u PROVE IsFiniteSet(ActiveOf(u))
    <2>1. ActiveOf(u) \subseteq Pairs
      BY DEF ActiveOf
    <2>2. QED
      BY <1>2, <2>1, FS_Subset
  <1>4. QED
    BY <1>2, <1>3

LEMMA CountIsNat == \A u : ActiveCount(u) \in Nat
  BY PairsFinite, FS_CardinalityType DEF ActiveCount

\* A user none of whose matches becomes active has no more of them.
LEMMA CountFalls ==
  ASSUME NEW u,
         \A p \in Pairs : matchSt'[p] = "active" /\ u \in {p[1], p[2]} => matchSt[p] = "active"
  PROVE  ActiveCount(u)' <= ActiveCount(u)
  <1>1. ActiveOf(u)' \subseteq ActiveOf(u)
    BY DEF ActiveOf
  <1>2. Cardinality(ActiveOf(u)') <= Cardinality(ActiveOf(u))
    BY <1>1, PairsFinite, FS_Subset
  <1>3. QED
    BY <1>2 DEF ActiveCount
-----------------------------------------------------------------------------
(* A statement writes nothing another session can see, except a card.      *)

Quiet == UNCHANGED <<likes, matchSt, closedBy, closeKind, blocks, status, msgs>>

LEMMA OnlyCommitsWrite ==
  ASSUME NEW t \in Sess, Step(t), ~Commit(t)
  PROVE  Quiet
  <1>1. CASE Begin(t) \/ AbortDeadlock(t)
    BY <1>1 DEF Begin, AbortDeadlock, Rollback, rows, Quiet
  <1>2. CASE Statement(t)
    BY <1>2 DEF Statement, AcceptCard, DecideCard, InsertLike, InsertBlock, CheckFkFrom,
       CheckFkTo, SeeExisting, LockSelf, CountSelf, SeeReverse, LockLo, LockHi, Recheck,
       LockMatch, BlockMatch, LockAccount, ScanMatches, PickMatch, VisitMatch, Rollback,
       rows, Quiet
  <1>3. QED
    BY <1>1, <1>2 DEF Step

LEMMA QuietKeepsOthers ==
  ASSUME NEW t \in Sess, Mine(t), Quiet, NEW s \in Sess, s # t, SessInv(s)
  PROVE  SessInv(s)'
  <1>1. /\ pc'[s] = pc[s] /\ job'[s] = job[s] /\ mk'[s] = mk[s]
        /\ close'[s] = close[s] /\ todo'[s] = todo[s]
        /\ likes' = likes /\ matchSt' = matchSt /\ blocks' = blocks
    BY DEF Mine, Quiet
  <1>2. \A u, m : HoldsUser(s, u, m)' <=> HoldsUser(s, u, m)
    BY OthersLocksStay DEF HoldsUser
  <1>3. \A p, m : HoldsMatch(s, p, m)' <=> HoldsMatch(s, p, m)
    BY OthersLocksStay DEF HoldsMatch
  <1>4. Me(s)' = Me(s) /\ You(s)' = You(s) /\ PairOf(s)' = PairOf(s)
    BY <1>1 DEF Me, You, PairOf, Pair, Least, Greatest
  <1>5. ActiveCount(Me(s))' = ActiveCount(Me(s)) /\ ActiveCount(You(s))' = ActiveCount(You(s))
    BY <1>1, <1>4 DEF ActiveCount, ActiveOf
  <1>6. SessionOK(s)' /\ LikeOK(s)'
    BY <1>1, <1>2, <1>4, <1>5 DEF SessInv, SessionOK, LikeOK, OpsAt, InTrigger, Least, Greatest
  <1>7. MakeOK(s)' /\ AloneOK(s)'
    BY <1>1, <1>2, <1>4, <1>5 DEF SessInv, MakeOK, AloneOK
  <1>8. LeaveOK(s)' /\ SendOK(s)' /\ BlockOK(s)'
    BY <1>1, <1>2, <1>3, <1>4 DEF SessInv, LeaveOK, SendOK, BlockOK, BlockedPair
  <1>9. BanOK(s)'
    BY <1>1, <1>2, <1>3, <1>4 DEF SessInv, BanOK
  <1>10. QED
    BY <1>6, <1>7, <1>8, <1>9 DEF SessInv
-----------------------------------------------------------------------------
(* A statement keeps the invariant of its own session.                     *)

\* An ended transaction has nothing to keep.
LEMMA IdleSessInv ==
  ASSUME NEW t \in Sess, SessionOK(t)', pc'[t] = "idle", job'[t] = NoJob, ~mk'[t]
  PROVE  SessInv(t)'
  BY DEF SessInv, LikeOK, MakeOK, AloneOK, LeaveOK, SendOK, BlockOK, BanOK, NoJob, InTrigger

LEMMA RollbackSessInv ==
  ASSUME TypeOK, NEW t \in Sess, Rollback(t)
  PROVE  SessInv(t)'
  BY EndIsClean, IdleSessInv DEF Rollback

LEMMA BeginSessInv ==
  ASSUME TypeOK, NEW t \in Sess, SessInv(t), SessionOK(t)', Begin(t)
  PROVE  SessInv(t)'
  <1> PICK j \in Jobs : /\ Admitted(j)
                        /\ job' = [job EXCEPT ![t] = j]
                        /\ pc' = [pc EXCEPT ![t] = FirstPc(j.op)]
    BY DEF Begin, GoTo
  <1>1. j \in AllJobs /\ j.u # j.v /\ j.op \in Ops
    BY JobsAssumption DEF AllJobs
  <1>2. pc[t] = "idle" /\ ~mk[t] /\ close[t] = {} /\ todo[t] = {}
    BY DEF Begin, SessInv, SessionOK
  <1>3. /\ pc'[t] = FirstPc(j.op) /\ job'[t] = j /\ ~mk'[t] /\ close'[t] = {} /\ todo'[t] = {}
        /\ matchSt' = matchSt /\ blocks' = blocks
    BY <1>2 DEF Begin, local, rows, TypeOK
  <1>4. LikeOK(t)' /\ MakeOK(t)' /\ AloneOK(t)' /\ LeaveOK(t)'
    BY <1>1, <1>3 DEF LikeOK, MakeOK, AloneOK, LeaveOK, InTrigger, FirstPc, Ops
  <1>5. BlockOK(t)' /\ BanOK(t)'
    BY <1>1, <1>3 DEF BlockOK, BanOK, FirstPc, Ops
  <1>6. SendOK(t)'
    BY <1>1, <1>3 DEF SendOK, FirstPc, Ops, Admitted, CanChat, PairOf, Me, You,
       Pair, Least, Greatest, BlockedPair
  <1>7. QED
    BY <1>4, <1>5, <1>6 DEF SessInv

\* The facts every statement that goes on shares.
GoesOn(t) ==
    /\ Quiet /\ job' = job
    /\ \A row, mode : Holds(locks, t, row, mode) => Holds(locks', t, row, mode)

LEMMA GoesOnKeeps ==
  ASSUME NEW t \in Sess, GoesOn(t)
  PROVE  /\ Me(t)' = Me(t) /\ You(t)' = You(t) /\ PairOf(t)' = PairOf(t)
         /\ job'[t] = job[t]
         /\ ActiveCount(Me(t))' = ActiveCount(Me(t)) /\ ActiveCount(You(t))' = ActiveCount(You(t))
         /\ \A u, m : HoldsUser(t, u, m) => HoldsUser(t, u, m)'
         /\ \A p, m : HoldsMatch(t, p, m) => HoldsMatch(t, p, m)'
         /\ likes' = likes /\ matchSt' = matchSt /\ blocks' = blocks
  BY DEF GoesOn, Quiet, Me, You, PairOf, Pair, Least, Greatest, ActiveCount, ActiveOf,
     HoldsUser, HoldsMatch

\* The card, the like and the block row: no lock on users or matches yet.
LEMMA FirstRowsSessInv ==
  ASSUME TypeOK, NEW t \in Sess, SessInv(t), SessionOK(t)',
         AcceptCard(t) \/ DecideCard(t) \/ InsertLike(t) \/ InsertBlock(t)
  PROVE  SessInv(t)'
  <1>1. CASE End(t)
    BY <1>1, EndIsClean, IdleSessInv
  <1>2. CASE ~End(t)
    <2>1. GoesOn(t) /\ UNCHANGED <<mk, close, todo>>
      BY <1>2, OwnLocksStay DEF AcceptCard, DecideCard, InsertLike, InsertBlock, Rollback,
         GoesOn, Quiet, rows, local
    <2>2. /\ pc[t] \in {"rec", "like", "row"}
          /\ job[t].op \in {"accept", "like", "decline", "declare", "block"}
      BY DEF AcceptCard, DecideCard, InsertLike, InsertBlock, SessInv, SessionOK, OpsAt, InTrigger
    <2>3. \/ pc'[t] \in {"like", "fk_from"}
          \/ pc'[t] = "commit" /\ job[t].op # "block" /\ <<Me(t), You(t)>> \in likes
      BY <1>2, <2>2 DEF AcceptCard, DecideCard, InsertLike, InsertBlock, Rollback, GoTo,
         TypeOK, SessInv, SessionOK, OpsAt, InTrigger
    <2>4. LikeOK(t)' /\ MakeOK(t)' /\ AloneOK(t)'
      BY <2>1, <2>2, <2>3, GoesOnKeeps DEF SessInv, LikeOK, MakeOK, AloneOK, InTrigger
    <2>5. LeaveOK(t)' /\ SendOK(t)' /\ BlockOK(t)' /\ BanOK(t)'
      BY <2>1, <2>2, <2>3, GoesOnKeeps DEF SessInv, LeaveOK, SendOK, BlockOK, BanOK
    <2>6. QED
      BY <2>4, <2>5 DEF SessInv
  <1>3. QED
    BY <1>1, <1>2

LEMMA FkFromSessInv ==
  ASSUME TypeOK, NEW t \in Sess, SessInv(t), SessionOK(t)', CheckFkFrom(t)
  PROVE  SessInv(t)'
  <1>1. GoesOn(t) /\ UNCHANGED <<mk, close, todo>> /\ pc'[t] = AfterFrom(job[t].op)
    BY OwnLocksStay DEF CheckFkFrom, GoesOn, Quiet, rows, local, GoTo, TypeOK
  <1>2. pc[t] = "fk_from" /\ job[t].op \in {"accept", "like", "block", "send", "leave"}
    BY DEF CheckFkFrom, SessInv, SessionOK, OpsAt, InTrigger
  <1>3. HoldsUser(t, Me(t), "KeyShare")'
    BY <1>1, <1>2, OwnLocksStay, GoesOnKeeps DEF CheckFkFrom, WantRow, WantMode, HoldsUser
  <1>4. LikeOK(t)' /\ MakeOK(t)' /\ AloneOK(t)'
    BY <1>1, <1>2, <1>3, GoesOnKeeps DEF SessInv, LikeOK, MakeOK, AloneOK, InTrigger, AfterFrom
  <1>5. LeaveOK(t)' /\ SendOK(t)' /\ BlockOK(t)' /\ BanOK(t)'
    BY <1>1, <1>2, GoesOnKeeps DEF SessInv, LeaveOK, SendOK, BlockOK, BanOK, BlockedPair, AfterFrom
  <1>6. QED
    BY <1>4, <1>5 DEF SessInv

LEMMA FkToSessInv ==
  ASSUME TypeOK, NEW t \in Sess, SessInv(t), SessionOK(t)', CheckFkTo(t)
  PROVE  SessInv(t)'
  <1>1. GoesOn(t) /\ UNCHANGED <<mk, close, todo>> /\ pc'[t] = AfterTo(job[t].op)
    BY OwnLocksStay DEF CheckFkTo, GoesOn, Quiet, rows, local, GoTo, TypeOK
  <1>2. pc[t] = "fk_to" /\ job[t].op \in {"accept", "like", "block", "send"}
    BY DEF CheckFkTo, SessInv, SessionOK, OpsAt, InTrigger
  <1>3. HoldsUser(t, You(t), "KeyShare")'
    BY <1>1, <1>2, OwnLocksStay, GoesOnKeeps DEF CheckFkTo, WantRow, WantMode, HoldsUser
  <1>4. LikeOK(t)' /\ MakeOK(t)' /\ AloneOK(t)'
    BY <1>1, <1>2, <1>3, GoesOnKeeps DEF SessInv, LikeOK, MakeOK, AloneOK, InTrigger, AfterTo
  <1>5. LeaveOK(t)' /\ SendOK(t)' /\ BlockOK(t)' /\ BanOK(t)'
    BY <1>1, <1>2, <1>3, GoesOnKeeps DEF SessInv, LikeOK, LeaveOK, SendOK, BlockOK, BanOK, BlockedPair, AfterTo
  <1>6. QED
    BY <1>4, <1>5 DEF SessInv

\* The trigger, where what was seen is kept.
LEMMA TriggerSessInv ==
  ASSUME TypeOK, MatchHasLikes, NEW t \in Sess, SessInv(t), SessionOK(t)',
         \/ SeeExisting(t) \/ LockSelf(t) \/ CountSelf(t) \/ SeeReverse(t)
         \/ LockLo(t) \/ LockHi(t) \/ Recheck(t)
  PROVE  SessInv(t)'
  <1>1. CASE Rollback(t)
    BY <1>1, RollbackSessInv
  <1>2. CASE ~Rollback(t)
    <2>1. GoesOn(t) /\ UNCHANGED <<close, todo>>
      BY <1>2, OwnLocksStay DEF SeeExisting, LockSelf, CountSelf, SeeReverse, LockLo, LockHi,
         Recheck, GoesOn, Quiet, rows, local
    <2>2. pc[t] \in InTrigger /\ job[t].op \in {"accept", "like"}
      BY DEF SeeExisting, LockSelf, CountSelf, SeeReverse, LockLo, LockHi, Recheck,
         SessInv, SessionOK, OpsAt, InTrigger
    <2>3. LeaveOK(t)' /\ SendOK(t)' /\ BlockOK(t)' /\ BanOK(t)'
      BY <2>1, <2>2, GoesOnKeeps DEF LeaveOK, SendOK, BlockOK, BanOK
    <2>4. Me(t) \in Users /\ You(t) \in Users /\ Me(t) # You(t)
      BY <2>2, Busy DEF SessInv, InTrigger
    <2>5. PairOf(t) \in Pairs /\ {PairOf(t)[1], PairOf(t)[2]} = {Me(t), You(t)}
      BY <2>4, PairIsPair DEF PairOf
    <2>6. {Least(Me(t), You(t)), Greatest(Me(t), You(t))} = {Me(t), You(t)}
      BY <2>4, UsersAssumption DEF Least, Greatest
    <2>7. matchSt[PairOf(t)] # "none" => <<Me(t), You(t)>> \in likes /\ <<You(t), Me(t)>> \in likes
      BY <2>4, <2>5, PairIsPair DEF MatchHasLikes, PairOf, Pair
    <2>8. ~mk[t]
      BY <2>2 DEF SessInv, MakeOK, InTrigger
    <2>9. CASE SeeExisting(t)
      <3>1. ~mk'[t] /\ (pc'[t] = "lock_self" \/ (pc'[t] = "commit" /\ matchSt[PairOf(t)] # "none"))
        BY <1>2, <2>8, <2>9 DEF SeeExisting, GoTo, local, TypeOK
      <3>2. LikeOK(t)' /\ MakeOK(t)' /\ AloneOK(t)'
        BY <2>1, <2>2, <2>7, <2>9, <3>1, GoesOnKeeps DEF SeeExisting, SessInv, LikeOK, MakeOK, AloneOK, InTrigger
      <3>3. QED
        BY <2>3, <3>2 DEF SessInv
    <2>10. CASE LockSelf(t)
      <3>1. ~mk'[t] /\ pc'[t] = "count_self"
        BY <2>8, <2>10 DEF LockSelf, GoTo, local, TypeOK
      <3>2. HoldsUser(t, Me(t), "Update")'
        BY <2>1, <2>10, OwnLocksStay, GoesOnKeeps DEF LockSelf, WantRow, WantMode, HoldsUser
      <3>3. LikeOK(t)' /\ MakeOK(t)' /\ AloneOK(t)'
        BY <2>1, <2>2, <2>10, <3>1, <3>2, GoesOnKeeps DEF LockSelf, SessInv, LikeOK, MakeOK, AloneOK, InTrigger
      <3>4. QED
        BY <2>3, <3>3 DEF SessInv
    <2>11. CASE CountSelf(t)
      <3>1. ~mk'[t] /\ pc'[t] = "reverse" /\ ActiveCount(Me(t)) < Limit
        BY <1>2, <2>8, <2>11 DEF CountSelf, GoTo, local, TypeOK
      <3>2. LikeOK(t)' /\ MakeOK(t)' /\ AloneOK(t)'
        BY <2>1, <2>2, <2>11, <3>1, GoesOnKeeps DEF CountSelf, SessInv, LikeOK, MakeOK, AloneOK, InTrigger
      <3>3. QED
        BY <2>3, <3>2 DEF SessInv
    <2>12. CASE SeeReverse(t)
      <3>1. /\ ~mk'[t]
            /\ pc'[t] = IF <<You(t), Me(t)>> \in likes THEN "lock_lo" ELSE "commit"
        BY <2>8, <2>12 DEF SeeReverse, GoTo, local, TypeOK
      <3>2. LikeOK(t)' /\ MakeOK(t)' /\ AloneOK(t)'
        BY <2>1, <2>2, <2>12, <3>1, GoesOnKeeps DEF SeeReverse, SessInv, LikeOK, MakeOK, AloneOK, InTrigger
      <3>3. QED
        BY <2>3, <3>2 DEF SessInv
    <2>13. CASE LockLo(t)
      <3>1. ~mk'[t] /\ pc'[t] = "lock_hi"
        BY <2>8, <2>13 DEF LockLo, GoTo, local, TypeOK
      <3>2. HoldsUser(t, Least(Me(t), You(t)), "Update")'
        BY <2>1, <2>13, OwnLocksStay, GoesOnKeeps DEF LockLo, WantRow, WantMode, HoldsUser, Least
      <3>3. LikeOK(t)' /\ MakeOK(t)' /\ AloneOK(t)'
        BY <2>1, <2>2, <2>13, <3>1, <3>2, GoesOnKeeps DEF LockLo, SessInv, LikeOK, MakeOK, AloneOK, InTrigger
      <3>4. QED
        BY <2>3, <3>3 DEF SessInv
    <2>14. CASE LockHi(t)
      <3>1. ~mk'[t] /\ pc'[t] = "recheck"
        BY <2>8, <2>14 DEF LockHi, GoTo, local, TypeOK
      <3>2. HoldsUser(t, Greatest(Me(t), You(t)), "Update")'
        BY <2>1, <2>14, OwnLocksStay, GoesOnKeeps DEF LockHi, WantRow, WantMode, HoldsUser, Greatest
      <3>3. HoldsUser(t, Least(Me(t), You(t)), "Update")'
        BY <2>1, <2>14, GoesOnKeeps DEF LockHi, SessInv, LikeOK, Least
      <3>4. LikeOK(t)' /\ MakeOK(t)' /\ AloneOK(t)'
        BY <2>1, <2>2, <2>14, <3>1, <3>2, <3>3, GoesOnKeeps DEF LockHi, SessInv, LikeOK, MakeOK, AloneOK, InTrigger
      <3>5. QED
        BY <2>3, <3>4 DEF SessInv
    <2>15. CASE Recheck(t)
      <3>1. /\ pc'[t] = "commit" /\ pc[t] = "recheck"
            /\ mk'[t] <=> matchSt[PairOf(t)] = "none"
            /\ ActiveCount(Me(t)) < Limit /\ ActiveCount(You(t)) < Limit
        BY <1>2, <2>15, Zenon DEF Recheck, GoTo, TypeOK
      <3>2. HoldsUser(t, Me(t), "Update") /\ HoldsUser(t, You(t), "Update")
        BY <2>6, <3>1 DEF SessInv, LikeOK, InTrigger
      <3>3. LikeOK(t)' /\ MakeOK(t)' /\ AloneOK(t)'
        BY <2>1, <2>2, <2>7, <3>1, <3>2, GoesOnKeeps DEF SessInv, LikeOK, MakeOK, AloneOK, InTrigger
      <3>4. QED
        BY <2>3, <3>3 DEF SessInv
    <2>16. QED
      BY <2>9, <2>10, <2>11, <2>12, <2>13, <2>14, <2>15
  <1>3. QED
    BY <1>1, <1>2

LEMMA LockMatchSessInv ==
  ASSUME TypeOK, NEW t \in Sess, SessInv(t), SessionOK(t)', LockMatch(t)
  PROVE  SessInv(t)'
  <1>1. CASE Rollback(t)
    BY <1>1, RollbackSessInv
  <1>2. CASE ~Rollback(t)
    <2>1. /\ GoesOn(t) /\ UNCHANGED <<mk, todo>> /\ matchSt[PairOf(t)] = "active"
          /\ pc'[t] = IF job[t].op = "leave" THEN "fk_from" ELSE "fk_to"
      BY <1>2, OwnLocksStay DEF LockMatch, GoesOn, Quiet, rows, GoTo, TypeOK
    <2>2. pc[t] = "match" /\ job[t].op \in {"leave", "send"}
      BY DEF LockMatch
    <2>3. HoldsMatch(t, PairOf(t), "Update")'
      BY <1>2, <2>1, <2>2, OwnLocksStay, GoesOnKeeps
      DEF LockMatch, WantRow, WantMode, HoldsMatch
    <2>4. LikeOK(t)' /\ MakeOK(t)' /\ AloneOK(t)'
      BY <2>1, <2>2, GoesOnKeeps DEF SessInv, LikeOK, MakeOK, AloneOK, InTrigger
    <2>5. LeaveOK(t)' /\ SendOK(t)' /\ BlockOK(t)' /\ BanOK(t)'
      BY <2>1, <2>2, <2>3, GoesOnKeeps DEF SessInv, LeaveOK, SendOK, BlockOK, BanOK, BlockedPair
    <2>6. QED
      BY <2>4, <2>5 DEF SessInv
  <1>3. QED
    BY <1>1, <1>2

LEMMA BlockMatchSessInv ==
  ASSUME TypeOK, NEW t \in Sess, SessInv(t), SessionOK(t)', BlockMatch(t)
  PROVE  SessInv(t)'
  <1>1. GoesOn(t) /\ UNCHANGED <<mk, todo>> /\ pc'[t] = "commit"
    BY OwnLocksStay DEF BlockMatch, GoesOn, Quiet, rows, local, GoTo, TypeOK
  <1>2. pc[t] = "match" /\ job[t].op = "block"
    BY DEF BlockMatch
  <1>3. LikeOK(t)' /\ MakeOK(t)' /\ AloneOK(t)'
    BY <1>1, <1>2, GoesOnKeeps DEF SessInv, LikeOK, MakeOK, AloneOK, InTrigger
  <1>4. LeaveOK(t)' /\ SendOK(t)' /\ BanOK(t)'
    BY <1>1, <1>2, GoesOnKeeps DEF LeaveOK, SendOK, BanOK
  <1>5. BlockOK(t)'
    <2>1. CASE matchSt[PairOf(t)] # "active"
      BY <1>1, <1>2, <2>1, GoesOnKeeps DEF BlockMatch, local, SessInv, BlockOK
    <2>2. CASE matchSt[PairOf(t)] = "active"
      <3>1. HoldsMatch(t, PairOf(t), "NoKeyUpdate")'
        BY <1>1, <1>2, <2>2, OwnLocksStay, GoesOnKeeps DEF BlockMatch, WantRow, WantMode, HoldsMatch
      <3>2. close'[t] # {}
        BY <2>2 DEF BlockMatch, TypeOK
      <3>3. QED
        BY <1>1, <1>2, <2>2, <3>1, <3>2, GoesOnKeeps DEF SessInv, BlockOK
    <2>3. QED
      BY <2>1, <2>2
  <1>6. QED
    BY <1>3, <1>4, <1>5 DEF SessInv

LEMMA BanSessInv ==
  ASSUME TypeOK, NEW t \in Sess, SessInv(t), SessionOK(t)',
         LockAccount(t) \/ ScanMatches(t) \/ PickMatch(t) \/ VisitMatch(t)
  PROVE  SessInv(t)'
  <1>1. /\ pc[t] \in {"user", "scan", "pick", "visit"} /\ job[t].op = "ban"
        /\ pc'[t] \in {"scan", "pick", "visit", "commit"} /\ job'[t].op = "ban"
    BY DEF LockAccount, ScanMatches, PickMatch, VisitMatch, SessInv, SessionOK, OpsAt,
       InTrigger, GoTo, local, TypeOK
  <1>2. /\ Quiet /\ mk' = mk /\ Me(t)' = Me(t)
        /\ \A row, mode : Holds(locks, t, row, mode) => Holds(locks', t, row, mode)
    BY OwnLocksStay DEF LockAccount, ScanMatches, PickMatch, VisitMatch, Quiet, rows, local, Me, TypeOK
  <1>3. Me(t) \in Users /\ You(t) \in Users /\ Me(t) # You(t)
    BY <1>1, Busy DEF SessInv
  <1>4. LikeOK(t)' /\ MakeOK(t)' /\ AloneOK(t)' /\ LeaveOK(t)' /\ SendOK(t)' /\ BlockOK(t)'
    BY <1>1, <1>2 DEF SessInv, LikeOK, MakeOK, AloneOK, LeaveOK, SendOK, BlockOK, InTrigger
  <1>5. BanOK(t)'
    <2>1. matchSt' = matchSt
      BY <1>2 DEF Quiet
    <2>2. \A u, m : HoldsUser(t, u, m) => HoldsUser(t, u, m)'
      BY <1>2 DEF HoldsUser
    <2>3. \A p, m : HoldsMatch(t, p, m) => HoldsMatch(t, p, m)'
      BY <1>2 DEF HoldsMatch
    <2>4. CASE LockAccount(t)
      <3>1. HoldsUser(t, Me(t), "Update")'
        BY <1>2, <2>4, OwnLocksStay DEF LockAccount, WantRow, WantMode, HoldsUser
      <3>2. pc'[t] = "scan" /\ close'[t] = {} /\ todo' = todo /\ Me(t) \notin todo[t]
        BY <1>1, <2>4 DEF LockAccount, GoTo, local, TypeOK, SessInv, BanOK
      <3>3. QED
        BY <1>2, <3>1, <3>2 DEF BanOK
    <2>5. CASE ScanMatches(t)
      <3>1. HoldsUser(t, Me(t), "Update") /\ close[t] = {}
        BY <1>1, <2>5 DEF ScanMatches, SessInv, BanOK
      <3>2. /\ pc'[t] = "pick" /\ close'[t] = {}
            /\ todo'[t] = {v \in Users \ {Me(t)} : matchSt[Pair(Me(t), v)] = "active"}
        BY <2>5, <3>1 DEF ScanMatches, GoTo, TypeOK
      <3>3. QED
        BY <1>2, <2>1, <2>2, <3>1, <3>2 DEF BanOK
    <2>6. CASE PickMatch(t)
      <3>0. SessInv(t) /\ BanOK(t) /\ pc[t] = "pick" /\ close' = close
        BY <2>6 DEF PickMatch, local, SessInv
      <3>1. CASE pc'[t] = "commit"
        <4>1. todo[t] = {} /\ todo' = todo
          BY <2>6, <3>1 DEF PickMatch, GoTo, local, TypeOK
        <4>2. QED
          BY <1>1, <1>2, <2>1, <2>2, <2>3, <3>0, <3>1, <4>1 DEF BanOK
      <3>2. CASE pc'[t] # "commit"
        <4>1. PICK v \in todo[t] : /\ job'[t] = [op |-> "ban", u |-> Me(t), v |-> v]
                                   /\ todo'[t] = todo[t] \ {v}
                                   /\ pc'[t] = "visit"
          BY <2>6, <3>2 DEF PickMatch, GoTo, TypeOK
        <4>2. You(t)' = v
          BY <4>1 DEF You
        <4>3. QED
          BY <1>1, <1>2, <2>1, <2>2, <2>3, <3>0, <4>1, <4>2 DEF BanOK
      <3>3. QED
        BY <3>1, <3>2
    <2>7. CASE VisitMatch(t)
      <3>1. Holds(locks', t, MatchRow(Pair(Me(t), You(t))), "NoKeyUpdate")
        <4>1. WantRow(t) = MatchRow(Pair(Me(t), You(t))) /\ WantMode(t) = "NoKeyUpdate"
          BY <2>7 DEF VisitMatch, WantRow, WantMode, PairOf
        <4>2. QED
          BY <2>7, <4>1, OwnLocksStay DEF VisitMatch
      <3>2. /\ pc'[t] = "pick" /\ todo' = todo
            /\ close'[t] = IF matchSt[Pair(Me(t), You(t))] = "active"
                           THEN close[t] \cup {You(t)} ELSE close[t]
        BY <2>7 DEF VisitMatch, GoTo, TypeOK, PairOf
      <3>3. pc[t] = "visit" /\ BanOK(t)
        BY <2>7 DEF VisitMatch, SessInv
      <3>4. QED
        <4>1. Me(t)' = Me(t) /\ pc'[t] = "pick"
          BY <1>2, <3>2
        <4>2. \A v \in close'[t] : /\ HoldsMatch(t, Pair(Me(t), v), "NoKeyUpdate")'
                                  /\ matchSt'[Pair(Me(t), v)] = "active"
          <5> SUFFICES ASSUME NEW v \in close'[t]
                       PROVE  /\ Holds(locks', t, MatchRow(Pair(Me(t), v)), "NoKeyUpdate")
                              /\ matchSt'[Pair(Me(t), v)] = "active"
            BY <1>2 DEF HoldsMatch, Me, Pair, Least, Greatest
          <5>1. CASE v \in close[t]
            BY <1>1, <1>2, <2>1, <3>3, <5>1 DEF BanOK, HoldsMatch
          <5>2. CASE v \notin close[t]
            BY <2>1, <3>1, <3>2, <5>2
          <5>3. QED
            BY <5>1, <5>2
        <4>3. HoldsUser(t, Me(t), "Update")'
          BY <1>1, <1>2, <3>3, <4>1 DEF BanOK, HoldsUser
        <4>4. Me(t) \notin close'[t] /\ Me(t) \notin todo'[t]
          BY <1>1, <1>3, <3>2, <3>3 DEF BanOK
        <4>5. \A v \in Users \ {Me(t)} :
                 matchSt'[Pair(Me(t), v)] = "active" => v \in close'[t] \/ v \in todo'[t]
          BY <1>1, <2>1, <3>2, <3>3 DEF BanOK
        <4>6. QED
          BY <4>1, <4>2, <4>3, <4>4, <4>5 DEF BanOK
    <2>8. QED
      BY <2>4, <2>5, <2>6, <2>7
  <1>6. QED
    BY <1>4, <1>5 DEF SessInv

LEMMA QuietKeepsOwn ==
  ASSUME TypeOK, MatchHasLikes, NEW t \in Sess, SessInv(t), SessionOK(t)', Step(t), ~Commit(t)
  PROVE  SessInv(t)'
  BY BeginSessInv, FirstRowsSessInv, FkFromSessInv, FkToSessInv, TriggerSessInv,
     LockMatchSessInv, BlockMatchSessInv, BanSessInv, RollbackSessInv
  DEF Step, Statement, AbortDeadlock
-----------------------------------------------------------------------------
(* A commit, as the other sessions feel it: it touches no row that one of  *)
(* them has locked.                                                        *)

Spares(t) ==
    /\ likes \subseteq likes'
    /\ \A u, v : <<v, u>> \in likes' /\ <<v, u>> \notin likes =>
          \A s \in Sess \ {t} : ~HoldsUser(s, u, "Update")
    /\ \A p \in Pairs : matchSt[p] # "none" => matchSt'[p] # "none"
    /\ \A p \in Pairs :
          \/ matchSt'[p] = "active" /\ matchSt[p] # "active"
          \/ matchSt'[p] # "none" /\ matchSt[p] = "none"
          => /\ matchSt[p] = "none"
             /\ \A s \in Sess \ {t} : \A m : ~HoldsUser(s, p[1], m) /\ ~HoldsUser(s, p[2], m)
    /\ \A p \in Pairs : matchSt[p] = "active" /\ matchSt'[p] # "active" =>
          \A s \in Sess \ {t} : /\ ~HoldsMatch(s, p, "NoKeyUpdate")
                                /\ ~HoldsMatch(s, p, "Update")
    /\ \A p \in Pairs : BlockedPair(p)' /\ ~BlockedPair(p) => matchSt'[p] # "active"

LEMMA CommitSpares ==
  ASSUME TypeOK, LocksExclude, MatchHasLikes, NEW t \in Sess, SessInv(t), Commit(t)
  PROVE  Spares(t)
  <1>0. Me(t) \in Users /\ You(t) \in Users /\ Me(t) # You(t) /\ pc[t] = "commit"
    BY Busy DEF SessInv, Commit, CommitLike, CommitLeave, CommitSend, CommitBlock, CommitBan
  <1>1. /\ PairOf(t) \in Pairs
        /\ PairOf(t) = <<Me(t), You(t)>> \/ PairOf(t) = <<You(t), Me(t)>>
    BY <1>0, PairIsPair DEF PairOf
  <1>2. CASE CommitLike(t)
    <2>1. /\ likes' = likes \cup {<<Me(t), You(t)>>} /\ blocks' = blocks
          /\ matchSt' = IF mk[t] THEN [matchSt EXCEPT ![PairOf(t)] = "active"] ELSE matchSt
          /\ job[t].op \in {"accept", "like"}
      BY <1>2 DEF CommitLike
    <2>2. <<Me(t), You(t)>> \notin likes => \E m : HoldsUser(t, You(t), m)
      BY <1>0, <2>1 DEF SessInv, MakeOK, AloneOK
    <2>3. \A u, v : <<v, u>> \in likes' /\ <<v, u>> \notin likes =>
             \A s \in Sess \ {t} : ~HoldsUser(s, u, "Update")
      BY <2>1, <2>2, UserRowAlone
    <2>4. mk[t] => /\ matchSt[PairOf(t)] = "none"
                   /\ HoldsUser(t, PairOf(t)[1], "Update") /\ HoldsUser(t, PairOf(t)[2], "Update")
      BY <1>1 DEF SessInv, MakeOK
    <2>5. mk[t] => \A s \in Sess \ {t} : \A m : /\ ~HoldsUser(s, PairOf(t)[1], m)
                                           /\ ~HoldsUser(s, PairOf(t)[2], m)
      BY <2>4, UserRowAlone
    <2>6. \A p \in Pairs : matchSt'[p] = IF mk[t] /\ p = PairOf(t) THEN "active" ELSE matchSt[p]
      BY <2>1 DEF TypeOK
    <2>7. QED
      BY <2>1, <2>3, <2>4, <2>5, <2>6 DEF Spares, BlockedPair
  <1>3. CASE CommitLeave(t)
    <2>1. /\ likes' = likes /\ blocks' = blocks
          /\ \A p \in Pairs : matchSt'[p] = IF p = PairOf(t) THEN "closed" ELSE matchSt[p]
      BY <1>3 DEF CommitLeave, TypeOK
    <2>2. HoldsMatch(t, PairOf(t), "Update") /\ matchSt[PairOf(t)] = "active"
      BY <1>0, <1>3 DEF CommitLeave, SessInv, LeaveOK
    <2>3. \A s \in Sess \ {t} : /\ ~HoldsMatch(s, PairOf(t), "NoKeyUpdate")
                                /\ ~HoldsMatch(s, PairOf(t), "Update")
      BY <2>2, MatchRowAlone
    <2>4. QED
      BY <2>1, <2>2, <2>3 DEF Spares, BlockedPair
  <1>4. CASE CommitSend(t)
    BY <1>4 DEF CommitSend, Spares, BlockedPair
  <1>5. CASE CommitBlock(t)
    <2>1. /\ likes' = likes /\ blocks' = blocks \cup {<<Me(t), You(t)>>}
          /\ \A p \in Pairs : matchSt'[p] =
                IF p = PairOf(t) /\ close[t] # {} THEN "blocked" ELSE matchSt[p]
      BY <1>5 DEF CommitBlock
    <2>2. close[t] # {} => HoldsMatch(t, PairOf(t), "NoKeyUpdate") /\ matchSt[PairOf(t)] = "active"
      BY <1>0, <1>5 DEF CommitBlock, SessInv, BlockOK
    <2>3. close[t] = {} => matchSt[PairOf(t)] # "active"
      BY <1>0, <1>5 DEF CommitBlock, SessInv, BlockOK
    <2>4. close[t] # {} => \A s \in Sess \ {t} : /\ ~HoldsMatch(s, PairOf(t), "NoKeyUpdate")
                                               /\ ~HoldsMatch(s, PairOf(t), "Update")
      BY <2>2, MatchRowAlone
    <2>5. \A p \in Pairs : BlockedPair(p)' /\ ~BlockedPair(p) => p = PairOf(t)
      <3> SUFFICES ASSUME NEW p \in Pairs, BlockedPair(p)', ~BlockedPair(p)
                   PROVE  p = PairOf(t)
        OBVIOUS
      <3>1. p = <<Me(t), You(t)>> \/ <<p[2], p[1]>> = <<Me(t), You(t)>>
        BY <2>1 DEF BlockedPair
      <3>2. p = <<p[1], p[2]>> /\ p[1] < p[2] /\ p[1] \in Users /\ p[2] \in Users
        BY DEF Pairs
      <3>3. QED
        BY <1>0, <3>1, <3>2, UsersAssumption DEF PairOf, Pair, Least, Greatest
    <2>6. QED
      BY <2>1, <2>2, <2>3, <2>4, <2>5 DEF Spares
  <1>6. CASE CommitBan(t)
    <2> DEFINE closed == {Pair(Me(t), v) : v \in close[t]}
    <2>1. /\ likes' = likes /\ blocks' = blocks
          /\ \A p \in Pairs : matchSt'[p] = IF p \in closed THEN "closed" ELSE matchSt[p]
      BY <1>6 DEF CommitBan
    <2>2. \A p \in closed : HoldsMatch(t, p, "NoKeyUpdate") /\ matchSt[p] = "active"
      BY <1>0, <1>6 DEF CommitBan, SessInv, BanOK
    <2>3. \A p \in closed, s \in Sess \ {t} : /\ ~HoldsMatch(s, p, "NoKeyUpdate")
                                            /\ ~HoldsMatch(s, p, "Update")
      BY <2>2, MatchRowAlone
    <2>4. QED
      BY <2>1, <2>2, <2>3 DEF Spares, BlockedPair
  <1>7. QED
    BY <1>2, <1>3, <1>4, <1>5, <1>6 DEF Commit

LEMMA CommitKeepsOthers ==
  ASSUME TypeOK, NEW t \in Sess, Mine(t), Spares(t), NEW s \in Sess, s # t, SessInv(s)
  PROVE  SessInv(s)'
  <1>1. /\ pc'[s] = pc[s] /\ job'[s] = job[s] /\ mk'[s] = mk[s]
        /\ close'[s] = close[s] /\ todo'[s] = todo[s]
    BY DEF Mine
  <1>2. \A u, m : HoldsUser(s, u, m)' <=> HoldsUser(s, u, m)
    BY OthersLocksStay DEF HoldsUser
  <1>3. \A p, m : HoldsMatch(s, p, m)' <=> HoldsMatch(s, p, m)
    BY OthersLocksStay DEF HoldsMatch
  <1>4. Me(s)' = Me(s) /\ You(s)' = You(s) /\ PairOf(s)' = PairOf(s)
    BY <1>1 DEF Me, You, PairOf, Pair, Least, Greatest
  <1>5. SessionOK(s) /\ SessionOK(s)'
    BY <1>1 DEF SessInv, SessionOK, OpsAt, InTrigger
  <1>6. CASE pc[s] = "idle"
    <2>1. job[s].op = "none" /\ ~mk[s]
      BY <1>5, <1>6 DEF SessionOK, OpsAt, InTrigger
    <2>2. QED
      BY <1>1, <1>5, <1>6, <2>1 DEF SessInv, LikeOK, MakeOK, AloneOK, LeaveOK, SendOK, BlockOK, BanOK, InTrigger
  <1>7. CASE pc[s] # "idle"
    <2>0. Me(s) \in Users /\ You(s) \in Users /\ Me(s) # You(s)
      BY <1>5, <1>7, Busy
    <2>1. PairOf(s) \in Pairs /\ {PairOf(s)[1], PairOf(s)[2]} = {Me(s), You(s)}
      BY <2>0, PairIsPair DEF PairOf
    <2>2. ASSUME NEW u \in Users, HoldsUser(s, u, "Update"), ActiveCount(u) < Limit
          PROVE  Cardinality({p \in Pairs : matchSt'[p] = "active" /\ u \in {p[1], p[2]}}) < Limit
      <3>1. \A p \in Pairs : matchSt'[p] = "active" /\ u \in {p[1], p[2]} => matchSt[p] = "active"
        BY <2>2 DEF Spares
      <3>2. ActiveCount(u)' <= ActiveCount(u)
        BY <3>1, CountFalls
      <3>3. ActiveCount(u) \in Nat
        BY CountIsNat
      <3>4. ActiveCount(u)' \in Nat
        <4>1. ActiveOf(u)' \subseteq Pairs
          BY DEF ActiveOf
        <4>2. IsFiniteSet(ActiveOf(u)')
          BY <4>1, PairsFinite, FS_Subset
        <4>3. QED
          BY <4>2, FS_CardinalityType DEF ActiveCount
      <3>5. ActiveCount(u)' < Limit
        BY <2>2, <3>2, <3>3, <3>4, LimitAssumption
      <3>6. QED
        BY <3>5 DEF ActiveCount, ActiveOf
    <2>3. HoldsUser(s, Me(s), "Update") /\ ActiveCount(Me(s)) < Limit => ActiveCount(Me(s))' < Limit
      BY <1>4, <2>0, <2>2 DEF ActiveCount, ActiveOf
    <2>4. HoldsUser(s, You(s), "Update") /\ ActiveCount(You(s)) < Limit => ActiveCount(You(s))' < Limit
      BY <1>4, <2>0, <2>2 DEF ActiveCount, ActiveOf
    <2>5. LikeOK(s)'
      BY <1>1, <1>2, <1>4, <2>3 DEF SessInv, LikeOK, InTrigger, Least, Greatest, Spares
    <2>6. MakeOK(s)'
      <3> SUFFICES ASSUME mk[s] PROVE MakeOK(s)'
        BY <1>1 DEF MakeOK
      <3>1. matchSt'[PairOf(s)] = "none"
        BY <2>1 DEF SessInv, MakeOK, Spares
      <3>2. QED
        BY <1>1, <1>2, <1>4, <2>3, <2>4, <3>1 DEF SessInv, MakeOK, Spares
    <2>7. AloneOK(s)'
      BY <1>1, <1>2, <1>4, <2>3 DEF SessInv, AloneOK, Spares
    <2>8. LeaveOK(s)'
      BY <1>1, <1>3, <1>4, <2>1 DEF SessInv, LeaveOK, Spares
    <2>9. SendOK(s)'
      BY <1>1, <1>3, <1>4, <2>1 DEF SessInv, SendOK, Spares, BlockedPair
    <2>10. BlockOK(s)'
      BY <1>1, <1>2, <1>3, <1>4, <2>1 DEF SessInv, BlockOK, Spares
    <2>11. BanOK(s)'
      <3> SUFFICES ASSUME job[s].op = "ban" PROVE BanOK(s)'
        BY <1>1 DEF BanOK
      <3>1. ASSUME NEW v \in Users \ {Me(s)}, HoldsUser(s, Me(s), "Update"),
                   matchSt'[Pair(Me(s), v)] = "active"
            PROVE  matchSt[Pair(Me(s), v)] = "active"
        <4>1. Pair(Me(s), v) \in Pairs /\ Me(s) \in {Pair(Me(s), v)[1], Pair(Me(s), v)[2]}
          BY <2>0, PairIsPair
        <4>2. QED
          BY <3>1, <4>1 DEF Spares
      <3>2. ASSUME NEW v \in close[s], Me(s) \notin close[s],
                   HoldsMatch(s, Pair(Me(s), v), "NoKeyUpdate"), matchSt[Pair(Me(s), v)] = "active"
            PROVE  matchSt'[Pair(Me(s), v)] = "active"
        <4>1. Pair(Me(s), v) \in Pairs
          BY <2>0, <3>2, PairIsPair DEF TypeOK
        <4>2. QED
          BY <3>2, <4>1 DEF Spares
      <3>3. BanOK(s) /\ (pc[s] \in {"pick", "visit", "commit"} => HoldsUser(s, Me(s), "Update"))
        BY DEF SessInv, BanOK
      <3>4. QED
        BY <1>1, <1>2, <1>3, <1>4, <3>1, <3>2, <3>3 DEF BanOK
    <2>12. QED
      BY <1>5, <2>5, <2>6, <2>7, <2>8, <2>9, <2>10, <2>11 DEF SessInv
  <1>8. QED
    BY <1>6, <1>7

LEMMA CommitKeepsLikes ==
  ASSUME TypeOK, MatchHasLikes, NEW t \in Sess, SessInv(t), Commit(t)
  PROVE  MatchHasLikes'
  <1>0. /\ Me(t) \in Users /\ You(t) \in Users /\ Me(t) # You(t) /\ PairOf(t) \in Pairs
        /\ PairOf(t) = <<Me(t), You(t)>> \/ PairOf(t) = <<You(t), Me(t)>>
    BY Busy, PairIsPair DEF PairOf, SessInv, Commit, CommitLike, CommitLeave, CommitSend, CommitBlock, CommitBan
  <1>1. CASE CommitLike(t)
    <2>1. /\ likes' = likes \cup {<<Me(t), You(t)>>}
          /\ \A p \in Pairs : matchSt'[p] = IF mk[t] /\ p = PairOf(t) THEN "active" ELSE matchSt[p]
      BY <1>1 DEF CommitLike, TypeOK
    <2>2. mk[t] => <<You(t), Me(t)>> \in likes
      BY DEF SessInv, MakeOK
    <2>3. QED
      BY <1>0, <2>1, <2>2 DEF MatchHasLikes
  <1>2. CASE ~CommitLike(t)
    <2>1. likes' = likes /\ \A p \in Pairs : matchSt'[p] # "none" => matchSt[p] # "none"
      <3>1. CASE CommitLeave(t)
        BY <1>0, <3>1 DEF CommitLeave, TypeOK, SessInv, LeaveOK
      <3>2. CASE CommitSend(t)
        BY <3>2 DEF CommitSend
      <3>3. CASE CommitBlock(t)
        BY <3>3 DEF CommitBlock, SessInv, BlockOK
      <3>4. CASE CommitBan(t)
        BY <3>4 DEF CommitBan, SessInv, BanOK
      <3>5. QED
        BY <1>2, <3>1, <3>2, <3>3, <3>4 DEF Commit
    <2>2. QED
      BY <2>1 DEF MatchHasLikes
  <1>3. QED
    BY <1>1, <1>2
-----------------------------------------------------------------------------
(* The inductive invariant.                                                *)

LEMMA InitInv == Init => TypeOK /\ IInv
  <1> SUFFICES ASSUME Init PROVE TypeOK /\ IInv
    OBVIOUS
  <1>1. TypeOK
    BY UsersAssumption DEF Init, TypeOK, Labels, LockPcs, NoJob
  <1>2. LocksExclude /\ MatchHasLikes
    BY DEF Init, LocksExclude, Exclusive, MatchHasLikes
  <1>3. ASSUME NEW s \in Sess PROVE SessInv(s)
    <2>1. pc[s] = "idle" /\ job[s].op = "none" /\ ~mk[s] /\ close[s] = {} /\ todo[s] = {}
      BY DEF Init, NoJob
    <2>2. QED
      BY <2>1 DEF SessInv, SessionOK, OpsAt, LikeOK, MakeOK, AloneOK, LeaveOK, SendOK, BlockOK, BanOK, InTrigger
  <1>4. QED
    BY <1>1, <1>2, <1>3 DEF IInv

LEMMA StepInv ==
  ASSUME TypeOK, IInv, NEW t \in Sess, Step(t)
  PROVE  TypeOK' /\ IInv'
  <1>0. SessInv(t) /\ SessionOK(t) /\ BanOK(t) /\ LocksExclude /\ MatchHasLikes
    BY DEF IInv, SessInv
  <1>1. TypeOK' /\ SessionOK(t)'
    BY <1>0, StepTypes
  <1>2. Mine(t) /\ LocksExclude'
    BY <1>0, StepIsMine, LocksStayExclusive
  <1>3. CASE ~Commit(t)
    <2>1. Quiet
      BY <1>3, OnlyCommitsWrite
    <2>2. MatchHasLikes'
      BY <1>0, <2>1 DEF Quiet, MatchHasLikes
    <2>3. SessInv(t)'
      BY <1>0, <1>1, <1>3, QuietKeepsOwn
    <2>4. \A s \in Sess : s # t => SessInv(s)'
      BY <1>2, <2>1, QuietKeepsOthers DEF IInv
    <2>5. QED
      BY <1>1, <1>2, <2>2, <2>3, <2>4 DEF IInv
  <1>4. CASE Commit(t)
    <2>1. Spares(t)
      BY <1>0, <1>4, CommitSpares
    <2>2. MatchHasLikes'
      BY <1>0, <1>4, CommitKeepsLikes
    <2>3. End(t)
      BY <1>4 DEF Commit, CommitLike, CommitLeave, CommitSend, CommitBlock, CommitBan
    <2>4. SessInv(t)'
      BY <2>3, EndIsClean, IdleSessInv
    <2>5. \A s \in Sess : s # t => SessInv(s)'
      BY <1>2, <2>1, CommitKeepsOthers DEF IInv
    <2>6. QED
      BY <1>1, <1>2, <2>2, <2>4, <2>5 DEF IInv
  <1>5. QED
    BY <1>3, <1>4

LEMMA StutterInv ==
  ASSUME TypeOK, IInv, UNCHANGED vars
  PROVE  TypeOK' /\ IInv'
  <1>1. /\ UNCHANGED <<likes, matchSt, closedBy, closeKind, recs, blocks, status, msgs>>
        /\ UNCHANGED <<pc, job, mk, close, todo, locks>>
    BY DEF vars, rows, local
  <1>2. TypeOK' /\ LocksExclude' /\ MatchHasLikes'
    BY <1>1 DEF TypeOK, IInv, LocksExclude, MatchHasLikes
  <1>3. ASSUME NEW s \in Sess PROVE SessInv(s)'
    <2>1. SessInv(s)
      BY DEF IInv
    <2>2. QED
      BY <1>1, <2>1 DEF SessInv, SessionOK, LikeOK, MakeOK, AloneOK, LeaveOK, SendOK, BlockOK,
         BanOK, HoldsUser, HoldsMatch, PairOf, Me, You, ActiveCount, ActiveOf, BlockedPair
  <1>4. QED
    BY <1>2, <1>3 DEF IInv

\* Whatever the users, sessions, limit and requests, every variable keeps its
\* type and every transaction, at every statement, holds the row locks that keep
\* true what it has read.
THEOREM Inductive == Spec => [](TypeOK /\ IInv)
  <1>1. TypeOK /\ IInv /\ [Next]_vars => (TypeOK /\ IInv)'
    BY StepInv, StutterInv DEF Next, Step
  <1>2. QED
    BY <1>1, InitInv, PTL DEF Spec

\* The type invariant, for every value of the constants.
THEOREM TypeCorrect == Spec => []TypeOK
  BY Inductive, PTL
-----------------------------------------------------------------------------
(* Refinement: the commits are the registry's requests.                    *)

LEMMA SameNames ==
  /\ Registry!Pairs = Pairs
  /\ \A u, v : Registry!Pair(u, v) = Pair(u, v)
  /\ \A u : Registry!ActiveOf(u) = ActiveOf(u)
  /\ \A u : Registry!HasSlot(u) <=> ActiveCount(u) < Limit
  /\ \A p : Registry!BlockedPair(p) <=> BlockedPair(p)
  <1>1. Registry!Pairs = Pairs /\ \A u, v : Registry!Pair(u, v) = Pair(u, v)
    BY DEF Registry!Pairs, Pairs, Registry!Pair, Pair, Least, Greatest
  <1>2. \A u : Registry!ActiveOf(u) = ActiveOf(u)
    BY <1>1 DEF Registry!ActiveOf, ActiveOf
  <1>3. \A S : Registry!Cardinality(S) = Cardinality(S)
    BY DEF Registry!Cardinality, Cardinality
  <1>4. \A u : Registry!HasSlot(u) <=> ActiveCount(u) < Limit
    BY <1>2, <1>3 DEF Registry!HasSlot, ActiveCount
  <1>5. \A p : Registry!BlockedPair(p) <=> BlockedPair(p)
    BY DEF Registry!BlockedPair, BlockedPair
  <1>6. QED
    BY <1>1, <1>2, <1>4, <1>5

LEMMA CommitRefines ==
  ASSUME TypeOK, IInv, NEW t \in Sess, Commit(t)
  PROVE  [Registry!Next]_Registry!vars
  <1> DEFINE u == Me(t)
             v == You(t)
  <1>0. SessInv(t) /\ MatchHasLikes /\ pc[t] = "commit"
    BY DEF IInv, Commit, CommitLike, CommitLeave, CommitSend, CommitBlock, CommitBan
  <1>1. u \in Users /\ v \in Users /\ u # v
    BY <1>0, Busy DEF SessInv
  <1>2. PairOf(t) = Registry!Pair(u, v) /\ PairOf(t) \in Pairs
    BY <1>1, SameNames, PairIsPair DEF PairOf
  <1>3. CASE CommitLike(t)
    <2>1. /\ likes' = likes \cup {<<u, v>>} /\ job[t].op \in {"accept", "like"}
          /\ matchSt' = IF mk[t] THEN [matchSt EXCEPT ![PairOf(t)] = "active"] ELSE matchSt
          /\ UNCHANGED <<closedBy, closeKind, blocks, status, msgs>>
      BY <1>3 DEF CommitLike
    <2>2. CASE mk[t]
      <3>1. /\ <<v, u>> \in likes /\ matchSt[PairOf(t)] = "none"
            /\ ActiveCount(u) < Limit /\ ActiveCount(v) < Limit
        BY <1>0, <2>2 DEF SessInv, MakeOK
      <3>2. Registry!LikeBack(u, v)
        BY <1>2, <2>1, <2>2, <3>1, SameNames DEF Registry!LikeBack
      <3>3. QED
        BY <1>1, <3>2 DEF Registry!Next
    <2>3. CASE ~mk[t] /\ <<u, v>> \in likes
      BY <2>1, <2>3 DEF Registry!vars
    <2>4. CASE ~mk[t] /\ <<u, v>> \notin likes
      <3>1. <<v, u>> \notin likes /\ ActiveCount(u) < Limit
        BY <1>0, <2>1, <2>4 DEF SessInv, AloneOK
      <3>2. matchSt[PairOf(t)] = "none"
        BY <1>0, <1>1, <1>2, <2>4, PairIsPair DEF MatchHasLikes, PairOf, Pair
      <3>3. Registry!Like(u, v)
        BY <1>2, <2>1, <2>4, <3>1, <3>2, SameNames DEF Registry!Like
      <3>4. QED
        BY <1>1, <3>3 DEF Registry!Next
    <2>5. QED
      BY <2>2, <2>3, <2>4
  <1>4. CASE CommitLeave(t)
    <2>1. matchSt[PairOf(t)] = "active"
      BY <1>0, <1>4 DEF CommitLeave, SessInv, LeaveOK
    <2>2. Registry!Leave(u, v)
      BY <1>2, <1>4, <2>1 DEF CommitLeave, Registry!Leave
    <2>3. QED
      BY <1>1, <2>2 DEF Registry!Next
  <1>5. CASE CommitSend(t)
    <2>1. matchSt[PairOf(t)] = "active" /\ ~BlockedPair(PairOf(t))
      BY <1>0, <1>5 DEF CommitSend, SessInv, SendOK
    <2>2. Registry!Send(u, v)
      BY <1>2, <1>5, <2>1, SameNames DEF CommitSend, Registry!Send
    <2>3. QED
      BY <1>1, <2>2 DEF Registry!Next
  <1>6. CASE CommitBlock(t)
    <2>1. close[t] # {} <=> matchSt[PairOf(t)] = "active"
      BY <1>0, <1>6 DEF CommitBlock, SessInv, BlockOK
    <2>2. \A p \in Pairs : (p = PairOf(t) /\ close[t] # {})
                             <=> p \in {q \in {PairOf(t)} : matchSt[q] = "active"}
      BY <2>1
    <2>3. Registry!EndMatches({q \in {PairOf(t)} : matchSt[q] = "active"}, "blocked", "blocked")
      BY <1>6, <2>2, SameNames DEF CommitBlock, Registry!EndMatches
    <2>4. Registry!Block(u, v)
      BY <1>2, <1>6, <2>3 DEF CommitBlock, Registry!Block
    <2>5. QED
      BY <1>1, <2>4 DEF Registry!Next
  <1>7. CASE CommitBan(t)
    <2> DEFINE closed == {Pair(u, w) : w \in close[t]}
    <2>1. /\ u \notin close[t] /\ close[t] \subseteq Users
          /\ \A w \in Users \ {u} : matchSt[Pair(u, w)] = "active" => w \in close[t]
          /\ \A w \in close[t] : matchSt[Pair(u, w)] = "active"
      BY <1>0, <1>7 DEF CommitBan, SessInv, BanOK, TypeOK
    <2>2. \A p \in Pairs : p \in closed <=> p \in ActiveOf(u)
      <3>1. ASSUME NEW w \in close[t] PROVE Pair(u, w) \in ActiveOf(u)
        <4>1. w \in Users /\ w # u
          BY <2>1
        <4>2. Pair(u, w) \in Pairs /\ u \in {Pair(u, w)[1], Pair(u, w)[2]}
          BY <1>1, <4>1, PairIsPair
        <4>3. QED
          BY <2>1, <4>2 DEF ActiveOf
      <3>2. ASSUME NEW p \in ActiveOf(u) PROVE p \in closed
        <4>1. /\ p = <<p[1], p[2]>> /\ p[1] < p[2] /\ p[1] \in Users /\ p[2] \in Users
              /\ matchSt[p] = "active" /\ u \in {p[1], p[2]}
          BY DEF ActiveOf, Pairs
        <4>2. PICK w \in Users \ {u} : p = Pair(u, w)
          BY <4>1, UsersAssumption DEF Pair, Least, Greatest
        <4>3. QED
          BY <2>1, <4>1, <4>2
      <3>3. QED
        BY <3>1, <3>2
    <2>3. Registry!EndMatches(ActiveOf(u), "closed", "admin")
      BY <1>7, <2>2, SameNames DEF CommitBan, Registry!EndMatches
    <2>4. Registry!Ban(u)
      BY <1>7, <2>3, SameNames DEF CommitBan, Registry!Ban
    <2>5. QED
      BY <1>1, <2>4 DEF Registry!Next
  <1>8. QED
    BY <1>3, <1>4, <1>5, <1>6, <1>7 DEF Commit

LEMMA StepRefines ==
  ASSUME TypeOK, IInv, [Next]_vars
  PROVE  [Registry!Next]_Registry!vars
  <1>1. CASE UNCHANGED vars
    BY <1>1 DEF vars, rows, Registry!vars
  <1>2. CASE Next
    <2> PICK t \in Sess : Step(t)
      BY <1>2 DEF Next, Step
    <2>1. CASE Commit(t)
      BY <2>1, CommitRefines
    <2>2. CASE ~Commit(t)
      BY <2>2, OnlyCommitsWrite DEF Quiet, Registry!vars
    <2>3. QED
      BY <2>1, <2>2
  <1>3. QED
    BY <1>1, <1>2

\* Implementation: under every interleaving of the transactions' statements the
\* committed rows change only as the one-step requests of MatchRegistry allow.
THEOREM Implements == Spec => RegistrySpec
  <1>1. Init => Registry!Init
    BY SameNames DEF Init, Registry!Init
  <1>2. QED
    BY <1>1, StepRefines, Inductive, PTL DEF Spec, RegistrySpec, Registry!Spec
-----------------------------------------------------------------------------
(***************************************************************************)
(* What the tables promise whatever the interleaving, from the refinement  *)
(* of MatchRegistry: each property is shown of the five one-step requests, *)
(* so the locks are not looked at again.                                   *)
(***************************************************************************)
RegistryStep == [Registry!Next]_Registry!vars

\* How the record of one pair's match may change in one step.
Unmoved(p) ==
    matchSt'[p] = matchSt[p] /\ closedBy'[p] = closedBy[p] /\ closeKind'[p] = closeKind[p]

Made(p) ==
    /\ matchSt[p] = "none" /\ matchSt'[p] = "active"
    /\ closedBy'[p] = closedBy[p] /\ closeKind'[p] = closeKind[p]

Left(p) ==
    /\ matchSt[p] = "active" /\ matchSt'[p] = "closed"
    /\ closedBy'[p] \in {p[1], p[2]} /\ closeKind'[p] = "left"

CutOff(p, st, kind) ==
    /\ matchSt[p] = "active" /\ matchSt'[p] = st
    /\ closedBy'[p] = closedBy[p] /\ closeKind'[p] = kind

LEMMA HowMatchesMove ==
  ASSUME TypeOK, RegistryStep, NEW p \in Pairs
  PROVE  \/ Unmoved(p) \/ Made(p) \/ Left(p)
         \/ CutOff(p, "blocked", "blocked") \/ CutOff(p, "closed", "admin")
  <1>1. CASE UNCHANGED Registry!vars
    BY <1>1 DEF Registry!vars, Unmoved
  <1>2. CASE \E u, v \in Users : /\ u # v
                                 /\ \/ Registry!Like(u, v) \/ Registry!LikeBack(u, v)
                                    \/ Registry!Leave(u, v) \/ Registry!Block(u, v)
                                    \/ Registry!Send(u, v)
    <2> PICK u \in Users, v \in Users :
               /\ u # v
               /\ \/ Registry!Like(u, v) \/ Registry!LikeBack(u, v) \/ Registry!Leave(u, v)
                  \/ Registry!Block(u, v) \/ Registry!Send(u, v)
      BY <1>2
    <2>0. /\ Registry!Pair(u, v) = Pair(u, v) /\ Pair(u, v) \in Pairs
          /\ {Pair(u, v)[1], Pair(u, v)[2]} = {u, v}
      BY SameNames, PairIsPair
    <2>1. CASE Registry!Like(u, v) \/ Registry!Send(u, v)
      BY <2>1 DEF Registry!Like, Registry!Send, Unmoved
    <2>2. CASE Registry!LikeBack(u, v)
      BY <2>0, <2>2 DEF Registry!LikeBack, Unmoved, Made, TypeOK
    <2>3. CASE Registry!Leave(u, v)
      BY <2>0, <2>3 DEF Registry!Leave, Unmoved, Left, TypeOK
    <2>4. CASE Registry!Block(u, v)
      BY <2>0, <2>4, SameNames DEF Registry!Block, Registry!EndMatches, Unmoved, CutOff, TypeOK
    <2>5. QED
      BY <2>1, <2>2, <2>3, <2>4
  <1>3. CASE \E u \in Users : Registry!Ban(u)
    <2> PICK u \in Users : Registry!Ban(u)
      BY <1>3
    <2>1. QED
      BY SameNames DEF Registry!Ban, Registry!EndMatches, ActiveOf, Unmoved, CutOff, TypeOK
  <1>4. QED
    BY <1>1, <1>2, <1>3 DEF RegistryStep, Registry!Next

\* Likes are kept, and no step leaves two opposite likes without a match.
LEMMA HowLikesGrow ==
  ASSUME TypeOK, RegistryStep
  PROVE  /\ likes \subseteq likes'
         /\ \A u, v \in Users :
              <<u, v>> \in likes' /\ <<u, v>> \notin likes /\ <<v, u>> \in likes' =>
                 matchSt'[Pair(u, v)] # "none"
  <1>1. CASE ~\E u, v \in Users : u # v /\ (Registry!Like(u, v) \/ Registry!LikeBack(u, v))
    BY <1>1 DEF RegistryStep, Registry!Next, Registry!vars, Registry!Leave, Registry!Block,
       Registry!Send, Registry!Ban
  <1>2. CASE \E u, v \in Users : u # v /\ (Registry!Like(u, v) \/ Registry!LikeBack(u, v))
    <2> PICK u \in Users, v \in Users : u # v /\ (Registry!Like(u, v) \/ Registry!LikeBack(u, v))
      BY <1>2
    <2>1. Registry!Pair(u, v) = Pair(u, v) /\ Pair(u, v) \in Pairs
      BY SameNames, PairIsPair
    <2>2. CASE Registry!Like(u, v)
      BY <2>2 DEF Registry!Like
    <2>3. CASE Registry!LikeBack(u, v)
      BY <2>1, <2>3 DEF Registry!LikeBack, TypeOK
    <2>4. QED
      BY <2>2, <2>3
  <1>3. QED
    BY <1>1, <1>2
-----------------------------------------------------------------------------
(* Every step of the transactions is such a step.                          *)

LEMMA IsRegistryStep == TypeOK /\ IInv /\ [Next]_vars => RegistryStep
  BY StepRefines DEF RegistryStep

\* conversation_slot_limit holds however acceptances overlap: the count that
\* handle_mutual_like takes under both users rows is still true at its commit.
THEOREM SlotLimitHolds == Spec => []SlotLimit
  <1>1. Init => SlotLimit
    <2> SUFFICES ASSUME Init, NEW u \in Users PROVE ActiveCount(u) <= Limit
      BY DEF SlotLimit
    <2>1. ActiveOf(u) = {}
      BY DEF Init, ActiveOf
    <2>2. QED
      BY <2>1, FS_EmptySet, LimitAssumption DEF ActiveCount
  <1>2. TypeOK /\ RegistryStep /\ SlotLimit => SlotLimit'
    <2> SUFFICES ASSUME TypeOK, RegistryStep, SlotLimit, NEW w \in Users
                 PROVE  ActiveCount(w)' <= Limit
      BY DEF SlotLimit
    <2>0. ActiveCount(w) <= Limit /\ ActiveCount(w) \in Nat
      BY CountIsNat DEF SlotLimit
    <2>1. CASE \E u, v \in Users : u # v /\ Registry!LikeBack(u, v)
      <3> PICK u \in Users, v \in Users : u # v /\ Registry!LikeBack(u, v)
        BY <2>1
      <3>1. /\ Pair(u, v) \in Pairs /\ {Pair(u, v)[1], Pair(u, v)[2]} = {u, v}
            /\ matchSt[Pair(u, v)] = "none"
            /\ \A p \in Pairs : matchSt'[p] = IF p = Pair(u, v) THEN "active" ELSE matchSt[p]
            /\ ActiveCount(u) < Limit /\ ActiveCount(v) < Limit
        BY PairIsPair, SameNames DEF Registry!LikeBack, TypeOK
      <3>2. CASE w \in {u, v}
        <4>1. ActiveOf(w)' = ActiveOf(w) \cup {Pair(u, v)} /\ Pair(u, v) \notin ActiveOf(w)
          BY <3>1, <3>2 DEF ActiveOf
        <4>2. Cardinality(ActiveOf(w)') = Cardinality(ActiveOf(w)) + 1
          BY <4>1, PairsFinite, FS_AddElement
        <4>3. QED
          BY <2>0, <3>1, <3>2, <4>2, LimitAssumption DEF ActiveCount
      <3>3. CASE w \notin {u, v}
        <4>1. ActiveOf(w)' = ActiveOf(w)
          BY <3>1, <3>3 DEF ActiveOf
        <4>2. QED
          BY <2>0, <4>1 DEF ActiveCount
      <3>4. QED
        BY <3>2, <3>3
    <2>2. CASE ~\E u, v \in Users : u # v /\ Registry!LikeBack(u, v)
      <3>1. \A p \in Pairs : matchSt'[p] = "active" => matchSt[p] = "active"
        <4> SUFFICES ASSUME NEW p \in Pairs, matchSt'[p] = "active" PROVE matchSt[p] = "active"
          OBVIOUS
        <4>1. ASSUME NEW u \in Users, Registry!Ban(u) PROVE matchSt[p] = "active"
          BY <4>1, SameNames DEF Registry!Ban, Registry!EndMatches
        <4>2. ASSUME NEW u \in Users, NEW v \in Users, u # v,
                     Registry!Leave(u, v) \/ Registry!Block(u, v)
              PROVE  matchSt[p] = "active"
          BY <4>2, SameNames, PairIsPair DEF Registry!Leave, Registry!Block, Registry!EndMatches, TypeOK
        <4>3. ASSUME NEW u \in Users, NEW v \in Users, Registry!Like(u, v) \/ Registry!Send(u, v)
              PROVE  matchSt[p] = "active"
          BY <4>3 DEF Registry!Like, Registry!Send
        <4>4. CASE UNCHANGED Registry!vars
          BY <4>4 DEF Registry!vars
        <4>5. QED
          BY <2>2, <4>1, <4>2, <4>3, <4>4 DEF RegistryStep, Registry!Next
      <3>2. ActiveCount(w)' <= ActiveCount(w)
        BY <3>1, CountFalls
      <3>3. ActiveOf(w)' \subseteq ActiveOf(w)
        BY <3>1 DEF ActiveOf
      <3>4. ActiveCount(w)' \in Nat
        BY <3>3, PairsFinite, FS_Subset, FS_CardinalityType DEF ActiveCount
      <3>5. QED
        BY <2>0, <3>2, <3>4, LimitAssumption
    <2>3. QED
      BY <2>1, <2>2
  <1>3. QED
    BY <1>1, <1>2, IsRegistryStep, Inductive, PTL DEF Spec

\* Two committed likes of a pair always have their match row, although each
\* trigger may look before the other like commits.
THEOREM NoMatchIsLost == Spec => []NoLostMatch
  <1>1. Init => NoLostMatch
    BY DEF Init, NoLostMatch
  <1>2. TypeOK /\ RegistryStep /\ NoLostMatch => NoLostMatch'
    <2> SUFFICES ASSUME TypeOK, RegistryStep, NoLostMatch, NEW p \in Pairs,
                        p \in likes', <<p[2], p[1]>> \in likes'
                 PROVE  matchSt'[p] # "none"
      BY DEF NoLostMatch
    <2>0. p = <<p[1], p[2]>> /\ p[1] \in Users /\ p[2] \in Users /\ p[1] < p[2]
      BY DEF Pairs
    <2>1. Pair(p[1], p[2]) = p /\ Pair(p[2], p[1]) = p
      BY <2>0, UsersAssumption DEF Pair, Least, Greatest
    <2>2. CASE p \in likes /\ <<p[2], p[1]>> \in likes
      BY <2>2, HowMatchesMove DEF NoLostMatch, Unmoved, Made, Left, CutOff
    <2>3. CASE p \notin likes
      BY <2>0, <2>1, <2>3, HowLikesGrow
    <2>4. CASE <<p[2], p[1]>> \notin likes
      BY <2>0, <2>1, <2>4, HowLikesGrow
    <2>5. QED
      BY <2>2, <2>3, <2>4
  <1>3. QED
    BY <1>1, <1>2, IsRegistryStep, Inductive, PTL DEF Spec

\* status, closed_by and close_kind agree on how each match ended.
THEOREM CloseFactsHold == Spec => []CloseFactsAgree
  <1>1. Init => CloseFactsAgree
    BY UsersAssumption DEF Init, CloseFactsAgree
  <1>2. TypeOK /\ RegistryStep /\ CloseFactsAgree => CloseFactsAgree'
    <2> SUFFICES ASSUME TypeOK, RegistryStep, CloseFactsAgree, NEW p \in Pairs
                 PROVE  /\ closeKind'[p] = "none" <=> matchSt'[p] \in {"none", "active"}
                        /\ closeKind'[p] = "blocked" <=> matchSt'[p] = "blocked"
                        /\ closeKind'[p] = "left" <=> closedBy'[p] # NoUser
                        /\ closedBy'[p] \in {NoUser, p[1], p[2]}
      BY DEF CloseFactsAgree
    <2>1. p[1] # NoUser /\ p[2] # NoUser
      BY UsersAssumption DEF Pairs
    <2>2. QED
      BY <2>1, HowMatchesMove DEF CloseFactsAgree, Unmoved, Made, Left, CutOff
  <1>3. QED
    BY <1>1, <1>2, IsRegistryStep, Inductive, PTL DEF Spec

\* An ended match is never reopened or rewritten by a later request.
LEMMA EndedStaysEnded == TypeOK /\ RegistryStep => EndedIsFinal
  BY HowMatchesMove DEF EndedIsFinal, Unmoved, Made, Left, CutOff

\* No message is stored in a match that has ended, or across a block.
THEOREM StoredWhileOpen == Spec => StoresOnlyWhileOpen
  <1>1. ASSUME TypeOK, RegistryStep, NEW p \in Pairs, msgs'[p] # msgs[p]
        PROVE  matchSt[p] = "active" /\ matchSt'[p] = "active" /\ ~BlockedPair(p)
    <2>1. PICK u \in Users, v \in Users : u # v /\ Registry!Send(u, v)
      BY <1>1 DEF RegistryStep, Registry!Next, Registry!vars, Registry!Like, Registry!LikeBack,
         Registry!Leave, Registry!Block, Registry!Ban
    <2>2. p = Pair(u, v) /\ Registry!Pair(u, v) = Pair(u, v)
      BY <1>1, <2>1, SameNames DEF Registry!Send, TypeOK
    <2>3. QED
      BY <2>1, <2>2, SameNames DEF Registry!Send
  <1>2. TypeOK /\ IInv /\ [Next]_vars =>
          [\A p \in Pairs : msgs'[p] # msgs[p] =>
              matchSt[p] = "active" /\ matchSt'[p] = "active" /\ ~BlockedPair(p)]_vars
    BY <1>1, IsRegistryStep
  <1>3. QED
    BY <1>2, Inductive, PTL DEF Spec, StoresOnlyWhileOpen

\* The commit of a block leaves its pair without an active match.
LEMMA BlockCutsOff == TypeOK /\ RegistryStep => BlockEndsMatch
  <1>1. ASSUME TypeOK, RegistryStep, NEW e \in Cards, e \in blocks' \ blocks
        PROVE  matchSt'[Pair(e[1], e[2])] # "active"
    <2>1. PICK u \in Users, v \in Users : u # v /\ Registry!Block(u, v)
      BY <1>1 DEF RegistryStep, Registry!Next, Registry!vars, Registry!Like, Registry!LikeBack,
         Registry!Leave, Registry!Send, Registry!Ban
    <2>2. e = <<u, v>>
      BY <1>1, <2>1 DEF Registry!Block
    <2>3. Registry!Pair(u, v) = Pair(u, v) /\ Pair(u, v) \in Pairs
      BY <2>1, SameNames, PairIsPair
    <2>4. QED
      BY <2>1, <2>2, <2>3, SameNames DEF Registry!Block, Registry!EndMatches
  <1>2. QED
    BY <1>1 DEF BlockEndsMatch

\* The commit of a ban leaves its user without an active match, one being made
\* at the same time included.
LEMMA BanCutsOff == TypeOK /\ RegistryStep => BanEndsMatches
  <1>1. ASSUME TypeOK, RegistryStep, NEW w \in Users, status[w] = "active", status'[w] = "banned",
               NEW p \in Pairs, w \in {p[1], p[2]}
        PROVE  matchSt'[p] # "active"
    <2>1. PICK u \in Users : Registry!Ban(u)
      BY <1>1 DEF RegistryStep, Registry!Next, Registry!vars, Registry!Like, Registry!LikeBack,
         Registry!Leave, Registry!Send, Registry!Block
    <2>2. w = u
      BY <1>1, <2>1 DEF Registry!Ban, TypeOK
    <2>3. QED
      BY <1>1, <2>1, <2>2, SameNames DEF Registry!Ban, Registry!EndMatches, ActiveOf
  <1>2. QED
    BY <1>1 DEF BanEndsMatches

\* Matches end once, at the latest with a block or a ban, whatever overlaps.
THEOREM MatchesEndRight == Spec => HowMatchesEnd
  <1>1. TypeOK /\ IInv /\ [Next]_vars =>
          [EndedIsFinal /\ BlockEndsMatch /\ BanEndsMatches]_vars
    BY IsRegistryStep, EndedStaysEnded, BlockCutsOff, BanCutsOff
  <1>2. QED
    BY <1>1, Inductive, PTL DEF Spec, HowMatchesEnd

-----------------------------------------------------------------------------
(* The card and the like of one acceptance are written together.           *)

NoneDeclares == \A s \in Sess : job[s].op # "declare"

\* Only a commit of a like changes a card to 'accepted' when no client declares
\* one by itself, and no step takes a like away.
LEMMA AcceptanceStep ==
  ASSUME \A j \in Jobs : j.op # "declare",
         TypeOK, NoneDeclares, AcceptedHasLike, NEW t \in Sess, Step(t)
  PROVE  NoneDeclares' /\ AcceptedHasLike'
  <1>1. NoneDeclares'
    <2>1. CASE Begin(t)
      BY <2>1 DEF Begin, NoneDeclares, TypeOK
    <2>2. CASE PickMatch(t)
      BY <2>2 DEF PickMatch, NoneDeclares, TypeOK, local
    <2>3. CASE End(t)
      BY <2>3 DEF End, NoneDeclares, TypeOK, NoJob
    <2>4. CASE job' = job
      BY <2>4 DEF NoneDeclares
    <2> QED
      BY <2>1, <2>2, <2>3, <2>4
      DEF Step, Statement, Commit, AbortDeadlock, AcceptCard, DecideCard, InsertLike, InsertBlock,
          CheckFkFrom, CheckFkTo, SeeExisting, LockSelf, CountSelf, SeeReverse, LockLo, LockHi,
          Recheck, LockMatch, BlockMatch, LockAccount, ScanMatches, VisitMatch, Rollback,
          CommitLike, CommitLeave, CommitSend, CommitBlock, CommitBan
  <1>2. AcceptedHasLike'
    <2>1. CASE CommitLike(t)
      <3>1. /\ likes' = likes \cup {<<Me(t), You(t)>>}
            /\ \A e \in Cards : recs'[e] = recs[e] \/ e = <<Me(t), You(t)>>
        BY <2>1 DEF CommitLike, TypeOK
      <3> QED
        BY <3>1 DEF AcceptedHasLike
    <2>2. CASE DecideCard(t)
      <3>1. /\ likes' = likes
            /\ \A e \in Cards : recs'[e] = recs[e] \/ recs'[e] = "skipped"
        BY <2>2 DEF DecideCard, NoneDeclares, TypeOK, Rollback, rows
      <3> QED
        BY <3>1 DEF AcceptedHasLike
    <2>3. CASE ~Commit(t) /\ ~DecideCard(t)
      <3>1. CASE Begin(t) \/ AbortDeadlock(t)
        BY <3>1 DEF Begin, AbortDeadlock, Rollback, rows, AcceptedHasLike
      <3>2. CASE Statement(t)
        BY <2>3, <3>2 DEF Statement, AcceptCard, InsertLike, InsertBlock, CheckFkFrom,
           CheckFkTo, SeeExisting, LockSelf, CountSelf, SeeReverse, LockLo, LockHi, Recheck,
           LockMatch, BlockMatch, LockAccount, ScanMatches, PickMatch, VisitMatch, Rollback,
           rows, AcceptedHasLike
      <3> QED
        BY <2>3, <3>1, <3>2 DEF Step
    <2>4. CASE CommitLeave(t) \/ CommitSend(t) \/ CommitBlock(t) \/ CommitBan(t)
      BY <2>4 DEF CommitLeave, CommitSend, CommitBlock, CommitBan, AcceptedHasLike
    <2> QED
      BY <2>1, <2>2, <2>3, <2>4 DEF Commit
  <1> QED
    BY <1>1, <1>2

\* recommendation_accept leaves all or nothing: as long as no client declares a
\* card accepted by itself, an accepted card has its like, whatever rolls back.
THEOREM AcceptedCardsHaveLikes ==
  ASSUME \A j \in Jobs : j.op # "declare"
  PROVE  Spec => []AcceptedHasLike
  <1>1. Init => NoneDeclares /\ AcceptedHasLike
    BY DEF Init, NoneDeclares, AcceptedHasLike, NoJob
  <1>2. TypeOK /\ NoneDeclares /\ AcceptedHasLike /\ [Next]_vars
           => (NoneDeclares /\ AcceptedHasLike)'
    <2>1. CASE UNCHANGED vars
      BY <2>1 DEF vars, rows, NoneDeclares, AcceptedHasLike
    <2>2. CASE Next
      BY <2>2, AcceptanceStep DEF Next, Step
    <2> QED
      BY <2>1, <2>2
  <1>3. QED
    BY <1>1, <1>2, TypeCorrect, PTL DEF Spec
=============================================================================
