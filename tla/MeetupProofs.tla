----------------------------- MODULE MeetupProofs -----------------------------
(***************************************************************************)
(* Proofs about MeetupTx: the lock invariant, the refinement of            *)
(* MeetupRegistry, and what the two answers of a pair promise. Proofs      *)
(* about MeetupScreen: what its page shows of a pair is true and lasts.    *)
(***************************************************************************)
EXTENDS MeetupTx, MeetupScreen, TLAPS

\* Only the request in hand is written, and only under its session's locks.
Busy(s) == job[s] \in AllJobs

LEMMA BusyWhenNotIdle ==
  ASSUME TypeOK, NEW s \in Sess, SessionOK(s), pc[s] # "idle"
  PROVE  Busy(s)
  BY DEF TypeOK, SessionOK, Busy

\* The fields of a request.
LEMMA JobFields ==
  ASSUME NEW j \in AllJobs
  PROVE  /\ j.u \in Users
         /\ j.op = "intent" => j.v \in {"yes", "not_yet"}
         /\ j.op = "outcome" => j.v \in {"met", "not_met"}
         /\ j.op \in {"intent", "outcome", "feedback"}
  BY DEF AllJobs

LEMMA NoJobIsNone == NoJob \notin AllJobs /\ NoJob.op = "none"
  BY DEF NoJob, AllJobs

LEMMA LocksStayExclusive ==
  ASSUME Exclusive(locks), NEW t \in Sess,
         \/ locks' = locks
         \/ locks' = ReleaseAll(locks, t)
         \/ \E row, mode : Grantable(locks, t, row, mode) /\ locks' = Grant(locks, t, row, mode)
  PROVE  Exclusive(locks)'
  <1>1. CASE locks' = locks \/ locks' = ReleaseAll(locks, t)
    BY <1>1 DEF Exclusive, ReleaseAll
  <1>2. CASE \E row, mode : Grantable(locks, t, row, mode) /\ locks' = Grant(locks, t, row, mode)
    <2> PICK row, mode : Grantable(locks, t, row, mode) /\ locks' = Grant(locks, t, row, mode)
      BY <1>2
    <2> SUFFICES ASSUME NEW k \in locks', NEW l \in locks', k.row = l.row, k.s # l.s
                 PROVE  ~Conflict(k.mode, l.mode)
      BY DEF Exclusive
    <2>1. CASE k \in locks /\ l \in locks
      BY <2>1 DEF Exclusive
    <2>2. CASE k \notin locks \/ l \notin locks
      BY <2>2 DEF Grant, Grantable, Conflict
    <2>3. QED
      BY <2>1, <2>2
  <1>3. QED
    BY <1>1, <1>2

\* The match row is locked FOR UPDATE by one session at a time.
LEMMA OneHolder ==
  ASSUME Exclusive(locks), NEW s, NEW t, s # t, Holds(locks, t, MatchRow, "Update")
  PROVE  ~Holds(locks, s, MatchRow, "Update")
  BY DEF Exclusive, Holds, Conflict
-----------------------------------------------------------------------------
\* A session's own step, seen from the session variables of the others.
Mine(t) ==
    /\ \A s \in Sess : s # t =>
          pc'[s] = pc[s] /\ job'[s] = job[s] /\ seen'[s] = seen[s] /\ all'[s] = all[s]
    /\ \/ locks' = locks
       \/ locks' = ReleaseAll(locks, t)
       \/ \E row, mode : Grantable(locks, t, row, mode) /\ locks' = Grant(locks, t, row, mode)

Quiet(t) == Begin(t) \/ Upsert(t) \/ CheckFk(t) \/ LockMatch(t) \/ AbortDeadlock(t)
Writes(t) == CommitIntent(t) \/ CommitOutcome(t) \/ CommitFeedback(t)

LEMMA StepIsMine ==
  ASSUME TypeOK, NEW t \in Sess, Quiet(t) \/ Writes(t)
  PROVE  Mine(t)
  <1>1. CASE Begin(t)
    BY <1>1 DEF Begin, GoTo, Mine, TypeOK
  <1>2. CASE Upsert(t) \/ CheckFk(t)
    BY <1>2 DEF Upsert, CheckFk, GoTo, Acquire, Mine, TypeOK
  <1>3. CASE LockMatch(t)
    BY <1>3 DEF LockMatch, ReadAndCount, GoTo, Acquire, Mine, TypeOK
  <1>4. CASE AbortDeadlock(t) \/ Writes(t)
    BY <1>4 DEF AbortDeadlock, Writes, CommitIntent, CommitOutcome, CommitFeedback, End, GoTo, Mine, TypeOK
  <1>5. QED
    BY <1>1, <1>2, <1>3, <1>4 DEF Quiet

\* A session keeps its locks through the steps of the others.
LEMMA LocksKept ==
  ASSUME TypeOK, NEW t \in Sess, Mine(t), NEW s \in Sess, s # t, NEW row, NEW mode
  PROVE  Holds(locks, s, row, mode) => Holds(locks, s, row, mode)'
  BY DEF Mine, Holds, ReleaseAll, Grant

LEMMA QuietKeepsRows ==
  ASSUME NEW t \in Sess, Quiet(t)
  PROVE  UNCHANGED <<answers, match>>
  BY DEF Quiet, Begin, Upsert, CheckFk, LockMatch, AbortDeadlock

LEMMA Unaffected ==
  ASSUME MeetupInv, NEW t \in Sess, Mine(t), NEW s \in Sess, s # t,
         \/ UNCHANGED <<answers, match>>
         \/ UNCHANGED <<intent, outcome, match>>
         \/ Holds(locks, t, MatchRow, "Update") /\ (mutualAt \/ mstate # "none" => mutualAt' \/ mstate' # "none")
  PROVE  SessionOK(s)' /\ TriggerOK(s)'
  <1>1. pc'[s] = pc[s] /\ job'[s] = job[s] /\ seen'[s] = seen[s] /\ all'[s] = all[s]
    BY DEF Mine
  <1>2. SessionOK(s) /\ TriggerOK(s) /\ TypeOK /\ Exclusive(locks)
    BY DEF MeetupInv
  <1>3. SessionOK(s)'
    BY <1>1, <1>2 DEF SessionOK, match
  <1>4. CASE UNCHANGED <<intent, outcome, match>>
    <2>1. Holds(locks, s, MatchRow, "Update") => Holds(locks, s, MatchRow, "Update")'
      BY <1>2, LocksKept
    <2>2. TriggerOK(s)'
      BY ZenonT(30), <1>1, <1>2, <1>4, <2>1 DEF TriggerOK, match, AllSay
    <2>3. QED
      BY <1>3, <2>2
  <1>5. CASE Holds(locks, t, MatchRow, "Update")
    <2>1. ~(pc[s] = "commit" /\ job[s].op # "feedback")
      BY <1>2, <1>5, OneHolder DEF TriggerOK
    <2>2. job[s].op \in {"intent", "outcome"} => job[s].op # "feedback"
      OBVIOUS
    <2>3. QED
      BY <1>1, <1>3, <2>1 DEF TriggerOK
  <1>6. QED
    BY <1>4, <1>5 DEF answers
-----------------------------------------------------------------------------
LEMMA InitInv == Init => MeetupInv
  <1> SUFFICES ASSUME Init PROVE MeetupInv
    OBVIOUS
  <1>1. TypeOK
    BY InheritedAssumption DEF Init, TypeOK, NothingSeen, Pcs, MStates
  <1>2. Exclusive(locks) /\ \A s \in Sess : SessionOK(s) /\ TriggerOK(s)
    BY NoJobIsNone DEF Init, Exclusive, SessionOK, TriggerOK
  <1>3. QED
    BY <1>1, <1>2 DEF MeetupInv

\* The end of a transaction leaves a clean session.
LEMMA EndClean ==
  ASSUME TypeOK, NEW t \in Sess, End(t)
  PROVE  /\ SessionOK(t)' /\ TriggerOK(t)'
         /\ pc' \in [Sess -> Pcs] /\ job' \in [Sess -> AllJobs \cup {NoJob}]
         /\ seen' \in [Sess -> [mstate : MStates, mutualAt : BOOLEAN, confirmedAt : BOOLEAN]]
         /\ all' \in [Sess -> BOOLEAN]
         /\ \A l \in locks' : l.s \in Sess /\ l.mode \in LockModes
  <1>1. pc'[t] = "idle" /\ job'[t] = NoJob
    BY DEF End, GoTo, TypeOK
  <1>2. SessionOK(t)' /\ TriggerOK(t)'
    BY <1>1, NoJobIsNone DEF SessionOK, TriggerOK
  <1>3. QED
    BY <1>2 DEF End, GoTo, TypeOK, NothingSeen, MStates, Pcs, ReleaseAll

\* A step that writes no answer.
LEMMA QuietInv ==
  ASSUME MeetupInv, NEW t \in Sess, Quiet(t)
  PROVE  MeetupInv'
  <1>0. TypeOK /\ Exclusive(locks) /\ SessionOK(t) /\ TriggerOK(t)
    BY DEF MeetupInv
  <1>1. Mine(t) /\ UNCHANGED <<answers, match>>
    BY <1>0, StepIsMine, QuietKeepsRows
  <1>2. Exclusive(locks)'
    BY <1>0, <1>1, LocksStayExclusive DEF Mine
  <1>3. \A s \in Sess : s # t => SessionOK(s)' /\ TriggerOK(s)'
    BY <1>1, Unaffected
  <1>4. TypeOK' /\ SessionOK(t)' /\ TriggerOK(t)'
    <2>1. CASE Begin(t)
      <3> PICK j \in Jobs : /\ j.op = "outcome" => ReportAllowed(j.u)
                            /\ job' = [job EXCEPT ![t] = j]
        BY <2>1 DEF Begin
      <3>1. j \in AllJobs
        BY MeetupJobsAssumption
      <3>2. pc' = [pc EXCEPT ![t] = "upsert"] /\ UNCHANGED <<answers, match, around, seen, all, locks>>
        BY <2>1 DEF Begin, GoTo
      <3>3. TypeOK'
        BY <1>0, <3>1, <3>2 DEF TypeOK, answers, match, around, Pcs
      <3>4. pc'[t] = "upsert" /\ job'[t] = j
        BY <1>0, <3>2 DEF TypeOK
      <3>5. SessionOK(t)' /\ TriggerOK(t)'
        BY <3>1, <3>2, <3>4, NoJobIsNone DEF SessionOK, TriggerOK, ReportAllowed, match
      <3>6. QED
        BY <3>3, <3>5
    <2>2. CASE Upsert(t) \/ CheckFk(t)
      <3>1. PICK label \in {"fk", AfterUpsert(t)} : pc' = [pc EXCEPT ![t] = label]
        BY <2>2 DEF Upsert, CheckFk, GoTo
      <3>2. PICK row, mode : mode \in LockModes /\ locks' = Grant(locks, t, row, mode)
        BY <2>2 DEF Upsert, CheckFk, Acquire, LockModes
      <3>3. UNCHANGED <<answers, match, around, job, seen, all>> /\ pc[t] # "idle"
        BY <2>2 DEF Upsert, CheckFk
      <3>4. label \in Pcs /\ label # "idle" /\ (label = "trigger" => job[t].op # "feedback")
            /\ (label = "commit" => job[t].op = "feedback")
        BY <3>1 DEF AfterUpsert, Pcs
      <3>5. TypeOK'
        BY <1>0, <3>1, <3>2, <3>3, <3>4 DEF TypeOK, answers, match, around, Grant
      <3>6. pc'[t] = label
        BY <1>0, <3>1 DEF TypeOK
      <3>7. SessionOK(t)' /\ TriggerOK(t)'
        BY <1>0, <3>3, <3>4, <3>6 DEF SessionOK, TriggerOK, match
      <3>8. QED
        BY <3>5, <3>7
    <2>3. CASE LockMatch(t)
      <3>1. /\ pc[t] = "trigger" /\ pc' = [pc EXCEPT ![t] = "commit"]
            /\ locks' = Grant(locks, t, MatchRow, "Update")
            /\ UNCHANGED <<answers, match, around, job>>
        BY <2>3 DEF LockMatch, GoTo, Acquire
      <3>2. Busy(t) /\ job[t].op \in {"intent", "outcome"}
        BY <1>0, <3>1, BusyWhenNotIdle, JobFields DEF SessionOK, Busy
      <3>3. seen' = [seen EXCEPT ![t] =
                [mstate |-> mstate, mutualAt |-> mutualAt, confirmedAt |-> confirmedAt]]
        BY <2>3 DEF LockMatch, ReadAndCount
      <3>4. all'[t] = IF job[t].op = "intent"
                        THEN AllSay([intent EXCEPT ![job[t].u] = job[t].v], "yes")
                        ELSE AllSay([outcome EXCEPT ![job[t].u] = job[t].v], "met")
        BY <1>0, <2>3, <3>2 DEF LockMatch, ReadAndCount, AllSay, TypeOK
      <3>5. all' \in [Sess -> BOOLEAN]
        BY <1>0, <2>3 DEF LockMatch, ReadAndCount, TypeOK
      <3>6a. seen' \in [Sess -> [mstate : MStates, mutualAt : BOOLEAN, confirmedAt : BOOLEAN]]
        BY <1>0, <3>3 DEF TypeOK
      <3>6b. /\ pc' \in [Sess -> Pcs] /\ job' \in [Sess -> AllJobs \cup {NoJob}]
             /\ \A l \in locks' : l.s \in Sess /\ l.mode \in LockModes
        BY <1>0, <3>1 DEF TypeOK, Grant, Pcs, LockModes
      <3>6. TypeOK'
        BY <1>0, <3>1, <3>5, <3>6a, <3>6b DEF TypeOK, answers, match, around
      <3>7. pc'[t] = "commit" /\ job'[t] = job[t] /\ Holds(locks, t, MatchRow, "Update")'
            /\ seen'[t] = [mstate |-> mstate, mutualAt |-> mutualAt, confirmedAt |-> confirmedAt]
        BY <1>0, <3>1, <3>3 DEF TypeOK, Grant, Holds
      <3>8. SessionOK(t)'
        BY <1>0, <3>1, <3>7 DEF SessionOK, match
      <3>9. TriggerOK(t)'
        BY <3>1, <3>2, <3>4, <3>7 DEF TriggerOK, match, answers
      <3>10. QED
        BY <3>6, <3>8, <3>9
    <2>4. CASE AbortDeadlock(t)
      BY <1>0, <2>4, EndClean DEF AbortDeadlock, TypeOK, answers, match, around
    <2>5. QED
      BY <2>1, <2>2, <2>3, <2>4 DEF Quiet
  <1>5. QED
    BY <1>2, <1>3, <1>4 DEF MeetupInv

\* A commit: it writes under the lock on the match.
LEMMA WritesInv ==
  ASSUME MeetupInv, NEW t \in Sess, Writes(t)
  PROVE  MeetupInv'
  <1>0. TypeOK /\ Exclusive(locks) /\ SessionOK(t) /\ TriggerOK(t)
    BY DEF MeetupInv
  <1>1. Mine(t) /\ End(t) /\ UNCHANGED around /\ pc[t] = "commit"
    BY <1>0, StepIsMine DEF Writes, CommitIntent, CommitOutcome, CommitFeedback
  <1>2. Exclusive(locks)'
    BY <1>0, <1>1, LocksStayExclusive DEF Mine
  <1>3. Busy(t) /\ job[t].u \in Users
    BY <1>0, <1>1, BusyWhenNotIdle, JobFields DEF Busy
  <1>4. CASE CommitFeedback(t)
    <2>1. UNCHANGED <<intent, outcome, match>> /\ feedback' \subseteq Users
      BY <1>0, <1>3, <1>4 DEF CommitFeedback, TypeOK
    <2>2. \A s \in Sess : s # t => SessionOK(s)' /\ TriggerOK(s)'
      BY <1>1, <2>1, Unaffected
    <2>3. TypeOK' /\ SessionOK(t)' /\ TriggerOK(t)'
      BY <1>0, <1>1, <2>1, EndClean DEF TypeOK, match, around
    <2>4. QED
      BY <1>2, <2>2, <2>3 DEF MeetupInv
  <1>5. CASE CommitIntent(t) \/ CommitOutcome(t)
    <2>1. Holds(locks, t, MatchRow, "Update")
      BY <1>0, <1>1, <1>5 DEF TriggerOK, CommitIntent, CommitOutcome
    <2>2. mutualAt \/ mstate # "none" => mutualAt' \/ mstate' # "none"
      BY <1>5 DEF CommitIntent, CommitOutcome
    <2>3. \A s \in Sess : s # t => SessionOK(s)' /\ TriggerOK(s)'
      BY <1>1, <2>1, <2>2, Unaffected
    <2>4. /\ intent' \in [Users -> {"none", "yes", "not_yet"}]
          /\ outcome' \in [Users -> {"none", "met", "not_met"}]
          /\ feedback' \subseteq Users
      BY <1>0, <1>3, <1>5, JobFields DEF Busy, TypeOK, CommitIntent, CommitOutcome
    <2>5. /\ mstate' \in MStates /\ mutualAt' \in BOOLEAN /\ confirmedAt' \in BOOLEAN
          /\ told' \in Nat /\ toldMet' \in Nat
      BY <1>0, <1>5 DEF TypeOK, MStates, CommitIntent, CommitOutcome
    <2>6. TypeOK' /\ SessionOK(t)' /\ TriggerOK(t)'
      BY <1>0, <1>1, <2>4, <2>5, EndClean DEF TypeOK, around
    <2>7. QED
      BY <1>2, <2>3, <2>6 DEF MeetupInv
  <1>6. QED
    BY <1>4, <1>5 DEF Writes

LEMMA SessionsUnmoved ==
  ASSUME UNCHANGED <<answers, match, sess>>
  PROVE  \A s \in Sess : SessionOK(s) /\ TriggerOK(s) => SessionOK(s)' /\ TriggerOK(s)'
  <1> SUFFICES ASSUME NEW s \in Sess, SessionOK(s), TriggerOK(s)
               PROVE  SessionOK(s)' /\ TriggerOK(s)'
    OBVIOUS
  <1>1. /\ intent' = intent /\ outcome' = outcome /\ mstate' = mstate /\ mutualAt' = mutualAt
        /\ confirmedAt' = confirmedAt /\ pc' = pc /\ job' = job /\ seen' = seen /\ all' = all
        /\ locks' = locks
    BY DEF answers, match, sess
  <1>2. SessionOK(s)'
    BY <1>1 DEF SessionOK
  <1>3. TriggerOK(s)'
    BY <1>1 DEF TriggerOK, AllSay, Holds
  <1>4. QED
    BY <1>2, <1>3

\* The match ends, an account is restricted or restored: no session notices.
LEMMA OutsideInv ==
  ASSUME MeetupInv, EndMatch \/ Moderate
  PROVE  MeetupInv'
  <1>1. UNCHANGED <<answers, match, sess>>
    BY DEF EndMatch, Moderate
  <1>2. matchSt' \in {"active", "ended"} /\ acct' \subseteq Users
    BY ModeratedAssumption DEF EndMatch, Moderate, MeetupInv, TypeOK
  <1>3. TypeOK'
    BY <1>1, <1>2 DEF MeetupInv, TypeOK, answers, match, sess
  <1>4. Exclusive(locks)'
    BY <1>1 DEF MeetupInv, Exclusive, sess
  <1>5. QED
    BY <1>1, <1>3, <1>4, SessionsUnmoved DEF MeetupInv

LEMMA NextKinds == Next <=> (\E t \in Sess : Quiet(t) \/ Writes(t)) \/ EndMatch \/ Moderate
  BY DEF Next, Quiet, Writes, Statement

LEMMA StutterInv == MeetupInv /\ UNCHANGED vars => MeetupInv'
  <1> SUFFICES ASSUME MeetupInv, UNCHANGED vars PROVE MeetupInv'
    OBVIOUS
  <1>1. UNCHANGED <<answers, match, around, sess>>
    BY DEF vars
  <1>2. TypeOK'
    BY <1>1 DEF MeetupInv, TypeOK, answers, match, around, sess
  <1>3. Exclusive(locks)'
    BY <1>1 DEF MeetupInv, Exclusive, sess
  <1>4. QED
    BY <1>1, <1>2, <1>3, SessionsUnmoved DEF MeetupInv

\* Types, exclusive locks, and triggers that act on what is still so, for any
\* sessions, requests and rows an older app may have left.
THEOREM MeetupInductive == Spec => []MeetupInv
  <1>1. MeetupInv /\ [Next]_vars => MeetupInv'
    BY QuietInv, WritesInv, OutsideInv, StutterInv, NextKinds
  <1>2. QED
    BY InitInv, <1>1, PTL DEF Spec
-----------------------------------------------------------------------------
LEMMA CommitIntentRefines ==
  ASSUME MeetupInv, NEW t \in Sess, CommitIntent(t)
  PROVE  Registry!SetIntent(job[t].u, job[t].v)
  <1>1. /\ TypeOK /\ pc[t] = "commit" /\ job[t].op = "intent"
        /\ SessionOK(t) /\ TriggerOK(t)
    BY DEF MeetupInv, CommitIntent
  <1>2. /\ seen[t].mstate = mstate /\ seen[t].mutualAt = mutualAt
        /\ all[t] = AllSay([intent EXCEPT ![job[t].u] = job[t].v], "yes")
    BY <1>1 DEF TriggerOK
  <1>3. all[t] <=> Registry!All(intent', "yes")
    BY <1>2 DEF CommitIntent, AllSay, Registry!All
  <1>4. mutualAt \in BOOLEAN /\ told \in Nat
    BY <1>1 DEF TypeOK
  <1>5. CASE all[t] /\ mstate \in {"none", "interest_withdrawn"}
    BY <1>2, <1>3, <1>4, <1>5 DEF CommitIntent, Registry!SetIntent, Registry!First
  <1>6. CASE ~all[t] /\ mstate \in {"mutual_interest", "scheduled"}
    BY <1>2, <1>3, <1>4, <1>6 DEF CommitIntent, Registry!SetIntent
  <1>7. CASE /\ ~(all[t] /\ mstate \in {"none", "interest_withdrawn"})
             /\ ~(~all[t] /\ mstate \in {"mutual_interest", "scheduled"})
    BY <1>2, <1>3, <1>4, <1>7 DEF CommitIntent, Registry!SetIntent
  <1>8. QED
    BY <1>5, <1>6, <1>7

LEMMA CommitOutcomeRefines ==
  ASSUME MeetupInv, NEW t \in Sess, CommitOutcome(t)
  PROVE  (mutualAt \/ mstate # "none") /\ Registry!ReportOutcome(job[t].u, job[t].v)
  <1>1. /\ TypeOK /\ pc[t] = "commit" /\ job[t].op = "outcome"
        /\ SessionOK(t) /\ TriggerOK(t)
    BY DEF MeetupInv, CommitOutcome
  <1>2. /\ seen[t].mstate = mstate /\ seen[t].confirmedAt = confirmedAt
        /\ all[t] = AllSay([outcome EXCEPT ![job[t].u] = job[t].v], "met")
    BY <1>1 DEF TriggerOK
  <1>3. all[t] <=> Registry!All(outcome', "met")
    BY <1>2 DEF CommitOutcome, AllSay, Registry!All
  <1>4. confirmedAt \in BOOLEAN /\ toldMet \in Nat
    BY <1>1 DEF TypeOK
  <1>5. mutualAt \/ mstate # "none"
    BY <1>1 DEF SessionOK
  <1>6. CASE all[t] /\ mstate # "met_confirmed"
    BY <1>2, <1>3, <1>4, <1>5, <1>6 DEF CommitOutcome, Registry!ReportOutcome, Registry!First
  <1>7. CASE ~all[t] \/ mstate = "met_confirmed"
    BY <1>2, <1>3, <1>4, <1>5, <1>7 DEF CommitOutcome, Registry!ReportOutcome
  <1>8. QED
    BY <1>6, <1>7

LEMMA MeetupStepRefines ==
  ASSUME MeetupInv, [Next]_vars
  PROVE  [Registry!Next]_Registry!vars
  <1>1. CASE UNCHANGED vars \/ EndMatch \/ Moderate
    BY <1>1 DEF vars, EndMatch, Moderate, answers, match, Registry!vars
  <1>2. ASSUME NEW t \in Sess, Quiet(t) PROVE UNCHANGED Registry!vars
    BY <1>2, QuietKeepsRows DEF answers, match, Registry!vars
  <1>3. ASSUME NEW t \in Sess, Writes(t) PROVE [Registry!Next]_Registry!vars
    <2>0. Busy(t)
      BY <1>3, BusyWhenNotIdle DEF MeetupInv, Writes, CommitIntent, CommitOutcome, CommitFeedback
    <2>1. CASE CommitIntent(t)
      <3>1. job[t].u \in Users /\ job[t].v \in {"yes", "not_yet"}
        BY <2>0, <2>1, JobFields DEF Busy, CommitIntent
      <3>2. QED
        BY <2>1, <3>1, CommitIntentRefines DEF Registry!Next
    <2>2. CASE CommitOutcome(t)
      <3>1. job[t].u \in Users /\ job[t].v \in {"met", "not_met"}
        BY <2>0, <2>2, JobFields DEF Busy, CommitOutcome
      <3>2. QED
        BY <2>2, <3>1, CommitOutcomeRefines DEF Registry!Next
    <2>3. CASE CommitFeedback(t)
      BY <2>3 DEF CommitFeedback, match, Registry!vars
    <2>4. QED
      BY <1>3, <2>1, <2>2, <2>3 DEF Writes
  <1>4. QED
    BY <1>1, <1>2, <1>3, NextKinds

\* Whatever the interleaving, the answers and the state of the match change as
\* if each answer were saved alone.
THEOREM MeetupImplements == Spec => MeetupRegistrySpec
  <1>1. Init => Registry!Init
    <2> SUFFICES ASSUME Init PROVE Registry!Init
      OBVIOUS
    <2>1. mstate = "none" => ~Registry!All(intent, "yes")
      BY DEF Init, Users, Registry!All
    <2>2. QED
      BY <2>1, InheritedAssumption DEF Init, Registry!Init
  <1>2. QED
    BY <1>1, MeetupStepRefines, MeetupInductive, PTL DEF Spec, MeetupRegistrySpec, Registry!Spec

MeetupStep == [Registry!Next]_Registry!vars

\* Confirmed exactly when both have said so, and each first told once.
THEOREM ConfirmedOnceHolds == Spec => []ConfirmedOnce
  <1>1. Init => ConfirmedOnce
    BY InheritedAssumption DEF Init, ConfirmedOnce, AllSay, Users
  <1>2. MeetupInv /\ MeetupStep /\ ConfirmedOnce => ConfirmedOnce'
    <2> SUFFICES ASSUME TypeOK, MeetupStep, ConfirmedOnce PROVE ConfirmedOnce'
      BY DEF MeetupInv
    <2>1. CASE UNCHANGED Registry!vars
      BY <2>1 DEF ConfirmedOnce, AllSay, Registry!vars
    <2>2. ASSUME NEW u \in Users, NEW v \in {"yes", "not_yet"}, Registry!SetIntent(u, v)
          PROVE  ConfirmedOnce'
      <3>1. outcome' = outcome /\ confirmedAt' = confirmedAt /\ toldMet' = toldMet
        BY <2>2 DEF Registry!SetIntent
      <3>2. mstate = "met_confirmed" <=> mstate' = "met_confirmed"
        BY <2>2 DEF Registry!SetIntent
      <3>3. told' = (IF mutualAt' THEN 1 ELSE 0)
        BY <2>2 DEF Registry!SetIntent, Registry!First, ConfirmedOnce
      <3>4. QED
        BY <3>1, <3>2, <3>3 DEF ConfirmedOnce, AllSay
    <2>3. ASSUME NEW u \in Users, NEW v \in {"met", "not_met"}, Registry!ReportOutcome(u, v)
          PROVE  ConfirmedOnce'
      <3>1. /\ outcome' = [outcome EXCEPT ![u] = v] /\ mutualAt' = mutualAt /\ told' = told
            /\ \A w \in Users : outcome[w] # "none" => outcome'[w] # "none"
        BY <2>3 DEF Registry!ReportOutcome, TypeOK
      <3>2. CASE Registry!All(outcome', "met") /\ mstate # "met_confirmed"
        BY <2>3, <3>1, <3>2 DEF Registry!ReportOutcome, Registry!First, Registry!All, ConfirmedOnce, AllSay, TypeOK
      <3>3. CASE ~(Registry!All(outcome', "met") /\ mstate # "met_confirmed")
        BY <2>3, <3>1, <3>3 DEF Registry!ReportOutcome, Registry!All, ConfirmedOnce, AllSay
      <3>4. QED
        BY <3>2, <3>3
    <2>4. QED
      BY <2>1, <2>2, <2>3 DEF MeetupStep, Registry!Next
  <1>3. QED
    BY <1>1, <1>2, MeetupStepRefines, MeetupInductive, PTL DEF Spec, MeetupStep

\* The commit of an answer leaves the state that the stored answers call for.
THEOREM IntentAgreesHolds == Spec => IntentAgrees
  <1>1. ASSUME MeetupStep, intent' # intent
        PROVE  /\ AllSay(intent', "yes") => mstate' \notin {"none", "interest_withdrawn"}
               /\ ~AllSay(intent', "yes") => mstate' \notin {"mutual_interest", "scheduled"}
    <2>1. PICK u \in Users : \E v : Registry!SetIntent(u, v)
      BY <1>1 DEF MeetupStep, Registry!Next, Registry!vars, Registry!ReportOutcome
    <2>2. QED
      BY <2>1 DEF Registry!SetIntent, Registry!All, AllSay
  <1>2. MeetupInv /\ [Next]_vars =>
          [intent' # intent =>
             /\ AllSay(intent', "yes") => mstate' \notin {"none", "interest_withdrawn"}
             /\ ~AllSay(intent', "yes") => mstate' \notin {"mutual_interest", "scheduled"}]_vars
    BY <1>1, MeetupStepRefines DEF MeetupStep
  <1>3. QED
    BY <1>2, MeetupInductive, PTL DEF Spec, IntentAgrees

-----------------------------------------------------------------------------
\* The screens of a meetup (MeetupScreen): one person's view of the pair.

Wishes == {"none", "yes", "not_yet"}
Reports == {"none", "met", "not_met"}
MatchStates == {"none", "scheduled", "mutual_interest", "interest_withdrawn", "met_confirmed"}
WishRow == [intent : Wishes, dates : SUBSET DateOptions]
PairRec ==
    [open : BOOLEAN, state : MatchStates, everMutual : BOOLEAN, mine : WishRow, other : WishRow,
     outcome : Reports, reason : SUBSET {"no_show"}, otherOutcome : Reports, feedback : SUBSET {"answer"},
     refused : BOOLEAN, saves : Nat, reads : Nat, events : Nat]
MatchCopy == [open : BOOLEAN, state : MatchStates, everMutual : BOOLEAN]
WishesCopy == [mine : WishRow, other : SUBSET WishRow]
OwnCopy == [outcome : Reports, reason : SUBSET {"no_show"}, feedback : SUBSET {"answer"}]
StatusRec ==
    [open : BOOLEAN, state : MatchStates, mutual : BOOLEAN, intent : Wishes, dates : SUBSET DateOptions,
     otherDates : SUBSET DateOptions, outcome : Reports, reason : SUBSET {"no_show"},
     feedback : SUBSET {"answer"}, confirmed : BOOLEAN, canReport : BOOLEAN]
FetchRec == [asking : BOOLEAN, match : SUBSET MatchCopy, intents : SUBSET WishesCopy, own : SUBSET OwnCopy]
FormRec ==
    [hydrated : BOOLEAN, intent : Wishes, dates : SUBSET DateOptions, outcome : Reports,
     reason : SUBSET {"no_show"}, feedback : SUBSET {"answer"}, editing : SUBSET {"intent", "outcome"}]
SaveRec ==
    [kind : {"none", "intent", "outcome", "feedback"}, choice : Wishes \cup Reports \cup {"given"},
     extra : SUBSET (DateOptions \cup {"no_show", "answer"}), answer : {"none", "saved", "reading", "failed"}]
ViewRec ==
    [page : {"away", "meetup", "feedback"}, data : SUBSET StatusRec, failed : BOOLEAN, fetch : FetchRec,
     form : FormRec, busy : BOOLEAN, save : SaveRec]

\* The server's copy of what this person said.
PairOK ==
    /\ pair \in PairRec
    /\ pair.mine.dates # {} => pair.mine.intent = "yes"
    /\ ~pair.refused
    /\ pair.outcome = "not_met" <=> pair.reason # {}

\* What of a copy of the match, of an answer shown and of a call under way stays
\* true while the other person and the match move on.
Copied(m) ==
    /\ m.everMutual => pair.everMutual
    /\ m.state # "none" => pair.state # "none"
    /\ m.state = "met_confirmed" => pair.state = "met_confirmed"
Truthful(d) ==
    /\ d.mutual => d.intent = "yes" /\ d.state # "interest_withdrawn"
    /\ d.otherDates # {} => d.mutual
    /\ d.confirmed => pair.state = "met_confirmed"
    /\ d.canReport => Reportable(pair)
Acceptable(s) ==
    /\ s.kind = "intent" => /\ s.choice \in Wishes /\ s.extra \subseteq DateOptions
                            /\ s.extra # {} => s.choice = "yes"
    /\ s.kind = "outcome" => /\ s.choice \in Reports /\ s.extra \subseteq {"no_show"}
                             /\ s.choice = "not_met" <=> s.extra # {}
                             /\ Reportable(pair)
    /\ s.kind = "feedback" => s.extra \subseteq {"answer"}
Fitting(v) ==
    /\ v \in ViewRec
    /\ \A m \in v.fetch.match : Copied(m)
    /\ \A d \in v.data : Truthful(d)
    /\ Acceptable(v.save)

PairKept == PairOK /\ Fitting(view)

\* A match that may be reported, or is confirmed, remains so.
PairMoves ==
    /\ pair.everMutual => pair'.everMutual
    /\ pair.state # "none" => pair'.state # "none"
    /\ pair.state = "met_confirmed" => pair'.state = "met_confirmed"

LEMMA FittingStays == ASSUME PairMoves, NEW v, Fitting(v), view' = v PROVE Fitting(view)'
<1>1. Reportable(pair) => Reportable(pair)' BY DEF PairMoves, Reportable
<1>2. \A m : Copied(m) => Copied(m)' BY DEF PairMoves, Copied
<1>3. \A d : Truthful(d) => Truthful(d)' BY <1>1 DEF PairMoves, Truthful
<1>4. \A s : Acceptable(s) => Acceptable(s)' BY <1>1 DEF Acceptable
<1> QED BY <1>2, <1>3, <1>4 DEF Fitting

LEMMA PairUnmoved == ASSUME PairOK, UNCHANGED pair PROVE PairOK' /\ PairMoves
BY DEF PairOK, PairMoves

\* Edits of the form and of the page keep what the view holds.
LEMMA FormFits ==
    ASSUME NEW v, Fitting(v), NEW f \in FormRec
    PROVE  LET w == [v EXCEPT !.form = f] IN
           Fitting(w) /\ w.save = v.save /\ w.data = v.data /\ w.page = v.page /\ w.fetch = v.fetch
<1>0. v \in ViewRec BY DEF Fitting
<1>1. LET w == [v EXCEPT !.form = f] IN
      /\ w \in ViewRec /\ w.save = v.save /\ w.data = v.data /\ w.page = v.page /\ w.fetch = v.fetch
   BY <1>0 DEF ViewRec
<1> QED BY <1>1 DEF Fitting

LEMMA PageFits ==
    ASSUME NEW v, Fitting(v), NEW p \in {"away", "meetup", "feedback"}
    PROVE  Fitting([v EXCEPT !.page = p])
<1>0. v \in ViewRec BY DEF Fitting
<1>1. LET w == [v EXCEPT !.page = p] IN
      w \in ViewRec /\ w.save = v.save /\ w.data = v.data /\ w.fetch = v.fetch
   BY <1>0 DEF ViewRec
<1> QED BY <1>1 DEF Fitting

LEMMA TurnFits ==
    ASSUME NEW v, Fitting(v), NEW p \in {"away", "meetup", "feedback"}, NEW f \in FormRec
    PROVE  Fitting([v EXCEPT !.page = p, !.form = f, !.busy = FALSE])
<1>0. v \in ViewRec BY DEF Fitting
<1>1. LET w == [v EXCEPT !.page = p, !.form = f, !.busy = FALSE] IN
      w \in ViewRec /\ w.save = v.save /\ w.data = v.data /\ w.fetch = v.fetch
   BY <1>0 DEF ViewRec
<1> QED BY <1>1 DEF Fitting

LEMMA EmptyFormed == EmptyForm \in FormRec
BY DEF EmptyForm, FormRec, Wishes, Reports

LEMMA HydratedFits == ASSUME NEW v, Fitting(v) PROVE Fitting(Hydrated(v))
<1>1. CASE v.form.hydrated \/ v.data = {} \/ v.page = "away"
  <2>1. Hydrated(v) = v BY <1>1 DEF Hydrated
  <2> QED BY <2>1
<1>2. CASE ~(v.form.hydrated \/ v.data = {} \/ v.page = "away")
  <2>1. PICK d : d = (CHOOSE x \in v.data : TRUE) OBVIOUS
  <2>2. d \in StatusRec BY <1>2, <2>1 DEF Fitting, ViewRec
  <2>3. PICK f : f = [EmptyForm EXCEPT !.hydrated = TRUE, !.intent = d.intent, !.dates = d.dates,
                        !.outcome = d.outcome, !.reason = d.reason, !.feedback = d.feedback]
     OBVIOUS
  <2>4. f \in FormRec BY <2>2, <2>3, EmptyFormed DEF FormRec, StatusRec
  <2>5. Hydrated(v) = [v EXCEPT !.form = f] BY <1>2, <2>1, <2>3 DEF Hydrated
  <2> QED BY <2>4, <2>5, FormFits
<1> QED BY <1>1, <1>2

LEMMA NothingRead == NoReads \in FetchRec /\ [NoReads EXCEPT !.asking = TRUE] \in FetchRec
                     /\ NoReads.match = {} /\ [NoReads EXCEPT !.asking = TRUE].match = {}
BY DEF NoReads, FetchRec

LEMMA ReadAnewFits == ASSUME NEW v, Fitting(v) PROVE Fitting(ReadAnew(v))
<1>0. v \in ViewRec BY DEF Fitting
<1>1. PICK g \in FetchRec : g = [NoReads EXCEPT !.asking = TRUE] /\ g.match = {} BY NothingRead
<1>2. PICK b \in BOOLEAN : b = (v.failed /\ v.data # {}) OBVIOUS
<1>3. PICK w : w = [v EXCEPT !.fetch = g, !.failed = b] OBVIOUS
<1>4. w \in ViewRec /\ w.fetch = g /\ w.data = v.data /\ w.save = v.save BY <1>0, <1>3 DEF ViewRec
<1>5. ReadAnew(v) = w BY <1>0, <1>1, <1>2, <1>3 DEF ReadAnew, ViewRec
<1> QED BY <1>1, <1>4, <1>5 DEF Fitting

-----------------------------------------------------------------------------
\* The pair at the server.

LEMMA AfterIntentKeeps ==
    ASSUME NEW p \in PairRec
    PROVE  LET q == AfterIntent(p) IN
           /\ q \in PairRec /\ q.mine = p.mine /\ q.refused = p.refused
           /\ q.outcome = p.outcome /\ q.reason = p.reason
           /\ p.everMutual => q.everMutual
           /\ p.state # "none" => q.state # "none"
           /\ p.state = "met_confirmed" => q.state = "met_confirmed"
<1>1. CASE BothYes(p) /\ p.state \in {"none", "interest_withdrawn"}
  <2>1. AfterIntent(p) = [p EXCEPT !.state = "mutual_interest", !.everMutual = TRUE] BY <1>1 DEF AfterIntent
  <2> QED BY <1>1, <2>1 DEF PairRec, MatchStates
<1>2. CASE ~BothYes(p) /\ p.state \in {"mutual_interest", "scheduled"}
  <2>1. AfterIntent(p) = [p EXCEPT !.state = "interest_withdrawn"] BY <1>2 DEF AfterIntent
  <2> QED BY <1>2, <2>1 DEF PairRec, MatchStates
<1>3. CASE /\ ~(BothYes(p) /\ p.state \in {"none", "interest_withdrawn"})
           /\ ~(~BothYes(p) /\ p.state \in {"mutual_interest", "scheduled"})
  <2>1. AfterIntent(p) = p BY <1>3 DEF AfterIntent
  <2> QED BY <2>1
<1> QED BY <1>1, <1>2, <1>3

LEMMA AfterOutcomeKeeps ==
    ASSUME NEW p \in PairRec
    PROVE  LET q == AfterOutcome(p) IN
           /\ q \in PairRec /\ q.mine = p.mine /\ q.refused = p.refused
           /\ q.outcome = p.outcome /\ q.reason = p.reason
           /\ p.everMutual => q.everMutual
           /\ p.state # "none" => q.state # "none"
           /\ p.state = "met_confirmed" => q.state = "met_confirmed"
<1>1. CASE p.outcome = "met" /\ p.otherOutcome = "met"
  <2>1. AfterOutcome(p) = [p EXCEPT !.state = "met_confirmed"] BY <1>1 DEF AfterOutcome
  <2> QED BY <1>1, <2>1 DEF PairRec, MatchStates
<1>2. CASE ~(p.outcome = "met" /\ p.otherOutcome = "met")
  <2>1. AfterOutcome(p) = p BY <1>2 DEF AfterOutcome
  <2> QED BY <2>1
<1> QED BY <1>1, <1>2

\* Counters do not matter.
LEMMA CountersKeep ==
    ASSUME PairOK, NEW n \in Nat,
           \/ pair' = [pair EXCEPT !.saves = n] \/ pair' = [pair EXCEPT !.reads = n]
           \/ pair' = [pair EXCEPT !.events = n]
    PROVE  PairOK' /\ PairMoves
BY DEF PairOK, PairMoves, PairRec

LEMMA OtherMovesInv == ASSUME PairKept, OtherMoves PROVE PairKept'
<1> USE DEF PairKept
<1>0. UNCHANGED view /\ pair \in PairRec BY DEF OtherMoves, PairOK
<1>1. pair.events + 1 \in Nat BY <1>0 DEF PairRec
<1> SUFFICES PairOK' /\ PairMoves BY <1>0, FittingStays
<1>2. CASE \E i \in {"yes", "not_yet"} :
             pair' = AfterIntent([pair EXCEPT !.other = [intent |-> i,
                        dates |-> IF i = "yes" THEN DateOptions ELSE {}], !.events = @ + 1])
  <2>1. PICK i \in {"yes", "not_yet"} :
          pair' = AfterIntent([pair EXCEPT !.other = [intent |-> i,
                     dates |-> IF i = "yes" THEN DateOptions ELSE {}], !.events = @ + 1])
     BY <1>2
  <2>2. PICK r \in WishRow : r = [intent |-> i, dates |-> IF i = "yes" THEN DateOptions ELSE {}]
    <3>1. PICK ds \in SUBSET DateOptions : ds = (IF i = "yes" THEN DateOptions ELSE {}) OBVIOUS
    <3>2. [intent |-> i, dates |-> ds] \in WishRow BY DEF WishRow, Wishes
    <3> QED BY <3>1, <3>2
  <2>3. PICK p : p = [pair EXCEPT !.other = r, !.events = @ + 1] OBVIOUS
  <2>4. /\ p \in PairRec /\ p.mine = pair.mine /\ p.refused = pair.refused /\ p.outcome = pair.outcome
        /\ p.reason = pair.reason /\ p.everMutual = pair.everMutual /\ p.state = pair.state
     BY <1>0, <1>1, <2>3 DEF PairRec
  <2>5. pair' = AfterIntent(p) BY <2>1, <2>2, <2>3
  <2> QED BY <2>4, <2>5, AfterIntentKeeps DEF PairOK, PairMoves
<1>3. CASE \E o \in {"met", "not_met"} : pair' = AfterOutcome([pair EXCEPT !.otherOutcome = o, !.events = @ + 1])
  <2>1. PICK o \in {"met", "not_met"} : pair' = AfterOutcome([pair EXCEPT !.otherOutcome = o, !.events = @ + 1])
     BY <1>3
  <2>3. PICK p : p = [pair EXCEPT !.otherOutcome = o, !.events = @ + 1] OBVIOUS
  <2>4. /\ p \in PairRec /\ p.mine = pair.mine /\ p.refused = pair.refused /\ p.outcome = pair.outcome
        /\ p.reason = pair.reason /\ p.everMutual = pair.everMutual /\ p.state = pair.state
     BY <1>0, <1>1, <2>3 DEF PairRec, Reports
  <2>5. pair' = AfterOutcome(p) BY <2>1, <2>3
  <2> QED BY <2>4, <2>5, AfterOutcomeKeeps DEF PairOK, PairMoves
<1>4. CASE pair' = [pair EXCEPT !.open = FALSE, !.events = @ + 1]
  <2>1. /\ pair' \in PairRec /\ pair'.mine = pair.mine /\ pair'.refused = pair.refused
        /\ pair'.outcome = pair.outcome /\ pair'.reason = pair.reason
        /\ pair'.everMutual = pair.everMutual /\ pair'.state = pair.state
     BY <1>0, <1>1, <1>4 DEF PairRec
  <2> QED BY <2>1 DEF PairOK, PairMoves
<1> QED BY <1>2, <1>3, <1>4 DEF OtherMoves

-----------------------------------------------------------------------------
\* The query.

\* A view that fits and a pair that moves on, or stays, fit again.
LEMMA ViewSteps ==
    ASSUME PairKept, NEW v, Fitting(v), view' = v, PairOK', PairMoves PROVE PairKept'
BY FittingStays DEF PairKept

LEMMA FetchFits ==
    ASSUME NEW v, Fitting(v), NEW g \in FetchRec, \A m \in g.match : Copied(m)
    PROVE  Fitting([v EXCEPT !.fetch = g])
<1>0. v \in ViewRec BY DEF Fitting
<1>1. LET w == [v EXCEPT !.fetch = g] IN w \in ViewRec /\ w.save = v.save /\ w.data = v.data /\ w.fetch = g
   BY <1>0 DEF ViewRec
<1> QED BY <1>1 DEF Fitting

LEMMA ReadsInv == ASSUME PairKept, ReadMatch \/ ReadIntents \/ ReadOwn PROVE PairKept'
<1> USE DEF PairKept
<1>0. UNCHANGED pair /\ pair \in PairRec /\ view \in ViewRec /\ view.fetch \in FetchRec
   BY DEF ReadMatch, ReadIntents, ReadOwn, PairOK, Fitting, ViewRec
<1>1. PICK v : v = view OBVIOUS
<1>2. CASE ReadMatch
  <2>1. PICK m : m = [open |-> pair.open, state |-> pair.state, everMutual |-> pair.everMutual] OBVIOUS
  <2>2. m \in MatchCopy /\ Copied(m) BY <1>0, <2>1 DEF PairRec, MatchCopy, Copied
  <2>3. PICK g : g = [v.fetch EXCEPT !.match = {m}] OBVIOUS
  <2>4. g \in FetchRec /\ g.match = {m} BY <1>0, <1>1, <2>2, <2>3 DEF FetchRec
  <2>5. view' = [v EXCEPT !.fetch = g] BY <1>1, <1>2, <2>1, <2>3 DEF ReadMatch
  <2>6. PICK w : w = [v EXCEPT !.fetch = g] OBVIOUS
  <2>7. Fitting(w) BY <1>1, <2>2, <2>4, <2>6, FetchFits
  <2> QED BY <1>0, <2>5, <2>6, <2>7, ViewSteps, PairUnmoved
<1>3. CASE ReadIntents
  <2>1. PICK i : i = [mine |-> pair.mine, other |-> VisibleOther] OBVIOUS
  <2>2. i \in WishesCopy BY <1>0, <2>1 DEF PairRec, WishesCopy, VisibleOther
  <2>3. PICK g : g = [v.fetch EXCEPT !.intents = {i}] OBVIOUS
  <2>4. g \in FetchRec /\ g.match = v.fetch.match BY <1>0, <1>1, <2>2, <2>3 DEF FetchRec
  <2>5. view' = [v EXCEPT !.fetch = g] BY <1>1, <1>3, <2>1, <2>3 DEF ReadIntents
  <2>6. PICK w : w = [v EXCEPT !.fetch = g] OBVIOUS
  <2>7. Fitting(w) BY <1>1, <2>4, <2>6, FetchFits DEF Fitting
  <2> QED BY <1>0, <2>5, <2>6, <2>7, ViewSteps, PairUnmoved
<1>4. CASE ReadOwn
  <2>1. PICK o : o = [outcome |-> pair.outcome, reason |-> pair.reason, feedback |-> pair.feedback] OBVIOUS
  <2>2. o \in OwnCopy BY <1>0, <2>1 DEF PairRec, OwnCopy
  <2>3. PICK g : g = [v.fetch EXCEPT !.own = {o}] OBVIOUS
  <2>4. g \in FetchRec /\ g.match = v.fetch.match BY <1>0, <1>1, <2>2, <2>3 DEF FetchRec
  <2>5. view' = [v EXCEPT !.fetch = g] BY <1>1, <1>4, <2>1, <2>3 DEF ReadOwn
  <2>6. PICK w : w = [v EXCEPT !.fetch = g] OBVIOUS
  <2>7. Fitting(w) BY <1>1, <2>4, <2>6, FetchFits DEF Fitting
  <2> QED BY <1>0, <2>5, <2>6, <2>7, ViewSteps, PairUnmoved
<1> QED BY <1>2, <1>3, <1>4

\* What is shown of three reads is true of the pair, whenever each was made.
LEMMA StatusTold ==
    ASSUME PairOK, NEW m \in MatchCopy, Copied(m), NEW i \in WishesCopy, NEW o \in OwnCopy
    PROVE  Status(m, i, o) \in StatusRec /\ Truthful(Status(m, i, o))
<1> DEFINE mutual == MutualNow(m, i)
           dates == IF mutual THEN UNION {row.dates : row \in i.other} ELSE {}
<1>1. mutual \in BOOLEAN /\ IsBothConfirmed(m.state) \in BOOLEAN /\ CanReportOutcome(m) \in BOOLEAN
   BY DEF MutualNow, IsBothConfirmed, CanReportOutcome, MatchCopy
<1>2. dates \in SUBSET DateOptions BY DEF WishesCopy, WishRow
<1>3. Status(m, i, o) =
        [open |-> m.open, state |-> m.state, mutual |-> mutual,
         intent |-> i.mine.intent, dates |-> i.mine.dates, otherDates |-> dates,
         outcome |-> o.outcome, reason |-> o.reason, feedback |-> o.feedback,
         confirmed |-> IsBothConfirmed(m.state), canReport |-> CanReportOutcome(m)]
   BY DEF Status
<1>4. mutual => i.mine.intent = "yes" /\ m.state # "interest_withdrawn" BY DEF MutualNow, IsMutualNow
<1>5. dates # {} => mutual OBVIOUS
<1>6. IsBothConfirmed(m.state) => pair.state = "met_confirmed" BY DEF Copied, IsBothConfirmed
<1>7. CanReportOutcome(m) => Reportable(pair) BY DEF Copied, CanReportOutcome, Reportable
<1>8. i.mine.intent \in Wishes /\ i.mine.dates \in SUBSET DateOptions BY DEF WishesCopy, WishRow
<1> HIDE DEF mutual, dates
<1>9. Status(m, i, o) \in StatusRec BY <1>1, <1>2, <1>3, <1>8 DEF StatusRec, MatchCopy, OwnCopy
<1> QED BY <1>3, <1>4, <1>5, <1>6, <1>7, <1>9 DEF Truthful

LEMMA StatusInv == ASSUME PairKept, StatusArrives \/ StatusFails PROVE PairKept'
<1> USE DEF PairKept
<1>0. pair \in PairRec /\ view \in ViewRec /\ view.fetch \in FetchRec BY DEF PairOK, Fitting, ViewRec
<1>1. PICK v : v = view OBVIOUS
<1>2. CASE StatusArrives
  <2>1. PICK m \in v.fetch.match, i \in v.fetch.intents, o \in v.fetch.own :
           view' = Hydrated([v EXCEPT !.data = {Status(m, i, o)}, !.failed = FALSE, !.fetch = NoReads])
     BY <1>1, <1>2 DEF StatusArrives
  <2>2. PICK d : d = Status(m, i, o) OBVIOUS
  <2>3. m \in MatchCopy /\ Copied(m) /\ i \in WishesCopy /\ o \in OwnCopy
     BY <1>0, <1>1 DEF FetchRec, Fitting
  <2>4. d \in StatusRec /\ Truthful(d) BY <2>2, <2>3, StatusTold
  <2>5. PICK w : w = [v EXCEPT !.data = {d}, !.failed = FALSE, !.fetch = NoReads] OBVIOUS
  <2>6. w \in ViewRec /\ w.data = {d} /\ w.save = v.save /\ w.fetch = NoReads
     BY <1>0, <1>1, <2>4, <2>5, NothingRead DEF ViewRec
  <2>7. Fitting(w) BY <1>1, <2>4, <2>6, NothingRead DEF Fitting
  <2>8. PICK x : x = Hydrated(w) OBVIOUS
  <2>9. Fitting(x) /\ view' = x BY <2>1, <2>2, <2>5, <2>7, <2>8, HydratedFits
  <2>10. UNCHANGED pair BY <1>2 DEF StatusArrives
  <2> QED BY <2>9, <2>10, ViewSteps, PairUnmoved
<1>3. CASE StatusFails
  <2>1. view' = [v EXCEPT !.fetch = NoReads, !.failed = TRUE] /\ pair' = [pair EXCEPT !.events = @ + 1]
     BY <1>1, <1>3 DEF StatusFails, LoseOne
  <2>2. PICK n \in Nat : n = pair.events + 1 BY <1>0 DEF PairRec
  <2>3. PairOK' /\ PairMoves BY <2>1, <2>2, CountersKeep
  <2>4. PICK w : w = [v EXCEPT !.fetch = NoReads, !.failed = TRUE] OBVIOUS
  <2>5. w \in ViewRec /\ w.data = v.data /\ w.save = v.save /\ w.fetch = NoReads
     BY <1>0, <1>1, <2>4, NothingRead DEF ViewRec
  <2>6. Fitting(w) BY <1>1, <2>5, NothingRead DEF Fitting
  <2> QED BY <2>1, <2>3, <2>4, <2>6, ViewSteps
<1> QED BY <1>2, <1>3

-----------------------------------------------------------------------------
\* Pages and forms.

LEMMA PagesInv == ASSUME PairKept, OpenPage \/ RetryStatus \/ LeavePage \/ OtherPage PROVE PairKept'
<1> USE DEF PairKept
<1>0. pair \in PairRec BY DEF PairOK
<1>1. PICK v : v = view OBVIOUS
<1>2. CASE OpenPage
  <2>1. PICK to \in {"meetup", "feedback"} :
          LET opened == [v EXCEPT !.page = to]
          IN \/ /\ view' = Hydrated(IF v.fetch.asking THEN opened ELSE ReadAnew(opened))
                /\ pair' = [pair EXCEPT !.reads = IF v.data = {} THEN @ ELSE @ + 1]
             \/ view' = Hydrated(opened) /\ UNCHANGED pair
     BY <1>1, <1>2 DEF OpenPage
  <2>2. PICK w : w = [v EXCEPT !.page = to] OBVIOUS
  <2>3. Fitting(w) BY <1>1, <2>2, PageFits
  <2>4. PICK x : x = ReadAnew(w) OBVIOUS
  <2>5. Fitting(x) BY <2>3, <2>4, ReadAnewFits
  <2>6. PICK y \in {w, x} : view' = Hydrated(y) BY <2>1, <2>2, <2>4
  <2>7. PICK z : z = Hydrated(y) OBVIOUS
  <2>8. Fitting(z) /\ view' = z BY <2>3, <2>5, <2>6, <2>7, HydratedFits
  <2>9. PairOK' /\ PairMoves
    <3>1. CASE pair' = [pair EXCEPT !.reads = IF v.data = {} THEN @ ELSE @ + 1]
      <4>1. pair.reads \in Nat BY <1>0 DEF PairRec
      <4>2. PICK n \in Nat : n = (IF v.data = {} THEN pair.reads ELSE pair.reads + 1) BY <4>1
      <4>3. pair' = [pair EXCEPT !.reads = n] BY <3>1, <4>2
      <4> QED BY <4>3, CountersKeep
    <3>2. CASE UNCHANGED pair BY <3>2, PairUnmoved
    <3> QED BY <2>1, <3>1, <3>2
  <2> QED BY <2>8, <2>9, ViewSteps
<1>3. CASE RetryStatus
  <2>1. PICK w : w = ReadAnew(v) OBVIOUS
  <2>2. Fitting(w) /\ view' = w /\ UNCHANGED pair BY <1>1, <1>3, <2>1, ReadAnewFits DEF RetryStatus
  <2> QED BY <2>2, ViewSteps, PairUnmoved
<1>4. CASE LeavePage
  <2>1. PICK w : w = [v EXCEPT !.page = "away", !.form = EmptyForm, !.busy = FALSE] OBVIOUS
  <2>2. Fitting(w) BY <1>1, <2>1, TurnFits, EmptyFormed
  <2>3. view' = w /\ UNCHANGED pair BY <1>1, <1>4, <2>1 DEF LeavePage
  <2> QED BY <2>2, <2>3, ViewSteps, PairUnmoved
<1>5. CASE OtherPage
  <2>1. PICK to \in {"feedback", "meetup"} :
           view' = Hydrated([v EXCEPT !.page = to, !.form = EmptyForm, !.busy = FALSE])
     BY <1>1, <1>5 DEF OtherPage
  <2>2. PICK w : w = [v EXCEPT !.page = to, !.form = EmptyForm, !.busy = FALSE] OBVIOUS
  <2>3. Fitting(w) BY <1>1, <2>2, TurnFits, EmptyFormed
  <2>4. PICK z : z = Hydrated(w) OBVIOUS
  <2>5. Fitting(z) /\ view' = z BY <2>1, <2>2, <2>3, <2>4, HydratedFits
  <2>6. UNCHANGED pair BY <1>5 DEF OtherPage
  <2> QED BY <2>5, <2>6, ViewSteps, PairUnmoved
<1> QED BY <1>2, <1>3, <1>4, <1>5

\* Every edit of a form gives a form.
LEMMA ChoiceFits ==
    ASSUME NEW v \in ViewRec,
           \/ \E i \in Wishes : view' = [v EXCEPT !.form = [@ EXCEPT !["intent"] = i]]
           \/ \E ds \in SUBSET DateOptions : view' = [v EXCEPT !.form = [@ EXCEPT !["dates"] = ds]]
           \/ \E o \in Reports : view' = [v EXCEPT !.form = [@ EXCEPT !["outcome"] = o]]
           \/ \E r \in SUBSET {"no_show"} : view' = [v EXCEPT !.form = [@ EXCEPT !["reason"] = r]]
           \/ \E e \in SUBSET {"intent", "outcome"} : view' = [v EXCEPT !.form = [@ EXCEPT !["editing"] = e]]
    PROVE  \E f \in FormRec : view' = [v EXCEPT !.form = f]
<1>1. v.form \in FormRec /\ view' = [v EXCEPT !.form = view'.form] BY DEF ViewRec
<1>2. view'.form \in FormRec
  <2>1. CASE \E i \in Wishes : view' = [v EXCEPT !.form = [@ EXCEPT !["intent"] = i]]
     BY <1>1, <2>1 DEF FormRec, ViewRec
  <2>2. CASE \E ds \in SUBSET DateOptions : view' = [v EXCEPT !.form = [@ EXCEPT !["dates"] = ds]]
     BY <1>1, <2>2 DEF FormRec, ViewRec
  <2>3. CASE \E o \in Reports : view' = [v EXCEPT !.form = [@ EXCEPT !["outcome"] = o]]
     BY <1>1, <2>3 DEF FormRec, ViewRec
  <2>4. CASE \E r \in SUBSET {"no_show"} : view' = [v EXCEPT !.form = [@ EXCEPT !["reason"] = r]]
     BY <1>1, <2>4 DEF FormRec, ViewRec
  <2>5. CASE \E e \in SUBSET {"intent", "outcome"} : view' = [v EXCEPT !.form = [@ EXCEPT !["editing"] = e]]
     BY <1>1, <2>5 DEF FormRec, ViewRec
  <2> QED BY <2>1, <2>2, <2>3, <2>4, <2>5
<1> QED BY <1>1, <1>2

LEMMA FormSteps ==
    ASSUME PairKept, UNCHANGED pair, \E f \in FormRec : view' = [view EXCEPT !.form = f] PROVE PairKept'
<1>1. PICK f \in FormRec : view' = [view EXCEPT !.form = f] OBVIOUS
<1>2. PICK v : v = view OBVIOUS
<1>3. PICK w : w = [v EXCEPT !.form = f] OBVIOUS
<1>4. Fitting(w) BY <1>2, <1>3, FormFits DEF PairKept
<1> QED BY <1>1, <1>2, <1>3, <1>4, ViewSteps, PairUnmoved DEF PairKept

LEMMA EditsInv == ASSUME PairKept, EditIntent \/ EditOutcome \/ EditFeedback PROVE PairKept'
<1>0. view \in ViewRec /\ UNCHANGED pair BY DEF PairKept, Fitting, EditIntent, EditOutcome, EditFeedback
<1>1. PICK v \in ViewRec : v = view BY <1>0
<1>2. v.form \in FormRec /\ v.form.editing \in SUBSET {"intent", "outcome"} BY DEF ViewRec, FormRec
<1> SUFFICES \E f \in FormRec : view' = [v EXCEPT !.form = f] BY <1>0, <1>1, FormSteps
<1>3. CASE EditIntent
  <2>1. CASE \E d \in Shown : view' = [v EXCEPT !.form.editing = @ \ {"intent"}, !.form.intent = d.intent]
    <3>1. PICK d \in Shown : view' = [v EXCEPT !.form.editing = @ \ {"intent"}, !.form.intent = d.intent]
       BY <2>1
    <3>2. d.intent \in Wishes BY <1>1 DEF Shown, ViewRec, StatusRec
    <3>3. PICK f : f = [v.form EXCEPT !.editing = @ \ {"intent"}, !.intent = d.intent] OBVIOUS
    <3>4. f \in FormRec BY <1>2, <3>2, <3>3 DEF FormRec
    <3>5. view' = [v EXCEPT !.form = f] BY <3>1, <3>3
    <3> QED BY <3>4, <3>5
  <2>2. CASE ~\E d \in Shown : view' = [v EXCEPT !.form.editing = @ \ {"intent"}, !.form.intent = d.intent]
    <3>1. {"yes", "not_yet"} \subseteq Wishes /\ v.form.editing \cup {"intent"} \in SUBSET {"intent", "outcome"}
       BY <1>2 DEF Wishes
    <3>2. \/ \E i \in Wishes : view' = [v EXCEPT !.form = [@ EXCEPT !["intent"] = i]]
          \/ \E ds \in SUBSET DateOptions : view' = [v EXCEPT !.form = [@ EXCEPT !["dates"] = ds]]
          \/ \E e \in SUBSET {"intent", "outcome"} : view' = [v EXCEPT !.form = [@ EXCEPT !["editing"] = e]]
       BY <1>1, <1>3, <2>2, <3>1 DEF EditIntent, Chooses
    <3> QED BY <3>2, ChoiceFits
  <2> QED BY <2>1, <2>2
<1>4. CASE EditOutcome
  <2>1. CASE \E d \in Shown : view' = [v EXCEPT !.form.editing = @ \ {"outcome"}, !.form.outcome = d.outcome,
                                         !.form.reason = d.reason]
    <3>1. PICK d \in Shown : view' = [v EXCEPT !.form.editing = @ \ {"outcome"}, !.form.outcome = d.outcome,
                                         !.form.reason = d.reason]
       BY <2>1
    <3>2. d.outcome \in Reports /\ d.reason \in SUBSET {"no_show"} BY <1>1 DEF Shown, ViewRec, StatusRec
    <3>3. PICK f : f = [v.form EXCEPT !.editing = @ \ {"outcome"}, !.outcome = d.outcome, !.reason = d.reason]
       OBVIOUS
    <3>4. f \in FormRec BY <1>2, <3>2, <3>3 DEF FormRec
    <3>5. view' = [v EXCEPT !.form = f] BY <3>1, <3>3
    <3> QED BY <3>4, <3>5
  <2>2. CASE ~\E d \in Shown : view' = [v EXCEPT !.form.editing = @ \ {"outcome"}, !.form.outcome = d.outcome,
                                          !.form.reason = d.reason]
    <3>1. {"met", "not_met"} \subseteq Reports /\ v.form.editing \cup {"outcome"} \in SUBSET {"intent", "outcome"}
       BY <1>2 DEF Reports
    <3>2. \/ \E o \in Reports : view' = [v EXCEPT !.form = [@ EXCEPT !["outcome"] = o]]
          \/ \E r \in SUBSET {"no_show"} : view' = [v EXCEPT !.form = [@ EXCEPT !["reason"] = r]]
          \/ \E e \in SUBSET {"intent", "outcome"} : view' = [v EXCEPT !.form = [@ EXCEPT !["editing"] = e]]
       BY <1>1, <1>4, <2>2, <3>1 DEF EditOutcome, Chooses
    <3> QED BY <3>2, ChoiceFits
  <2> QED BY <2>1, <2>2
<1>5. CASE EditFeedback
  <2>1. PICK f : f = [v.form EXCEPT !.feedback = {"answer"}] OBVIOUS
  <2>2. f \in FormRec BY <1>2, <2>1 DEF FormRec
  <2>3. view' = [v EXCEPT !.form = f] BY <1>1, <1>5, <2>1 DEF EditFeedback
  <2> QED BY <2>2, <2>3
<1> QED BY <1>3, <1>4, <1>5 DEF EditIntent, EditOutcome, EditFeedback

-----------------------------------------------------------------------------
\* The calls.

\* What is sent will be accepted.
LEMMA SendsInv ==
    ASSUME PairKept, NEW s \in SaveRec, Acceptable(s),
           view' = [view EXCEPT !.busy = TRUE, !.save = s], pair' = [pair EXCEPT !.saves = @ + 1]
    PROVE  PairKept'
<1>0. pair.saves \in Nat /\ view \in ViewRec BY DEF PairKept, PairOK, PairRec, Fitting
<1>1. PICK n \in Nat : n = pair.saves + 1 BY <1>0
<1>2. PairOK' /\ PairMoves BY <1>1, CountersKeep DEF PairKept
<1>3. PICK v : v = view OBVIOUS
<1>4. PICK w : w = [v EXCEPT !.busy = TRUE, !.save = s] OBVIOUS
<1>5. w \in ViewRec /\ w.fetch = v.fetch /\ w.data = v.data /\ w.save = s BY <1>0, <1>3, <1>4 DEF ViewRec
<1>6. Fitting(w) BY <1>3, <1>5 DEF Fitting, PairKept
<1> QED BY <1>2, <1>3, <1>4, <1>6, ViewSteps

LEMMA SavesInv == ASSUME PairKept, SaveIntent \/ SaveOutcome \/ SaveFeedback PROVE PairKept'
<1>0. /\ view \in ViewRec /\ view.form \in FormRec
      /\ view.form.intent \in Wishes /\ view.form.dates \in SUBSET DateOptions
      /\ view.form.outcome \in Reports /\ view.form.reason \in SUBSET {"no_show"}
      /\ view.form.feedback \in SUBSET {"answer"}
   BY DEF PairKept, Fitting, ViewRec, FormRec
<1>1. CASE SaveIntent
  <2>1. PICK i \in Wishes, ds \in SUBSET DateOptions :
           i = view.form.intent /\ ds = (IF i = "yes" THEN view.form.dates ELSE {})
     BY <1>0
  <2>2. PICK s : s = [kind |-> "intent", choice |-> i, extra |-> ds, answer |-> "none"] OBVIOUS
  <2>3. s \in SaveRec BY <2>2 DEF SaveRec
  <2>4. Acceptable(s) BY <2>1, <2>2 DEF Acceptable
  <2>5. view' = [view EXCEPT !.busy = TRUE, !.save = s] /\ pair' = [pair EXCEPT !.saves = @ + 1]
     BY <1>1, <2>1, <2>2 DEF SaveIntent, Sends
  <2> QED BY <2>3, <2>4, <2>5, SendsInv
<1>2. CASE SaveOutcome
  <2>1. PICK o \in Reports, r \in SUBSET {"no_show"} :
           o = view.form.outcome /\ r = (IF o = "not_met" THEN view.form.reason ELSE {})
     BY <1>0
  <2>2. o = "not_met" <=> r # {} BY <1>2, <2>1 DEF SaveOutcome
  <2>3. Reportable(pair)
    <3>1. PICK d \in Shown : d.canReport BY <1>2 DEF SaveOutcome, On
    <3>2. d \in view.data BY <3>1 DEF Shown
    <3> QED BY <3>1, <3>2 DEF PairKept, Fitting, Truthful
  <2>4. PICK s : s = [kind |-> "outcome", choice |-> o, extra |-> r, answer |-> "none"] OBVIOUS
  <2>5. s \in SaveRec BY <2>4 DEF SaveRec
  <2>6. Acceptable(s) BY <2>2, <2>3, <2>4 DEF Acceptable
  <2>7. view' = [view EXCEPT !.busy = TRUE, !.save = s] /\ pair' = [pair EXCEPT !.saves = @ + 1]
     BY <1>2, <2>1, <2>4 DEF SaveOutcome, Sends
  <2> QED BY <2>5, <2>6, <2>7, SendsInv
<1>3. CASE SaveFeedback
  <2>1. PICK r \in SUBSET {"answer"} : r = view.form.feedback BY <1>0
  <2>2. PICK s : s = [kind |-> "feedback", choice |-> "given", extra |-> r, answer |-> "none"] OBVIOUS
  <2>3. s \in SaveRec BY <2>2 DEF SaveRec
  <2>4. Acceptable(s) BY <2>2 DEF Acceptable
  <2>5. view' = [view EXCEPT !.busy = TRUE, !.save = s] /\ pair' = [pair EXCEPT !.saves = @ + 1]
     BY <1>3, <2>1, <2>2 DEF SaveFeedback, Sends
  <2> QED BY <2>3, <2>4, <2>5, SendsInv
<1> QED BY <1>1, <1>2, <1>3

\* The call under way is edited, not what it asks for.
LEMMA AnswerFits ==
    ASSUME NEW v, Fitting(v), NEW a \in {"none", "saved", "reading", "failed"}
    PROVE  LET w == [v EXCEPT !.save.answer = a] IN
           Fitting(w) /\ w.save.kind = v.save.kind /\ w.form = v.form /\ w.data = v.data
<1>0. v \in ViewRec /\ v.save \in SaveRec BY DEF Fitting, ViewRec
<1>1. PICK s : s = [v.save EXCEPT !.answer = a] OBVIOUS
<1>2. s \in SaveRec /\ s.kind = v.save.kind /\ s.choice = v.save.choice /\ s.extra = v.save.extra
   BY <1>0, <1>1 DEF SaveRec
<1>3. PICK w : w = [v EXCEPT !.save = s] OBVIOUS
<1>4. w \in ViewRec /\ w.save = s /\ w.fetch = v.fetch /\ w.data = v.data /\ w.form = v.form
   BY <1>0, <1>2, <1>3 DEF ViewRec
<1>5. Acceptable(s) BY <1>2 DEF Acceptable, Fitting
<1>6. Fitting(w) BY <1>4, <1>5 DEF Fitting
<1>7. [v EXCEPT !.save.answer = a] = w BY <1>1, <1>3
<1> QED BY <1>2, <1>4, <1>6, <1>7

\* The server refuses nothing that was offered.
LEMMA StoreInv == ASSUME PairKept, Store PROVE PairKept'
<1> USE DEF PairKept
<1>0. pair \in PairRec /\ view \in ViewRec /\ view.save \in SaveRec BY DEF PairOK, Fitting, ViewRec
<1>1. PICK v : v = view OBVIOUS
<1>2. PICK s : s = view.save OBVIOUS
<1>3. s \in SaveRec /\ Acceptable(s) BY <1>0, <1>2 DEF Fitting
<1>4. PICK a \in {"saved", "failed"} : view' = [v EXCEPT !.save.answer = a] BY <1>1 DEF Store
<1>5. PICK w : w = [v EXCEPT !.save.answer = a] OBVIOUS
<1>6. Fitting(w) /\ view' = w BY <1>1, <1>4, <1>5, AnswerFits
<1> SUFFICES PairOK' /\ PairMoves BY <1>6, ViewSteps
<1>7. CASE s.kind = "intent" /\ pair' = AfterIntent([pair EXCEPT !.mine = [intent |-> s.choice, dates |-> s.extra]])
  <2>1. PICK r : r = [intent |-> s.choice, dates |-> s.extra] OBVIOUS
  <2>2. r \in WishRow /\ (r.dates # {} => r.intent = "yes") BY <1>3, <1>7, <2>1 DEF Acceptable, WishRow
  <2>3. PICK p : p = [pair EXCEPT !.mine = r] OBVIOUS
  <2>4. /\ p \in PairRec /\ p.mine = r /\ p.refused = pair.refused /\ p.outcome = pair.outcome
        /\ p.reason = pair.reason /\ p.everMutual = pair.everMutual /\ p.state = pair.state
     BY <1>0, <2>2, <2>3 DEF PairRec
  <2>5. pair' = AfterIntent(p) BY <1>7, <2>1, <2>3
  <2> QED BY <2>2, <2>4, <2>5, AfterIntentKeeps DEF PairOK, PairMoves
<1>8. CASE s.kind = "outcome" /\ pair' = AfterOutcome([pair EXCEPT !.outcome = s.choice, !.reason = s.extra])
  <2>1. s.choice \in Reports /\ s.extra \in SUBSET {"no_show"} /\ (s.choice = "not_met" <=> s.extra # {})
     BY <1>3, <1>8 DEF Acceptable
  <2>2. PICK p : p = [pair EXCEPT !.outcome = s.choice, !.reason = s.extra] OBVIOUS
  <2>3. /\ p \in PairRec /\ p.mine = pair.mine /\ p.refused = pair.refused /\ p.outcome = s.choice
        /\ p.reason = s.extra /\ p.everMutual = pair.everMutual /\ p.state = pair.state
     BY <1>0, <2>1, <2>2 DEF PairRec
  <2>4. pair' = AfterOutcome(p) BY <1>8, <2>2
  <2> QED BY <2>1, <2>3, <2>4, AfterOutcomeKeeps DEF PairOK, PairMoves
<1>9. CASE s.kind = "feedback" /\ pair' = [pair EXCEPT !.feedback = s.extra]
  <2>1. s.extra \in SUBSET {"answer"} BY <1>3, <1>9 DEF Acceptable
  <2>2. /\ pair' \in PairRec /\ pair'.mine = pair.mine /\ pair'.refused = pair.refused
        /\ pair'.outcome = pair.outcome /\ pair'.reason = pair.reason
        /\ pair'.everMutual = pair.everMutual /\ pair'.state = pair.state
     BY <1>0, <1>9, <2>1 DEF PairRec
  <2> QED BY <2>2 DEF PairOK, PairMoves
<1>10. CASE UNCHANGED pair BY <1>10, PairUnmoved
<1>11. ~(s.kind = "outcome" /\ ~(Reportable(pair) /\ ((s.choice = "not_met") <=> (s.extra # {}))))
   BY <1>3 DEF Acceptable
<1> QED BY <1>2, <1>7, <1>8, <1>9, <1>10, <1>11 DEF Store

LEMMA SavedInv == ASSUME PairKept, SaveFails \/ Saved PROVE PairKept'
<1> USE DEF PairKept
<1>0. pair \in PairRec /\ view \in ViewRec /\ view.form \in FormRec BY DEF PairOK, Fitting, ViewRec
<1>1. PICK v : v = view OBVIOUS
<1>2. CASE SaveFails
  <2>1. view' = [v EXCEPT !.save.answer = "failed"] /\ pair' = [pair EXCEPT !.events = @ + 1]
     BY <1>1, <1>2 DEF SaveFails, LoseOne
  <2>2. PICK n \in Nat : n = pair.events + 1 BY <1>0 DEF PairRec
  <2>3. PairOK' /\ PairMoves BY <2>1, <2>2, CountersKeep
  <2>4. PICK w : w = [v EXCEPT !.save.answer = "failed"] OBVIOUS
  <2>5. Fitting(w) BY <1>1, <2>4, AnswerFits
  <2> QED BY <2>1, <2>3, <2>4, <2>5, ViewSteps
<1>3. CASE Saved
  <2>0. UNCHANGED pair BY <1>3 DEF Saved
  <2>1. CASE view' = ReadAnew([v EXCEPT !.save.answer = "reading", !.form.editing = @ \ {v.save.kind}])
    <3>1. PICK w : w = [v EXCEPT !.save.answer = "reading"] OBVIOUS
    <3>2. Fitting(w) /\ w.save.kind = v.save.kind /\ w.form = v.form BY <1>1, <3>1, AnswerFits
    <3>3. PICK f : f = [v.form EXCEPT !.editing = @ \ {v.save.kind}] OBVIOUS
    <3>4. f \in FormRec BY <1>0, <1>1, <3>3 DEF FormRec
    <3>5. PICK x : x = [w EXCEPT !.form = f] OBVIOUS
    <3>6. Fitting(x) BY <3>2, <3>4, <3>5, FormFits
    <3>7. PICK y : y = ReadAnew(x) OBVIOUS
    <3>8. Fitting(y) BY <3>6, <3>7, ReadAnewFits
    <3>9. x = [v EXCEPT !.save.answer = "reading", !.form.editing = @ \ {v.save.kind}]
       BY <1>0, <1>1, <3>1, <3>3, <3>5 DEF ViewRec
    <3> QED BY <2>0, <2>1, <3>7, <3>8, <3>9, ViewSteps, PairUnmoved
  <2>2. CASE view' = [v EXCEPT !.save = NoSave, !.busy = FALSE]
    <3>1. NoSave \in SaveRec /\ NoSave.kind = "none" BY DEF NoSave, SaveRec, Wishes
    <3>2. PICK w : w = [v EXCEPT !.save = NoSave, !.busy = FALSE] OBVIOUS
    <3>3. w \in ViewRec /\ w.fetch = v.fetch /\ w.data = v.data /\ w.save = NoSave
       BY <1>0, <1>1, <3>1, <3>2 DEF ViewRec
    <3>4. Acceptable(NoSave) BY <3>1 DEF Acceptable
    <3>5. Fitting(w) BY <1>1, <3>3, <3>4 DEF Fitting
    <3> QED BY <2>0, <2>2, <3>2, <3>5, ViewSteps, PairUnmoved
  <2> QED BY <1>1, <1>3, <2>1, <2>2 DEF Saved
<1> QED BY <1>2, <1>3

-----------------------------------------------------------------------------
LEMMA MeetupScreenStarts == ASSUME MeetupScreenInit PROVE PairKept
<1>1. PICK state \in {"none", "scheduled"}, i \in {"none", "yes"} : pair =
         [open |-> TRUE, state |-> state, everMutual |-> FALSE,
          mine |-> [intent |-> "none", dates |-> {}],
          other |-> [intent |-> i, dates |-> IF i = "yes" THEN DateOptions ELSE {}],
          outcome |-> "none", reason |-> {}, otherOutcome |-> "none", feedback |-> {},
          refused |-> FALSE, saves |-> 0, reads |-> 0, events |-> 0]
   BY DEF MeetupScreenInit
<1>2. PICK ds \in SUBSET DateOptions : ds = (IF i = "yes" THEN DateOptions ELSE {}) OBVIOUS
<1>3. [intent |-> "none", dates |-> {}] \in WishRow /\ [intent |-> i, dates |-> ds] \in WishRow
   BY DEF WishRow, Wishes
<1>4. pair \in PairRec BY <1>1, <1>2, <1>3 DEF PairRec, MatchStates, Reports
<1>5. PairOK BY <1>1, <1>4 DEF PairOK
<1>6. NoSave \in SaveRec /\ NoSave.kind = "none" BY DEF NoSave, SaveRec, Wishes
<1>7. view = [page |-> "away", data |-> {}, failed |-> FALSE, fetch |-> NoReads, form |-> EmptyForm,
              busy |-> FALSE, save |-> NoSave]
   BY DEF MeetupScreenInit
<1>8. view \in ViewRec BY <1>6, <1>7, NothingRead, EmptyFormed DEF ViewRec
<1>9. Fitting(view) BY <1>6, <1>7, <1>8, NothingRead DEF Fitting, Acceptable
<1> QED BY <1>5, <1>9 DEF PairKept

LEMMA MeetupScreenSteps == PairKept /\ [MeetupScreenNext]_meetupScreen => PairKept'
<1> SUFFICES ASSUME PairKept, [MeetupScreenNext]_meetupScreen PROVE PairKept' OBVIOUS
<1>1. CASE MeetupScreenNext
   BY <1>1, OtherMovesInv, ReadsInv, StatusInv, PagesInv, EditsInv, SavesInv, StoreInv, SavedInv
   DEF MeetupScreenNext
<1>2. CASE UNCHANGED meetupScreen
  <2>1. UNCHANGED <<pair, view>> BY <1>2 DEF meetupScreen
  <2>2. PICK v : v = view OBVIOUS
  <2> QED BY <2>1, <2>2, ViewSteps, PairUnmoved DEF PairKept
<1> QED BY <1>1, <1>2

\* However the reads of the page fall between the moves of both: "you both want
\* to meet" is shown with the own yes only, what may be reported is accepted,
\* and "confirmed" and "you may report" stay true; for any set of dates and any
\* number of saves, reads and moves of the other person.
THEOREM ScreenTellsTruth == MeetupScreenSpec => []MeetupScreenInv
<1>1. MeetupScreenInit => PairKept BY MeetupScreenStarts
<1>2. PairKept /\ [MeetupScreenNext]_meetupScreen => PairKept' BY MeetupScreenSteps
<1>3. PairKept => MeetupScreenInv
   BY DEF PairKept, PairOK, Fitting, Truthful, MeetupScreenInv, MutualIsBoth, DatesOfTheWilling,
          OffersAreAccepted, ShownLasts
<1> QED BY <1>1, <1>2, <1>3, PTL DEF MeetupScreenSpec
=============================================================================
