------------------------------- MODULE MeetupTx -------------------------------
(***************************************************************************)
(* The meetup of one match after 0016: both users' answers to "would you   *)
(* meet", to "did you meet" and their feedback, each an RPC whose upsert   *)
(* fires a trigger on the match row, as transactions that take PostgreSQL  *)
(* row locks one statement at a time, while the match is left, blocked and *)
(* its users are restricted and restored.                                  *)
(***************************************************************************)
EXTENDS Naturals, FiniteSets, PgLocks

CONSTANTS
    A, B,      \* matches.user_a, matches.user_b
    Sess,      \* database sessions
    Jobs,      \* the requests clients may issue
    Inherited, \* the values of meetup_state that 0016 may find
    Moderated  \* users whom operators restrict and restore

Users == {A, B}
NoJob == [op |-> "none", u |-> "nobody", v |-> "none"]
AllJobs == [op : {"intent"}, u : Users, v : {"yes", "not_yet"}]
           \cup [op : {"outcome"}, u : Users, v : {"met", "not_met"}]
           \cup [op : {"feedback"}, u : Users, v : {"given"}]

ASSUME PairAssumption == A # B
ASSUME MeetupJobsAssumption == Jobs \subseteq AllJobs
ASSUME ModeratedAssumption == Moderated \subseteq Users
ASSUME InheritedAssumption == Inherited \subseteq {"none", "mutual_interest", "scheduled", "completed"}

VARIABLES
    intent,       \* meetup_intentions.intent, "none" without a row
    outcome,      \* meetup_outcomes.outcome
    feedback,     \* users with a meetup_feedback row
    matchSt,      \* matches.status, "ended" for closed and blocked
    acct,         \* users whose status is 'active'
    mstate,       \* matches.meetup_state
    mutualAt,     \* mutual_interest_at is not null
    confirmedAt,  \* meetup_confirmed_at is not null
    told,         \* times meetup_mutual_interest was recorded for both
    toldMet,      \* times meetup_confirmed_both was
    pc,           \* the statement each session is at
    job,          \* the request it serves
    seen,         \* the match row its trigger has read
    all,          \* what its trigger has counted: both answers agree
    locks         \* row locks held

answers == <<intent, outcome, feedback>>
match == <<mstate, mutualAt, confirmedAt, told, toldMet>>
around == <<matchSt, acct>>
sess == <<pc, job, seen, all, locks>>
vars == <<answers, match, around, sess>>
-----------------------------------------------------------------------------
NothingSeen == [mstate |-> "none", mutualAt |-> FALSE, confirmedAt |-> FALSE]

\* The rows a request may meet: one of an earlier app kept a state without
\* mutual_interest_at, and participants could set 'scheduled' and 'completed'.
Init ==
    /\ intent \in [Users -> {"none", "yes", "not_yet"}]
    /\ mstate \in Inherited
    /\ mstate = "none" => intent = [u \in Users |-> "none"]
    /\ outcome = [u \in Users |-> "none"] /\ feedback = {}
    /\ matchSt = "active" /\ acct = Users
    /\ mutualAt = FALSE /\ confirmedAt = FALSE
    /\ told = 0 /\ toldMet = 0
    /\ pc = [s \in Sess |-> "idle"]
    /\ job = [s \in Sess |-> NoJob]
    /\ seen = [s \in Sess |-> NothingSeen]
    /\ all = [s \in Sess |-> FALSE]
    /\ locks = {}
-----------------------------------------------------------------------------
AnswerRow(j) == <<j.op, j.u>>
MatchRow == <<"match", "row">>

Stored(j) ==
    \/ j.op = "intent" /\ intent[j.u] # "none"
    \/ j.op = "outcome" /\ outcome[j.u] # "none"
    \/ j.op = "feedback" /\ j.u \in feedback

\* meetup_set_intent: both are active in an active match, as SELECTs without a
\* lock find them.  A block ends the match in its own commit, and a match of a
\* pair that was blocked before takes no intent at all.
IntentAllowed == matchSt = "active" /\ acct = Users

\* meetup_report_outcome: also after the match has ended.
ReportAllowed(u) == u \in acct /\ (mutualAt \/ mstate # "none")

\* meetup_submit_feedback: the own answer "met" is enough.
FeedbackAllowed(u) == u \in acct /\ outcome[u] = "met"

GoTo(s, label) == pc' = [pc EXCEPT ![s] = label]

Acquire(s, row, mode) ==
    Grantable(locks, s, row, mode) /\ locks' = Grant(locks, s, row, mode)

End(s) ==
    /\ GoTo(s, "idle")
    /\ job' = [job EXCEPT ![s] = NoJob]
    /\ seen' = [seen EXCEPT ![s] = NothingSeen]
    /\ all' = [all EXCEPT ![s] = FALSE]
    /\ locks' = ReleaseAll(locks, s)

\* A refused request changes nothing.
Begin(s) ==
    /\ pc[s] = "idle"
    /\ \E j \in Jobs :
          /\ j.op = "intent" => IntentAllowed
          /\ j.op = "outcome" => ReportAllowed(j.u)
          /\ j.op = "feedback" => FeedbackAllowed(j.u)
          /\ job' = [job EXCEPT ![s] = j]
    /\ GoTo(s, "upsert")
    /\ UNCHANGED <<answers, match, around, seen, all, locks>>

AfterUpsert(s) == IF job[s].op = "feedback" THEN "commit" ELSE "trigger"

\* INSERT ... ON CONFLICT (match_id, user_id) DO UPDATE: the own row, waiting
\* for another request of the same user.
Upsert(s) ==
    /\ pc[s] = "upsert"
    /\ Acquire(s, AnswerRow(job[s]), "Update")
    /\ GoTo(s, IF Stored(job[s]) THEN AfterUpsert(s) ELSE "fk")
    /\ UNCHANGED <<answers, match, around, job, seen, all>>

\* The foreign key of a new row, checked before the named triggers fire.
CheckFk(s) ==
    /\ pc[s] = "fk"
    /\ Acquire(s, MatchRow, "KeyShare")
    /\ GoTo(s, AfterUpsert(s))
    /\ UNCHANGED <<answers, match, around, job, seen, all>>

\* What the trigger reads of the match, and counts: the own answer as written,
\* the other's as committed by now.
ReadAndCount(s) ==
    LET agree == IF job[s].op = "intent" THEN "yes" ELSE "met"
        answer(u) == IF u = job[s].u THEN job[s].v
                     ELSE IF job[s].op = "intent" THEN intent[u] ELSE outcome[u]
    IN  /\ all' = [all EXCEPT ![s] = \A u \in Users : answer(u) = agree]
        /\ seen' = [seen EXCEPT ![s] =
              [mstate |-> mstate, mutualAt |-> mutualAt, confirmedAt |-> confirmedAt]]

\* Slip: a trigger that reads the match row without FOR UPDATE.
LockMatchPlainRead(s) ==
    /\ pc[s] = "trigger"
    /\ ReadAndCount(s)
    /\ GoTo(s, "commit")
    /\ UNCHANGED <<answers, match, around, job, locks>>

\* Slip: one side's word is enough.
LockMatchOneWord(s) ==
    /\ pc[s] = "trigger"
    /\ Acquire(s, MatchRow, "Update")
    /\ all' = [all EXCEPT ![s] = job[s].v \in {"yes", "met"}]
    /\ seen' = [seen EXCEPT ![s] =
          [mstate |-> mstate, mutualAt |-> mutualAt, confirmedAt |-> confirmedAt]]
    /\ GoTo(s, "commit")
    /\ UNCHANGED <<answers, match, around, job>>

\* handle_meetup_intent and handle_meetup_outcome up to the count.  Nobody who
\* changes an answer gets between the SELECT ... FOR UPDATE and the count.
LockMatch(s) ==
    /\ pc[s] = "trigger"
    /\ Acquire(s, MatchRow, "Update")
    /\ ReadAndCount(s)
    /\ GoTo(s, "commit")
    /\ UNCHANGED <<answers, match, around, job>>

\* Slip: whoever restores the interest is taken for the first.
CommitIntentTellsAgain(s) ==
    /\ pc[s] = "commit" /\ job[s].op = "intent"
    /\ intent' = [intent EXCEPT ![job[s].u] = job[s].v]
    /\ LET made == all[s] /\ seen[s].mstate \in {"none", "interest_withdrawn"}
           lost == ~all[s] /\ seen[s].mstate \in {"mutual_interest", "scheduled"}
       IN  /\ mstate' = IF made THEN "mutual_interest"
                        ELSE IF lost THEN "interest_withdrawn" ELSE mstate
           /\ mutualAt' = (mutualAt \/ made)
           /\ told' = IF made THEN told + 1 ELSE told
    /\ End(s)
    /\ UNCHANGED <<outcome, feedback, confirmedAt, toldMet, around>>

\* The rest of handle_meetup_intent: it decides on the row it has read.
CommitIntent(s) ==
    /\ pc[s] = "commit" /\ job[s].op = "intent"
    /\ intent' = [intent EXCEPT ![job[s].u] = job[s].v]
    /\ LET made == all[s] /\ seen[s].mstate \in {"none", "interest_withdrawn"}
           lost == ~all[s] /\ seen[s].mstate \in {"mutual_interest", "scheduled"}
       IN  /\ mstate' = IF made THEN "mutual_interest"
                        ELSE IF lost THEN "interest_withdrawn" ELSE mstate
           /\ mutualAt' = (mutualAt \/ made)
           /\ told' = IF made /\ ~seen[s].mutualAt THEN told + 1 ELSE told
    /\ End(s)
    /\ UNCHANGED <<outcome, feedback, confirmedAt, toldMet, around>>

\* The rest of handle_meetup_outcome: a later "not met" takes nothing back.
CommitOutcome(s) ==
    /\ pc[s] = "commit" /\ job[s].op = "outcome"
    /\ outcome' = [outcome EXCEPT ![job[s].u] = job[s].v]
    /\ LET made == all[s] /\ seen[s].mstate # "met_confirmed"
       IN  /\ mstate' = IF made THEN "met_confirmed" ELSE mstate
           /\ confirmedAt' = (confirmedAt \/ made)
           /\ toldMet' = IF made /\ ~seen[s].confirmedAt THEN toldMet + 1 ELSE toldMet
    /\ End(s)
    /\ UNCHANGED <<intent, feedback, mutualAt, told, around>>

CommitFeedback(s) ==
    /\ pc[s] = "commit" /\ job[s].op = "feedback"
    /\ feedback' = feedback \cup {job[s].u}
    /\ End(s)
    /\ UNCHANGED <<intent, outcome, match, around>>
-----------------------------------------------------------------------------
\* The lock the statement at pc[s] waits for, and whom it waits for.
BlockersOf(s) ==
    CASE pc[s] = "upsert"  -> Blockers(locks, s, AnswerRow(job[s]), "Update")
      [] pc[s] = "fk"      -> Blockers(locks, s, MatchRow, "KeyShare")
      [] pc[s] = "trigger" -> Blockers(locks, s, MatchRow, "Update")
      [] OTHER             -> {}

InCircle(s) == \E S \in SUBSET Sess : s \in S /\ \A t \in S : BlockersOf(t) \cap S # {}

\* Slip: the victim goes back to waiting with its locks.
AbortKeepsWaiting(s) == InCircle(s) /\ UNCHANGED vars

\* Two first answers hold KEY SHARE on the match and both want FOR UPDATE:
\* PostgreSQL aborts one, which the client sees as a failed save.
AbortDeadlock(s) ==
    /\ InCircle(s)
    /\ End(s)
    /\ UNCHANGED <<answers, match, around>>

\* A leave, a block or a ban ends the match while no trigger holds its row.
EndMatch ==
    /\ matchSt = "active"
    /\ \A l \in locks : l.row = MatchRow => ~Conflict(l.mode, "NoKeyUpdate")
    /\ matchSt' = "ended"
    /\ UNCHANGED <<answers, match, acct, sess>>

\* A suspension, and its end, leave the match alone.
Moderate ==
    /\ \E u \in Moderated : acct' \in {acct \ {u}, acct \cup {u}}
    /\ UNCHANGED <<answers, match, matchSt, sess>>

Statement(s) ==
    \/ Upsert(s) \/ CheckFk(s) \/ LockMatch(s)
    \/ CommitIntent(s) \/ CommitOutcome(s) \/ CommitFeedback(s)

Next ==
    \/ \E s \in Sess : Begin(s) \/ Statement(s) \/ AbortDeadlock(s)
    \/ EndMatch
    \/ Moderate

Spec == Init /\ [][Next]_vars

\* As in MatchTx: statements run, locks are granted in turn, circles are
\* broken; nobody has to ask for anything.
Fairness ==
    /\ \A s \in Sess : SF_vars(Statement(s))
    /\ WF_vars(\E s \in Sess : AbortDeadlock(s))

FairSpec == Spec /\ Fairness
-----------------------------------------------------------------------------
Pcs == {"idle", "upsert", "fk", "trigger", "commit"}
MStates == {"none", "mutual_interest", "interest_withdrawn", "scheduled", "completed", "met_confirmed"}

TypeOK ==
    /\ intent \in [Users -> {"none", "yes", "not_yet"}]
    /\ outcome \in [Users -> {"none", "met", "not_met"}]
    /\ feedback \subseteq Users /\ acct \subseteq Users
    /\ matchSt \in {"active", "ended"}
    /\ mstate \in MStates
    /\ mutualAt \in BOOLEAN /\ confirmedAt \in BOOLEAN
    /\ told \in Nat /\ toldMet \in Nat
    /\ pc \in [Sess -> Pcs]
    /\ job \in [Sess -> AllJobs \cup {NoJob}]
    /\ seen \in [Sess -> [mstate : MStates, mutualAt : BOOLEAN, confirmedAt : BOOLEAN]]
    /\ all \in [Sess -> BOOLEAN]
    /\ \A l \in locks : l.s \in Sess /\ l.mode \in LockModes

AllSay(ans, v) == \A u \in Users : ans[u] = v

\* What a trigger has read and counted is still so when it writes: it holds the
\* match row, and whoever changes the row or commits an answer holds it too.
TriggerOK(s) ==
    /\ pc[s] = "commit" /\ job[s].op # "feedback" =>
          /\ Holds(locks, s, MatchRow, "Update")
          /\ seen[s] = [mstate |-> mstate, mutualAt |-> mutualAt, confirmedAt |-> confirmedAt]
    /\ pc[s] = "commit" /\ job[s].op = "intent" =>
          all[s] = AllSay([intent EXCEPT ![job[s].u] = job[s].v], "yes")
    /\ pc[s] = "commit" /\ job[s].op = "outcome" =>
          all[s] = AllSay([outcome EXCEPT ![job[s].u] = job[s].v], "met")

SessionOK(s) ==
    /\ pc[s] = "idle" <=> job[s] = NoJob
    /\ pc[s] = "trigger" => job[s].op # "feedback"
    /\ pc[s] # "idle" /\ job[s].op = "outcome" => mutualAt \/ mstate # "none"

\* The inductive invariant: types, locks that exclude each other, and triggers
\* that act on what is still so when their transaction commits.
MeetupInv == TypeOK /\ Exclusive(locks) /\ \A s \in Sess : SessionOK(s) /\ TriggerOK(s)

\* The meeting is confirmed from the moment both have said "met", never on one
\* side's word and for good, although an answer may be corrected later; the
\* first mutual interest and the confirmation are each recorded and notified
\* once, through withdrawals, repeated saves and answers given at the same
\* moment (handle_meetup_intent, handle_meetup_outcome).
ConfirmedOnce ==
    /\ AllSay(outcome, "met") => mstate = "met_confirmed"
    /\ mstate = "met_confirmed" => \A u \in Users : outcome[u] # "none"
    /\ confirmedAt <=> mstate = "met_confirmed"
    /\ told = (IF mutualAt THEN 1 ELSE 0)
    /\ toldMet = (IF confirmedAt THEN 1 ELSE 0)

\* Whenever an answer is saved, the state the screens show agrees with the
\* answers stored, whatever an older app had left there: dates and region of
\* the other are open exactly while both say yes.
IntentAgrees ==
    [][intent' # intent =>
          /\ AllSay(intent', "yes") => mstate' \notin {"none", "interest_withdrawn"}
          /\ ~AllSay(intent', "yes") => mstate' \notin {"mutual_interest", "scheduled"}]_vars

\* The transactions implement the one-step answers.
Registry == INSTANCE MeetupRegistry
              WITH Users <- Users, intent <- intent, outcome <- outcome, mstate <- mstate,
                   mutualAt <- mutualAt, confirmedAt <- confirmedAt,
                   told <- told, toldMet <- toldMet
MeetupRegistrySpec == Registry!Spec

\* Every save ends, with the answer stored or aborted by the database.
SavesEnd == \A s \in Sess : pc[s] # "idle" ~> pc[s] = "idle"
=============================================================================
