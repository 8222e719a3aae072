---------------------------- MODULE MeetupRegistry ----------------------------
(***************************************************************************)
(* What the meetup tables promise of one match, with every answer a single *)
(* step: the specification that the transactions of MeetupTx implement.    *)
(* Both say yes in the step that makes the interest mutual; both say "met" *)
(* in the step that confirms the meeting; each is told once.               *)
(***************************************************************************)
EXTENDS Naturals

CONSTANT Users

VARIABLES intent, outcome, mstate, mutualAt, confirmedAt, told, toldMet

vars == <<intent, outcome, mstate, mutualAt, confirmedAt, told, toldMet>>

All(answers, v) == \A u \in Users : answers[u] = v

\* The first time is recorded and told, the later ones are not.
First(at, count) == at' = TRUE /\ count' = IF at THEN count ELSE count + 1

SetIntent(u, v) ==
    /\ intent' = [intent EXCEPT ![u] = v]
    /\ \/ /\ All(intent', "yes") /\ mstate \in {"none", "interest_withdrawn"}
          /\ mstate' = "mutual_interest"
          /\ First(mutualAt, told)
       \/ /\ ~All(intent', "yes") /\ mstate \in {"mutual_interest", "scheduled"}
          /\ mstate' = "interest_withdrawn"
          /\ UNCHANGED <<mutualAt, told>>
       \/ /\ ~(All(intent', "yes") /\ mstate \in {"none", "interest_withdrawn"})
          /\ ~(~All(intent', "yes") /\ mstate \in {"mutual_interest", "scheduled"})
          /\ UNCHANGED <<mstate, mutualAt, told>>
    /\ UNCHANGED <<outcome, confirmedAt, toldMet>>

ReportOutcome(u, v) ==
    /\ outcome' = [outcome EXCEPT ![u] = v]
    /\ \/ /\ All(outcome', "met") /\ mstate # "met_confirmed"
          /\ mstate' = "met_confirmed"
          /\ First(confirmedAt, toldMet)
       \/ /\ ~All(outcome', "met") \/ mstate = "met_confirmed"
          /\ UNCHANGED <<mstate, confirmedAt, toldMet>>
    /\ UNCHANGED <<intent, mutualAt, told>>

\* Only an arranged meeting, or one a past version left behind, is reported.
Next ==
    \E u \in Users :
        \/ \E v \in {"yes", "not_yet"} : SetIntent(u, v)
        \/ \E v \in {"met", "not_met"} :
              (mutualAt \/ mstate # "none") /\ ReportOutcome(u, v)

\* The rows that 0016 met: a match nobody answered, or one of an older app.
Init ==
    /\ intent \in [Users -> {"none", "yes", "not_yet"}]
    /\ mstate \in {"none", "mutual_interest", "scheduled", "completed"}
    /\ mstate = "none" => ~All(intent, "yes")
    /\ outcome = [u \in Users |-> "none"]
    /\ mutualAt = FALSE /\ confirmedAt = FALSE
    /\ told = 0 /\ toldMet = 0

Spec == Init /\ [][Next]_vars
=============================================================================
