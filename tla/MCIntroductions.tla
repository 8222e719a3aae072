---------------------------- MODULE MCIntroductions ----------------------------
(***************************************************************************)
(* Three components for TLC in one run: "part" is the one a behaviour      *)
(* belongs to; the others do nothing, and the one with many initial states  *)
(* is absent.                                                              *)
(*   slots      likes and matches under the limit (MatchTx)                *)
(*   matching   the rows two people are compared by (Matchmaking)          *)
(*   today      the home screen (TodayScreen)                              *)
(***************************************************************************)
EXTENDS MCMatchTx, Matchmaking, TodayScreen

VARIABLE part

introVars == <<part, vars, matchmaking, todayScreen>>

Absent == "absent"

IntroInit ==
    /\ part \in {"slots", "matching", "today"}
    /\ Init
    /\ IF part = "matching" THEN MatchmakingInit ELSE saved = Absent /\ keys = Absent /\ opening = Absent
    /\ TodayInit

\* A step of part p leaves the variables of every other part as they are.
Only(p) ==
    /\ part = p /\ UNCHANGED part
    /\ p # "slots" => UNCHANGED vars
    /\ p # "matching" => UNCHANGED matchmaking
    /\ p # "today" => UNCHANGED todayScreen

\* Only the transactions must never be stuck; the other parts stop where their
\* bounds are reached.
IntroNext ==
    \/ Only("slots") /\ Next
    \/ Only("matching") /\ MatchmakingNext
    \/ Only("today") /\ TodayNext
    \/ part # "slots" /\ UNCHANGED introVars

IntroSpec == IntroInit /\ [][IntroNext]_introVars
-----------------------------------------------------------------------------
\* The comparison of two people and the questions made from their public
\* facts, where the rows exist (MatchingEngine.ts, starterQuestions.ts).
MatchingInv == part = "matching" => ScoreInv /\ StartersInv
=============================================================================
