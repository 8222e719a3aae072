------------------------------ MODULE MCMeetupTx ------------------------------
(***************************************************************************)
(* MeetupTx for TLC: both users answer, and B may deny what A reports.     *)
(***************************************************************************)
EXTENDS MeetupTx, TLC

MeetupJobs == {j \in AllJobs : j.u = A => j.v # "not_met"} \ {[op |-> "feedback", u |-> B, v |-> "given"]}
=============================================================================
