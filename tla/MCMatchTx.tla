------------------------------ MODULE MCMatchTx ------------------------------
(***************************************************************************)
(* Instances of MatchTx for TLC: who has a card of whom, and which         *)
(* requests a run allows.                                                  *)
(***************************************************************************)
EXTENDS MatchInv, TLC

EveryCard == Cards
\* A ban names only its user.
JobsOf(ops) ==
    {j \in AllJobs : /\ j.op \in ops
                     /\ j.u # j.v
                     /\ j.op = "ban" => j.v = IF j.u = 1 THEN 2 ELSE 1}

\* Likes of both kinds; 3 leaves its conversations again.
SlotJobs == {j \in JobsOf({"accept", "like", "decline"}) : j.op = "accept" \/ j.u = 1}
                \cup {j \in JobsOf({"leave"}) : j.u = 3}
AnswerJobs == JobsOf({"accept", "leave", "send", "block", "ban"})
ChatJobs == AnswerJobs \cup {j \in JobsOf({"declare"}) : j.u = 1}

SessSymmetry == Permutations(Sess)
=============================================================================
