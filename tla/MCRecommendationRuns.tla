------------------------ MODULE MCRecommendationRuns ------------------------
(***************************************************************************)
(* Instances of RecommendationRuns for TLC: who may be introduced to whom. *)
(***************************************************************************)
EXTENDS RecommendationRuns

\* The first user fits everybody, the others one candidate.
UnevenFits == {p \in Users \X Cands : p[1] = 1 \/ p[2] = "a"}
=============================================================================
