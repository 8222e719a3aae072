----------------------------- MODULE MCAdminMembers -----------------------------
(***************************************************************************)
(* AdminMembers for TLC without sessions: three transactions at once.      *)
(***************************************************************************)
EXTENDS AdminMembers, TLC

CONSTANTS o1, o2, t1, t2, t3

MembersSymmetry == Permutations(Operators) \cup Permutations(Orders)
=============================================================================
