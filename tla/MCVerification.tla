----------------------------- MODULE MCVerification -----------------------------
(***************************************************************************)
(* The two verifications of an account for TLC in one run: "part" is the   *)
(* one a behaviour belongs to, and the other stays in an initial state.    *)
(* Their properties need no fairness.                                      *)
(***************************************************************************)
EXTENDS FaceVerification, IdentitySessions, TLC

CONSTANTS u1, u2, u3, p1, p2, ph1, ph2, s1, s2, c1, c2, i1, i2

VARIABLE part

verification == <<part, vars, identity>>
Parts == {"face", "identity"}

\* What the provider may answer about a face
FinalVerdicts == {Passed, Of("Approved", TRUE, TRUE, TRUE), Of("Expired", FALSE, FALSE, FALSE)}
\* One account is verified at the start.
OneOwner == u1 :> p1

\* The calls of both are the same values, and so are their sessions; the
\* accounts that are not there at the start are alike.
VerificationSymmetry ==
    Permutations(Calls) \cup Permutations(Sessions) \cup Permutations(Screens)
      \cup Permutations(Phones) \cup Permutations(Users \ DOMAIN Owners)

VerificationInit ==
    /\ part \in Parts
    /\ Init /\ IdentityInit
    \* one initial state is enough for a part at rest
    /\ part # "face" => ~verified /\ clock = 0

VerificationNext ==
    /\ UNCHANGED part
    /\ \/ part = "face" /\ Next /\ UNCHANGED identity
       \/ part = "identity" /\ IdentityNext /\ UNCHANGED vars

VerificationSpec == VerificationInit /\ [][VerificationNext]_verification
=============================================================================
