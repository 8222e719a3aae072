------------------------------- MODULE MCScreens -------------------------------
(***************************************************************************)
(* Five components that share no state, for TLC in one run: "part" is the  *)
(* one a behaviour belongs to, and the others stay in an initial state.    *)
(* They have the properties that hold only with fairness.                  *)
(***************************************************************************)
EXTENDS AccountStatus, Onboarding, FaceScreen, PushOutbox

CONSTANTS e1, e2, m1, daily, d1, d2, w1, w2, a1, a2, g1

VARIABLES
    part,
    pii, idData, purged, rows, flow, sess, objects, job, wk, request  \* of AccountPurge

Schedule == <<0, 1>>

\* One request to delete, two workers and the daily batch; nothing fails.
Purge == INSTANCE AccountPurge WITH
    Edges <- {e1}, Ops <- {"delete"},
    Workers <- {a1, a2}, Faces <- {g1}, InitFaces <- {g1},
    Callers <- {"batch", "request"}, Faults <- {}, Extras <- {"prune"},
    row <- rows

purge == <<pii, idData, purged, rows, flow, sess, objects, job, wk, request>>
partVars == <<part, statusVars, purge, entry, faceScreen, pushOutbox>>
Parts == {"status", "purge", "entry", "face", "push"}

PartsInit ==
    /\ part \in Parts
    /\ IF part = "purge" THEN Purge!Init ELSE Init
    /\ Purge!InitPurge
    /\ EntryInit /\ FaceInit /\ PushInit
    \* one initial state is enough for a part at rest
    /\ part # "entry" => ~gate /\ row = NewRow
    /\ part # "face" => faceRows = <<>> /\ ~consented

\* A step of part p leaves the variables of every other part as they are.
Only(p) ==
    /\ part = p /\ UNCHANGED part
    /\ p \notin {"status", "purge"} => UNCHANGED statusVars
    /\ p # "purge" => UNCHANGED purge
    /\ p # "entry" => UNCHANGED entry
    /\ p # "face" => UNCHANGED faceScreen
    /\ p # "push" => UNCHANGED pushOutbox

PartsNext ==
    \/ Only("status") /\ StatusNext
    \/ Only("purge") /\ Purge!Next
    \/ Only("entry") /\ EntryNext
    \/ Only("face") /\ FaceNext
    \/ Only("push") /\ PushNext

\* The fairness of each part, with the other parts at rest
PartsFairness ==
    /\ WF_partVars(Only("status") /\ Tick)
    /\ WF_partVars(Only("status") /\ LiftExpired)
    /\ \A w \in {a1, a2} :
         /\ SF_partVars(Only("purge") /\ Purge!BatchTarget(w))
         /\ WF_partVars(Only("purge") /\ Purge!WorkerStep(w))
    /\ WF_partVars(Only("purge") /\ Purge!LeaseExpires)
    /\ WF_partVars(Only("purge") /\ Purge!Tick /\ UNCHANGED purge)
    /\ WF_partVars(Only("entry") /\ Forward)
    /\ WF_partVars(Only("face") /\ Entering) /\ WF_partVars(Only("face") /\ Polling)
    /\ WF_partVars(Only("face") /\ Proceed) /\ WF_partVars(Only("face") /\ Tasks)
    /\ \A w \in Senders : WF_partVars(Only("push") /\ SenderWorks(w))
    /\ WF_partVars(Only("push") /\ ClaimsAge)

PartsSpec == PartsInit /\ [][PartsNext]_partVars /\ PartsFairness
-----------------------------------------------------------------------------
\* Every erasure that was begun is finished, an account that stays deleted
\* becomes due, and a suspension ends with its days (AccountPurge, AccountStatus).
AccountsEnd == Purge!EveryJobEnds /\ DeletedBecomesDue /\ SuspensionEnds

\* Who goes on with the entry comes home, and the face screen's wait ends
\* (Onboarding, FaceScreen).
EntryEnds == ReachesHome /\ WaitingEnds
=============================================================================
