-------------------------------- MODULE MCPurge --------------------------------
(***************************************************************************)
(* Two instances of AccountPurge for TLC in one run: "part" is the one a   *)
(* behaviour belongs to.  Extended here, with the constants of the cfg:    *)
(* two workers, everything that may go wrong, an operator who skips        *)
(* stages.  Requests: complete deletions from the operator's page, an      *)
(* owner who comes back, face requests in between.                         *)
(***************************************************************************)
EXTENDS AccountPurge, TLC

CONSTANTS w1, w2, w3, f1

VARIABLE part

Requests == INSTANCE AccountPurge WITH
    Ops <- {"delete", "reactivate"}, Workers <- {w3}, InitFaces <- {},
    Callers <- {"request", "retry", "batch"}, Faults <- {"fail"},
    Extras <- {"skip", "return", "face"}

purgeParts == <<part, vars>>

PurgeInit ==
    \/ part = "erase" /\ Init /\ InitPurge
    \/ part = "requests" /\ Requests!Init /\ Requests!InitPurge

PurgeNext ==
    /\ UNCHANGED part
    /\ \/ part = "erase" /\ Next
       \/ part = "requests" /\ Requests!Next

PurgeSpec == PurgeInit /\ [][PurgeNext]_purgeParts

WorkerSymmetry == Permutations(Workers)
-----------------------------------------------------------------------------
\* The data that are left: a stage called done has erased them, and no provider
\* session is out of reach as long as nobody asks for a new one.  (GoneInv and
\* DoneStaysDone are the same in both instances.)
ErasedInv == IF part = "erase" THEN PurgeInv ELSE Requests!TypeOK
=============================================================================
