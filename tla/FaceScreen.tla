------------------------------- MODULE FaceScreen -------------------------------
(***************************************************************************)
(* The screen of the face check: it asks for the consent, starts a session *)
(* at the server, opens the provider's camera, and waits for the verdict   *)
(* by reading the latest row and asking the server at set times. Every     *)
(* await is a step, so the row, the flag and the screen itself may change  *)
(* under it; the verdicts come from the server (FaceVerification).         *)
(***************************************************************************)
EXTENDS Naturals, Sequences

CONSTANTS
    MaxSessions,  \* bound: sessions that are started
    Patience,     \* reads until PROCESSING_TIMEOUT_MS
    SyncAt,       \* SYNC_AT_MS, in reads
    MaxSlips      \* bound: calls that fail, restarts

VARIABLES
    faceRows,     \* face_verifications of the user, the latest last
    flag,         \* users.face_verified
    consented,    \* a row of face_consents for the current version
    shown,        \* state
    lastSession, syncs, going,  \* the refs; going is advancing.current
    task,         \* what a button has started
    poll,         \* where the effect of processing is
    late,         \* a read of the flag that outlives that effect
    slips

faceScreen == <<faceRows, flag, consented, shown, lastSession, syncs, going, task, poll, late, slips>>
server == <<faceRows, flag, consented>>

Verdicts == {"in_review", "approved", "rejected", "expired"}
\* Pending: also after the expiry, and when the provider asks for another attempt
Waiting == {"pending", "stale", "again"}

Kind(kind) == [kind |-> kind, session |-> 0]
Of(kind, s) == [kind |-> kind, session |-> s]
Idle == Of("none", 0)

FaceInit ==
    /\ faceRows \in {<<>>, <<"pending">>, <<"approved">>}
    /\ flag = FALSE /\ consented \in BOOLEAN
    /\ shown = Kind("loading")
    /\ lastSession = 0 /\ syncs = 0 /\ going = FALSE
    /\ task = Idle /\ poll = Idle /\ late = FALSE
    /\ slips = 0

Slips == slips < MaxSlips /\ slips' = slips + 1
Works == slips' = slips
-----------------------------------------------------------------------------
(* From an answer to a state.                                              *)

\* Slip: an approved row is taken for the flag.
MapRowOnly(st, verified, s) ==
    CASE st = "again" -> Kind("error")
      [] st = "approved" -> Kind("approved")
      [] st = "in_review" -> Of("in_review", s)
      [] st \in {"rejected", "expired"} -> Kind("error")
      [] OTHER -> Of("processing", s)

\* mapServerStatus
MapServerStatus(st, verified, s) ==
    CASE st = "again" -> Kind("error")
      [] st = "approved" /\ verified -> Kind("approved")
      [] st = "in_review" -> Of("in_review", s)
      [] st \in {"rejected", "expired"} -> Kind("error")
      [] OTHER -> Of("processing", s)

\* restoreScreenState
RestoreScreenState(verified) ==
    LET n == Len(faceRows) IN
    CASE verified -> Kind("approved")
      [] ~verified /\ n > 0 /\ faceRows[n] = "again" -> Kind("error")
      [] ~verified /\ n > 0 /\ faceRows[n] \in {"pending", "approved"} -> Of("processing", n)
      [] ~verified /\ n > 0 /\ faceRows[n] = "in_review" -> Of("in_review", n)
      [] OTHER -> Kind("intro")

\* setState, with the effects it starts and ends. A second approval while the
\* first is on its way is taken for a failed one.
Replace(next) ==
    LET real == IF next.kind = "approved" /\ going /\ lastSession # 0
                THEN Of("processing", lastSession) ELSE next IN
    IF shown.kind = "onward" THEN UNCHANGED <<shown, going, poll>>
    ELSE /\ shown' = real
         /\ going' = (going \/ real.kind = "approved")
         /\ poll' = IF real.kind = "processing" THEN Of("tick", 0) ELSE Idle

\* From outside the effect of processing: its read of the flag goes on.
Show(next) == Replace(next) /\ late' = (late \/ poll.kind \in {"flag", "flagagain"})
Stays == UNCHANGED <<shown, going, poll, late>>
-----------------------------------------------------------------------------
(* Entering, and going on.                                                 *)

\* The flag is read first, the latest row afterwards.
RestoreUser ==
    /\ shown.kind = "loading" /\ task = Idle
    /\ \/ Works /\ task' = Of(IF flag THEN "verified" ELSE "unverified", 0)
       \/ Slips /\ task' = Of("unverified", 0)
    /\ Stays /\ UNCHANGED <<server, lastSession, syncs>>

RestoreRow ==
    /\ shown.kind = "loading" /\ task # Idle
    /\ LET restored == RestoreScreenState(task.kind = "verified") IN
       \/ /\ Works /\ Show(restored)
          /\ lastSession' = IF restored.kind = "processing" THEN restored.session ELSE lastSession
       \/ Slips /\ Show(Kind(IF task.kind = "verified" THEN "approved" ELSE "intro"))
          /\ UNCHANGED lastSession
    /\ task' = Idle /\ syncs' = 0
    /\ UNCHANGED server

\* proceed, and the effect of approved around it
Proceed ==
    /\ going
    /\ going' = FALSE
    /\ \/ Works /\ flag /\ shown' = Kind("onward") /\ poll' = Idle
       \/ /\ IF flag THEN Slips ELSE Works
          /\ IF lastSession # 0
             THEN shown' = Of("processing", lastSession) /\ poll' = Of("tick", 0)
             ELSE UNCHANGED <<shown, poll>>
    /\ UNCHANGED <<server, lastSession, syncs, task, late>>
-----------------------------------------------------------------------------
(* Waiting for the verdict.                                                *)

\* The age of a wait is counted in reads.
Age(kind) == Of(kind, poll.session)

\* Slip: a wait that has lasted long enough goes on.
EndlessPause ==
    /\ poll' = Of("tick", IF poll.session < Patience THEN poll.session + 1 ELSE poll.session)
    /\ UNCHANGED <<shown, going>>

Pause ==
    IF poll.session >= Patience THEN Replace(Kind("timeout"))
    ELSE poll' = Of("tick", poll.session + 1) /\ UNCHANGED <<shown, going>>

ShouldSync == syncs < Len(SyncAt) /\ poll.session >= SyncAt[syncs + 1]
Final(st) == st \notin {"pending", "stale"}

\* settle: an approval asks for the flag first.
Settle(st, again) ==
    IF st = "approved" THEN poll' = Age(again) /\ UNCHANGED <<shown, going>>
    ELSE Replace(MapServerStatus(st, FALSE, shown.session))

PollTick ==
    /\ poll.kind = "tick"
    /\ IF ShouldSync
       THEN /\ syncs' = syncs + 1
            /\ \/ Works /\ Final(faceRows[shown.session]) /\ Settle(faceRows[shown.session], "flag")
               \/ /\ IF Final(faceRows[shown.session]) THEN Slips ELSE Works
                  /\ poll' = Age("row") /\ UNCHANGED <<shown, going>>
               \/ Slips /\ Replace(Kind("error"))   \* a session that is not found
               \/ Slips /\ Pause
       ELSE poll' = Age("row") /\ Works /\ UNCHANGED <<syncs, shown, going>>
    /\ UNCHANGED <<server, lastSession, task, late>>

ReadFlag ==
    /\ poll.kind \in {"flag", "flagagain"}
    /\ \E verified \in {flag, FALSE} :
         LET next == MapServerStatus("approved", verified, shown.session) IN
         /\ IF verified = flag THEN Works ELSE Slips
         /\ IF next.kind # "processing" THEN Replace(next)
            ELSE IF poll.kind = "flag" THEN poll' = Age("row") /\ UNCHANGED <<shown, going>>
            ELSE Pause
    /\ UNCHANGED <<server, lastSession, syncs, task, late>>

\* The latest row counts only if it is of the session that is waited for.
ReadLatest ==
    /\ poll.kind = "row"
    /\ LET n == Len(faceRows) IN
       \/ /\ Works
          /\ IF n = shown.session /\ Final(faceRows[n]) THEN Settle(faceRows[n], "flagagain") ELSE Pause
       \/ Slips /\ Pause
    /\ UNCHANGED <<server, lastSession, syncs, task, late>>

\* settle looks at nothing but the flag when its effect is gone.
ReadLate ==
    /\ late /\ late' = FALSE
    /\ IF flag THEN Replace(Kind("approved")) ELSE UNCHANGED <<shown, going, poll>>
    /\ Works
    /\ UNCHANGED <<server, lastSession, syncs, task>>

\* The only button that does not mind a task: it may set two of them racing.
ResumeWaiting ==
    /\ shown.kind = "timeout"
    /\ syncs' = 0
    /\ Show(IF lastSession # 0 THEN Of("processing", lastSession) ELSE Kind("intro"))
    /\ Works
    /\ UNCHANGED <<server, lastSession, task>>
-----------------------------------------------------------------------------
(* Starting.                                                               *)

Press ==
    /\ shown.kind \in {"intro", "error", "timeout"} /\ task = Idle
    /\ syncs' = 0
    /\ \/ Works /\ task' = Kind("needs") /\ Stays
       \/ Slips /\ Show(Kind("error")) /\ UNCHANGED task   \* a build without the camera
    /\ UNCHANGED <<server, lastSession>>

\* A list that could not be read is left to the server.
NeedsConsent ==
    /\ task.kind = "needs"
    /\ \/ Works /\ ~consented /\ Show(Kind("consent")) /\ task' = Idle
       \/ /\ IF consented THEN Works ELSE Slips
          /\ Show(Kind("starting")) /\ task' = Kind("start")
    /\ UNCHANGED <<server, lastSession, syncs>>

\* begin_session: the sessions before it are over.
NewSession == Append([k \in 1..Len(faceRows) |->
                  IF faceRows[k] \in Waiting THEN "expired" ELSE faceRows[k]], "pending")

StartAnswer ==
    /\ task.kind = "start"
    /\ \/ /\ Works /\ flag /\ Show(Kind("approved"))
          /\ task' = Idle /\ UNCHANGED <<faceRows, lastSession>>
       \/ /\ Works /\ ~flag /\ ~consented /\ Show(Kind("consent"))
          /\ task' = Idle /\ UNCHANGED <<faceRows, lastSession>>
       \/ /\ Works /\ ~flag /\ consented /\ Len(faceRows) < MaxSessions
          /\ faceRows' = NewSession
          /\ lastSession' = Len(faceRows')
          /\ Show(Kind("sdk")) /\ task' = Of("sdk", Len(faceRows'))
       \/ /\ Slips /\ Show(Kind("error")) /\ task' = Idle
          /\ faceRows' \in {faceRows} \cup (IF ~flag /\ consented /\ Len(faceRows) < MaxSessions
                                            THEN {NewSession} ELSE {})
          /\ UNCHANGED lastSession
       \* too many attempts, or the beta's door
       \/ /\ Works /\ ~flag /\ consented /\ Len(faceRows) = MaxSessions /\ Show(Kind("error"))
          /\ task' = Idle /\ UNCHANGED <<faceRows, lastSession>>
    /\ UNCHANGED <<flag, consented, syncs>>

\* Whatever the camera says, only the server's verdict counts.
SdkEnds ==
    /\ task.kind = "sdk"
    /\ \/ Show(Of("processing", task.session)) /\ lastSession' = task.session
       \/ Show(Kind("error")) /\ UNCHANGED lastSession
    /\ task' = Idle /\ Works
    /\ UNCHANGED <<server, syncs>>

AgreeAndStart ==
    /\ shown.kind = "consent" /\ task = Idle
    /\ task' = Kind("record") /\ Works
    /\ Stays /\ UNCHANGED <<server, lastSession, syncs>>

ConsentRecorded ==
    /\ task.kind = "record"
    /\ \/ /\ Works /\ consented' = TRUE /\ task' = Kind("start")
          /\ syncs' = 0 /\ Show(Kind("starting"))
       \/ /\ Slips /\ consented' \in {consented, TRUE} /\ task' = Idle
          /\ Stays /\ UNCHANGED syncs
    /\ UNCHANGED <<faceRows, flag, lastSession>>

DeclineConsent ==
    /\ shown.kind = "consent" /\ task = Idle
    /\ Show(Kind("intro")) /\ Works
    /\ UNCHANGED <<server, lastSession, syncs, task>>
-----------------------------------------------------------------------------
(* Looking at a review again.                                              *)

RecheckReview ==
    /\ shown.kind = "in_review" /\ task = Idle
    /\ task' = Of("recheck", shown.session) /\ Works
    /\ Stays /\ UNCHANGED <<server, lastSession, syncs>>

RecheckAnswer ==
    /\ task.kind = "recheck"
    /\ LET st == faceRows[task.session] IN
       \/ /\ Works /\ st \in {"rejected", "expired"}
          /\ Show(MapServerStatus(st, FALSE, task.session)) /\ task' = Idle
       \/ Works /\ st = "approved" /\ task' = Of("reflag", task.session) /\ Stays
       \/ Works /\ st = "in_review" /\ task' = Of("still", task.session) /\ Stays
       \/ Slips /\ task' \in {Idle, Of("still", task.session)} /\ Stays
    /\ UNCHANGED <<server, lastSession, syncs>>

RecheckFlag ==
    /\ task.kind \in {"reflag", "still"}
    /\ task' = Idle
    /\ \E verified \in {flag, FALSE} :
         /\ IF verified = flag THEN Works ELSE Slips
         /\ IF task.kind = "reflag" THEN Show(MapServerStatus("approved", verified, task.session))
            ELSE IF verified THEN Show(Kind("approved")) ELSE Stays
    /\ UNCHANGED <<server, lastSession, syncs>>
-----------------------------------------------------------------------------
(* The server and the phone.                                               *)

\* The provider's verdict or the operators', or the end of a session's time;
\* an approval writes the row and the flag together.
Verdict(s, st) ==
    /\ \/ faceRows[s] \in Waiting /\ st \in Verdicts \cup {"stale", "again"}
       \/ faceRows[s] = "in_review" /\ st \in {"approved", "rejected"}
    /\ faceRows[s] # st
    /\ faceRows' = [faceRows EXCEPT ![s] = st]
    /\ flag' = (flag \/ st = "approved")
    /\ Works /\ Stays /\ UNCHANGED <<consented, lastSession, syncs, task>>

\* An approved row whose flag was never written
Repair ==
    /\ ~flag /\ \E s \in 1..Len(faceRows) : faceRows[s] = "approved"
    /\ flag' = TRUE
    /\ Works /\ Stays /\ UNCHANGED <<faceRows, consented, lastSession, syncs, task>>

Reopen ==
    /\ shown.kind \notin {"loading", "onward"} /\ Slips
    /\ shown' = Kind("loading")
    /\ lastSession' = 0 /\ syncs' = 0 /\ going' = FALSE
    /\ task' = Idle /\ poll' = Idle /\ late' = FALSE
    /\ UNCHANGED server

Entering == RestoreUser \/ RestoreRow
Polling == PollTick \/ ReadFlag \/ ReadLatest \/ ReadLate
Tasks == NeedsConsent \/ StartAnswer \/ SdkEnds \/ ConsentRecorded \/ RecheckAnswer \/ RecheckFlag

FaceNext ==
    \/ Entering \/ Polling \/ Proceed \/ Tasks
    \/ Press \/ ResumeWaiting \/ AgreeAndStart \/ DeclineConsent \/ RecheckReview
    \/ Repair \/ Reopen
    \/ \E s \in 1..Len(faceRows), st \in Verdicts \cup Waiting : Verdict(s, st)

\* Timers fire, and calls are answered or given up.
FaceFairness ==
    /\ WF_faceScreen(Entering) /\ WF_faceScreen(Polling)
    /\ WF_faceScreen(Proceed) /\ WF_faceScreen(Tasks)

FaceSpec == FaceInit /\ [][FaceNext]_faceScreen /\ FaceFairness
-----------------------------------------------------------------------------
\* 1. The screen says that the check is passed, and leads on, only to somebody
\* whose flag is written, whatever the camera, a row or an older read said.
FaceScreenInv ==
    /\ shown.kind \in {"approved", "onward"} => flag
    /\ shown.kind = "processing" => shown.session \in 1..Len(faceRows)
    /\ poll # Idle => shown.kind = "processing"

\* 2. Nobody waits for ever: a wait ends with a verdict or with the offer to
\* look again.
WaitingEnds == shown.kind = "processing" ~> shown.kind # "processing"

\* 3. What the screen says once the check is passed: it moves on to the next
\* step. It does not stay there, on a screen without a button.
ApprovedMovesOn == shown.kind = "approved" ~> shown.kind # "approved"
=============================================================================
