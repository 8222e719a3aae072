------------------------------ MODULE ScreenProofs ------------------------------
(***************************************************************************)
(* Proofs about the components at the phone that share no state: the       *)
(* entry (Onboarding), the face check (FaceScreen), the notifications      *)
(* (PushOutbox) and the editing of what one told (ProfileEdit).            *)
(***************************************************************************)
EXTENDS Onboarding, FaceScreen, PushOutbox, ProfileEdit, FiniteSetTheorems, SequenceTheorems, TLAPS

Statuses == Verdicts \cup Waiting

\* What is shown and what waits, of n sessions and the flag f: who is told of the
\* approval has the flag, a wait or a review is one of a session that was started,
\* and nobody polls for another screen.
ScreenOK(x, p, n, f) ==
    /\ x.kind \in {"approved", "onward"} => f
    /\ x.kind \in {"processing", "in_review"} => x.session \in 1 .. n
    /\ p # Idle => x.kind = "processing"

\* A task that names a session names one that was started, and the entry has read
\* the flag before it says so.
TaskOK(k, n, f) ==
    /\ k.kind \in {"sdk", "recheck", "reflag", "still"} => k.session \in 1 .. n
    /\ k.kind = "verified" => f

FaceKept ==
    /\ faceRows \in Seq(Statuses) /\ flag \in BOOLEAN
    /\ ScreenOK(shown, poll, Len(faceRows), flag)
    /\ TaskOK(task, Len(faceRows), flag)
    /\ lastSession \in 0 .. Len(faceRows)

\* Sessions are added and verdicts change, and the flag is never taken back.
ServerMoves ==
    /\ faceRows' \in Seq(Statuses) /\ flag' \in BOOLEAN
    /\ Len(faceRows) <= Len(faceRows') /\ (flag => flag')

LEMMA NewIsLonger ==
    ASSUME FaceKept, faceRows' = NewSession
    PROVE  /\ faceRows' \in Seq(Statuses) /\ Len(faceRows) \in Nat
           /\ Len(faceRows') = Len(faceRows) + 1
<1> DEFINE old == [k \in 1 .. Len(faceRows) |-> IF faceRows[k] \in Waiting THEN "expired" ELSE faceRows[k]]
<1>1. Len(faceRows) \in Nat /\ \A k \in 1 .. Len(faceRows) : faceRows[k] \in Statuses
  BY DEF FaceKept
<1>2. old \in Seq(Statuses) /\ Len(old) = Len(faceRows)
  <2>1. old \in [1 .. Len(faceRows) -> Statuses]
    BY <1>1 DEF Statuses, Verdicts
  <2> HIDE DEF old
  <2> QED
    BY <1>1, <2>1, SeqDef
<1> HIDE DEF old
<1>3. faceRows' = Append(old, "pending")
  BY DEF NewSession, old
<1>4. "pending" \in Statuses
  BY DEF Statuses, Waiting
<1>5. faceRows' \in Seq(Statuses) /\ Len(faceRows') = Len(old) + 1
  BY <1>2, <1>3, <1>4, AppendProperties
<1> QED
  BY <1>1, <1>2, <1>5

LEMMA ServerGrows == ASSUME FaceKept, [FaceNext]_faceScreen PROVE ServerMoves
<1>1. CASE UNCHANGED faceRows
  <2>1. flag' \in BOOLEAN /\ (flag => flag')
    BY <1>1 DEF FaceNext, Entering, Polling, Tasks, RestoreUser, RestoreRow, Proceed, PollTick, ReadFlag,
       ReadLatest, ReadLate, ResumeWaiting, Press, NeedsConsent, StartAnswer, SdkEnds, AgreeAndStart,
       ConsentRecorded, DeclineConsent, RecheckReview, RecheckAnswer, RecheckFlag, Verdict, Repair, Reopen,
       server, faceScreen, FaceKept
  <2> QED
    BY <1>1, <2>1 DEF ServerMoves, FaceKept
<1>2. CASE faceRows' = NewSession /\ UNCHANGED flag
  BY <1>2, NewIsLonger DEF ServerMoves, FaceKept
<1>3. ASSUME NEW s \in 1 .. Len(faceRows), NEW st \in Verdicts \cup Waiting, Verdict(s, st) PROVE ServerMoves
  <2>1. faceRows' = [faceRows EXCEPT ![s] = st] /\ st \in Statuses
    BY <1>3 DEF Verdict, Statuses
  <2>2. faceRows' \in Seq(Statuses) /\ Len(faceRows') = Len(faceRows)
    BY <2>1, ExceptSeq DEF FaceKept
  <2> QED
    BY <1>3, <2>2 DEF ServerMoves, Verdict, FaceKept
<1> QED
  <2>1. StartAnswer => UNCHANGED faceRows \/ (faceRows' = NewSession /\ UNCHANGED flag)
    BY DEF StartAnswer
  <2> QED
    BY <1>1, <1>2, <1>3, <2>1
    DEF FaceNext, Entering, Polling, Tasks, RestoreUser, RestoreRow, Proceed, PollTick, ReadFlag,
       ReadLatest, ReadLate, ResumeWaiting, Press, NeedsConsent, SdkEnds, AgreeAndStart,
       ConsentRecorded, DeclineConsent, RecheckReview, RecheckAnswer, RecheckFlag, Repair, Reopen,
       server, faceScreen

LEMMA LengthsGrow ==
    ASSUME FaceKept, ServerMoves
    PROVE  /\ Len(faceRows) \in Nat /\ Len(faceRows') \in Nat
           /\ \A i \in 0 .. Len(faceRows) : i \in 0 .. Len(faceRows')
           /\ \A i \in 1 .. Len(faceRows) : i \in 1 .. Len(faceRows')
<1>1. Len(faceRows) \in Nat /\ Len(faceRows') \in Nat
  BY LenProperties DEF FaceKept, ServerMoves
<1> QED
  BY <1>1 DEF ServerMoves

\* What stays is as good as it was.
LEMMA StandsStill ==
    ASSUME FaceKept, ServerMoves
    PROVE  /\ ScreenOK(shown, poll, Len(faceRows'), flag')
           /\ TaskOK(task, Len(faceRows'), flag')
           /\ lastSession \in 0 .. Len(faceRows')
BY LengthsGrow DEF FaceKept, ServerMoves, ScreenOK, TaskOK

LEMMA ReplaceKeeps ==
    ASSUME FaceKept, ServerMoves, NEW next, Replace(next),
           next.kind \in {"approved", "onward"} => flag',
           next.kind \in {"processing", "in_review"} => next.session \in 1 .. Len(faceRows')
    PROVE  ScreenOK(shown', poll', Len(faceRows'), flag')
<1>1. CASE shown.kind = "onward"
  <2>1. shown' = shown /\ poll' = poll
    BY <1>1 DEF Replace
  <2> QED
    BY <2>1, StandsStill
<1>2. CASE shown.kind # "onward"
  <2> DEFINE again == next.kind = "approved" /\ going /\ lastSession # 0
             real == IF again THEN Of("processing", lastSession) ELSE next
  <2>1. shown' = real /\ poll' = IF real.kind = "processing" THEN Of("tick", 0) ELSE Idle
    BY <1>2 DEF Replace
  <2>2. real.kind \in {"approved", "onward"} => flag'
    BY DEF Of
  <2>3. real.kind \in {"processing", "in_review"} => real.session \in 1 .. Len(faceRows')
    <3>1. CASE again
      <4>1. lastSession \in 1 .. Len(faceRows')
        BY <3>1, LengthsGrow, StandsStill
      <4> QED
        BY <3>1, <4>1 DEF Of
    <3> QED
      BY <3>1
  <2> HIDE DEF real
  <2> QED
    BY <2>1, <2>2, <2>3 DEF ScreenOK
<1> QED
  BY <1>1, <1>2

\* From an answer about session s a wait or a review is one of s, and the approval
\* needs the flag.
LEMMA AnswerMapped ==
    ASSUME NEW st, NEW verified \in BOOLEAN, NEW s
    PROVE  LET next == MapServerStatus(st, verified, s) IN
           /\ next.kind \in {"approved", "onward"} => verified
           /\ next.kind \in {"processing", "in_review"} => next.session = s
BY DEF MapServerStatus, Kind, Of

LEMMA PauseKeeps ==
    ASSUME FaceKept, ServerMoves, poll # Idle, Pause
    PROVE  ScreenOK(shown', poll', Len(faceRows'), flag')
<1>1. CASE poll.session >= Patience
  BY <1>1, ReplaceKeeps DEF Pause, Kind
<1>2. CASE ~(poll.session >= Patience)
  BY <1>2, StandsStill DEF Pause, ScreenOK, FaceKept
<1> QED
  BY <1>1, <1>2

LEMMA SettleKeeps ==
    ASSUME FaceKept, ServerMoves, poll # Idle, NEW st, NEW again, Settle(st, again)
    PROVE  ScreenOK(shown', poll', Len(faceRows'), flag')
<1>1. CASE st = "approved"
  BY <1>1, StandsStill DEF Settle, ScreenOK, FaceKept
<1>2. CASE st # "approved"
  <2> DEFINE next == MapServerStatus(st, FALSE, shown.session)
  <2>1. Replace(next)
    BY <1>2 DEF Settle
  <2>2. shown.session \in 1 .. Len(faceRows')
    BY StandsStill DEF ScreenOK
  <2>3. /\ next.kind \notin {"approved", "onward"}
        /\ next.kind \in {"processing", "in_review"} => next.session = shown.session
    BY AnswerMapped
  <2> HIDE DEF next
  <2> QED
    BY <2>1, <2>2, <2>3, ReplaceKeeps
<1> QED
  BY <1>1, <1>2

LEMMA PollingKeeps == ASSUME FaceKept, ServerMoves, Polling PROVE FaceKept'
<1>1. /\ task' = task /\ lastSession' = lastSession /\ faceRows' \in Seq(Statuses) /\ flag' \in BOOLEAN
      /\ flag' = flag
  BY DEF Polling, PollTick, ReadFlag, ReadLatest, ReadLate, server, ServerMoves
<1>2. CASE PollTick
  <2>0. poll # Idle
    BY <1>2 DEF PollTick, Idle, Of
  <2>1. CASE UNCHANGED <<shown, going>>
    <3>1. shown.kind = "processing"
      BY <2>0 DEF FaceKept, ScreenOK
    <3> QED
      BY <1>1, <2>1, <3>1, StandsStill DEF FaceKept, ScreenOK
  <2>2. CASE Pause
    BY <1>1, <2>0, <2>2, PauseKeeps, StandsStill DEF FaceKept
  <2>3. CASE Replace(Kind("error"))
    <3>1. ScreenOK(shown', poll', Len(faceRows'), flag')
      BY <2>3, ReplaceKeeps DEF Kind
    <3> QED
      BY <1>1, <3>1, StandsStill DEF FaceKept
  <2>4. CASE Settle(faceRows[shown.session], "flag")
    BY <1>1, <2>0, <2>4, SettleKeeps, StandsStill DEF FaceKept
  <2> QED
    BY <1>2, <2>1, <2>2, <2>3, <2>4 DEF PollTick
<1>3. CASE ReadFlag
  <2>1. poll # Idle
    BY <1>3 DEF ReadFlag, Idle, Of
  <2>2. shown.session \in 1 .. Len(faceRows') /\ shown.kind = "processing"
    BY <2>1, StandsStill DEF FaceKept, ScreenOK
  <2>3. PICK verified \in {flag, FALSE} :
        LET next == MapServerStatus("approved", verified, shown.session) IN
        IF next.kind # "processing" THEN Replace(next)
        ELSE IF poll.kind = "flag" THEN poll' = Age("row") /\ UNCHANGED <<shown, going>>
        ELSE Pause
    BY <1>3 DEF ReadFlag
  <2> DEFINE next == MapServerStatus("approved", verified, shown.session)
  <2>4. /\ next.kind \in {"approved", "onward"} => flag'
        /\ next.kind \in {"processing", "in_review"} => next.session = shown.session
    <3>1. verified \in BOOLEAN /\ (verified => flag')
      <4>1. CASE verified = flag
        BY <1>1, <4>1 DEF FaceKept
      <4>2. CASE verified = FALSE
        BY <4>2
      <4> QED
        BY <2>3, <4>1, <4>2
    <3> QED
      BY <3>1, AnswerMapped
  <2> HIDE DEF next
  <2>5. CASE Replace(next)
    BY <1>1, <2>2, <2>4, <2>5, ReplaceKeeps, StandsStill DEF FaceKept
  <2>6. CASE UNCHANGED <<shown, going>>
    BY <1>1, <2>2, <2>6, StandsStill DEF FaceKept, ScreenOK
  <2>7. CASE Pause
    BY <1>1, <2>1, <2>7, PauseKeeps, StandsStill DEF FaceKept
  <2> QED
    BY <2>3, <2>5, <2>6, <2>7 DEF next
<1>4. CASE ReadLatest
  <2>1. poll # Idle
    BY <1>4 DEF ReadLatest, Idle, Of
  <2>2. CASE Pause
    BY <1>1, <2>1, <2>2, PauseKeeps, StandsStill DEF FaceKept
  <2>3. ASSUME NEW st, Settle(st, "flagagain") PROVE FaceKept'
    BY <1>1, <2>1, <2>3, SettleKeeps, StandsStill DEF FaceKept
  <2> QED
    BY <1>4, <2>2, <2>3 DEF ReadLatest
<1>5. CASE ReadLate
  <2>1. CASE flag /\ Replace(Kind("approved"))
    <3>1. ScreenOK(shown', poll', Len(faceRows'), flag')
      BY <1>1, <2>1, ReplaceKeeps DEF Kind
    <3> QED
      BY <1>1, <3>1, StandsStill DEF FaceKept
  <2>2. CASE UNCHANGED <<shown, going, poll>>
    BY <1>1, <2>2, StandsStill DEF FaceKept
  <2> QED
    BY <1>5, <2>1, <2>2 DEF ReadLate
<1> QED
  BY <1>2, <1>3, <1>4, <1>5 DEF Polling

LEMMA EnteringKeeps == ASSUME FaceKept, ServerMoves, Entering \/ Proceed PROVE FaceKept'
<1>1. /\ faceRows' = faceRows /\ faceRows' \in Seq(Statuses) /\ flag' = flag /\ flag' \in BOOLEAN
  BY DEF Entering, RestoreUser, RestoreRow, Proceed, server, ServerMoves
<1>2. CASE RestoreUser
  <2>1. TaskOK(task', Len(faceRows'), flag')
    BY <1>1, <1>2 DEF RestoreUser, TaskOK, Of
  <2>2. UNCHANGED <<shown, poll, lastSession>>
    BY <1>2 DEF RestoreUser, Stays
  <2> QED
    BY <1>1, <2>1, <2>2, StandsStill DEF FaceKept
<1>3. CASE RestoreRow
  <2> DEFINE verified == task.kind = "verified"
             restored == RestoreScreenState(verified)
  <2>1. verified => flag'
    BY <1>1 DEF FaceKept, TaskOK
  <2>2. Len(faceRows) \in Nat /\ Len(faceRows') = Len(faceRows)
    BY <1>1, LengthsGrow
  <2>3. /\ restored.kind \in {"approved", "onward"} => flag'
        /\ restored.kind \in {"processing", "in_review"} => restored.session \in 1 .. Len(faceRows')
    BY <2>1, <2>2 DEF RestoreScreenState, Kind, Of
  <2>4. TaskOK(task', Len(faceRows'), flag')
    BY <1>3 DEF RestoreRow, TaskOK, Idle, Of
  <2> HIDE DEF restored
  <2>5. CASE /\ Show(restored)
             /\ lastSession' = IF restored.kind = "processing" THEN restored.session ELSE lastSession
    <3>1. ScreenOK(shown', poll', Len(faceRows'), flag')
      BY <2>3, <2>5, ReplaceKeeps DEF Show
    <3>2. lastSession' \in 0 .. Len(faceRows')
      BY <2>2, <2>3, <2>5, StandsStill
    <3> QED
      BY <1>1, <2>4, <3>1, <3>2 DEF FaceKept
  <2>6. CASE Show(Kind(IF verified THEN "approved" ELSE "intro")) /\ UNCHANGED lastSession
    <3>1. ScreenOK(shown', poll', Len(faceRows'), flag')
      BY <2>1, <2>6, ReplaceKeeps DEF Show, Kind
    <3> QED
      BY <1>1, <2>4, <2>6, <3>1, StandsStill DEF FaceKept
  <2> QED
    BY <1>3, <2>5, <2>6 DEF RestoreRow, restored
<1>4. CASE Proceed
  <2>1. UNCHANGED <<task, lastSession>>
    BY <1>4 DEF Proceed
  <2>2. ScreenOK(shown', poll', Len(faceRows'), flag')
    <3>1. CASE flag /\ shown' = Kind("onward") /\ poll' = Idle
      BY <1>1, <3>1 DEF ScreenOK, Kind
    <3>2. CASE lastSession # 0 /\ shown' = Of("processing", lastSession)
      <4>1. lastSession \in 1 .. Len(faceRows')
        BY <3>2, LengthsGrow, StandsStill
      <4> QED
        BY <3>2, <4>1 DEF ScreenOK, Of
    <3>3. CASE UNCHANGED <<shown, poll>>
      BY <3>3, StandsStill
    <3> QED
      BY <1>4, <3>1, <3>2, <3>3 DEF Proceed
  <2> QED
    BY <1>1, <2>1, <2>2, StandsStill DEF FaceKept
<1> QED
  BY <1>2, <1>3, <1>4 DEF Entering

\* A task ends or goes on, and with it the screen.
LEMMA TasksKeep == ASSUME FaceKept, ServerMoves, Tasks PROVE FaceKept'
<1> DEFINE n == Len(faceRows')
<1>1. faceRows' \in Seq(Statuses) /\ flag' \in BOOLEAN /\ n \in Nat /\ (flag => flag')
  BY LengthsGrow DEF ServerMoves
<1> HIDE DEF n
<1>2. /\ ScreenOK(shown, poll, n, flag') /\ TaskOK(task, n, flag') /\ lastSession \in 0 .. n
  BY StandsStill DEF n
<1>3. ASSUME NEW next, Replace(next), next.kind \in {"approved", "onward"} => flag',
             next.kind \in {"processing", "in_review"} => next.session \in 1 .. n
      PROVE  ScreenOK(shown', poll', n, flag')
  BY <1>3, ReplaceKeeps DEF n
<1>4. SUFFICES ScreenOK(shown', poll', n, flag') /\ TaskOK(task', n, flag') /\ lastSession' \in 0 .. n
  BY <1>1 DEF FaceKept, n
<1>5. ASSUME NEW kind \in {"error", "intro", "consent", "starting", "sdk"}, Show(Kind(kind))
      PROVE  ScreenOK(shown', poll', n, flag')
  BY <1>3, <1>5 DEF Show, Kind
<1>6. ASSUME Show(Kind("approved")), flag' PROVE ScreenOK(shown', poll', n, flag')
  BY <1>3, <1>6 DEF Show, Kind
<1>7. CASE NeedsConsent
  BY <1>2, <1>5, <1>7 DEF NeedsConsent, TaskOK, Kind, Idle, Of
<1>8. CASE StartAnswer
  <2>1. flag' = flag
    BY <1>8 DEF StartAnswer
  <2>2. ScreenOK(shown', poll', n, flag')
    BY <1>5, <1>6, <1>8, <2>1 DEF StartAnswer
  <2>3. task' = Idle \/ (task' = Of("sdk", n) /\ lastSession' = n /\ faceRows' = NewSession /\ Len(faceRows) < MaxSessions)
    BY <1>8 DEF StartAnswer, n
  <2>4. CASE task' = Idle
    <3>1. lastSession' = lastSession
      BY <1>8, <2>4 DEF StartAnswer, Idle, Of
    <3> QED
      BY <1>2, <2>2, <2>4, <3>1 DEF TaskOK, Idle, Of
  <2>5. CASE task' = Of("sdk", n) /\ lastSession' = n /\ faceRows' = NewSession
    <3>1. n \in 1 .. n
      BY <1>1, <2>5, NewIsLonger DEF n
    <3> QED
      BY <1>1, <2>2, <2>5, <3>1 DEF TaskOK, Of
  <2> QED
    BY <2>3, <2>4, <2>5
<1>9. CASE SdkEnds
  <2>1. task.session \in 1 .. n
    BY <1>2, <1>9 DEF SdkEnds, TaskOK
  <2>2. TaskOK(task', n, flag')
    BY <1>9 DEF SdkEnds, TaskOK, Idle, Of
  <2>3. CASE Show(Of("processing", task.session)) /\ lastSession' = task.session
    BY <1>3, <2>1, <2>2, <2>3 DEF Show, Of
  <2>4. CASE Show(Kind("error")) /\ UNCHANGED lastSession
    BY <1>2, <1>5, <2>2, <2>4
  <2> QED
    BY <1>9, <2>3, <2>4 DEF SdkEnds
<1>10. CASE ConsentRecorded
  <2>1. lastSession' = lastSession /\ (task' = Kind("start") \/ task' = Idle)
    BY <1>10 DEF ConsentRecorded
  <2>2. TaskOK(task', n, flag')
    BY <2>1 DEF TaskOK, Kind, Idle, Of
  <2>3. CASE Show(Kind("starting"))
    BY <1>2, <1>5, <2>1, <2>2, <2>3
  <2>4. CASE Stays
    BY <1>2, <2>1, <2>2, <2>4 DEF Stays
  <2> QED
    BY <1>10, <2>3, <2>4 DEF ConsentRecorded
<1>11. CASE RecheckAnswer
  <2>1. task.session \in 1 .. n /\ lastSession' = lastSession
    BY <1>2, <1>11 DEF RecheckAnswer, TaskOK
  <2>2. TaskOK(task', n, flag')
    <3>1. task' \in {Idle, Of("still", task.session), Of("reflag", task.session)}
      BY <1>11 DEF RecheckAnswer
    <3> QED
      BY <2>1, <3>1 DEF TaskOK, Idle, Of
  <2>3. ASSUME NEW st, Show(MapServerStatus(st, FALSE, task.session)) PROVE ScreenOK(shown', poll', n, flag')
    <3> DEFINE next == MapServerStatus(st, FALSE, task.session)
    <3>1. /\ next.kind \notin {"approved", "onward"}
          /\ next.kind \in {"processing", "in_review"} => next.session = task.session
      BY AnswerMapped
    <3>2. Replace(next)
      BY <2>3 DEF Show
    <3> HIDE DEF next
    <3> QED
      BY <1>3, <2>1, <3>1, <3>2
  <2>4. ScreenOK(shown', poll', n, flag')
    BY <1>2, <1>11, <2>3 DEF RecheckAnswer, Stays
  <2> QED
    BY <1>2, <2>1, <2>2, <2>4
<1>12. CASE RecheckFlag
  <2>1. task.session \in 1 .. n /\ UNCHANGED <<lastSession, flag>>
    BY <1>2, <1>12 DEF RecheckFlag, TaskOK, server
  <2>2. TaskOK(task', n, flag')
    BY <1>12 DEF RecheckFlag, TaskOK, Idle, Of
  <2>3. PICK verified \in {flag, FALSE} :
        IF task.kind = "reflag" THEN Show(MapServerStatus("approved", verified, task.session))
        ELSE IF verified THEN Show(Kind("approved")) ELSE Stays
    BY <1>12 DEF RecheckFlag
  <2>4. verified \in BOOLEAN /\ (verified => flag')
    <3>1. CASE verified = flag
      BY <2>1, <3>1 DEF FaceKept
    <3>2. CASE verified = FALSE
      BY <3>2
    <3> QED
      BY <2>3, <3>1, <3>2
  <2> DEFINE next == MapServerStatus("approved", verified, task.session)
  <2>5. /\ next.kind \in {"approved", "onward"} => flag'
        /\ next.kind \in {"processing", "in_review"} => next.session = task.session
    BY <2>4, AnswerMapped
  <2> HIDE DEF next
  <2>6. CASE Replace(next)
    BY <1>2, <1>3, <2>1, <2>2, <2>5, <2>6
  <2>7. CASE verified /\ Show(Kind("approved"))
    BY <1>2, <1>6, <2>1, <2>2, <2>4, <2>7
  <2>8. CASE Stays
    BY <1>2, <2>1, <2>2, <2>8 DEF Stays
  <2> QED
    BY <2>3, <2>6, <2>7, <2>8 DEF next, Show
<1> QED
  BY <1>7, <1>8, <1>9, <1>10, <1>11, <1>12 DEF Tasks

LEMMA ButtonsKeep ==
    ASSUME FaceKept, ServerMoves,
           Press \/ ResumeWaiting \/ AgreeAndStart \/ DeclineConsent \/ RecheckReview \/ Reopen
    PROVE  FaceKept'
<1> DEFINE n == Len(faceRows')
<1>1. faceRows' \in Seq(Statuses) /\ flag' \in BOOLEAN /\ n \in Nat /\ (flag => flag')
  BY LengthsGrow DEF ServerMoves
<1> HIDE DEF n
<1>2. /\ ScreenOK(shown, poll, n, flag') /\ TaskOK(task, n, flag') /\ lastSession \in 0 .. n
  BY StandsStill DEF n
<1>3. ASSUME NEW next, Show(next), next.kind \notin {"approved", "onward"},
             next.kind \in {"processing", "in_review"} => next.session \in 1 .. n
      PROVE  ScreenOK(shown', poll', n, flag')
  BY <1>3, ReplaceKeeps DEF Show, n
<1>4. SUFFICES ScreenOK(shown', poll', n, flag') /\ TaskOK(task', n, flag') /\ lastSession' \in 0 .. n
  BY <1>1 DEF FaceKept, n
<1>5. CASE Press
  BY <1>2, <1>3, <1>5 DEF Press, TaskOK, Kind, Stays
<1>6. CASE ResumeWaiting
  <2>1. UNCHANGED <<task, lastSession>>
    BY <1>6 DEF ResumeWaiting
  <2>2. CASE lastSession # 0 /\ Show(Of("processing", lastSession))
    BY <1>1, <1>2, <1>3, <2>1, <2>2 DEF Of
  <2>3. CASE Show(Kind("intro"))
    BY <1>2, <1>3, <2>1, <2>3 DEF Kind
  <2> QED
    BY <1>6, <2>2, <2>3 DEF ResumeWaiting
<1>7. CASE AgreeAndStart
  BY <1>2, <1>7 DEF AgreeAndStart, TaskOK, Kind, Stays
<1>8. CASE DeclineConsent
  BY <1>2, <1>3, <1>8 DEF DeclineConsent, Kind
<1>9. CASE RecheckReview
  <2>1. shown.session \in 1 .. n
    BY <1>2, <1>9 DEF RecheckReview, ScreenOK
  <2> QED
    BY <1>2, <1>9, <2>1 DEF RecheckReview, TaskOK, Of, Stays
<1>10. CASE Reopen
  BY <1>1, <1>10 DEF Reopen, ScreenOK, TaskOK, Kind, Idle, Of
<1> QED
  BY <1>5, <1>6, <1>7, <1>8, <1>9, <1>10

LEMMA FaceStep == ASSUME FaceKept, [FaceNext]_faceScreen PROVE FaceKept'
<1>1. ServerMoves
  BY ServerGrows
<1>2. ASSUME UNCHANGED <<shown, poll, task, lastSession>> PROVE FaceKept'
  BY <1>1, <1>2, StandsStill DEF FaceKept, ServerMoves
<1>3. CASE Repair \/ \E s \in 1 .. Len(faceRows), st \in Verdicts \cup Waiting : Verdict(s, st)
  BY <1>2, <1>3 DEF Repair, Verdict, Stays
<1>4. CASE UNCHANGED faceScreen
  BY <1>2, <1>4 DEF faceScreen
<1> QED
  BY <1>1, <1>3, <1>4, PollingKeeps, EnteringKeeps, TasksKeep, ButtonsKeep DEF FaceNext

\* Whatever the camera, a row or an older read said, the face screen says that the
\* check is passed only to somebody whose flag is written, for any number of
\* sessions and of calls that fail (FaceScreenInv, face.tsx).
THEOREM PassedMeansFlag == FaceSpec => []FaceScreenInv
<1>1. FaceInit => FaceKept
  <2> SUFFICES ASSUME FaceInit PROVE FaceKept
    OBVIOUS
  <2>1. faceRows \in Seq(Statuses) /\ Len(faceRows) \in Nat
    <3>1. "pending" \in Statuses /\ "approved" \in Statuses
      BY DEF Statuses, Verdicts, Waiting
    <3>2. faceRows = <<>> \/ faceRows = <<"pending">> \/ faceRows = <<"approved">>
      BY DEF FaceInit
    <3>3. ASSUME NEW st \in Statuses PROVE <<st>> \in Seq(Statuses) /\ Len(<<st>>) = 1
      OBVIOUS
    <3>4. <<>> \in Seq(Statuses) /\ Len(<<>>) = 0
      BY EmptySeq
    <3> QED
      BY <3>1, <3>2, <3>3, <3>4
  <2>2. flag \in BOOLEAN
    BY DEF FaceInit
  <2>3. ScreenOK(shown, poll, Len(faceRows), flag)
    BY DEF FaceInit, ScreenOK, Kind
  <2>4. TaskOK(task, Len(faceRows), flag)
    BY DEF FaceInit, TaskOK, Idle, Of
  <2> QED
    BY <2>1, <2>2, <2>3, <2>4 DEF FaceInit, FaceKept
<1>2. FaceKept /\ [FaceNext]_faceScreen => FaceKept'
  BY FaceStep
<1>3. FaceKept => FaceScreenInv
  BY DEF FaceKept, ScreenOK, FaceScreenInv
<1> QED
  BY <1>1, <1>2, <1>3, PTL DEF FaceSpec
-----------------------------------------------------------------------------
(***************************************************************************)
(* Onboarding. A section is reached only when the ones before it are       *)
(* stored, and a row that was read says nothing that has been taken back.  *)
(***************************************************************************)

\* The sections before x are stored, but for the introduction of an older row.
Reached(x, r) ==
    /\ x \in {"intro", "questionnaire", "values", "preferences", "appearance"} => "profile" \in r.filled
    /\ x \in {"questionnaire", "values", "preferences", "appearance"} => "intro" \in r.filled \/ r.old
    /\ x \in {"values", "preferences", "appearance"} => "questionnaire" \in r.filled
    /\ x \in {"preferences", "appearance"} => "values" \in r.filled

Whole(r) == \A x \in EntryForms : x \in r.filled \/ (x = "intro" /\ r.old)

Users0 ==
    [st : {"active", "suspended", "deleted"}, admitted : BOOLEAN, identity : BOOLEAN, face : BOOLEAN,
     done : BOOLEAN, step : EntryForms \cup {"welcome", "face", "done", "appearance"}, filled : SUBSET EntryForms,
     old : BOOLEAN]

RowOK(r) ==
    /\ r \in Users0
    /\ r.done => Verified(r) /\ Whole(r)
    /\ Reached(r.step, r)

SeenOK(s, r) ==
    s # Nothing =>
        /\ s.identity \in BOOLEAN /\ s.face \in BOOLEAN /\ s.done \in BOOLEAN
        /\ s.identity => r.identity
        /\ s.face => r.face
        /\ s.done => r.done
        /\ Reached(s.step, r)

PlaceOK(x, s, r) ==
    /\ x \in Screens
    /\ x = "home" => Verified(r) /\ r.done
    /\ Reached(x, r)
    /\ x \in {"resume", "failed"} => s # Nothing

EntryKept ==
    /\ RowOK(row) /\ SeenOK(seen, row) /\ PlaceOK(screen, seen, row)
    /\ faults \in 0 .. MaxFaults

LEMMA SectionFacts ==
    /\ Len(Sections) = 5
    /\ Sections[1] = "profile" /\ Sections[2] = "intro" /\ Sections[3] = "questionnaire"
    /\ Sections[4] = "values" /\ Sections[5] = "preferences"
    /\ EntryForms = {"profile", "intro", "questionnaire", "values", "preferences"}
<1>1. /\ Len(Sections) = 5
      /\ Sections[1] = "profile" /\ Sections[2] = "intro" /\ Sections[3] = "questionnaire"
      /\ Sections[4] = "values" /\ Sections[5] = "preferences"
  BY DEF Sections
<1>2. 1 .. Len(Sections) = {1, 2, 3, 4, 5}
  BY <1>1
<1>3. EntryForms = {Sections[1], Sections[2], Sections[3], Sections[4], Sections[5]}
  BY <1>2 DEF EntryForms
<1> QED
  BY <1>1, <1>3

LEMMA FollowingFacts ==
    /\ Following("profile") = "intro" /\ Following("intro") = "questionnaire"
    /\ Following("questionnaire") = "values" /\ Following("values") = "preferences"
<1>1. ASSUME NEW n \in 1 .. 5 PROVE (CHOOSE k \in 1 .. Len(Sections) : Sections[k] = Sections[n]) = n
  <2>1. \A k \in 1 .. 5 : Sections[k] = Sections[n] => k = n
    BY SectionFacts
  <2> QED
    BY <2>1, SectionFacts
<1> QED
  BY <1>1, SectionFacts DEF Following

LEMMA ScreensAre == Screens =
    {"profile", "intro", "questionnaire", "values", "preferences",
     "welcome", "suspended", "resume", "failed", "beta", "identity", "face", "home"}
BY SectionFacts DEF Screens

\* The step of resolveOnboardingStep: everything before it is there.
LEMMA StepFacts ==
    ASSUME RowOK(row), SeenOK(seen, row), seen # Nothing, NEW access \in {"open", "closed"}
    PROVE  LET step == StepOf(access, seen) IN
           /\ step # "done" => PlaceOK(step, seen, row)
           /\ step = "done" => Verified(row) /\ Whole(row)
<1> DEFINE first == CHOOSE k \in MissingSection : \A j \in MissingSection : k <= j
<1>1. MissingSection \subseteq 1 .. 5 /\ row.filled \subseteq EntryForms
  BY SectionFacts DEF MissingSection, RowOK, Users0
<1>2. CASE MissingSection = {}
  <2>1. \A k \in 1 .. 5 : Sections[k] \in row.filled
    BY <1>2, SectionFacts DEF MissingSection
  <2>2. Whole(row)
    BY <2>1, SectionFacts DEF Whole
  <2>3. StepOf(access, seen) = "done" => Verified(row)
    BY <1>2 DEF StepOf, SeenOK, Verified
  <2>4. StepOf(access, seen) \in {"beta", "identity", "face", "done"}
    BY <1>2 DEF StepOf, SeenOK
  <2> QED
    BY <2>2, <2>3, <2>4, ScreensAre DEF PlaceOK, Reached
<1>3. CASE MissingSection # {}
  <2>1. first \in MissingSection /\ \A j \in MissingSection : first <= j
    <3>1. \E k \in MissingSection : \A j \in MissingSection : k <= j
      <4>1. CASE 1 \in MissingSection
        BY <1>1, <4>1
      <4>2. CASE 1 \notin MissingSection /\ 2 \in MissingSection
        BY <1>1, <4>2
      <4>3. CASE {1, 2} \cap MissingSection = {} /\ 3 \in MissingSection
        BY <1>1, <4>3
      <4>4. CASE {1, 2, 3} \cap MissingSection = {} /\ 4 \in MissingSection
        BY <1>1, <4>4
      <4>5. CASE {1, 2, 3, 4} \cap MissingSection = {}
        <5>1. \A k \in MissingSection : k = 5
          BY <1>1, <4>5
        <5> QED
          BY <1>3, <5>1
      <4> QED
        BY <4>1, <4>2, <4>3, <4>4, <4>5
    <3> QED
      BY <3>1
  <2> HIDE DEF first
  <2>2. first \in 1 .. 5 /\ \A j \in 1 .. 5 : j < first => Sections[j] \in row.filled
    <3>1. \A j \in 1 .. 5 : j < first => j \notin MissingSection
      BY <1>1, <2>1
    <3> QED
      BY <1>1, <2>1, <3>1, SectionFacts DEF MissingSection
  <2>3. Sections[first] \in EntryForms /\ Reached(Sections[first], row)
    BY <2>2, SectionFacts DEF Reached
  <2>4. StepOf(access, seen) \in {"beta", "identity", "face", Sections[first]}
    BY <1>3 DEF StepOf, SeenOK, first
  <2> QED
    BY <2>3, <2>4, SectionFacts, ScreensAre DEF PlaceOK, Reached
<1> QED
  BY <1>2, <1>3

\* What a read leaves, and where it leads.
LEMMA ReadFacts ==
    ASSUME NEW r, RowOK(r)
    PROVE  SeenOK(Snapshot(r), r) /\ SeenOK(Nothing, r)
BY DEF RowOK, Users0, SeenOK, Snapshot

LEMMA RouteFacts ==
    ASSUME NEW r, RowOK(r), NEW s, SeenOK(s, r)
    PROVE  PlaceOK(Route(s), s, r)
<1>1. Route(s) \in {"identity", "suspended", "home", "resume"}
  BY DEF Route
<1>2. Route(s) = "home" => s # Nothing /\ s.done
  BY DEF Route, CanEnterHome
<1>3. Route(s) = "resume" => s # Nothing
  BY DEF Route
<1>4. Route(s) = "home" => r.done /\ Verified(r)
  BY <1>2 DEF SeenOK, RowOK
<1> QED
  BY <1>1, <1>3, <1>4, ScreensAre DEF PlaceOK, Reached

\* Nothing that was stored is lost.
More(r, q) ==
    /\ r.identity => q.identity
    /\ r.face => q.face
    /\ r.done => q.done
    /\ r.filled \subseteq q.filled
    /\ q.old = r.old

LEMMA SeenStays == ASSUME NEW r, NEW q, More(r, q), NEW s, SeenOK(s, r) PROVE SeenOK(s, q)
BY DEF More, SeenOK, Reached

LEMMA PlaceStays == ASSUME NEW r, NEW q, More(r, q), NEW s, NEW x, PlaceOK(x, s, r) PROVE PlaceOK(x, s, q)
BY DEF More, PlaceOK, Reached, Verified

\* r with more in it and the note of the next step
LEMMA NoteFacts ==
    ASSUME NEW r \in Users0, NEW next \in EntryForms \cup {"face", "done"}, Reached(next, r),
           next = "done" => Verified(r) /\ Whole(r)
    PROVE  /\ RowOK(Advanced(r, next))
           /\ Advanced(r, next).filled = r.filled
           /\ Advanced(r, next).old = r.old
           /\ Verified(r) => Verified(Advanced(r, next))
           /\ Advanced(r, next).done = (next = "done")
<1> DEFINE q == Advanced(r, next)
<1>1. /\ q \in Users0 /\ q.step = next /\ q.filled = r.filled /\ q.done = (next = "done")
      /\ q.identity = r.identity /\ q.face = r.face /\ q.old = r.old
  BY DEF Advanced, Users0
<1> HIDE DEF q
<1>2. RowOK(q)
  <2>1. Reached(next, q)
    BY <1>1 DEF Reached
  <2>2. q.done => Verified(q) /\ Whole(q)
    BY <1>1 DEF Verified, Whole
  <2> QED
    BY <1>1, <2>1, <2>2 DEF RowOK
<1> QED
  BY <1>1, <1>2 DEF q, Verified

\* The steps that save something and go on: r is the row with what is saved.
LEMMA NoteAndGoKeeps ==
    ASSUME EntryKept, NEW r, RowOK(r), More(row, r),
           NEW next \in EntryForms \cup {"face"}, Reached(next, r),
           NEW stuck, NoteAndGo(r, next, stuck)
    PROVE  EntryKept'
<1>1. faults' \in 0 .. MaxFaults
  BY EntryAssumption DEF NoteAndGo, Refresh, Fine, Fault, EntryKept
<1>2. CASE row' = Advanced(r, next) /\ Refresh(row') /\ screen' = next
  <2>1. next # "done" /\ r \in Users0
    BY SectionFacts DEF RowOK
  <2>2. RowOK(row') /\ row'.filled = r.filled /\ row'.old = r.old
    BY <1>2, <2>1, NoteFacts
  <2>3. SeenOK(seen', row')
    BY <1>2, <2>2, ReadFacts DEF Refresh
  <2>4. PlaceOK(screen', seen', row')
    BY <1>2, <2>2, SectionFacts, ScreensAre DEF PlaceOK, Reached
  <2> QED
    BY <1>1, <2>2, <2>3, <2>4 DEF EntryKept
<1>3. CASE row' = r /\ UNCHANGED <<seen, screen>>
  BY <1>1, <1>3, SeenStays, PlaceStays DEF EntryKept
<1> QED
  BY <1>2, <1>3 DEF NoteAndGo

\* Without a change of the row, to a place where what was read leads.
LEMMA GoKeeps ==
    ASSUME EntryKept, RowOK(row'), More(row, row'), seen' = seen \/ seen' = Nothing \/ seen' = Snapshot(row'),
           PlaceOK(screen', seen', row') \/ screen' = Route(seen') \/ (screen' = screen /\ seen' = seen),
           faults' \in 0 .. MaxFaults
    PROVE  EntryKept'
<1>1. SeenOK(seen', row')
  BY ReadFacts, SeenStays DEF EntryKept
<1>2. PlaceOK(screen', seen', row')
  BY <1>1, RouteFacts, PlaceStays DEF EntryKept
<1> QED
  BY <1>1, <1>2 DEF EntryKept

LEMMA EntryFaults ==
    ASSUME EntryKept, [EntryNext]_entry PROVE faults' \in 0 .. MaxFaults
<1>1. CASE Resume
  <2>1. ASSUME NEW access, ResumeAs(access) PROVE faults' \in 0 .. MaxFaults
    BY <2>1, EntryAssumption DEF ResumeAs, Refresh, Fine, Fault, EntryKept
  <2> QED
    BY <1>1, <2>1, EntryAssumption DEF Resume, Fault, EntryKept
<1>2. ASSUME NEW r, NEW next, NEW stuck, NoteAndGo(r, next, stuck) PROVE faults' \in 0 .. MaxFaults
  BY <1>2, EntryAssumption DEF NoteAndGo, Refresh, Fine, Fault, EntryKept
<1>3. CASE Identify \/ ProveFace \/ SaveProfile \/ SaveIntro \/ SaveQuestionnaire \/ SaveValues
  BY <1>2, <1>3 DEF Identify, ProveFace, SaveProfile, SaveIntro, SaveQuestionnaire, SaveValues, Stored, Fine, EntryKept
<1>4. CASE LogIn \/ TryAgain \/ LeaveBeta \/ Redeem \/ RestartStuck \/ Finish \/ ProfileRefused
  BY <1>4, EntryAssumption
  DEF LogIn, TryAgain, LeaveBeta, Redeem, RestartStuck, Finish, ProfileRefused, Refresh, Fine, Fault, EntryKept
<1>5. CASE GoOn \/ RestartByChance \/ LogOut \/ Reactivate \/ SwitchGate \/ Admit \/ Sanction \/ Withdraw
  BY <1>5, EntryAssumption
  DEF GoOn, RestartByChance, LogOut, Reactivate, SwitchGate, Admit, Sanction, Withdraw, Refresh, Fine, Fault, EntryKept
<1>6. CASE UNCHANGED entry
  BY <1>6 DEF entry, EntryKept
<1> QED
  BY <1>1, <1>3, <1>4, <1>5, <1>6 DEF EntryNext, Forward

LEMMA ResumeKeeps == ASSUME EntryKept, Resume PROVE EntryKept'
<1>1. faults' \in 0 .. MaxFaults
  BY EntryFaults DEF EntryNext, Forward
<1>2. seen # Nothing /\ RowOK(row) /\ SeenOK(seen, row)
  BY DEF Resume, EntryKept, PlaceOK
<1>3. CASE screen' = "failed" /\ UNCHANGED <<row, seen>>
  <2>1. PlaceOK("failed", seen, row)
    BY <1>2, ScreensAre DEF PlaceOK, Reached
  <2> QED
    BY <1>1, <1>2, <1>3, <2>1 DEF EntryKept
<1>4. ASSUME NEW access \in {"open", "closed"}, ResumeAs(access) PROVE EntryKept'
  <2> DEFINE step == StepOf(access, seen)
  <2>1. /\ step # "done" => PlaceOK(step, seen, row)
        /\ step = "done" => Verified(row) /\ Whole(row)
    BY <1>2, StepFacts
  <2> HIDE DEF step
  <2>2. CASE step # "done"
    BY <1>1, <1>2, <1>4, <2>1, <2>2 DEF ResumeAs, EntryKept, step
  <2>3. CASE step = "done" /\ (seen.done \/ MayComplete)
    <3>1. row' = (IF seen.done THEN row ELSE Advanced(row, "done")) /\ Refresh(row') /\ screen' = Route(seen')
      BY <1>4, <2>3 DEF ResumeAs, step
    <3>2. RowOK(row')
      <4>1. Reached("done", row) /\ row \in Users0
        BY <1>2 DEF Reached, RowOK
      <4> QED
        BY <1>2, <2>1, <2>3, <3>1, <4>1, NoteFacts
    <3>3. SeenOK(seen', row')
      BY <3>1, <3>2, ReadFacts DEF Refresh
    <3> QED
      BY <1>1, <3>1, <3>2, <3>3, RouteFacts DEF EntryKept
  <2>4. CASE step = "done" /\ ~(seen.done \/ MayComplete)
    BY <1>3, <1>4, <2>4 DEF ResumeAs, step
  <2> QED
    BY <2>2, <2>3, <2>4
<1> QED
  BY <1>3, <1>4 DEF Resume

\* The row is as it was, but for an admission or the status of the account.
LEMMA OutsideKeeps ==
    ASSUME NEW r, RowOK(r), NEW q,
           NEW st \in {"active", "suspended", "deleted"}, NEW admitted \in BOOLEAN,
           q = [r EXCEPT !.st = st, !.admitted = admitted]
    PROVE  RowOK(q) /\ More(r, q)
<1>1. /\ q \in Users0 /\ q.step = r.step /\ q.filled = r.filled /\ q.done = r.done
      /\ q.identity = r.identity /\ q.face = r.face /\ q.old = r.old
  BY DEF RowOK, Users0
<1> QED
  BY <1>1 DEF RowOK, More, Verified, Reached, Whole

LEMMA StatusKeeps ==
    ASSUME RowOK(row), NEW st \in {"active", "suspended", "deleted"},
           row' = [row EXCEPT !.st = st]
    PROVE  RowOK(row') /\ More(row, row')
<1>1. row' = [row EXCEPT !.st = st, !.admitted = row.admitted] /\ row.admitted \in BOOLEAN
  BY DEF RowOK, Users0
<1> QED
  BY <1>1, OutsideKeeps

LEMMA AdmissionKeeps ==
    ASSUME RowOK(row), row' = [row EXCEPT !.admitted = TRUE]
    PROVE  RowOK(row') /\ More(row, row')
<1>1. row' = [row EXCEPT !.st = row.st, !.admitted = TRUE] /\ row.st \in {"active", "suspended", "deleted"}
  BY DEF RowOK, Users0
<1> QED
  BY <1>1, OutsideKeeps

\* The steps between the screens, and what others do
LEMMA MovesKeep ==
    ASSUME EntryKept,
           \/ LogIn \/ TryAgain \/ GoOn \/ LeaveBeta \/ Redeem \/ RestartStuck \/ RestartByChance
           \/ LogOut \/ Reactivate \/ ProfileRefused \/ SwitchGate \/ Admit \/ Sanction \/ Withdraw
    PROVE  EntryKept'
<1>1. faults' \in 0 .. MaxFaults
  BY EntryFaults DEF EntryNext, Forward
<1>2. RowOK(row) /\ SeenOK(seen, row) /\ PlaceOK(screen, seen, row)
  BY DEF EntryKept
<1>3. row' = row => RowOK(row') /\ More(row, row')
  BY <1>2 DEF More
<1>4. ASSUME NEW x \in {"welcome", "resume", "suspended", "beta", "identity", "face"}, x = "resume" => seen' # Nothing
      PROVE  PlaceOK(x, seen', row')
  BY <1>4, ScreensAre DEF PlaceOK, Reached
<1>5. CASE LogIn
  BY <1>1, <1>3, <1>5, GoKeeps DEF LogIn, Refresh
<1>6. CASE TryAgain
  <2>1. seen' # Nothing
    BY <1>2, <1>6 DEF TryAgain, PlaceOK
  <2> QED
    BY <1>1, <1>3, <1>4, <1>6, <2>1, GoKeeps DEF TryAgain
<1>7. CASE GoOn
  <2>1. seen # Nothing /\ UNCHANGED <<row, seen>> /\ screen' = Fallback(seen)
    BY <1>2, <1>7 DEF GoOn, PlaceOK
  <2>2. \/ Fallback(seen) \in {"identity", "face"}
        \/ Fallback(seen) = seen.step /\ seen.step \in EntryForms
        \/ Fallback(seen) = "preferences" /\ seen.step = "appearance"
    BY DEF Fallback
  <2>3. PlaceOK(Fallback(seen), seen, row)
    BY <1>2, <2>1, <2>2, SectionFacts, ScreensAre DEF PlaceOK, SeenOK, Reached
  <2> QED
    BY <1>1, <1>3, <2>1, <2>3, GoKeeps
<1>8. CASE LeaveBeta
  BY <1>1, <1>3, <1>8, GoKeeps DEF LeaveBeta
<1>9. CASE Redeem
  BY <1>1, <1>2, <1>9, AdmissionKeeps, GoKeeps DEF Redeem
<1>10. CASE Restart
  BY <1>1, <1>3, <1>4, <1>10, GoKeeps DEF Restart
<1>11. CASE LogOut
  <2>1. screen' \in {"welcome", "suspended"} /\ seen' = Nothing /\ row' = row
    BY <1>11 DEF LogOut
  <2> QED
    BY <1>1, <1>3, <1>4, <2>1, GoKeeps
<1>12. CASE Reactivate
  BY <1>1, <1>2, <1>12, StatusKeeps, GoKeeps DEF Reactivate, Refresh
<1>13. CASE ProfileRefused \/ SwitchGate
  BY <1>1, <1>3, <1>13, GoKeeps DEF ProfileRefused, SwitchGate
<1>14. CASE Admit
  BY <1>1, <1>2, <1>14, AdmissionKeeps, GoKeeps DEF Admit
<1>15. CASE Sanction
  <2>1. PICK st \in {"active", "suspended", "deleted"} : row' = [row EXCEPT !.st = st]
    BY <1>15 DEF Sanction
  <2> QED
    BY <1>1, <1>2, <1>15, <2>1, StatusKeeps, GoKeeps DEF Sanction
<1>16. CASE Withdraw
  BY <1>1, <1>2, <1>4, <1>16, StatusKeeps, GoKeeps DEF Withdraw
<1> QED
  BY <1>5, <1>6, <1>7, <1>8, <1>9, <1>10, <1>11, <1>12, <1>13, <1>14, <1>15, <1>16
  DEF RestartStuck, RestartByChance

\* A section that is stored comes after the ones before it.
LEMMA StoredKeeps ==
    ASSUME EntryKept, NEW form \in EntryForms \ {"preferences"}, NEW kept \in SUBSET {form}, Stored(form, kept),
           form = "intro" /\ "profile" \in row.filled => "intro" \in kept,
           form \notin {"intro"} => kept = {form}
    PROVE  EntryKept'
<1> DEFINE r == [row EXCEPT !.filled = @ \cup kept]
<1>1. /\ RowOK(row) /\ PlaceOK(form, seen, row)
      /\ NoteAndGo(r, Following(form), TRUE)
  BY DEF EntryKept, Stored
<1>2. /\ r \in Users0 /\ r.filled = row.filled \cup kept /\ r.done = row.done /\ r.step = row.step
      /\ r.identity = row.identity /\ r.face = row.face /\ r.old = row.old
  BY <1>1 DEF RowOK, Users0
<1> HIDE DEF r
<1>3. RowOK(r) /\ More(row, r)
  <2>1. Reached(r.step, r)
    BY <1>1, <1>2 DEF RowOK, Reached
  <2>2. r.done => Verified(r) /\ Whole(r)
    BY <1>1, <1>2 DEF RowOK, Verified, Whole
  <2> QED
    BY <1>2, <2>1, <2>2 DEF RowOK, More
<1>4. Following(form) \in EntryForms /\ Reached(Following(form), r)
  <2>1. Reached(form, row)
    BY <1>1 DEF PlaceOK
  <2>2. CASE form = "profile"
    BY <1>2, <2>2, SectionFacts, FollowingFacts DEF Reached
  <2>3. CASE form = "intro"
    BY <1>2, <2>1, <2>3, SectionFacts, FollowingFacts DEF Reached
  <2>4. CASE form = "questionnaire"
    BY <1>2, <2>1, <2>4, SectionFacts, FollowingFacts DEF Reached
  <2>5. CASE form = "values"
    BY <1>2, <2>1, <2>5, SectionFacts, FollowingFacts DEF Reached
  <2> QED
    BY <2>2, <2>3, <2>4, <2>5, SectionFacts
<1> QED
  BY <1>1, <1>3, <1>4, NoteAndGoKeeps

LEMMA ProofsKeep == ASSUME EntryKept, Identify \/ ProveFace PROVE EntryKept'
<1>1. faults' \in 0 .. MaxFaults
  BY EntryFaults DEF EntryNext, Forward
<1>2. RowOK(row) /\ SeenOK(seen, row) /\ PlaceOK(screen, seen, row)
  BY DEF EntryKept
<1>3. ASSUME NEW r, r = [row EXCEPT !.identity = TRUE] \/ r = [row EXCEPT !.face = TRUE],
             NEW next \in {"face", "profile"}, NoteAndGo(r, next, FALSE)
      PROVE  EntryKept'
  <2>1. /\ r \in Users0 /\ r.filled = row.filled /\ r.done = row.done /\ r.step = row.step
        /\ r.old = row.old
        /\ row.identity => r.identity
        /\ row.face => r.face
    BY <1>2, <1>3 DEF RowOK, Users0
  <2>2. RowOK(r) /\ More(row, r)
    BY <1>2, <2>1 DEF RowOK, More, Verified, Reached, Whole
  <2>3. next \in EntryForms \cup {"face"} /\ Reached(next, r)
    BY SectionFacts DEF Reached
  <2> QED
    BY <1>3, <2>2, <2>3, NoteAndGoKeeps
<1>4. CASE UNCHANGED <<row, seen>> /\ (screen' = "beta" \/ UNCHANGED screen)
  <2>1. PlaceOK("beta", seen, row)
    BY ScreensAre DEF PlaceOK, Reached
  <2> QED
    BY <1>1, <1>2, <1>4, <2>1 DEF EntryKept
<1> QED
  BY <1>3, <1>4 DEF Identify, ProveFace

LEMMA FinishKeeps == ASSUME EntryKept, Finish PROVE EntryKept'
<1> DEFINE saved == [row EXCEPT !.filled = @ \cup {"preferences"}]
<1>1. faults' \in 0 .. MaxFaults
  BY EntryFaults DEF EntryNext, Forward
<1>2. RowOK(row) /\ SeenOK(seen, row) /\ PlaceOK("preferences", seen, row) /\ screen = "preferences"
  BY DEF EntryKept, Finish
<1>3. /\ saved \in Users0 /\ saved.filled = row.filled \cup {"preferences"} /\ saved.done = row.done
      /\ saved.step = row.step /\ saved.identity = row.identity /\ saved.face = row.face
      /\ saved.old = row.old
  BY <1>2, SectionFacts DEF RowOK, Users0
<1>4. CASE MayComplete /\ row' = Advanced(saved, "done") /\ Refresh(row') /\ screen' = "home"
  <2> HIDE DEF saved
  <2>1. Whole(saved)
    BY <1>2, <1>3, SectionFacts DEF PlaceOK, Reached, Whole
  <2>2. Verified(saved)
    BY <1>2, <1>3, <1>4 DEF MayComplete, RowOK, Verified
  <2>3. Reached("done", saved)
    BY DEF Reached
  <2>4. RowOK(row') /\ Verified(row') /\ row'.done
    BY <1>3, <1>4, <2>1, <2>2, <2>3, NoteFacts
  <2>5. SeenOK(seen', row')
    BY <1>4, <2>4, ReadFacts DEF Refresh
  <2>6. PlaceOK(screen', seen', row')
    BY <1>4, <2>4, ScreensAre DEF PlaceOK, Reached
  <2> QED
    BY <1>1, <2>4, <2>5, <2>6 DEF EntryKept
<1>5. CASE row' = saved /\ UNCHANGED <<seen, screen>>
  <2> HIDE DEF saved
  <2>1. RowOK(saved) /\ More(row, saved)
    <3>1. saved.done => Verified(saved) /\ Whole(saved)
      BY <1>2, <1>3, SectionFacts DEF RowOK, Verified, Whole
    <3> QED
      BY <1>2, <1>3, <3>1 DEF RowOK, More, Reached
  <2> QED
    BY <1>1, <1>5, <2>1, GoKeeps
<1> QED
  BY <1>4, <1>5 DEF Finish

LEMMA EntryStep == ASSUME EntryKept, [EntryNext]_entry PROVE EntryKept'
<1>1. CASE SaveProfile
  BY <1>1, StoredKeeps, SectionFacts DEF SaveProfile
<1>2. CASE SaveIntro
  <2> DEFINE kept == IF "profile" \in row.filled THEN {"intro"} ELSE {}
  <2>1. Stored("intro", kept) /\ kept \in SUBSET {"intro"} /\ ("profile" \in row.filled => "intro" \in kept)
    BY <1>2 DEF SaveIntro
  <2> HIDE DEF kept
  <2> QED
    BY <2>1, StoredKeeps, SectionFacts
<1>3. CASE SaveQuestionnaire
  BY <1>3, StoredKeeps, SectionFacts DEF SaveQuestionnaire
<1>4. CASE SaveValues
  BY <1>4, StoredKeeps, SectionFacts DEF SaveValues
<1>5. CASE UNCHANGED entry
  BY <1>5 DEF entry, EntryKept
<1> QED
  BY <1>1, <1>2, <1>3, <1>4, <1>5, ResumeKeeps, MovesKeep, ProofsKeep, FinishKeeps DEF EntryNext, Forward

\* The home screen is open only to somebody whose identity and face are verified
\* and whose entry is complete, and no account is complete without every section,
\* but for the introduction of one that is older than it, for any number of
\* failed reads and writes and of restarts (HomeInv,
\* onboardingCore.ts and 0025 guard_onboarding_completion).
THEOREM HomeIsEarned == EntrySpec => []HomeInv
<1>1. EntryInit => EntryKept
  <2> SUFFICES ASSUME EntryInit PROVE EntryKept
    OBVIOUS
  <2>1. RowOK(row)
    <3>1. CASE row = NewRow
      BY <3>1, SectionFacts DEF NewRow, Users0, RowOK, Reached
    <3>2. CASE row # NewRow
      <4>1. PICK step \in DOMAIN Before : row = OldRow(step)
        BY <3>2 DEF EntryInit
      <4>2. step \in {"questionnaire", "values", "preferences", "appearance", "done"}
        BY DEF Before
      <4>3. /\ Before[step] \subseteq EntryForms
            /\ step # "done" => "profile" \in Before[step]
            /\ step \in {"values", "preferences", "appearance"} => "questionnaire" \in Before[step]
            /\ step \in {"preferences", "appearance"} => "values" \in Before[step]
            /\ step = "done" => \A x \in EntryForms : x \in Before[step] \/ x = "intro"
        BY <4>2, SectionFacts DEF Before
      <4>4. /\ row.step = step /\ row.filled = Before[step] /\ row.old = TRUE
            /\ row.identity = TRUE /\ row.face = TRUE /\ row.done = (step = "done")
            /\ row.st = "active" /\ row.admitted = FALSE
        BY <4>1 DEF OldRow, NewRow
      <4>5. row \in Users0
        BY <4>1, <4>2, <4>3, SectionFacts DEF OldRow, NewRow, Users0
      <4>6. Reached(row.step, row)
        BY <4>2, <4>3, <4>4 DEF Reached
      <4> QED
        BY <4>3, <4>4, <4>5, <4>6 DEF RowOK, Verified, Whole
    <3> QED
      BY <3>1, <3>2
  <2>2. seen = Nothing /\ screen = "welcome" /\ faults = 0
    BY DEF EntryInit
  <2>3. SeenOK(seen, row) /\ PlaceOK(screen, seen, row)
    BY <2>2, ScreensAre DEF SeenOK, PlaceOK, Reached
  <2> QED
    BY <2>1, <2>2, <2>3, EntryAssumption DEF EntryKept
<1>2. EntryKept /\ [EntryNext]_entry => EntryKept'
  BY EntryStep
<1>3. EntryKept => HomeInv
  BY SectionFacts DEF EntryKept, RowOK, Users0, Whole, PlaceOK, HomeInv, OnboardingTypeOK
<1> QED
  BY <1>1, <1>2, <1>3, PTL DEF EntrySpec
-----------------------------------------------------------------------------
(***************************************************************************)
(* PushOutbox. The messages of a batch are a sequence (an order with one   *)
(* group after the other exists), so a chunk has tickets with numbers, and *)
(* what a sender takes for delivered was accepted or had a device that was *)
(* gone.                                                                   *)
(***************************************************************************)

Jobs == [to : Tokens, ids : SUBSET Events]

LEMMA Numbered ==
    ASSUME NEW S, IsFiniteSet(S)
    PROVE  /\ Cardinality(S) \in Nat
           /\ \E q \in [1 .. Cardinality(S) -> S] :
                \A i, j \in 1 .. Cardinality(S) : i # j => q[i] # q[j]
BY FS_CardinalityType DEF ExistsBijection, Bijection, Injection, IsInjective

OneGroup(S) == \A x, y \in S : x.ids = y.ids

InOrder(q) ==
    /\ \A i, j \in DOMAIN q : i # j => q[i] # q[j]
    /\ \A i, j, n \in DOMAIN q : i < j /\ j < n /\ q[i].ids = q[n].ids => q[j].ids = q[i].ids

\* First the messages of one group, then those of the other.
LEMMA OneGroupAfterTheOther ==
    ASSUME NEW A, IsFiniteSet(A), NEW B, IsFiniteSet(B), A \cap B = {},
           OneGroup(A), OneGroup(B)
    PROVE  \E q \in [1 .. Cardinality(A \cup B) -> A \cup B] : InOrder(q)
<1> DEFINE m == Cardinality(A)
           k == Cardinality(B)
<1>1. /\ m \in Nat /\ k \in Nat /\ IsFiniteSet(A \cup B)
      /\ Cardinality(A \cup B) = m + k
  <2>1. Cardinality(A \cap B) = 0
    BY FS_EmptySet
  <2> QED
    BY <2>1, FS_Union, FS_CardinalityType
<1>2. PICK f \in [1 .. m -> A] : \A i, j \in 1 .. m : i # j => f[i] # f[j]
  BY Numbered
<1>3. PICK g \in [1 .. k -> B] : \A i, j \in 1 .. k : i # j => g[i] # g[j]
  BY Numbered
<1> HIDE DEF m, k
<1> DEFINE q == [i \in 1 .. m + k |-> IF i <= m THEN f[i] ELSE g[i - m]]
<1>4. \A i \in 1 .. m + k : /\ i <= m => i \in 1 .. m
                            /\ ~(i <= m) => i - m \in 1 .. k
  BY <1>1
<1>5. /\ DOMAIN q = 1 .. m + k
      /\ \A i \in 1 .. m + k : /\ i <= m => q[i] = f[i] /\ q[i] \in A
                               /\ ~(i <= m) => q[i] = g[i - m] /\ q[i] \in B
      /\ q \in [1 .. m + k -> A \cup B]
  BY <1>2, <1>3, <1>4
<1> HIDE DEF q
<1>6. ASSUME NEW i \in 1 .. m + k, NEW j \in 1 .. m + k, i # j PROVE q[i] # q[j]
  <2>1. CASE i <= m /\ j <= m
    BY <1>2, <1>4, <1>5, <1>6, <2>1
  <2>2. CASE ~(i <= m) /\ ~(j <= m)
    <3>1. i - m # j - m
      BY <1>1, <1>6
    <3> QED
      BY <1>3, <1>4, <1>5, <2>2, <3>1
  <2>3. CASE (i <= m) # (j <= m)
    BY <1>5, <2>3
  <2> QED
    BY <2>1, <2>2, <2>3
<1>7. ASSUME NEW i \in 1 .. m + k, NEW j \in 1 .. m + k, NEW n \in 1 .. m + k,
             i < j, j < n, q[i].ids = q[n].ids
      PROVE  q[j].ids = q[i].ids
  <2>1. \A l, h \in 1 .. m + k : (l <= m <=> h <= m) => q[l].ids = q[h].ids
    BY <1>5 DEF OneGroup
  <2>2. (j <= m => i <= m) /\ (~(j <= m) => ~(n <= m))
    BY <1>1, <1>7
  <2> QED
    BY <1>7, <2>1, <2>2
<1>8. InOrder(q)
  BY <1>5, <1>6, <1>7 DEF InOrder
<1>9. q \in [1 .. Cardinality(A \cup B) -> A \cup B]
  BY <1>1, <1>5
<1> QED
  BY <1>8, <1>9

LEMMA JobsTyped ==
    ASSUME NEW es, es \in SUBSET Events, enabled \in SUBSET Tokens
    PROVE  JobsOf(es) \in Seq(Jobs)
<1> DEFINE jobs == {[to |-> k, ids |-> g] : k \in enabled, g \in Groups(es)}
           a == es \cap Messages
           b == es \cap {Daily}
           A == {x \in jobs : x.ids = a}
           B == {x \in jobs : x.ids # a}
<1>1. \A x \in jobs : x.to \in enabled /\ x.ids \in {a, b} /\ x = [to |-> x.to, ids |-> x.ids]
  BY DEF Groups
<1>2. jobs \subseteq Jobs
  BY <1>1 DEF Jobs, Events
<1>3. IsFiniteSet(enabled)
  BY PushAssumption, FS_Subset
<1>4. ASSUME NEW c PROVE IsFiniteSet({x \in jobs : x.ids = c})
  <2> DEFINE C == {[to |-> k, ids |-> c] : k \in enabled}
             f == [k \in enabled |-> [to |-> k, ids |-> c]]
  <2>1. f \in Surjection(enabled, C)
    BY DEF Surjection
  <2>2. IsFiniteSet(C)
    BY <1>3, <2>1, FS_Surjection
  <2>3. {x \in jobs : x.ids = c} \subseteq C
    BY <1>1
  <2> HIDE DEF C, jobs
  <2> QED
    BY <2>2, <2>3, FS_Subset
<1>5. IsFiniteSet(A) /\ IsFiniteSet(B)
  <2>1. B \in SUBSET {x \in jobs : x.ids = b}
    BY <1>1
  <2> HIDE DEF jobs, B, a, b
  <2>2. IsFiniteSet(A) /\ IsFiniteSet({x \in jobs : x.ids = b})
    BY <1>4
  <2> QED
    BY <2>1, <2>2, FS_Subset
<1>6. A \cap B = {} /\ A \cup B = jobs /\ (\A x \in A : x.ids = a) /\ (\A x \in B : x.ids = b)
  BY <1>1
<1> HIDE DEF A, B, a, b
<1>7. \E q \in [1 .. Cardinality(jobs) -> jobs] : InOrder(q)
  <2> HIDE DEF jobs
  <2>1. \E q \in [1 .. Cardinality(A \cup B) -> A \cup B] : InOrder(q)
    BY <1>5, <1>6, OneGroupAfterTheOther DEF OneGroup
  <2> QED
    BY <1>6, <2>1
<1>8. JobsOf(es) \in [1 .. Cardinality(jobs) -> jobs]
  <2>1. JobsOf(es) = CHOOSE q \in [1 .. Cardinality(jobs) -> jobs] : InOrder(q)
    BY DEF JobsOf, InOrder
  <2> HIDE DEF jobs
  <2> QED
    BY <1>7, <2>1
<1>9. Cardinality(jobs) \in Nat
  <2> HIDE DEF jobs
  <2> QED
    BY <1>5, <1>6, FS_Union, FS_CardinalityType
<1> HIDE DEF jobs
<1>10. JobsOf(es) \in [1 .. Cardinality(jobs) -> Jobs]
  BY <1>2, <1>8
<1> QED
  BY <1>9, <1>10, SeqDef

EventRec ==
    [made : BOOLEAN, closed : BOOLEAN, why : {"none", "expired", "skipped", "delivered"},
     claim : {"none", "held", "stale"}, attempts : 0 .. MaxAttempts, ref : Nat]

RunRec ==
    [pc : {"off", "skip", "send", "mark", "disable"}, jobs : Seq(Jobs), skipped : SUBSET Events,
     ok : SUBSET Events, failed : SUBSET Events, gone : SUBSET Tokens]

OutboxTypeOK ==
    /\ outbox \in [Events -> EventRec] /\ runs \in [Senders -> RunRec]
    /\ enabled \in SUBSET Tokens /\ proposal \in [n : Nat, valid : BOOLEAN]
    /\ accepted \in [Events -> Nat]

\* Taken by the service, or it has said of a device of the event that it is gone.
Reported(e) == accepted[e] > 0 \/ e \in lost

OutboxKept ==
    /\ OutboxTypeOK
    /\ \A e \in Events : outbox[e].why = "delivered" => Reported(e)
    /\ \A s \in Senders : \A e \in runs[s].ok : Reported(e)

\* What a step changes of an event, but for the reason "delivered".
LEMMA OthersKeep ==
    ASSUME OutboxKept, OutboxTypeOK', \A e \in Events : accepted[e] <= accepted'[e], lost \subseteq lost',
           \A e \in Events : outbox'[e].why = "delivered" => outbox[e].why = "delivered",
           \A s \in Senders : runs'[s].ok \subseteq runs[s].ok
    PROVE  OutboxKept'
<1>1. \A e \in Events : Reported(e) => Reported(e)'
  BY DEF Reported, OutboxKept, OutboxTypeOK
<1>2. \A s \in Senders : runs[s].ok \subseteq Events
  BY DEF OutboxKept, OutboxTypeOK, RunRec
<1> QED
  BY <1>1, <1>2 DEF OutboxKept

LEMMA WorldKeeps ==
    ASSUME OutboxKept,
           (\E e \in Events : MessageComes(e)) \/ ProposalComes \/ ProposalEnds \/ RecipientChanges \/ ClaimsAge
    PROVE  OutboxKept'
<1>1. OutboxTypeOK /\ runs' = runs /\ accepted' = accepted /\ lost' = lost
  BY DEF OutboxKept, MessageComes, ProposalComes, ProposalEnds, RecipientChanges, ClaimsAge
<1>2. \A e \in Events : outbox[e] \in EventRec
  BY <1>1 DEF OutboxTypeOK
<1>3. ASSUME NEW e \in Events, MessageComes(e) PROVE OutboxKept'
  <2> DEFINE f == [outbox EXCEPT ![e].made = TRUE]
  <2>1. \A r \in EventRec : [r EXCEPT !.made = TRUE] \in EventRec /\ [r EXCEPT !.made = TRUE].why = r.why
    BY DEF EventRec
  <2>2. f \in [Events -> EventRec] /\ \A d \in Events : f[d].why = outbox[d].why
    BY <1>1, <1>2, <2>1 DEF OutboxTypeOK
  <2>3. outbox' = f /\ enabled' = enabled /\ proposal' = proposal
    BY <1>3 DEF MessageComes
  <2> HIDE DEF f
  <2> QED
    BY <1>1, <2>2, <2>3, OthersKeep DEF OutboxTypeOK
<1>4. CASE ProposalComes
  <2>1. PICK n \in Nat : outbox' = [outbox EXCEPT ![Daily].made = TRUE, ![Daily].ref = n]
    <3>1. outbox[Daily].ref \in Nat /\ proposal.n + 1 \in Nat
      BY <1>1, <1>2 DEF Events, EventRec, OutboxTypeOK
    <3>2. outbox' = [outbox EXCEPT ![Daily].made = TRUE,
                       ![Daily].ref = IF outbox[Daily].closed THEN outbox[Daily].ref ELSE proposal.n + 1]
      BY <1>1, <1>4 DEF ProposalComes, OutboxTypeOK, Events, EventRec
    <3> QED
      BY <3>1, <3>2
  <2>2. \A r \in EventRec : LET q == [r EXCEPT !.made = TRUE, !.ref = n] IN q \in EventRec /\ q.why = r.why
    BY DEF EventRec
  <2>3. outbox' = [outbox EXCEPT ![Daily] = [outbox[Daily] EXCEPT !.made = TRUE, !.ref = n]]
    BY <1>1, <2>1 DEF OutboxTypeOK
  <2>4. outbox' \in [Events -> EventRec] /\ \A d \in Events : outbox'[d].why = outbox[d].why
    BY <1>1, <1>2, <2>2, <2>3 DEF OutboxTypeOK
  <2>5. enabled' = enabled /\ proposal' \in [n : Nat, valid : BOOLEAN]
    BY <1>1, <1>4 DEF ProposalComes, OutboxTypeOK
  <2> QED
    BY <1>1, <2>4, <2>5, OthersKeep DEF OutboxTypeOK
<1>5. CASE ProposalEnds
  <2>1. outbox' = outbox /\ enabled' = enabled /\ proposal' \in [n : Nat, valid : BOOLEAN]
    BY <1>1, <1>5 DEF ProposalEnds, OutboxTypeOK
  <2> QED
    BY <1>1, <2>1, OthersKeep DEF OutboxTypeOK
<1>6. CASE RecipientChanges
  <2>1. outbox' = outbox /\ proposal' = proposal /\ enabled' \in SUBSET Tokens
    BY <1>1, <1>6 DEF RecipientChanges, OutboxTypeOK
  <2> QED
    BY <1>1, <2>1, OthersKeep DEF OutboxTypeOK
<1>7. CASE ClaimsAge
  <2>1. \A r \in EventRec : LET q == [r EXCEPT !.claim = IF r.claim = "held" THEN "stale" ELSE r.claim] IN
          q \in EventRec /\ q.why = r.why
    BY DEF EventRec
  <2>2. \A e \in Events :
          outbox'[e] = [outbox[e] EXCEPT !.claim = IF outbox[e].claim = "held" THEN "stale" ELSE outbox[e].claim]
    BY <1>2, <1>7 DEF ClaimsAge, EventRec
  <2>3. DOMAIN outbox' = Events /\ outbox' = [e \in Events |-> outbox'[e]]
    BY <1>7 DEF ClaimsAge
  <2>4. \A d \in Events : outbox'[d] \in EventRec /\ outbox'[d].why = outbox[d].why
    BY <1>2, <2>1, <2>2
  <2>5. outbox' \in [Events -> EventRec]
    BY <2>3, <2>4
  <2> QED
    BY <1>1, <1>7, <2>4, <2>5, OthersKeep DEF OutboxTypeOK, ClaimsAge
<1> QED
  BY <1>3, <1>4, <1>5, <1>6, <1>7

LEMMA NoRunTyped == NoRun \in RunRec
  BY EmptySeq DEF NoRun, RunRec

LEMMA NewRun ==
    ASSUME NEW jobs \in Seq(Jobs), NEW skipped \in SUBSET Events
    PROVE  LET r == [NoRun EXCEPT !.pc = "skip", !.jobs = jobs, !.skipped = skipped] IN
           r \in RunRec /\ r.ok = {}
<1>1. NoRun \in RunRec /\ NoRun.ok = {}
  BY NoRunTyped DEF NoRun
<1>2. \A x \in RunRec : LET r == [x EXCEPT !.pc = "skip", !.jobs = jobs, !.skipped = skipped] IN
        r \in RunRec /\ r.ok = x.ok
  BY DEF RunRec
<1> QED
  BY <1>1, <1>2

LEMMA DequeueKeeps == ASSUME OutboxKept, NEW s \in Senders, Dequeue(s) PROVE OutboxKept'
<1>1. OutboxTypeOK /\ accepted' = accepted /\ lost' = lost /\ enabled' = enabled /\ proposal' = proposal
  BY DEF OutboxKept, Dequeue
<1>2. \A e \in Events : outbox[e] \in EventRec
  BY <1>1 DEF OutboxTypeOK
<1>3. outbox' \in [Events -> EventRec]
      /\ \A e \in Events : outbox'[e].why = "delivered" => outbox[e].why = "delivered"
  <2>1. ASSUME NEW e \in Events
        PROVE  outbox'[e] \in EventRec /\ (outbox'[e].why = "delivered" => outbox[e].why = "delivered")
    <3>1. outbox[e] \in EventRec /\ outbox[e].attempts \in Nat /\ MaxAttempts \in Nat
      BY <1>2, PushAssumption DEF EventRec
    <3>2. CASE Takeable(e)
      <4>1. outbox'[e] = [outbox[e] EXCEPT !.claim = "held", !.attempts = outbox[e].attempts + 1]
        BY <3>1, <3>2 DEF Dequeue, EventRec
      <4>2. outbox[e].attempts + 1 \in 0 .. MaxAttempts
        BY <3>1, <3>2 DEF Takeable, Expired
      <4> QED
        BY <3>1, <4>1, <4>2 DEF EventRec
    <3>3. CASE ~Takeable(e) /\ Expired(e)
      <4>1. outbox'[e] = [outbox[e] EXCEPT !.closed = TRUE, !.why = "expired"]
        BY <3>3 DEF Dequeue
      <4> QED
        BY <3>1, <4>1 DEF EventRec
    <3>4. CASE ~Takeable(e) /\ ~Expired(e)
      BY <3>1, <3>4 DEF Dequeue
    <3> QED
      BY <3>2, <3>3, <3>4
  <2>2. outbox' = [e \in Events |-> outbox'[e]]
    BY DEF Dequeue
  <2>3. outbox' \in [Events -> EventRec]
    BY <2>1, <2>2
  <2> QED
    BY <2>1, <2>3
<1> DEFINE es == {e \in Taken : Sendable(e)}
           r == [NoRun EXCEPT !.pc = "skip", !.jobs = JobsOf(es), !.skipped = Taken \ es]
<1>4. runs' = [runs EXCEPT ![s] = r]
  BY DEF Dequeue
<1>5. r \in RunRec /\ r.ok = {}
  <2>1. JobsOf(es) \in Seq(Jobs)
    BY <1>1, JobsTyped DEF Taken, OutboxTypeOK
  <2>2. Taken \ es \in SUBSET Events
    BY DEF Taken
  <2> HIDE DEF es
  <2> QED
    BY <2>1, <2>2, NewRun
<1> HIDE DEF r
<1>6. runs' \in [Senders -> RunRec] /\ \A t \in Senders : runs'[t].ok \subseteq runs[t].ok
  BY <1>1, <1>4, <1>5 DEF OutboxTypeOK
<1>7. OutboxTypeOK'
  BY <1>1, <1>3, <1>6 DEF OutboxTypeOK
<1> QED
  BY <1>1, <1>3, <1>6, <1>7, OthersKeep DEF OutboxTypeOK

LEMMA SkipKeeps == ASSUME OutboxKept, NEW s \in Senders, MarkSkipped(s) PROVE OutboxKept'
<1>1. OutboxTypeOK /\ accepted' = accepted /\ lost' = lost /\ enabled' = enabled /\ proposal' = proposal
  BY DEF OutboxKept, MarkSkipped
<1>2. \A e \in Events : outbox[e] \in EventRec
  BY <1>1 DEF OutboxTypeOK
<1>3. outbox' \in [Events -> EventRec]
      /\ \A e \in Events : outbox'[e].why = "delivered" => outbox[e].why = "delivered"
  <2>1. CASE outbox' = outbox
    BY <1>1, <2>1 DEF OutboxTypeOK
  <2>2. CASE outbox' = [e \in Events |-> IF e \in runs[s].skipped
                          THEN [outbox[e] EXCEPT !.closed = TRUE, !.why = "skipped"] ELSE outbox[e]]
    <3>1. \A x \in EventRec : LET q == [x EXCEPT !.closed = TRUE, !.why = "skipped"] IN
            q \in EventRec /\ q.why = "skipped"
      BY DEF EventRec
    <3> QED
      BY <1>2, <2>2, <3>1
  <2> QED
    BY <2>1, <2>2 DEF MarkSkipped
<1>4. PICK pc \in {"off", "send"} : runs' = [runs EXCEPT ![s].pc = pc, ![s].skipped = {}]
  BY DEF MarkSkipped
<1>5. \A x \in RunRec : LET q == [x EXCEPT !.pc = pc, !.skipped = {}] IN q \in RunRec /\ q.ok = x.ok
  BY DEF RunRec
<1>6. runs' = [runs EXCEPT ![s] = [runs[s] EXCEPT !.pc = pc, !.skipped = {}]]
  BY <1>1, <1>4 DEF OutboxTypeOK
<1>7. runs' \in [Senders -> RunRec] /\ \A t \in Senders : runs'[t].ok \subseteq runs[t].ok
  BY <1>1, <1>5, <1>6 DEF OutboxTypeOK
<1>8. OutboxTypeOK'
  BY <1>1, <1>3, <1>7 DEF OutboxTypeOK
<1> QED
  BY <1>1, <1>3, <1>7, <1>8, OthersKeep DEF OutboxTypeOK

\* What a chunk is: a sequence of messages, with the rest behind it.
LEMMA ChunkTyped ==
    ASSUME OutboxKept, NEW s \in Senders
    PROVE  /\ Part(s) \in Seq(Jobs) /\ Rest(s) \in Seq(Jobs)
           /\ IsFiniteSet(DOMAIN Part(s))
           /\ \A is \in SUBSET DOMAIN Part(s) : IdsAt(Part(s), is) \subseteq Events
           /\ \A i \in DOMAIN Part(s) : Part(s)[i].to \in Tokens
<1>1. runs[s].jobs \in Seq(Jobs)
  BY DEF OutboxKept, OutboxTypeOK, RunRec
<1> DEFINE jobs == runs[s].jobs
<1>2. Len(jobs) \in Nat /\ SizeOf(s) \in Nat /\ SizeOf(s) <= Len(jobs)
  BY <1>1, LenProperties, PushAssumption DEF SizeOf
<1>3. \A i \in 1 .. Len(jobs) : jobs[i] \in Jobs
  BY <1>1
<1> HIDE DEF jobs
<1>4. Part(s) \in Seq(Jobs)
  <2>1. \A i \in 1 .. SizeOf(s) : jobs[i] \in Jobs
    BY <1>2, <1>3
  <2> QED
    BY <1>2, <2>1, SubSeqProperties DEF Part, jobs
<1>5. Rest(s) \in Seq(Jobs)
  <2>1. \A i \in SizeOf(s) + 1 .. Len(jobs) : jobs[i] \in Jobs
    BY <1>2, <1>3
  <2> QED
    BY <1>2, <2>1, SubSeqProperties DEF Rest, jobs
<1>6. DOMAIN Part(s) = 1 .. Len(Part(s)) /\ Len(Part(s)) \in Nat
  BY <1>4, LenProperties
<1>7. \A i \in DOMAIN Part(s) : Part(s)[i] \in Jobs
  BY <1>4, <1>6, ElementOfSeq
<1>8. IsFiniteSet(DOMAIN Part(s))
  BY <1>6, FS_Interval
<1> QED
  BY <1>4, <1>5, <1>7, <1>8 DEF IdsAt, Jobs

\* A chunk that was answered, or given up.
LEMMA RunMoves ==
    ASSUME OutboxKept, NEW s \in Senders, NEW x \in RunRec, runs' = [runs EXCEPT ![s] = x],
           UNCHANGED <<outbox, enabled, proposal>>, accepted' \in [Events -> Nat],
           \A e \in Events : accepted[e] <= accepted'[e], lost \subseteq lost',
           \A e \in x.ok : Reported(e)'
    PROVE  OutboxKept'
<1>1. OutboxTypeOK'
  BY DEF OutboxKept, OutboxTypeOK
<1>2. \A e \in Events : Reported(e) => Reported(e)'
  BY <1>1 DEF Reported, OutboxKept, OutboxTypeOK
<1>3. ASSUME NEW t \in Senders, NEW e \in runs'[t].ok PROVE Reported(e)'
  <2>1. CASE t = s
    BY <1>3, <2>1 DEF OutboxKept, OutboxTypeOK
  <2>2. CASE t # s
    <3>1. runs'[t] = runs[t] /\ e \in Events
      BY <1>3, <2>2 DEF OutboxKept, OutboxTypeOK, RunRec
    <3> QED
      BY <1>2, <1>3, <3>1 DEF OutboxKept
  <2> QED
    BY <2>1, <2>2
<1> QED
  BY <1>1, <1>2, <1>3 DEF OutboxKept

LEMMA TicketsKeep == ASSUME OutboxKept, NEW s \in Senders, Tickets(s) PROVE OutboxKept'
<1> DEFINE part == Part(s)
<1>1. OutboxTypeOK /\ runs[s] \in RunRec
  BY DEF OutboxKept, OutboxTypeOK
<1>2. PICK fine \in SUBSET DOMAIN part, gone \in SUBSET DOMAIN part :
        /\ accepted' = [e \in Events |-> accepted[e] + Cardinality({i \in fine : e \in part[i].ids})]
        /\ lost' = lost \cup IdsAt(part, gone)
        /\ runs' = [runs EXCEPT ![s].pc = "mark", ![s].jobs = Rest(s), ![s].ok = Delivered(part, fine, gone),
                      ![s].failed = IdsAt(part, DOMAIN part) \ Delivered(part, fine, gone),
                      ![s].gone = {part[i].to : i \in gone}]
  BY DEF Tickets
<1> DEFINE ok == Delivered(part, fine, gone)
           failed == IdsAt(part, DOMAIN part) \ ok
           quiet == {part[i].to : i \in gone}
           x == [runs[s] EXCEPT !.pc = "mark", !.jobs = Rest(s), !.ok = ok, !.failed = failed, !.gone = quiet]
<1>3. ok \subseteq Events /\ failed \subseteq Events /\ quiet \subseteq Tokens
  BY ChunkTyped DEF Delivered
<1>4. \A e \in ok : \E i \in fine \cup gone : e \in part[i].ids
  BY DEF Delivered, IdsAt
<1>5. \A e \in Events : LET hits == {i \in fine : e \in part[i].ids} IN
        Cardinality(hits) \in Nat /\ (hits # {} => Cardinality(hits) > 0)
  <2>1. \A e \in Events : IsFiniteSet({i \in fine : e \in part[i].ids})
    BY ChunkTyped, FS_Subset
  <2> QED
    BY <2>1, FS_CardinalityType, FS_EmptySet
<1> HIDE DEF part, ok, failed, quiet
<1>6. accepted' \in [Events -> Nat] /\ \A e \in Events : accepted[e] <= accepted'[e]
  BY <1>1, <1>2, <1>5 DEF OutboxTypeOK
<1>7. \A e \in ok : Reported(e)'
  <2> SUFFICES ASSUME NEW e \in ok PROVE Reported(e)'
    OBVIOUS
  <2>1. PICK i \in fine \cup gone : e \in part[i].ids
    BY <1>4
  <2>2. CASE i \in gone
    BY <1>2, <2>1, <2>2 DEF Reported, IdsAt
  <2>3. CASE i \in fine
    <3>1. {k \in fine : e \in part[k].ids} # {} /\ e \in Events
      BY <1>3, <2>1, <2>3
    <3>2. accepted'[e] > 0
      BY <1>1, <1>2, <1>5, <3>1 DEF OutboxTypeOK
    <3> QED
      BY <3>2 DEF Reported
  <2> QED
    BY <2>2, <2>3
<1>8. x \in RunRec /\ x.ok = ok
  <2>1. Rest(s) \in Seq(Jobs)
    BY ChunkTyped
  <2> QED
    BY <1>1, <1>3, <2>1 DEF RunRec
<1>9. runs' = [runs EXCEPT ![s] = x]
  BY <1>1, <1>2 DEF OutboxTypeOK, ok, failed, quiet
<1>10. UNCHANGED <<outbox, enabled, proposal>> /\ lost \subseteq lost'
  BY <1>2 DEF Tickets
<1> HIDE DEF x
<1> QED
  BY <1>6, <1>7, <1>8, <1>9, <1>10, RunMoves

LEMMA FailureKeeps == ASSUME OutboxKept, NEW s \in Senders, ServiceFails(s) PROVE OutboxKept'
<1> DEFINE part == Part(s)
           sent == [e \in Events |-> accepted[e] + Cardinality({i \in DOMAIN part : e \in part[i].ids})]
           x == [runs[s] EXCEPT !.pc = "mark", !.jobs = Rest(s), !.ok = {},
                   !.failed = IdsAt(part, DOMAIN part), !.gone = {}]
<1>1. OutboxTypeOK /\ runs[s] \in RunRec
  BY DEF OutboxKept, OutboxTypeOK
<1>2. accepted' \in {accepted, sent} /\ UNCHANGED <<outbox, enabled, proposal, lost>>
  BY DEF ServiceFails
<1>3. \A e \in Events : Cardinality({i \in DOMAIN part : e \in part[i].ids}) \in Nat
  <2>1. \A e \in Events : IsFiniteSet({i \in DOMAIN part : e \in part[i].ids})
    BY ChunkTyped, FS_Subset
  <2> QED
    BY <2>1, FS_CardinalityType
<1>4. x \in RunRec /\ x.ok = {}
  <2>1. Rest(s) \in Seq(Jobs) /\ IdsAt(part, DOMAIN part) \in SUBSET Events
    BY ChunkTyped
  <2> HIDE DEF part
  <2> QED
    BY <1>1, <2>1 DEF RunRec
<1>5. runs' = [runs EXCEPT ![s] = x]
  BY <1>1 DEF ServiceFails, OutboxTypeOK
<1> HIDE DEF part, x
<1>6. accepted' \in [Events -> Nat] /\ \A e \in Events : accepted[e] <= accepted'[e]
  <2>1. sent \in [Events -> Nat] /\ \A e \in Events : accepted[e] <= sent[e]
    BY <1>1, <1>3 DEF OutboxTypeOK
  <2>2. accepted \in [Events -> Nat]
    BY <1>1 DEF OutboxTypeOK
  <2> HIDE DEF sent
  <2>3. \A e \in Events : accepted[e] <= accepted[e]
    BY <2>2
  <2> QED
    BY <1>2, <2>1, <2>2, <2>3
<1> QED
  BY <1>2, <1>4, <1>5, <1>6, RunMoves

LEMMA MarkKeeps == ASSUME OutboxKept, NEW s \in Senders, Mark(s) PROVE OutboxKept'
<1>1. OutboxTypeOK /\ runs[s] \in RunRec
      /\ accepted' = accepted /\ lost' = lost /\ enabled' = enabled /\ proposal' = proposal
  BY DEF OutboxKept, OutboxTypeOK, Mark
<1>2. \A e \in Events : outbox[e] \in EventRec
  BY <1>1 DEF OutboxTypeOK
<1>3. \A e \in Events : Reported(e)' = Reported(e)
  BY <1>1 DEF Reported
<1>4. runs' = [runs EXCEPT ![s] = [runs[s] EXCEPT !.pc = "disable"]]
  BY <1>1 DEF Mark, OutboxTypeOK
<1>5. /\ runs' \in [Senders -> RunRec]
      /\ \A t \in Senders : runs'[t].ok = runs[t].ok
  <2>1. [runs[s] EXCEPT !.pc = "disable"] \in RunRec /\ [runs[s] EXCEPT !.pc = "disable"].ok = runs[s].ok
    BY <1>1 DEF RunRec
  <2> QED
    BY <1>1, <1>4, <2>1 DEF OutboxTypeOK
<1>6. /\ outbox' \in [Events -> EventRec]
      /\ \A e \in Events : outbox'[e].why = "delivered" => outbox[e].why = "delivered" \/ e \in runs[s].ok
  <2>1. CASE outbox' = outbox
    BY <1>1, <2>1 DEF OutboxTypeOK
  <2>2. CASE outbox' # outbox
    <3>0. outbox' = [e \in Events |->
            CASE e \in runs[s].ok -> [outbox[e] EXCEPT !.closed = TRUE, !.why = IF @ = "none" THEN "delivered" ELSE @]
              [] e \in runs[s].failed -> [outbox[e] EXCEPT !.claim = "none"]
              [] OTHER -> outbox[e]]
      BY <2>2 DEF Mark
    <3>1. outbox' = [e \in Events |-> outbox'[e]]
      BY <2>2 DEF Mark
    <3>2. ASSUME NEW e \in Events
          PROVE  /\ outbox'[e] \in EventRec
                 /\ outbox'[e].why = "delivered" => outbox[e].why = "delivered" \/ e \in runs[s].ok
      <4>0. outbox[e] \in EventRec
        BY <1>2
      <4>1. CASE e \in runs[s].ok
        <5> DEFINE closed == [outbox[e] EXCEPT !.closed = TRUE, !.why = IF @ = "none" THEN "delivered" ELSE @]
                   freed == [outbox[e] EXCEPT !.claim = "none"]
        <5>0. outbox'[e] = CASE e \in runs[s].ok -> closed [] e \in runs[s].failed -> freed [] OTHER -> outbox[e]
          BY <3>0
        <5> HIDE DEF closed, freed
        <5>1. outbox'[e] = closed \/ outbox'[e] = freed
          BY <4>1, <5>0
        <5>2. closed \in EventRec /\ freed \in EventRec
          BY <4>0 DEF EventRec, closed, freed
        <5> QED
          BY <4>1, <5>1, <5>2
      <4>2. CASE e \notin runs[s].ok /\ e \in runs[s].failed
        <5>1. outbox'[e] = [outbox[e] EXCEPT !.claim = "none"]
          BY <2>2, <4>2 DEF Mark
        <5> QED
          BY <4>0, <5>1 DEF EventRec
      <4>3. CASE e \notin runs[s].ok /\ e \notin runs[s].failed
        <5>1. outbox'[e] = outbox[e]
          BY <2>2, <4>3 DEF Mark
        <5> QED
          BY <4>0, <5>1
      <4> QED
        BY <4>1, <4>2, <4>3
    <3>3. outbox' \in [Events -> EventRec]
      BY <3>1, <3>2
    <3> QED
      BY <3>2, <3>3
  <2> QED
    BY <2>1, <2>2
<1>7. OutboxTypeOK'
  BY <1>1, <1>5, <1>6 DEF OutboxTypeOK
<1>8. \A t \in Senders : runs[t].ok \subseteq Events
  BY <1>1 DEF OutboxTypeOK, RunRec
<1> QED
  BY <1>3, <1>5, <1>6, <1>7, <1>8 DEF OutboxKept

LEMMA DisableKeeps ==
    ASSUME OutboxKept, NEW s \in Senders, DisableTokens(s) \/ SenderDies(s) PROVE OutboxKept'
<1>1. /\ OutboxTypeOK /\ runs[s] \in RunRec
      /\ UNCHANGED <<outbox, proposal, accepted, lost>> /\ enabled' \in SUBSET Tokens
  BY DEF OutboxKept, OutboxTypeOK, DisableTokens, SenderDies
<1>2. PICK x : runs' = [runs EXCEPT ![s] = x] /\ x \in {NoRun, [NoRun EXCEPT !.pc = "send", !.jobs = runs[s].jobs]}
  BY DEF DisableTokens, SenderDies
<1>3. x \in RunRec /\ x.ok = {}
  <2>1. NoRun \in RunRec /\ NoRun.ok = {} /\ runs[s].jobs \in Seq(Jobs)
    BY <1>1, NoRunTyped DEF NoRun, RunRec
  <2>2. \A y \in RunRec, q \in Seq(Jobs) :
          LET z == [y EXCEPT !.pc = "send", !.jobs = q] IN z \in RunRec /\ z.ok = y.ok
    BY DEF RunRec
  <2> QED
    BY <1>2, <2>1, <2>2
<1>4. runs' \in [Senders -> RunRec] /\ \A t \in Senders : runs'[t].ok \subseteq runs[t].ok
  BY <1>1, <1>2, <1>3 DEF OutboxTypeOK
<1>5. OutboxTypeOK'
  BY <1>1, <1>4 DEF OutboxTypeOK
<1>6. \A e \in Events : accepted[e] <= accepted'[e]
  BY <1>1 DEF OutboxTypeOK
<1> QED
  BY <1>1, <1>4, <1>5, <1>6, OthersKeep

LEMMA OutboxStep == ASSUME OutboxKept, [PushNext]_pushOutbox PROVE OutboxKept'
<1>1. CASE UNCHANGED pushOutbox
  BY <1>1 DEF pushOutbox, OutboxKept, OutboxTypeOK, Reported
<1> QED
  BY <1>1, WorldKeeps, DequeueKeeps, SkipKeeps, TicketsKeep, FailureKeeps, MarkKeeps, DisableKeeps
  DEF PushNext, SenderWorks

\* No event is closed as delivered unless the service has said of a message of this
\* very event that it took it or that its device is gone, and none is tried more often
\* than it may be, for any events, devices, senders and faults (OutboxInv, applyTickets
\* and notification_events_mark).
THEOREM DeliveredWasTaken == PushSpec => []OutboxInv
<1>1. PushInit => OutboxKept
  <2> SUFFICES ASSUME PushInit PROVE OutboxKept
    OBVIOUS
  <2>1. NoEvent \in EventRec /\ NoEvent.why = "none"
    BY PushAssumption DEF NoEvent, EventRec
  <2>2. NoRun \in RunRec /\ NoRun.ok = {}
    BY NoRunTyped DEF NoRun
  <2>3. OutboxTypeOK
    BY <2>1, <2>2 DEF PushInit, OutboxTypeOK
  <2>4. (\A e \in Events : outbox[e].why = "none") /\ (\A s \in Senders : runs[s].ok = {})
    BY <2>1, <2>2 DEF PushInit
  <2> QED
    BY <2>3, <2>4 DEF OutboxKept
<1>2. OutboxKept /\ [PushNext]_pushOutbox => OutboxKept'
  BY OutboxStep
<1>3. OutboxKept => OutboxInv
  BY PushAssumption DEF OutboxKept, OutboxTypeOK, EventRec, OutboxInv, Reported
<1> QED
  BY <1>1, <1>2, <1>3, PTL DEF PushSpec

-----------------------------------------------------------------------------
\* Changing what one told (ProfileEdit): the forms of the settings, the calls
\* under way and the rows they are stored as.

Kinds == Conditions \cup {"age_range"}
PrefForm ==
    [ages : [1 .. 2 -> Nat], heights : [1 .. 2 -> Nat], regions : SUBSET Places, strict : SUBSET Kinds]
Sexes == {"", "male", "female"}
BasicsForm ==
    [units : {0, 1, 2}, chars : {0, 1, 2}, birth : Nat, sex : Sexes, height : Nat,
     words : 0 .. MaxKeywords, locked : BOOLEAN]
ValuesForm == [axes : [ValueAxes -> Nat], past : {"", "few", "several"}, share : BOOLEAN]
FormsOf(page) ==
    IF page = "preferences" THEN PrefForm ELSE IF page = "values" THEN ValuesForm ELSE BasicsForm

SettingsRec ==
    [ages : [1 .. 2 -> SUBSET Nat], heights : [1 .. 2 -> SUBSET Nat], regions : SUBSET Places]
ConditionRec == [kind : Kinds, ages : [1 .. 2 -> SUBSET Nat], regions : SUBSET Places]
ReadRec(F) ==
    [asking : BOOLEAN, reply : SUBSET F, settings : SUBSET SettingsRec, must : SUBSET SUBSET ConditionRec]
SentRec(F) == [value : F, answer : {"none", "saved", "failed"}]
DeviceRec(F) ==
    [open : BOOLEAN, form : SUBSET F, busy : BOOLEAN, call : SUBSET SentRec(F), data : SUBSET F,
     failed : BOOLEAN, fetch : ReadRec(F)]

EventKinds == {"preferences_updated", "profile_updated", "values_updated"}

FactsRec == [birth : Nat \ {0}, sex : {"male", "female"}]

\* The introductions are not told apart: I holds those there are.
AccountRec(I) ==
    [page : EditForms, entered : BOOLEAN, facts : FactsRec,
     profile : SUBSET BasicsForm, settings : SettingsRec, must : SUBSET ConditionRec,
     values : ValuesForm, intro : I, log : SUBSET EventKinds,
     refused : SUBSET BasicsForm, inputs : Nat, saves : Nat, reads : Nat, broken : Nat]

\* The rows of the preferences belong together, and give the form they came from.
Agrees(settings, must) ==
    /\ \A d \in must : /\ d.kind = "age_range" => d.ages = settings.ages /\ d.ages # NoAges
                       /\ d.kind = "regions" => d.regions = settings.regions /\ d.regions # {}
    /\ SettingsPayload(StateFromRows(settings, must)) = settings
    /\ DealbreakerPayload(StateFromRows(settings, must)) = must

\* Sex and year are those of the identity; there is one row, and one to change.
Factual(acc) ==
    /\ \A basic \in acc.profile : basic.birth = acc.facts.birth /\ basic.sex = acc.facts.sex
    /\ \A r, s \in acc.profile : r = s
    /\ acc.page = "profile" => acc.profile # {}

\* What was refused of the settings is a nickname of one character.
RefusedShort(acc) ==
    \A v \in acc.refused : acc.page = "profile" /\ v.units >= 2 /\ v.chars < 2

AccountOK(acc) ==
    /\ \E I : acc \in AccountRec(I)
    /\ Agrees(acc.settings, acc.must)
    /\ Factual(acc)
    /\ acc.values.share => acc.values.past # ""
    /\ RefusedShort(acc)

\* A device holds forms of its page, and a call only one that may be sent.
DeviceOK(d, page) ==
    /\ d \in DeviceRec(FormsOf(page))
    /\ \A c \in d.call : Valid(page, c.value)
DevicesOK ==
    /\ devices \in [Devices -> DeviceRec(FormsOf(account.page))]
    /\ \A p \in Devices : DeviceOK(devices[p], account.page)

EditKept == AccountOK(account) /\ (account.page # "intro" => DevicesOK)

-----------------------------------------------------------------------------
\* The preferences and their rows.

LEMMA NumTyped == ASSUME NEW t \in Nat PROVE Num(t) \in SUBSET Nat
BY DEF Num

\* What a field says survives the way to the rows and back.
TextOf(n) == IF n = {} THEN Empty ELSE CHOOSE x \in n : TRUE
LEMMA NumOfText ==
    ASSUME NEW t \in Nat PROVE TextOf(Num(t)) \in Nat /\ Num(TextOf(Num(t))) = Num(t)
<1>1. CASE t \in {Empty, Bad} BY <1>1 DEF Num, TextOf, Empty
<1>2. CASE t \notin {Empty, Bad}
  <2>1. Num(t) = {t} BY <1>2 DEF Num
  <2>2. TextOf(Num(t)) = t BY <2>1 DEF TextOf
  <2> QED BY <2>1, <2>2
<1> QED BY <1>1, <1>2

LEMMA TextTyped == ASSUME NEW n \in SUBSET Nat PROVE TextOf(n) \in Nat
BY DEF TextOf, Empty

LEMMA PayloadTyped == ASSUME NEW s \in PrefForm PROVE SettingsPayload(s) \in SettingsRec
<1>1. [i \in 1 .. 2 |-> Num(s.ages[i])] \in [1 .. 2 -> SUBSET Nat] BY NumTyped DEF PrefForm
<1>2. [i \in 1 .. 2 |-> Num(s.heights[i])] \in [1 .. 2 -> SUBSET Nat] BY NumTyped DEF PrefForm
<1>3. s.regions \in SUBSET Places BY DEF PrefForm
<1> QED BY <1>1, <1>2, <1>3 DEF SettingsPayload, SettingsRec

LEMMA RowsGiveForm ==
    ASSUME NEW r \in SettingsRec, NEW m \in SUBSET ConditionRec
    PROVE  LET t == StateFromRows(r, m) IN
           /\ t \in PrefForm /\ t.regions = r.regions /\ t.strict = {d.kind : d \in m}
           /\ \A i \in 1 .. 2 : t.ages[i] = TextOf(r.ages[i]) /\ t.heights[i] = TextOf(r.heights[i])
<1>1. [i \in 1 .. 2 |-> TextOf(r.ages[i])] \in [1 .. 2 -> Nat] BY TextTyped DEF SettingsRec
<1>2. [i \in 1 .. 2 |-> TextOf(r.heights[i])] \in [1 .. 2 -> Nat] BY TextTyped DEF SettingsRec
<1>3. r.regions \in SUBSET Places /\ {d.kind : d \in m} \in SUBSET Kinds BY DEF SettingsRec, ConditionRec
<1>4. StateFromRows(r, m) =
        [ages |-> [i \in 1 .. 2 |-> TextOf(r.ages[i])], heights |-> [i \in 1 .. 2 |-> TextOf(r.heights[i])],
         regions |-> r.regions, strict |-> {d.kind : d \in m}]
   BY DEF StateFromRows, TextOf
<1> QED BY <1>1, <1>2, <1>3, <1>4 DEF PrefForm

\* The members of the conditions that are sent.
LEMMA ConditionsSent ==
    ASSUME NEW s, NEW d
    PROVE  d \in DealbreakerPayload(s) <=>
             \/ /\ d = Condition("age_range", SettingsPayload(s).ages, {})
                /\ "age_range" \in s.strict /\ SettingsPayload(s).ages # NoAges
             \/ d = Condition("regions", NoAges, s.regions) /\ "regions" \in s.strict /\ s.regions # {}
             \/ \E k \in s.strict \ {"age_range", "regions"} : d = Condition(k, NoAges, {})
BY DEF DealbreakerPayload

LEMMA ConditionsTyped == ASSUME NEW s \in PrefForm PROVE DealbreakerPayload(s) \in SUBSET ConditionRec
<1> SUFFICES ASSUME NEW d \in DealbreakerPayload(s) PROVE d \in ConditionRec OBVIOUS
<1>1. SettingsPayload(s).ages \in [1 .. 2 -> SUBSET Nat] BY PayloadTyped DEF SettingsRec
<1>2. NoAges \in [1 .. 2 -> SUBSET Nat] BY DEF NoAges
<1>3. s.strict \in SUBSET Kinds /\ s.regions \in SUBSET Places BY DEF PrefForm
<1>4. \A k \in Kinds, a \in [1 .. 2 -> SUBSET Nat], r \in SUBSET Places : Condition(k, a, r) \in ConditionRec
   BY DEF Condition, ConditionRec
<1> QED BY <1>1, <1>2, <1>3, <1>4, ConditionsSent

LEMMA StoredAgrees ==
    ASSUME NEW s \in PrefForm PROVE Agrees(SettingsPayload(s), DealbreakerPayload(s))
<1>1. PICK r \in SettingsRec : r = SettingsPayload(s) BY PayloadTyped
<1>2. PICK m \in SUBSET ConditionRec : m = DealbreakerPayload(s) BY ConditionsTyped
<1>3. PICK t : t = StateFromRows(r, m) OBVIOUS
<1>4. /\ t \in PrefForm /\ t.regions = r.regions /\ t.strict = {d.kind : d \in m}
      /\ \A i \in 1 .. 2 : t.ages[i] = TextOf(r.ages[i]) /\ t.heights[i] = TextOf(r.heights[i])
   BY <1>3, RowsGiveForm
<1>5. r = [ages |-> [i \in 1 .. 2 |-> Num(s.ages[i])], heights |-> [i \in 1 .. 2 |-> Num(s.heights[i])],
           regions |-> s.regions]
   BY <1>1 DEF SettingsPayload
<1>6. \A i \in 1 .. 2 : Num(t.ages[i]) = r.ages[i] /\ Num(t.heights[i]) = r.heights[i]
  <2> SUFFICES ASSUME NEW i \in 1 .. 2 PROVE Num(t.ages[i]) = r.ages[i] /\ Num(t.heights[i]) = r.heights[i]
     OBVIOUS
  <2>1. s.ages[i] \in Nat /\ s.heights[i] \in Nat BY DEF PrefForm
  <2>2. r.ages[i] = Num(s.ages[i]) /\ r.heights[i] = Num(s.heights[i]) BY <1>5
  <2> QED BY <1>4, <2>1, <2>2, NumOfText
<1>7. SettingsPayload(t) = r
  <2>1. [i \in 1 .. 2 |-> Num(t.ages[i])] = r.ages BY <1>6 DEF SettingsRec
  <2>2. [i \in 1 .. 2 |-> Num(t.heights[i])] = r.heights BY <1>6 DEF SettingsRec
  <2>3. r = [ages |-> r.ages, heights |-> r.heights, regions |-> r.regions] BY DEF SettingsRec
  <2> QED BY <1>4, <2>1, <2>2, <2>3 DEF SettingsPayload
<1>8. \A d \in m : /\ d.kind = "age_range" => d.ages = r.ages /\ d.ages # NoAges /\ "age_range" \in s.strict
                   /\ d.kind = "regions" => d.regions = r.regions /\ d.regions # {} /\ "regions" \in s.strict
                   /\ d.kind \in s.strict
  <2>1. s.regions = r.regions BY <1>5
  <2> SUFFICES ASSUME NEW d \in m
        PROVE /\ d.kind = "age_range" => d.ages = r.ages /\ d.ages # NoAges /\ "age_range" \in s.strict
              /\ d.kind = "regions" => d.regions = r.regions /\ d.regions # {} /\ "regions" \in s.strict
              /\ d.kind \in s.strict
     OBVIOUS
  <2>2. \/ d = Condition("age_range", r.ages, {}) /\ "age_range" \in s.strict /\ r.ages # NoAges
        \/ d = Condition("regions", NoAges, r.regions) /\ "regions" \in s.strict /\ r.regions # {}
        \/ \E k \in s.strict \ {"age_range", "regions"} : d = Condition(k, NoAges, {})
     BY <1>1, <1>2, <2>1, ConditionsSent
  <2>3. CASE d = Condition("age_range", r.ages, {}) /\ "age_range" \in s.strict /\ r.ages # NoAges
     BY <2>3 DEF Condition
  <2>4. CASE d = Condition("regions", NoAges, r.regions) /\ "regions" \in s.strict /\ r.regions # {}
     BY <2>4 DEF Condition
  <2>5. CASE \E k \in s.strict \ {"age_range", "regions"} : d = Condition(k, NoAges, {})
     BY <2>5 DEF Condition
  <2> QED BY <2>2, <2>3, <2>4, <2>5
<1>9. "age_range" \in t.strict <=> "age_range" \in s.strict /\ r.ages # NoAges
  <2>1. ASSUME "age_range" \in s.strict, r.ages # NoAges PROVE "age_range" \in t.strict
    <3>1. Condition("age_range", r.ages, {}) \in m BY <1>1, <1>2, <2>1, ConditionsSent
    <3>2. Condition("age_range", r.ages, {}).kind = "age_range" BY DEF Condition
    <3> QED BY <1>4, <3>1, <3>2
  <2> QED BY <1>4, <1>8, <2>1
<1>10. "regions" \in t.strict <=> "regions" \in s.strict /\ r.regions # {}
  <2>1. ASSUME "regions" \in s.strict, r.regions # {} PROVE "regions" \in t.strict
    <3>1. Condition("regions", NoAges, s.regions) \in m BY <1>2, <1>5, <2>1, ConditionsSent
    <3>2. Condition("regions", NoAges, s.regions).kind = "regions" BY DEF Condition
    <3> QED BY <1>4, <3>1, <3>2
  <2> QED BY <1>4, <1>8, <2>1
<1>11. \A k : k \notin {"age_range", "regions"} => (k \in t.strict <=> k \in s.strict)
  <2> SUFFICES ASSUME NEW k, k \notin {"age_range", "regions"} PROVE k \in t.strict <=> k \in s.strict OBVIOUS
  <2>1. ASSUME k \in s.strict PROVE k \in t.strict
    <3>1. Condition(k, NoAges, {}) \in m BY <1>2, <2>1, ConditionsSent
    <3>2. Condition(k, NoAges, {}).kind = k BY DEF Condition
    <3> QED BY <1>4, <3>1, <3>2
  <2> QED BY <1>4, <1>8, <2>1
<1>12. DealbreakerPayload(t) = m
  <2>1. s.regions = r.regions BY <1>5
  <2> SUFFICES ASSUME NEW d PROVE d \in DealbreakerPayload(t) <=> d \in m OBVIOUS
  <2>2. d \in DealbreakerPayload(t) <=>
             \/ d = Condition("age_range", r.ages, {}) /\ "age_range" \in t.strict /\ r.ages # NoAges
             \/ d = Condition("regions", NoAges, r.regions) /\ "regions" \in t.strict /\ r.regions # {}
             \/ \E k \in t.strict \ {"age_range", "regions"} : d = Condition(k, NoAges, {})
     BY <1>4, <1>7, ConditionsSent
  <2>3. d \in m <=>
             \/ d = Condition("age_range", r.ages, {}) /\ "age_range" \in s.strict /\ r.ages # NoAges
             \/ d = Condition("regions", NoAges, r.regions) /\ "regions" \in s.strict /\ r.regions # {}
             \/ \E k \in s.strict \ {"age_range", "regions"} : d = Condition(k, NoAges, {})
     BY <1>1, <1>2, <2>1, ConditionsSent
  <2> QED BY <1>9, <1>10, <1>11, <2>2, <2>3
<1> QED BY <1>1, <1>2, <1>3, <1>7, <1>8, <1>12 DEF Agrees

-----------------------------------------------------------------------------
\* The forms and their inputs.

LEMMA PrefInputs ==
    ASSUME TextsAssumption, NEW s \in PrefForm, NEW w \in PreferencesInputs(s) PROVE w \in PrefForm
<1>1. s.ages \in [1 .. 2 -> Nat] /\ s.heights \in [1 .. 2 -> Nat] /\ s.regions \in SUBSET Places
      /\ s.strict \in SUBSET Kinds
   BY DEF PrefForm
<1>2. s = [ages |-> s.ages, heights |-> s.heights, regions |-> s.regions, strict |-> s.strict] BY DEF PrefForm
<1>3. CASE \E i \in 1 .. 2, t \in AgeTexts : w = [s EXCEPT !.ages[i] = t]
  <2>1. PICK i \in 1 .. 2, t \in AgeTexts : w = [s EXCEPT !.ages[i] = t] BY <1>3
  <2>2. t \in Nat BY DEF TextsAssumption
  <2>3. [s.ages EXCEPT ![i] = t] \in [1 .. 2 -> Nat] BY <1>1, <2>2
  <2> QED BY <2>1, <2>3, <1>1 DEF PrefForm
<1>4. CASE \E i \in 1 .. 2, t \in HeightTexts : w = [s EXCEPT !.heights[i] = t]
  <2>1. PICK i \in 1 .. 2, t \in HeightTexts : w = [s EXCEPT !.heights[i] = t] BY <1>4
  <2>2. t \in Nat BY DEF TextsAssumption
  <2>3. [s.heights EXCEPT ![i] = t] \in [1 .. 2 -> Nat] BY <1>1, <2>2
  <2> QED BY <2>1, <2>3, <1>1 DEF PrefForm
<1>5. CASE w = [s EXCEPT !.heights = <<Empty, Empty>>]
  <2>1. <<Empty, Empty>> \in [1 .. 2 -> Nat] BY DEF Empty
  <2> QED BY <1>1, <1>5, <2>1 DEF PrefForm
<1>6. CASE \E r \in SUBSET Places : w = [s EXCEPT !.regions = r] BY <1>1, <1>6 DEF PrefForm
<1>7. CASE w = [s EXCEPT !.regions = {}, !.strict = @ \ {"regions"}] BY <1>1, <1>7 DEF PrefForm
<1>8. CASE \E k \in Conditions : w = [s EXCEPT !.strict = Toggled(@, k)]
  <2>1. PICK k \in Conditions : w = [s EXCEPT !.strict = Toggled(@, k)] BY <1>8
  <2>2. Toggled(s.strict, k) \in SUBSET Kinds BY <1>1 DEF Toggled, Kinds
  <2> QED BY <1>1, <2>1, <2>2 DEF PrefForm
<1> QED BY <1>3, <1>4, <1>5, <1>6, <1>7, <1>8 DEF PreferencesInputs

LEMMA BasicsInputs ==
    ASSUME TextsAssumption, NEW v \in BasicsForm, NEW w \in StartInputs(v) PROVE w \in BasicsForm
<1> DEFINE Renamed == \E n \in Nicknames : w = [v EXCEPT !.units = n[1], !.chars = n[2]]
           Resized == \E h \in HeightTexts : w = [v EXCEPT !.height = h]
           Reworded == w = [v EXCEPT !.words = IF v.words < MaxKeywords THEN v.words + 1 ELSE v.words]
           Redated == \E y \in {1949, 1990} : w = [v EXCEPT !.birth = y]
           Changed == \E x \in {"male", "female"} : w = [v EXCEPT !.sex = x]
<1>1. CASE Renamed
  <2>1. PICK n \in Nicknames : w = [v EXCEPT !.units = n[1], !.chars = n[2]] BY <1>1
  <2>2. n[1] \in {1, 2} /\ n[2] \in {1, 2} BY DEF Nicknames
  <2>3. PICK k \in {1, 2}, l \in {1, 2} : k = n[1] /\ l = n[2] BY <2>2
  <2>4. w = [v EXCEPT !.units = k, !.chars = l] BY <2>1, <2>3
  <2> QED BY <2>4 DEF BasicsForm
<1>2. CASE Resized BY <1>2 DEF BasicsForm, TextsAssumption
<1>3. CASE Reworded
  <2>1. v.words \in 0 .. 3 BY DEF BasicsForm, MaxKeywords
  <2>2. PICK n : n = IF v.words < 3 THEN v.words + 1 ELSE v.words OBVIOUS
  <2>3. n \in 0 .. 3 BY <2>1, <2>2
  <2>4. w = [v EXCEPT !.words = n] BY <1>3, <2>2 DEF MaxKeywords
  <2> QED BY <2>3, <2>4 DEF BasicsForm, MaxKeywords
<1>4. CASE Redated
  <2>1. PICK y \in Nat : w = [v EXCEPT !.birth = y] BY <1>4
  <2> QED BY <2>1 DEF BasicsForm
<1>5. CASE Changed
  <2>1. PICK x \in Sexes : w = [v EXCEPT !.sex = x] BY <1>5 DEF Sexes
  <2> QED BY <2>1 DEF BasicsForm
<1>6. w \in ProfileInputs(v) => Renamed \/ Resized \/ Reworded BY Zenon DEF ProfileInputs
<1>7. w \in ProfileInputs(v) \/ Redated \/ Changed BY DEF StartInputs
<1> HIDE DEF Renamed, Resized, Reworded, Redated, Changed
<1> QED BY <1>1, <1>2, <1>3, <1>4, <1>5, <1>6, <1>7

LEMMA ValueInputs == ASSUME NEW v \in ValuesForm, NEW w \in ValuesInputs(v) PROVE w \in ValuesForm
<1>1. CASE \E a \in ValueAxes, n \in {1, 5} : w = [v EXCEPT !.axes[a] = n]
  <2>1. PICK a \in ValueAxes, n \in {1, 5} : w = [v EXCEPT !.axes[a] = n] BY <1>1
  <2> n \in Nat OBVIOUS
  <2>2. v.axes \in [ValueAxes -> Nat] BY DEF ValuesForm
  <2>3. [v.axes EXCEPT ![a] = n] \in [ValueAxes -> Nat] BY <2>2
  <2> QED BY <2>1, <2>3 DEF ValuesForm
<1>2. CASE \E p \in {"few", "several"} : w = [v EXCEPT !.past = p] BY <1>2 DEF ValuesForm
<1>3. CASE w \in PastInputs(v)
  <2>1. CASE w = [v EXCEPT !.share = ~@] BY <2>1 DEF ValuesForm
  <2>2. CASE w = [v EXCEPT !.past = "", !.share = FALSE] BY <2>2 DEF ValuesForm
  <2>3. w = [v EXCEPT !.share = ~@] \/ w = [v EXCEPT !.past = "", !.share = FALSE] BY <1>3, Zenon DEF PastInputs
  <2> QED BY <2>1, <2>2, <2>3
<1> QED BY <1>1, <1>2, <1>3 DEF ValuesInputs

LEMMA InputsFit ==
    ASSUME TextsAssumption, NEW page \in EditForms \ {"intro"}, NEW v \in FormsOf(page), NEW w \in Inputs(page, v)
    PROVE  w \in FormsOf(page)
<1>1. CASE page = "start" BY <1>1, BasicsInputs DEF FormsOf, Inputs
<1>2. CASE page = "profile"
  <2>1. w \in StartInputs(v) BY <1>2 DEF Inputs, StartInputs
  <2> QED BY <1>2, <2>1, BasicsInputs DEF FormsOf
<1>3. CASE page = "preferences" BY <1>3, PrefInputs DEF FormsOf, Inputs
<1>4. CASE page = "values" BY <1>4, ValueInputs DEF FormsOf, Inputs
<1> QED BY <1>1, <1>2, <1>3, <1>4 DEF EditForms

-----------------------------------------------------------------------------
\* What the server stores.

\* A form of the preferences that is sent fits the columns.
LEMMA PreferencesFit ==
    ASSUME NEW s \in PrefForm, ValidatePreferences(s) PROVE SettingsAllowed(SettingsPayload(s))
<1>1. PICK r : r = SettingsPayload(s) OBVIOUS
<1>2. \A i \in 1 .. 2 : r.ages[i] = Num(s.ages[i]) /\ r.heights[i] = Num(s.heights[i])
   BY <1>1 DEF SettingsPayload
<1>3. \A i \in 1 .. 2 : Num(s.ages[i]) \in SUBSET Nat /\ Num(s.heights[i]) \in SUBSET Nat
   BY NumTyped DEF PrefForm
<1>4. \A i \in 1 .. 2 : \A n \in Num(s.ages[i]) : 19 <= n /\ n <= 80 BY DEF ValidatePreferences, InRange
<1>5. \A i \in 1 .. 2 : \A n \in Num(s.heights[i]) : 130 <= n /\ n <= 220 BY DEF ValidatePreferences, InRange
<1>6. \A n \in Num(s.ages[1]), k \in Num(s.ages[2]) : n <= k BY DEF ValidatePreferences, InRange
<1>7. \A n \in Num(s.heights[1]), k \in Num(s.heights[2]) : n <= k BY DEF ValidatePreferences, InRange
<1>8. \A i \in 1 .. 2 : (\A n \in r.ages[i] : n \in 19 .. 80) /\ (\A n \in r.heights[i] : n \in 130 .. 220)
   BY <1>2, <1>3, <1>4, <1>5
<1>9. /\ \A n \in r.ages[1], k \in r.ages[2] : n <= k
      /\ \A n \in r.heights[1], k \in r.heights[2] : n <= k
   BY <1>2, <1>6, <1>7
<1> QED BY <1>1, <1>8, <1>9 DEF SettingsAllowed

LEMMA ProfileFits ==
    ASSUME NEW v \in BasicsForm, ProfileValid(v) PROVE ProfileAllowed(v) \/ (v.units >= 2 /\ v.chars < 2)
<1>1. PICK h \in Num(v.height) : h \in 130 .. 220 BY DEF ProfileValid
<1>2. h = v.height BY <1>1 DEF Num
<1>3. v.chars \in {0, 1, 2} BY DEF BasicsForm
<1>4. v.units >= 2 BY DEF ProfileValid
<1>5. v.chars < 2 \/ v.chars \in 2 .. 12 BY <1>3
<1> QED BY <1>1, <1>2, <1>4, <1>5 DEF ProfileAllowed

LEMMA PageFits == ASSUME NEW acc, AccountOK(acc) PROVE acc.page \in EditForms BY DEF AccountOK, AccountRec

\* Only what a page stores changes.
LEMMA ProfileKeeps ==
    ASSUME NEW acc, AccountOK(acc), NEW b \in SUBSET BasicsForm, b # {}, \A x, y \in b : x = y,
           \A basic \in b : basic.birth = acc.facts.birth /\ basic.sex = acc.facts.sex,
           NEW a, a = [acc EXCEPT !.profile = b]
    PROVE  AccountOK(a) /\ a.page = acc.page
<1>1. PICK I : acc \in AccountRec(I) BY DEF AccountOK
<1>2. a \in AccountRec(I) BY <1>1 DEF AccountRec
<1>3. /\ a.settings = acc.settings /\ a.must = acc.must /\ a.profile = b /\ a.values = acc.values
      /\ a.facts = acc.facts /\ a.page = acc.page /\ a.refused = acc.refused
   BY <1>1 DEF AccountRec
<1> QED BY <1>2, <1>3 DEF AccountOK, Factual, RefusedShort

LEMMA ValuesKeep ==
    ASSUME NEW acc, AccountOK(acc), NEW v \in ValuesForm, v.share => v.past # "",
           NEW a, a = [acc EXCEPT !.values = v]
    PROVE  AccountOK(a) /\ a.page = acc.page
<1>1. PICK I : acc \in AccountRec(I) BY DEF AccountOK
<1>2. a \in AccountRec(I) BY <1>1 DEF AccountRec
<1>3. /\ a.settings = acc.settings /\ a.must = acc.must /\ a.profile = acc.profile /\ a.values = v
      /\ a.facts = acc.facts /\ a.page = acc.page /\ a.refused = acc.refused
   BY <1>1 DEF AccountRec
<1> QED BY <1>2, <1>3 DEF AccountOK, Factual, RefusedShort

LEMMA IntroKeeps ==
    ASSUME NEW acc, AccountOK(acc), NEW x
    PROVE  AccountOK([acc EXCEPT !.intro = x]) /\ [acc EXCEPT !.intro = x].page = acc.page
<1>1. PICK I : acc \in AccountRec(I) BY DEF AccountOK
<1>2. [acc EXCEPT !.intro = x] \in AccountRec({x}) BY <1>1 DEF AccountRec
<1> QED BY <1>1, <1>2 DEF AccountOK, AccountRec, Factual, RefusedShort

LEMMA LoggedKeeps ==
    ASSUME NEW acc, NEW a, AccountOK(a), NEW kind \in EventKinds
    PROVE  AccountOK(Logged(acc, a, kind)) /\ Logged(acc, a, kind).page = a.page
<1>1. PICK I : a \in AccountRec(I) BY DEF AccountOK
<1>2. PICK l : l = a.log \cup {kind} OBVIOUS
<1>3. [a EXCEPT !.log = @ \cup {kind}] = [a EXCEPT !.log = l] BY <1>2
<1>4. [a EXCEPT !.log = l] \in AccountRec(I) BY <1>1, <1>2 DEF AccountRec
<1>5. AccountOK([a EXCEPT !.log = l]) /\ [a EXCEPT !.log = l].page = a.page
   BY <1>1, <1>4 DEF AccountOK, AccountRec, Factual, RefusedShort
<1> QED BY <1>3, <1>5 DEF Logged

\* A form that is sent has the shape of its page and lets itself be sent.
Submittable(page, v) == page # "intro" => v \in FormsOf(page) /\ Valid(page, v)

LEMMA PreferencesStored ==
    ASSUME NEW acc, AccountOK(acc), NEW v \in PrefForm, ValidatePreferences(v),
           NEW after, after = ServerStores(acc, "preferences", v)
    PROVE  after # {} /\ \A a \in after : AccountOK(a) /\ a.page = acc.page
<1>1. PICK I : acc \in AccountRec(I) BY DEF AccountOK
<1>2. PICK r \in SettingsRec : r = SettingsPayload(v) BY PayloadTyped
<1>3. PICK m \in SUBSET ConditionRec : m = DealbreakerPayload(v) BY ConditionsTyped
<1>4. Agrees(r, m) BY <1>2, <1>3, StoredAgrees
<1>5. acc.log \cup {"preferences_updated"} \in SUBSET EventKinds BY <1>1 DEF AccountRec, EventKinds
<1>6. PICK l \in SUBSET EventKinds : l = acc.log \cup {"preferences_updated"} BY <1>5
<1>7. SettingsAllowed(r) BY <1>2, PreferencesFit
<1>8. PICK a : a = [acc EXCEPT !.settings = r, !.must = m, !.log = l] OBVIOUS
<1>9. PreferencesSave(acc, v) = a
  <2>1. KeptConditions(acc.must, m) = {} BY DEF KeptConditions
  <2>2. m \cup KeptConditions(acc.must, m) = m BY <2>1
  <2> QED BY <1>2, <1>3, <1>6, <1>8, <2>2 DEF PreferencesSave
<1>10. after = {a} BY <1>2, <1>7, <1>9 DEF ServerStores
<1>11. a \in AccountRec(I) BY <1>1, <1>8 DEF AccountRec
<1>12. /\ a.settings = r /\ a.must = m /\ a.profile = acc.profile /\ a.values = acc.values
       /\ a.facts = acc.facts /\ a.page = acc.page /\ a.refused = acc.refused
   BY <1>1, <1>8 DEF AccountRec
<1>13. AccountOK(a) BY <1>4, <1>11, <1>12 DEF AccountOK, Factual, RefusedShort
<1> QED BY <1>10, <1>12, <1>13

\* The row of the basic facts is replaced by one with the facts of the identity.
LEMMA RowReplaced ==
    ASSUME NEW acc, AccountOK(acc), NEW v \in BasicsForm, v.birth = acc.facts.birth, v.sex = acc.facts.sex
    PROVE  AccountOK([acc EXCEPT !.profile = {v}]) /\ [acc EXCEPT !.profile = {v}].page = acc.page
<1>1. PICK b : b = {v} OBVIOUS
<1>2. /\ b \in SUBSET BasicsForm /\ b # {} /\ \A x, y \in b : x = y
      /\ \A basic \in b : basic.birth = acc.facts.birth /\ basic.sex = acc.facts.sex
   BY <1>1
<1> QED BY <1>1, <1>2, ProfileKeeps

LEMMA StartStored ==
    ASSUME NEW acc, AccountOK(acc), NEW v \in BasicsForm,
           NEW after, after = ServerStores(acc, "start", v)
    PROVE  \A a \in after : AccountOK(a) /\ a.page = acc.page
<1> SUFFICES ASSUME NEW a \in after PROVE AccountOK(a) /\ a.page = acc.page OBVIOUS
<1>1. a = [acc EXCEPT !.profile = {v}] /\ GuardProfile(acc, v) BY DEF ServerStores
<1>2. acc.facts.birth \in Nat \ {0} /\ acc.facts.sex \in {"male", "female"} BY DEF AccountOK, AccountRec, FactsRec
<1>3. v.birth = acc.facts.birth /\ v.sex = acc.facts.sex BY <1>1, <1>2 DEF GuardProfile
<1> QED BY <1>1, <1>3, RowReplaced

LEMMA ProfileStored ==
    ASSUME NEW acc, AccountOK(acc), acc.page = "profile", NEW v \in BasicsForm, ProfileValid(v),
           NEW after, after = ServerStores(acc, "profile", v)
    PROVE  /\ after # {} \/ (v.units >= 2 /\ v.chars < 2)
           /\ \A a \in after : AccountOK(a) /\ a.page = acc.page
<1> DEFINE updated(old) == [v EXCEPT !.birth = old.birth, !.sex = old.sex]
           stored(old) == [acc EXCEPT !.profile = {updated(old)}]
<1>1. PICK I : acc \in AccountRec(I) BY DEF AccountOK
<1>2. /\ acc.profile # {} /\ acc.profile \in SUBSET BasicsForm /\ \A x, y \in acc.profile : x = y
      /\ \A basic \in acc.profile : basic.birth = acc.facts.birth /\ basic.sex = acc.facts.sex
   BY <1>1 DEF AccountOK, AccountRec, Factual
<1>3. \A old \in acc.profile : updated(old) \in BasicsForm /\ updated(old).birth = old.birth /\ updated(old).sex = old.sex
  <2> SUFFICES ASSUME NEW old \in acc.profile
        PROVE updated(old) \in BasicsForm /\ updated(old).birth = old.birth /\ updated(old).sex = old.sex
     OBVIOUS
  <2>1. old.birth \in Nat /\ old.sex \in Sexes BY <1>2 DEF BasicsForm
  <2> QED BY <2>1 DEF BasicsForm
<1>4. \A old \in acc.profile : GuardProfile(acc, updated(old))
  <2> SUFFICES ASSUME NEW old \in acc.profile PROVE GuardProfile(acc, updated(old)) OBVIOUS
  <2>1. PICK u : u = updated(old) OBVIOUS
  <2>2. u.birth = old.birth /\ u.sex = old.sex BY <1>3, <2>1
  <2>3. u.birth = acc.facts.birth /\ u.sex = acc.facts.sex BY <1>2, <2>2
  <2>4. \A x \in acc.profile : u.birth = x.birth /\ u.sex = x.sex BY <1>2, <2>2
  <2>5. GuardProfile(acc, u) BY <2>3, <2>4 DEF GuardProfile
  <2> QED BY <2>1, <2>5
<1>5. ProfileAllowed(v) \/ (v.units >= 2 /\ v.chars < 2) BY ProfileFits
<1>6. after = {Logged(acc, stored(old), "profile_updated") :
                 old \in {x \in acc.profile : ProfileAllowed(v) /\ GuardProfile(acc, updated(x))}}
   BY DEF ServerStores
<1>7. \A old \in acc.profile : AccountOK(stored(old)) /\ stored(old).page = acc.page
  <2> SUFFICES ASSUME NEW old \in acc.profile PROVE AccountOK(stored(old)) /\ stored(old).page = acc.page OBVIOUS
  <2>1. PICK u \in BasicsForm : u = updated(old) /\ u.birth = old.birth /\ u.sex = old.sex BY <1>3
  <2>2. u.birth = acc.facts.birth /\ u.sex = acc.facts.sex BY <1>2, <2>1
  <2>3. AccountOK([acc EXCEPT !.profile = {u}]) /\ [acc EXCEPT !.profile = {u}].page = acc.page
     BY <2>2, RowReplaced
  <2> QED BY <2>1, <2>3
<1> HIDE DEF updated, stored
<1>8. \A old \in acc.profile :
        /\ AccountOK(Logged(acc, stored(old), "profile_updated"))
        /\ Logged(acc, stored(old), "profile_updated").page = acc.page
   BY <1>7, LoggedKeeps DEF EventKinds
<1> QED BY <1>2, <1>4, <1>5, <1>6, <1>8

LEMMA ValuesStored ==
    ASSUME NEW acc, AccountOK(acc), NEW v \in ValuesForm,
           NEW after, after = ServerStores(acc, "values", v)
    PROVE  after # {} /\ \A a \in after : AccountOK(a) /\ a.page = acc.page
<1>1. PICK I : acc \in AccountRec(I) BY DEF AccountOK
<1>2. PICK x : x = ValuesPayload(v) OBVIOUS
<1>3. x \in ValuesForm BY <1>2 DEF ValuesForm, ValuesPayload
<1>4. x.share => x.past # ""
  <2>1. x = [v EXCEPT !.share = v.past # "" /\ v.share] BY <1>2 DEF ValuesPayload
  <2>2. x.share = (v.past # "" /\ v.share) /\ x.past = v.past BY <2>1 DEF ValuesForm
  <2> QED BY <2>2
<1>5. PICK y : y = [acc EXCEPT !.values = x] OBVIOUS
<1>6. AccountOK(y) /\ y.page = acc.page BY <1>3, <1>4, <1>5, ValuesKeep
<1>7. PICK z : z = Logged(acc, y, "values_updated") OBVIOUS
<1>8. AccountOK(z) /\ z.page = acc.page BY <1>6, <1>7, LoggedKeeps DEF EventKinds
<1>9. after = {z} BY <1>2, <1>5, <1>7 DEF ServerStores
<1> QED BY <1>8, <1>9

LEMMA IntroStored ==
    ASSUME NEW acc, AccountOK(acc), NEW v, NEW after, after = ServerStores(acc, "intro", v)
    PROVE  after # {} /\ \A a \in after : AccountOK(a) /\ a.page = acc.page
<1>1. PICK x : x = [v EXCEPT !.answers = NormalizePublicAnswers(@)] OBVIOUS
<1>2. PICK y : y = [acc EXCEPT !.intro = x] OBVIOUS
<1>3. AccountOK(y) /\ y.page = acc.page BY <1>2, IntroKeeps
<1>4. PICK z : z = Logged(acc, y, "profile_updated") OBVIOUS
<1>5. AccountOK(z) /\ z.page = acc.page BY <1>3, <1>4, LoggedKeeps DEF EventKinds
<1>6. after = {z} BY <1>1, <1>2, <1>4 DEF ServerStores
<1> QED BY <1>5, <1>6

LEMMA StoredAccount ==
    ASSUME NEW acc, AccountOK(acc), NEW v, Submittable(acc.page, v),
           NEW after, after = ServerStores(acc, acc.page, v)
    PROVE  /\ after = {} /\ acc.page # "start" =>
                acc.page = "profile" /\ v \in BasicsForm /\ v.units >= 2 /\ v.chars < 2
           /\ \A a \in after : AccountOK(a) /\ a.page = acc.page
<1>1. CASE acc.page = "start" BY <1>1, StartStored DEF Submittable, FormsOf
<1>2. CASE acc.page = "profile" BY <1>2, ProfileStored DEF Submittable, FormsOf, Valid
<1>3. CASE acc.page = "preferences" BY <1>3, PreferencesStored DEF Submittable, FormsOf, Valid
<1>4. CASE acc.page = "values" BY <1>4, ValuesStored DEF Submittable, FormsOf, Valid
<1>5. CASE acc.page = "intro" BY <1>5, IntroStored
<1> QED BY <1>1, <1>2, <1>3, <1>4, <1>5, PageFits DEF EditForms

-----------------------------------------------------------------------------
\* The devices.

LEMMA AppearFits == ASSUME NEW d, DeviceOK(d, account.page) PROVE DeviceOK(Appear(d), account.page)
<1>1. PICK F : F = FormsOf(account.page) OBVIOUS
<1>2. d \in DeviceRec(F) /\ \A c \in d.call : Valid(account.page, c.value) BY <1>1 DEF DeviceOK
<1>3. /\ [d EXCEPT !.form = {}, !.busy = FALSE] \in DeviceRec(F) /\ [d EXCEPT !.form = {}] \in DeviceRec(F)
      /\ [d EXCEPT !.form = d.data] \in DeviceRec(F)
   BY <1>2 DEF DeviceRec
<1>4. /\ [d EXCEPT !.form = {}, !.busy = FALSE].call = d.call /\ [d EXCEPT !.form = {}].call = d.call
      /\ [d EXCEPT !.form = d.data].call = d.call
   BY <1>2 DEF DeviceRec
<1>5. CASE Appear(d) = [d EXCEPT !.form = {}, !.busy = FALSE] BY <1>1, <1>2, <1>3, <1>4, <1>5 DEF DeviceOK
<1>6. CASE Appear(d) = [d EXCEPT !.form = {}] BY <1>1, <1>2, <1>3, <1>4, <1>6 DEF DeviceOK
<1>7. CASE Appear(d) = [d EXCEPT !.form = d.data] BY <1>1, <1>2, <1>3, <1>4, <1>7 DEF DeviceOK
<1>8. CASE Appear(d) = d BY <1>8
<1> QED BY <1>5, <1>6, <1>7, <1>8 DEF Appear

LEMMA AsksFits == ASSUME NEW page, NEW d, DeviceOK(d, page) PROVE DeviceOK(Asks(d), page)
<1>1. PICK F : F = FormsOf(page) OBVIOUS
<1>2. d \in DeviceRec(F) BY <1>1 DEF DeviceOK
<1>3. [NoFetch EXCEPT !.asking = TRUE] \in ReadRec(F) BY DEF NoFetch, ReadRec
<1>4. PICK n \in ReadRec(F) : n = [NoFetch EXCEPT !.asking = TRUE] BY <1>3
<1>5. PICK b \in BOOLEAN : b = (d.failed /\ d.data # {}) OBVIOUS
<1>6. Asks(d) = [d EXCEPT !.fetch = n, !.failed = b] BY <1>4, <1>5 DEF Asks
<1>7. [d EXCEPT !.fetch = n, !.failed = b] \in DeviceRec(F) /\ [d EXCEPT !.fetch = n, !.failed = b].call = d.call
   BY <1>2 DEF DeviceRec
<1> QED BY <1>1, <1>6, <1>7 DEF DeviceOK

-----------------------------------------------------------------------------
\* The steps.

\* The counters, and the entry, of an account whose rows stay.
LEMMA CountersOnly ==
    ASSUME AccountOK(account), NEW a,
           \/ \E n \in Nat : \/ a = [account EXCEPT !.reads = n] \/ a = [account EXCEPT !.broken = n]
                             \/ a = [account EXCEPT !.inputs = n] \/ a = [account EXCEPT !.saves = n]
           \/ a = [account EXCEPT !.entered = TRUE]
           \/ \E r \in SUBSET BasicsForm :
                /\ a = [account EXCEPT !.refused = r]
                /\ \A v \in r : account.page = "profile" /\ v.units >= 2 /\ v.chars < 2
    PROVE  AccountOK(a) /\ a.page = account.page
<1>1. PICK I : account \in AccountRec(I) BY DEF AccountOK
<1>2. RefusedShort(account) BY DEF AccountOK
<1>3. /\ a \in AccountRec(I)
      /\ a.settings = account.settings /\ a.must = account.must /\ a.profile = account.profile
      /\ a.values = account.values /\ a.facts = account.facts /\ a.page = account.page
      /\ RefusedShort(a)
  <2>1. CASE \E n \in Nat : \/ a = [account EXCEPT !.reads = n] \/ a = [account EXCEPT !.broken = n]
                            \/ a = [account EXCEPT !.inputs = n] \/ a = [account EXCEPT !.saves = n]
     BY <1>1, <1>2, <2>1 DEF AccountRec, RefusedShort
  <2>2. CASE a = [account EXCEPT !.entered = TRUE] BY <1>1, <1>2, <2>2 DEF AccountRec, RefusedShort
  <2>3. CASE \E r \in SUBSET BasicsForm :
                /\ a = [account EXCEPT !.refused = r]
                /\ \A v \in r : account.page = "profile" /\ v.units >= 2 /\ v.chars < 2
     BY <1>1, <2>3 DEF AccountRec, RefusedShort
  <2> QED BY <2>1, <2>2, <2>3
<1>4. Agrees(a.settings, a.must) BY <1>3 DEF AccountOK
<1>5. Factual(a) BY <1>3 DEF AccountOK, Factual
<1>6. a.values.share => a.values.past # "" BY <1>3 DEF AccountOK
<1> QED BY <1>3, <1>4, <1>5, <1>6 DEF AccountOK

LEMMA CountersTyped ==
    ASSUME AccountOK(account)
    PROVE  /\ account.reads \in Nat /\ account.broken \in Nat /\ account.inputs \in Nat /\ account.saves \in Nat
           /\ account.refused \in SUBSET BasicsForm /\ RefusedShort(account)
BY DEF AccountOK, AccountRec

LEMMA SentFits ==
    ASSUME EditKept, NEW p \in Devices, NEW c \in devices[p].call PROVE Submittable(account.page, c.value)
BY DEF EditKept, DevicesOK, DeviceOK, DeviceRec, SentRec, Submittable

LEMMA AccountStep ==
    ASSUME EditKept, EditNext PROVE AccountOK(account') /\ account'.page = account.page
<1> AccountOK(account) BY DEF EditKept
<1>1. CASE UNCHANGED account BY <1>1
<1>2. CASE Enter BY <1>2, CountersOnly DEF Enter
<1>3. CASE \E p \in Devices : OpenForm(p)
  <2>1. PICK p \in Devices : OpenForm(p) BY <1>3
  <2>2. CASE UNCHANGED account BY <2>2
  <2>3. CASE account' = [account EXCEPT !.reads = IF devices[p].data = {} THEN @ ELSE @ + 1]
    <3>1. PICK n \in Nat : n = IF devices[p].data = {} THEN account.reads ELSE account.reads + 1
       BY CountersTyped
    <3>2. account' = [account EXCEPT !.reads = n] BY <2>3, <3>1
    <3> QED BY <3>2, CountersOnly
  <2> QED BY <2>1, <2>2, <2>3 DEF OpenForm
<1>4. CASE \E p \in Devices : ReadFails(p) \/ SaveLost(p)
  <2>1. account' = [account EXCEPT !.broken = @ + 1] BY <1>4 DEF ReadFails, SaveLost
  <2>2. PICK n \in Nat : n = account.broken + 1 BY CountersTyped
  <2>3. account' = [account EXCEPT !.broken = n] BY <2>1, <2>2
  <2> QED BY <2>3, CountersOnly
<1>5. CASE \E p \in Devices : Type(p)
  <2>1. PICK n \in Nat : n = IF account.page \in {"preferences", "intro"} THEN account.inputs + 1 ELSE account.inputs
     BY CountersTyped
  <2>2. account' = [account EXCEPT !.inputs = n] BY <1>5, <2>1 DEF Type
  <2> QED BY <2>2, CountersOnly
<1>6. CASE \E p \in Devices : Submit(p)
  <2>1. account' = [account EXCEPT !.saves = @ + 1] BY <1>6 DEF Submit
  <2>2. PICK n \in Nat : n = account.saves + 1 BY CountersTyped
  <2>3. account' = [account EXCEPT !.saves = n] BY <2>1, <2>2
  <2> QED BY <2>3, CountersOnly
<1>7. CASE \E p \in Devices : Save(p)
  <2>0. PICK p \in Devices : Save(p) BY <1>7
  <2>1. PICK c \in devices[p].call :
          LET after == ServerStores(account, account.page, c.value)
          IN \/ /\ after = {}
                /\ account' = [account EXCEPT !.refused = @ \cup {v \in {c.value} : account.page # "start"}]
             \/ account' \in after
     BY <2>0 DEF Save
  <2>2. PICK after : after = ServerStores(account, account.page, c.value) OBVIOUS
  <2>3. /\ after = {} /\ account.page # "start" =>
             account.page = "profile" /\ c.value \in BasicsForm /\ c.value.units >= 2 /\ c.value.chars < 2
        /\ \A a \in after : AccountOK(a) /\ a.page = account.page
     BY <2>2, SentFits, StoredAccount
  <2>4. CASE after = {} /\ account' = [account EXCEPT !.refused = @ \cup {v \in {c.value} : account.page # "start"}]
    <3>1. PICK r : r = account.refused \cup {v \in {c.value} : account.page # "start"} OBVIOUS
    <3>2. \A v \in r : v \in account.refused \/ (v = c.value /\ account.page # "start") BY <3>1
    <3>3. r \in SUBSET BasicsForm /\ \A v \in r : account.page = "profile" /\ v.units >= 2 /\ v.chars < 2
       BY <2>3, <2>4, <3>2, CountersTyped DEF RefusedShort
    <3>4. account' = [account EXCEPT !.refused = r] BY <2>4, <3>1
    <3> QED BY <3>3, <3>4, CountersOnly
  <2>5. CASE account' \in after BY <2>3, <2>5
  <2> QED BY <2>1, <2>2, <2>4, <2>5
<1>8. CASE \E p \in Devices : Retry(p) \/ LeaveForm(p) \/ Serve(p) \/ Receive(p) \/ SaveAnswered(p)
   BY <1>8 DEF Retry, LeaveForm, Serve, Receive, SaveAnswered
<1> QED BY <1>2, <1>3, <1>4, <1>5, <1>6, <1>7, <1>8 DEF EditNext

\* One device changes.
LEMMA DeviceStep ==
    ASSUME DevicesOK, account'.page = account.page, NEW p \in Devices, NEW q, DeviceOK(q, account.page),
           devices' = [devices EXCEPT ![p] = q]
    PROVE  DevicesOK'
<1>1. PICK F : F = FormsOf(account.page) /\ F = FormsOf(account'.page) OBVIOUS
<1>2. devices \in [Devices -> DeviceRec(F)] /\ \A d \in Devices : DeviceOK(devices[d], account.page)
   BY <1>1 DEF DevicesOK
<1>3. q \in DeviceRec(F) BY <1>1 DEF DeviceOK
<1>4. devices' \in [Devices -> DeviceRec(F)] BY <1>2, <1>3
<1>5. \A d \in Devices : DeviceOK(devices'[d], account'.page) BY <1>2
<1> QED BY <1>1, <1>4, <1>5 DEF DevicesOK

LEMMA StartFits ==
    ASSUME NEW f, f.birth \in Nat, f.sex \in Sexes PROVE StartForm(f) \in BasicsForm
<1>1. PICK y \in Nat : y = f.birth OBVIOUS
<1>2. PICK x \in Sexes : x = f.sex OBVIOUS
<1>3. 0 \in {0, 1, 2} /\ 0 \in Nat /\ 2 \in 0 .. MaxKeywords BY DEF MaxKeywords
<1>4. \A b \in BOOLEAN :
        [units |-> 0, chars |-> 0, birth |-> y, sex |-> x, height |-> 0, words |-> 2, locked |-> b] \in BasicsForm
   BY <1>3 DEF BasicsForm
<1>5. StartForm(f) =
        [units |-> 0, chars |-> 0, birth |-> y, sex |-> x, height |-> 0, words |-> 2, locked |-> y # 0 /\ x # ""]
   BY <1>1, <1>2, Zenon DEF StartForm, Empty
<1>6. (y # 0 /\ x # "") \in BOOLEAN OBVIOUS
<1> QED BY <1>4, <1>5, <1>6, Zenon

LEMMA RowFits ==
    ASSUME AccountOK(account), account.page \notin {"preferences", "intro"}
    PROVE  RowOf(account.page) \in SUBSET FormsOf(account.page)
<1>1. PICK I : account \in AccountRec(I) BY DEF AccountOK
<1>2. CASE account.page = "start"
  <2>1. account.facts.birth \in Nat /\ account.facts.sex \in Sexes BY <1>1 DEF AccountRec, FactsRec, Sexes
  <2>2. PICK f : f = account.facts OBVIOUS
  <2>3. StartForm(f) \in BasicsForm BY <2>1, <2>2, StartFits
  <2> QED BY <1>2, <2>2, <2>3 DEF RowOf, FormsOf
<1>3. CASE account.page = "profile" BY <1>1, <1>3 DEF RowOf, FormsOf, AccountRec
<1>4. CASE account.page = "values" BY <1>1, <1>4 DEF RowOf, FormsOf, AccountRec
<1> QED BY <1>2, <1>3, <1>4, PageFits DEF EditForms

LEMMA UnknownFits == StartForm(Unknown) \in BasicsForm
BY StartFits DEF Unknown, Sexes

LEMMA OpenStep ==
    ASSUME DevicesOK, account'.page = account.page, NEW p \in Devices, OpenForm(p) PROVE DevicesOK'
<1>1. PICK d : d = devices[p] OBVIOUS
<1>2. DeviceOK(d, account.page) BY <1>1 DEF DevicesOK
<1>3. PICK opened : opened = [d EXCEPT !.open = TRUE] OBVIOUS
<1>4. DeviceOK(opened, account.page) BY <1>2, <1>3 DEF DeviceOK, DeviceRec
<1>5. DeviceOK(Asks(opened), account.page) BY <1>4, AsksFits
<1>6. DeviceOK(Appear(opened), account.page) /\ DeviceOK(Appear(Asks(opened)), account.page)
   BY <1>4, <1>5, AppearFits
<1>7. \/ devices' = [devices EXCEPT ![p] = Appear(opened)]
      \/ devices' = [devices EXCEPT ![p] = Appear(Asks(opened))]
   BY <1>1, <1>3 DEF OpenForm
<1> QED BY <1>6, <1>7, DeviceStep

LEMMA RetryStep ==
    ASSUME DevicesOK, account'.page = account.page, NEW p \in Devices, Retry(p) PROVE DevicesOK'
<1>1. DeviceOK(Asks(devices[p]), account.page) BY AsksFits DEF DevicesOK
<1>2. devices' = [devices EXCEPT ![p] = Asks(devices[p])] BY DEF Retry
<1> QED BY <1>1, <1>2, DeviceStep

LEMMA LeaveStep ==
    ASSUME DevicesOK, account'.page = account.page, NEW p \in Devices, LeaveForm(p) PROVE DevicesOK'
<1>1. PICK d : d = devices[p] OBVIOUS
<1>2. DeviceOK(d, account.page) BY <1>1 DEF DevicesOK
<1>3. PICK x : x = [d EXCEPT !.open = FALSE] OBVIOUS
<1>4. DeviceOK(x, account.page) BY <1>2, <1>3 DEF DeviceOK, DeviceRec
<1>5. DeviceOK(Appear(x), account.page) BY <1>4, AppearFits
<1>6. devices' = [devices EXCEPT ![p] = Appear(x)] BY <1>1, <1>3 DEF LeaveForm
<1> QED BY <1>5, <1>6, DeviceStep

LEMMA ReadTyped ==
    ASSUME NEW page, NEW F, F = FormsOf(page), NEW d, DeviceOK(d, page) PROVE d.fetch \in ReadRec(F)
BY DEF DeviceOK, DeviceRec

LEMMA ServeStep ==
    ASSUME DevicesOK, AccountOK(account), account.page # "intro", account'.page = account.page,
           NEW p \in Devices, Serve(p)
    PROVE  DevicesOK'
<1>1. PICK d : d = devices[p] OBVIOUS
<1>2. DeviceOK(d, account.page) BY <1>1 DEF DevicesOK
<1>3. PICK F : F = FormsOf(account.page) OBVIOUS
<1>4. d.fetch \in ReadRec(F) BY <1>2, <1>3, ReadTyped
<1>5. \E n \in ReadRec(F) : devices' = [devices EXCEPT ![p] = [d EXCEPT !.fetch = n]]
  <2>1. CASE account.page # "preferences" /\ devices' = [devices EXCEPT ![p].fetch = [d.fetch EXCEPT !.reply = RowOf(account.page)]]
    <3>1. PICK r \in SUBSET F : r = RowOf(account.page) BY <1>3, <2>1, RowFits
    <3>2. [d.fetch EXCEPT !.reply = r] \in ReadRec(F) BY <1>4 DEF ReadRec
    <3> QED BY <1>1, <2>1, <3>1, <3>2
  <2>2. CASE devices' = [devices EXCEPT ![p].fetch = [d.fetch EXCEPT !.settings = {account.settings}]]
    <3>1. account.settings \in SettingsRec BY DEF AccountOK, AccountRec
    <3>2. PICK r \in SUBSET SettingsRec : r = {account.settings} BY <3>1
    <3>3. [d.fetch EXCEPT !.settings = r] \in ReadRec(F) BY <1>4 DEF ReadRec
    <3> QED BY <1>1, <2>2, <3>2, <3>3
  <2>3. CASE devices' = [devices EXCEPT ![p].fetch = [d.fetch EXCEPT !.must = {account.must}]]
    <3>1. account.must \in SUBSET ConditionRec BY DEF AccountOK, AccountRec
    <3>2. PICK r \in SUBSET SUBSET ConditionRec : r = {account.must} BY <3>1
    <3>3. [d.fetch EXCEPT !.must = r] \in ReadRec(F) BY <1>4 DEF ReadRec
    <3> QED BY <1>1, <2>3, <3>2, <3>3
  <2> QED BY <1>1, <2>1, <2>2, <2>3 DEF Serve
<1>6. PICK n \in ReadRec(F) : devices' = [devices EXCEPT ![p] = [d EXCEPT !.fetch = n]] BY <1>5
<1>7. DeviceOK([d EXCEPT !.fetch = n], account.page) BY <1>2, <1>3 DEF DeviceOK, DeviceRec
<1> QED BY <1>6, <1>7, DeviceStep

LEMMA NoFetchTyped == ASSUME NEW F PROVE NoFetch \in ReadRec(F)
BY DEF NoFetch, ReadRec

LEMMA ReceiveStep ==
    ASSUME DevicesOK, account.page # "intro", account'.page = account.page, NEW p \in Devices, Receive(p)
    PROVE  DevicesOK'
<1>1. PICK d : d = devices[p] OBVIOUS
<1>2. DeviceOK(d, account.page) BY <1>1 DEF DevicesOK
<1>3. PICK F : F = FormsOf(account.page) OBVIOUS
<1>4. d.fetch \in ReadRec(F) BY <1>2, <1>3, ReadTyped
<1>5. QueryAnswer(d.fetch) \in SUBSET F
  <2>1. CASE account.page = "preferences"
    <3>1. d.fetch.settings \in SUBSET SettingsRec /\ d.fetch.must \in SUBSET SUBSET ConditionRec
       BY <1>4 DEF ReadRec
    <3>2. \A r \in d.fetch.settings, m \in d.fetch.must : StateFromRows(r, m) \in PrefForm BY <3>1, RowsGiveForm
    <3> QED BY <1>3, <2>1, <3>2 DEF QueryAnswer, FormsOf
  <2>2. CASE account.page # "preferences" BY <1>4, <2>2 DEF QueryAnswer, ReadRec
  <2> QED BY <2>1, <2>2
<1>6. PICK v \in F : devices' = [devices EXCEPT ![p] =
        Appear([d EXCEPT !.data = {v}, !.failed = FALSE, !.fetch = NoFetch])]
   BY <1>1, <1>5 DEF Receive
<1>7. PICK s \in SUBSET F : s = {v} BY <1>6
<1>8. PICK n \in ReadRec(F) : n = NoFetch BY NoFetchTyped
<1>9. PICK x : x = [d EXCEPT !.data = s, !.failed = FALSE, !.fetch = n] OBVIOUS
<1>10. DeviceOK(x, account.page) BY <1>2, <1>3, <1>9 DEF DeviceOK, DeviceRec
<1>11. DeviceOK(Appear(x), account.page) BY <1>10, AppearFits
<1>12. devices' = [devices EXCEPT ![p] = Appear(x)] BY <1>6, <1>7, <1>8, <1>9
<1> QED BY <1>11, <1>12, DeviceStep

LEMMA ReadFailsStep ==
    ASSUME DevicesOK, account'.page = account.page, NEW p \in Devices, ReadFails(p)
    PROVE  DevicesOK'
<1>1. PICK d : d = devices[p] OBVIOUS
<1>2. DeviceOK(d, account.page) BY <1>1 DEF DevicesOK
<1>3. PICK F : F = FormsOf(account.page) OBVIOUS
<1>4. CASE account.page = "start"
  <2>1. F = BasicsForm BY <1>3, <1>4 DEF FormsOf
  <2>2. PICK s \in SUBSET F : s = {StartForm(Unknown)} BY <2>1, UnknownFits
  <2>3. d.fetch \in ReadRec(F) BY <1>2, <1>3, ReadTyped
  <2>4. [d.fetch EXCEPT !.reply = s] \in ReadRec(F) BY <2>3 DEF ReadRec
  <2>5. PICK n \in ReadRec(F) : n = [d.fetch EXCEPT !.reply = s] BY <2>4
  <2>6. DeviceOK([d EXCEPT !.fetch = n], account.page) BY <1>2, <1>3 DEF DeviceOK, DeviceRec
  <2>7. devices' = [devices EXCEPT ![p] = [d EXCEPT !.fetch = n]] BY <1>1, <1>4, <2>2, <2>5 DEF ReadFails
  <2> QED BY <2>6, <2>7, DeviceStep
<1>5. CASE account.page # "start"
  <2>1. PICK n \in ReadRec(F) : n = NoFetch BY NoFetchTyped
  <2>2. PICK x : x = [d EXCEPT !.fetch = n, !.failed = TRUE] OBVIOUS
  <2>3. DeviceOK(x, account.page) BY <1>2, <1>3, <2>2 DEF DeviceOK, DeviceRec
  <2>4. DeviceOK(Appear(x), account.page) BY <2>3, AppearFits
  <2>5. devices' = [devices EXCEPT ![p] = Appear(x)] BY <1>1, <1>5, <2>1, <2>2 DEF ReadFails
  <2> QED BY <2>4, <2>5, DeviceStep
<1> QED BY <1>4, <1>5

LEMMA TypeStep ==
    ASSUME TextsAssumption, DevicesOK, AccountOK(account), account.page # "intro", account'.page = account.page,
           NEW p \in Devices, Type(p)
    PROVE  DevicesOK'
<1>1. PICK d : d = devices[p] OBVIOUS
<1>2. DeviceOK(d, account.page) BY <1>1 DEF DevicesOK
<1>3. PICK F : F = FormsOf(account.page) OBVIOUS
<1>4. d.form \in SUBSET F BY <1>2, <1>3 DEF DeviceOK, DeviceRec
<1>5. PICK v \in d.form : \E w \in Inputs(account.page, v) \ {v} : devices' = [devices EXCEPT ![p].form = {w}]
   BY <1>1 DEF Type
<1>6. PICK w \in Inputs(account.page, v) : devices' = [devices EXCEPT ![p].form = {w}] BY <1>5
<1>7. w \in F BY <1>3, <1>4, InputsFit, PageFits
<1>8. PICK s \in SUBSET F : s = {w} BY <1>7
<1>9. DeviceOK([d EXCEPT !.form = s], account.page) BY <1>2, <1>3 DEF DeviceOK, DeviceRec
<1>10. devices' = [devices EXCEPT ![p] = [d EXCEPT !.form = s]] BY <1>1, <1>6, <1>8
<1> QED BY <1>9, <1>10, DeviceStep

\* A call that may be sent.
LEMMA CallEdits ==
    ASSUME NEW page, NEW F, F = FormsOf(page), NEW d, DeviceOK(d, page), NEW b \in BOOLEAN,
           NEW v \in F, Valid(page, v), NEW said \in {"none", "saved", "failed"},
           NEW x, x = [d EXCEPT !.busy = b, !.call = {[value |-> v, answer |-> said]}]
    PROVE  DeviceOK(x, page)
<1>1. [value |-> v, answer |-> said] \in SentRec(F) BY DEF SentRec
<1>2. PICK s \in SUBSET SentRec(F) : s = {[value |-> v, answer |-> said]} BY <1>1
<1>3. \A c \in s : Valid(page, c.value) BY <1>2
<1>4. x \in DeviceRec(F) /\ x.call = s BY <1>2 DEF DeviceOK, DeviceRec
<1> QED BY <1>3, <1>4 DEF DeviceOK

LEMMA SubmitStep ==
    ASSUME DevicesOK, account'.page = account.page, NEW p \in Devices, Submit(p)
    PROVE  DevicesOK'
<1>1. PICK d : d = devices[p] OBVIOUS
<1>2. DeviceOK(d, account.page) BY <1>1 DEF DevicesOK
<1>3. PICK F : F = FormsOf(account.page) OBVIOUS
<1>4. d.form \in SUBSET F BY <1>2, <1>3 DEF DeviceOK, DeviceRec
<1>5. PICK v \in d.form :
        /\ Valid(account.page, v)
        /\ \/ devices' = [devices EXCEPT ![p] = Appear([d EXCEPT !.open = FALSE])]
           \/ devices' = [devices EXCEPT ![p] = [d EXCEPT !.busy = TRUE, !.call = {[value |-> v, answer |-> "none"]}]]
   BY <1>1 DEF Submit
<1>6. CASE devices' = [devices EXCEPT ![p] = Appear([d EXCEPT !.open = FALSE])]
  <2>1. PICK x : x = [d EXCEPT !.open = FALSE] OBVIOUS
  <2>2. DeviceOK(x, account.page) BY <1>2, <2>1 DEF DeviceOK, DeviceRec
  <2>3. DeviceOK(Appear(x), account.page) BY <2>2, AppearFits
  <2>4. devices' = [devices EXCEPT ![p] = Appear(x)] BY <1>6, <2>1
  <2> QED BY <2>3, <2>4, DeviceStep
<1>7. CASE devices' = [devices EXCEPT ![p] = [d EXCEPT !.busy = TRUE, !.call = {[value |-> v, answer |-> "none"]}]]
  <2>1. PICK x : x = [d EXCEPT !.busy = TRUE, !.call = {[value |-> v, answer |-> "none"]}] OBVIOUS
  <2>2. v \in F /\ Valid(account.page, v) BY <1>4, <1>5
  <2>3. DeviceOK(x, account.page) BY <1>2, <1>3, <2>1, <2>2, CallEdits
  <2>4. devices' = [devices EXCEPT ![p] = x] BY <1>7, <2>1
  <2> QED BY <2>3, <2>4, DeviceStep
<1> QED BY <1>5, <1>6, <1>7

\* The call of a device is answered, or its answer is lost.
LEMMA SaveStep ==
    ASSUME DevicesOK, account'.page = account.page, NEW p \in Devices, Save(p) \/ SaveLost(p)
    PROVE  DevicesOK'
<1>1. PICK d : d = devices[p] OBVIOUS
<1>2. DeviceOK(d, account.page) BY <1>1 DEF DevicesOK
<1>3. PICK F : F = FormsOf(account.page) OBVIOUS
<1>4. PICK c \in d.call, said \in {"saved", "failed"} :
        devices' = [devices EXCEPT ![p].call = {[c EXCEPT !.answer = said]}]
   BY <1>1 DEF Save, SaveLost
<1>5. c \in SentRec(F) /\ Valid(account.page, c.value) BY <1>2, <1>3 DEF DeviceOK, DeviceRec
<1>6. [c EXCEPT !.answer = said] \in SentRec(F) /\ [c EXCEPT !.answer = said].value = c.value BY <1>5 DEF SentRec
<1>7. PICK s \in SUBSET SentRec(F) : s = {[c EXCEPT !.answer = said]} BY <1>6
<1>8. \A e \in s : Valid(account.page, e.value) BY <1>5, <1>6, <1>7
<1>9. PICK x : x = [d EXCEPT !.call = s] OBVIOUS
<1>10. x \in DeviceRec(F) /\ x.call = s BY <1>2, <1>3, <1>9 DEF DeviceOK, DeviceRec
<1>11. DeviceOK(x, account.page) BY <1>3, <1>8, <1>10 DEF DeviceOK
<1>12. devices' = [devices EXCEPT ![p] = x] BY <1>1, <1>4, <1>7, <1>9
<1> QED BY <1>11, <1>12, DeviceStep

LEMMA AnsweredStep ==
    ASSUME DevicesOK, account'.page = account.page, NEW p \in Devices, SaveAnswered(p)
    PROVE  DevicesOK'
<1>1. PICK d : d = devices[p] OBVIOUS
<1>2. DeviceOK(d, account.page) BY <1>1 DEF DevicesOK
<1>3. PICK e : e = IF d.open /\ account.page # "start" THEN Asks(d) ELSE d OBVIOUS
<1>4. DeviceOK(e, account.page) BY <1>2, <1>3, AsksFits
<1>5. \/ devices' = [devices EXCEPT ![p] = Appear([e EXCEPT !.call = {}, !.open = FALSE])]
      \/ devices' = [devices EXCEPT ![p] = [d EXCEPT !.call = {}, !.busy = FALSE]]
   BY <1>1, <1>3 DEF SaveAnswered
<1>6. CASE devices' = [devices EXCEPT ![p] = Appear([e EXCEPT !.call = {}, !.open = FALSE])]
  <2>1. PICK x : x = [e EXCEPT !.call = {}, !.open = FALSE] OBVIOUS
  <2>2. DeviceOK(x, account.page) BY <1>4, <2>1 DEF DeviceOK, DeviceRec
  <2>3. DeviceOK(Appear(x), account.page) BY <2>2, AppearFits
  <2>4. devices' = [devices EXCEPT ![p] = Appear(x)] BY <1>6, <2>1
  <2> QED BY <2>3, <2>4, DeviceStep
<1>7. CASE devices' = [devices EXCEPT ![p] = [d EXCEPT !.call = {}, !.busy = FALSE]]
  <2>1. PICK x : x = [d EXCEPT !.call = {}, !.busy = FALSE] OBVIOUS
  <2>2. DeviceOK(x, account.page) BY <1>2, <2>1 DEF DeviceOK, DeviceRec
  <2>3. devices' = [devices EXCEPT ![p] = x] BY <1>7, <2>1
  <2> QED BY <2>2, <2>3, DeviceStep
<1> QED BY <1>5, <1>6, <1>7

LEMMA DevicesStep ==
    ASSUME TextsAssumption, DevicesOK, AccountOK(account), account.page # "intro", account'.page = account.page, EditNext
    PROVE  DevicesOK'
<1>1. CASE Enter BY <1>1 DEF Enter, DevicesOK
<1>2. CASE \E p \in Devices : OpenForm(p) BY <1>2, OpenStep
<1>3. CASE \E p \in Devices : Retry(p) BY <1>3, RetryStep
<1>4. CASE \E p \in Devices : LeaveForm(p) BY <1>4, LeaveStep
<1>5. CASE \E p \in Devices : Serve(p) BY <1>5, ServeStep
<1>6. CASE \E p \in Devices : Receive(p) BY <1>6, ReceiveStep
<1>7. CASE \E p \in Devices : ReadFails(p) BY <1>7, ReadFailsStep
<1>8. CASE \E p \in Devices : Type(p) BY <1>8, TypeStep
<1>9. CASE \E p \in Devices : Submit(p) BY <1>9, SubmitStep
<1>10. CASE \E p \in Devices : Save(p) \/ SaveLost(p) BY <1>10, SaveStep
<1>11. CASE \E p \in Devices : SaveAnswered(p) BY <1>11, AnsweredStep
<1> QED BY <1>1, <1>2, <1>3, <1>4, <1>5, <1>6, <1>7, <1>8, <1>9, <1>10, <1>11 DEF EditNext

\* The first rows of the preferences are those of a form.
LEMMA FirstRows ==
    Agrees([ages |-> <<{19}, {}>>, heights |-> NoAges, regions |-> {}], {Condition("age_range", <<{19}, {}>>, {})})
<1>1. PICK s : s = [ages |-> <<19, Empty>>, heights |-> <<Empty, Empty>>, regions |-> {}, strict |-> {"age_range"}]
   OBVIOUS
<1>2. s \in PrefForm
  <2>1. <<19, Empty>> \in [1 .. 2 -> Nat] /\ <<Empty, Empty>> \in [1 .. 2 -> Nat] BY DEF Empty
  <2> QED BY <1>1, <2>1 DEF PrefForm, Kinds
<1>3. Num(19) = {19} /\ Num(Empty) = {} BY DEF Num, Empty, Bad
<1>4. [i \in 1 .. 2 |-> Num(s.ages[i])] = <<{19}, {}>>
  <2>1. s.ages = <<19, Empty>> BY <1>1
  <2>2. Num(s.ages[1]) = {19} /\ Num(s.ages[2]) = {} BY <1>3, <2>1
  <2> QED BY <2>2
<1>5. [i \in 1 .. 2 |-> Num(s.heights[i])] = NoAges
  <2>1. s.heights = <<Empty, Empty>> BY <1>1
  <2>2. \A i \in 1 .. 2 : Num(s.heights[i]) = {} BY <1>3, <2>1
  <2> QED BY <2>2 DEF NoAges
<1>6. PICK r : r = SettingsPayload(s) OBVIOUS
<1>7. r = [ages |-> <<{19}, {}>>, heights |-> NoAges, regions |-> {}]
   BY <1>1, <1>4, <1>5, <1>6 DEF SettingsPayload
<1>8. DealbreakerPayload(s) = {Condition("age_range", <<{19}, {}>>, {})}
  <2>1. r.ages = <<{19}, {}>> BY <1>7
  <2>2. r.ages # NoAges
    <3>1. r.ages[1] = {19} BY <2>1
    <3>2. NoAges[1] = {} BY DEF NoAges
    <3> QED BY <3>1, <3>2
  <2>3. s.strict = {"age_range"} BY <1>1
  <2>4. \A d : d \in DealbreakerPayload(s) <=> d = Condition("age_range", r.ages, {})
     BY <1>6, <2>2, <2>3, ConditionsSent
  <2> QED BY <2>1, <2>4
<1> QED BY <1>2, <1>6, <1>7, <1>8, StoredAgrees

LEMMA FirstRow ==
    [units |-> 2, chars |-> 2, birth |-> 1990, sex |-> "male", height |-> 130, words |-> 2, locked |-> TRUE] \in BasicsForm
<1>1. "male" \in Sexes BY DEF Sexes
<1> QED BY <1>1 DEF BasicsForm, MaxKeywords

LEMMA FirstFacts == [birth |-> 1990, sex |-> "male"] \in FactsRec
BY DEF FactsRec

LEMMA FirstAccount ==
    ASSUME NEW page \in EditForms, NEW entered \in BOOLEAN, NEW f \in FactsRec, NEW b \in SUBSET BasicsForm,
           NEW r \in SettingsRec, NEW m \in SUBSET ConditionRec, NEW v \in ValuesForm, NEW intro,
           NEW a, a = [page |-> page, entered |-> entered, facts |-> f, profile |-> b,
                       settings |-> r, must |-> m, values |-> v, intro |-> intro,
                       log |-> {}, refused |-> {}, inputs |-> 0, saves |-> 0, reads |-> 0, broken |-> 0]
    PROVE  /\ a \in AccountRec({intro})
           /\ a.settings = r /\ a.must = m /\ a.profile = b /\ a.facts = f
           /\ a.page = page /\ a.values = v /\ a.refused = {}
<1>1. 0 \in Nat /\ {} \in SUBSET BasicsForm /\ {} \in SUBSET EventKinds /\ intro \in {intro} OBVIOUS
<1>2. a \in AccountRec({intro}) BY <1>1, Zenon DEF AccountRec
<1> QED BY <1>2

LEMMA DevicesStart == ASSUME devices = [p \in Devices |-> Closed] PROVE DevicesOK
<1>1. PICK F : F = FormsOf(account.page) OBVIOUS
<1>2. PICK n \in ReadRec(F) : n = NoFetch BY NoFetchTyped
<1>3. PICK q : q = Closed OBVIOUS
<1>4. q \in DeviceRec(F) /\ q.call = {} BY <1>2, <1>3 DEF Closed, DeviceRec
<1> QED BY <1>1, <1>3, <1>4 DEF DevicesOK, DeviceOK

LEMMA EditStarts == ASSUME EditInit PROVE EditKept
<1> DEFINE basic == [units |-> 2, chars |-> 2, birth |-> 1990, sex |-> "male", height |-> 130, words |-> 2, locked |-> TRUE]
           rows(page) == {basic : x \in {page} \ {"start"}}
           settings == [ages |-> <<{19}, {}>>, heights |-> NoAges, regions |-> {}]
           must == {Condition("age_range", <<{19}, {}>>, {})}
           values == [axes |-> [a \in ValueAxes |-> 1], past |-> "", share |-> FALSE]
           intro == [goal |-> "serious", answers |-> [p \in Range(Prompts) |->
                       IF p = "day_off" THEN <<"x">> ELSE << >>]]
           facts == [birth |-> 1990, sex |-> "male"]
           first(page, entered) ==
             [page |-> page, entered |-> entered, facts |-> facts, profile |-> rows(page),
              settings |-> settings, must |-> must, values |-> values, intro |-> intro,
              log |-> {}, refused |-> {}, inputs |-> 0, saves |-> 0, reads |-> 0, broken |-> 0]
<1>1. PICK page \in EditForms : account = first(page, page # "start") BY Zenon DEF EditInit
<1>2. devices = [p \in Devices |-> Closed] BY Zenon DEF EditInit
<1>3. NoAges \in [1 .. 2 -> SUBSET Nat] /\ <<{19}, {}>> \in [1 .. 2 -> SUBSET Nat] BY DEF NoAges
<1>4. settings \in SettingsRec BY <1>3 DEF SettingsRec
<1>5. must \in SUBSET ConditionRec BY <1>3 DEF Condition, ConditionRec, Kinds
<1>6. values \in ValuesForm BY DEF ValuesForm
<1>7. ~values.share OBVIOUS
<1>8. basic \in BasicsForm BY FirstRow
<1>10. facts \in FactsRec BY FirstFacts
<1>11. basic.birth = facts.birth /\ basic.sex = facts.sex OBVIOUS
<1>9. Agrees(settings, must) BY FirstRows
<1> HIDE DEF facts, basic, settings, must, values, intro
<1>12. /\ rows(page) \in SUBSET BasicsForm /\ \A x, y \in rows(page) : x = y
       /\ page = "profile" => rows(page) # {}
       /\ \A x \in rows(page) : x.birth = facts.birth /\ x.sex = facts.sex
   BY <1>8, <1>11
<1> HIDE DEF rows
<1>13. (page # "start") \in BOOLEAN OBVIOUS
<1>14. /\ account \in AccountRec({intro})
       /\ account.settings = settings /\ account.must = must /\ account.profile = rows(page)
       /\ account.facts = facts /\ account.page = page /\ account.values = values /\ account.refused = {}
  <2> SUFFICES ASSUME NEW e \in BOOLEAN, NEW a, a = first(page, e)
        PROVE /\ a \in AccountRec({intro})
              /\ a.settings = settings /\ a.must = must /\ a.profile = rows(page)
              /\ a.facts = facts /\ a.page = page /\ a.values = values /\ a.refused = {}
     BY <1>1, <1>13, Zenon
  <2>1. a = [page |-> page, entered |-> e, facts |-> facts, profile |-> rows(page), settings |-> settings,
             must |-> must, values |-> values, intro |-> intro,
             log |-> {}, refused |-> {}, inputs |-> 0, saves |-> 0, reads |-> 0, broken |-> 0]
     OBVIOUS
  <2>2. rows(page) \in SUBSET BasicsForm BY <1>12
  <2> HIDE DEF first
  <2> QED BY <1>4, <1>5, <1>6, <1>10, <2>1, <2>2, FirstAccount
<1>15. AccountOK(account) BY <1>7, <1>9, <1>12, <1>14 DEF AccountOK, Factual, RefusedShort
<1> QED BY <1>2, <1>15, DevicesStart DEF EditKept

\* EditInv but for the public answers.
Settled ==
    /\ MustHavesAgree /\ ValidIsAccepted /\ RoundTrip /\ FactsStay
    /\ account.values.share => account.values.past # ""
    /\ \A basic \in account.profile : basic.words <= MaxKeywords

\* What is stored of the preferences belongs together and gives the form it came
\* from, a form of the settings that lets itself be sent is refused for nothing but
\* a nickname of one character, the facts are those of the identity, there are no more keywords than may be, and only an answer that
\* exists is shared (preferencesCore.ts:72 and 123, 0024:59-94 and 136-249), for
\* any devices, texts, places and conditions and any calls and answers that are lost.
THEOREM SettingsStand == EditSpec => []Settled
<1> USE TextsAssumption
<1>1. EditInit => EditKept BY EditStarts
<1>2. EditKept /\ [EditNext]_profileEdit => EditKept'
  <2> SUFFICES ASSUME EditKept, [EditNext]_profileEdit PROVE EditKept' OBVIOUS
  <2>1. CASE UNCHANGED profileEdit BY <2>1 DEF profileEdit, EditKept, DevicesOK
  <2>2. CASE EditNext
    <3>1. AccountOK(account') /\ account'.page = account.page BY <2>2, AccountStep
    <3>2. account.page # "intro" => DevicesOK' BY <2>2, <3>1, DevicesStep DEF EditKept
    <3> QED BY <3>1, <3>2 DEF EditKept
  <2> QED BY <2>1, <2>2
<1>3. EditKept => Settled
  <2> SUFFICES ASSUME EditKept PROVE Settled OBVIOUS
  <2>1. MustHavesAgree /\ RoundTrip BY DEF EditKept, AccountOK, Agrees, MustHavesAgree, RoundTrip
  <2>2. ValidIsAccepted /\ FactsStay BY DEF EditKept, AccountOK, Factual, RefusedShort, ValidIsAccepted, FactsStay
  <2>3. account.values.share => account.values.past # "" BY DEF EditKept, AccountOK
  <2>4. \A basic \in account.profile : basic.words <= MaxKeywords
    <3>1. account.profile \in SUBSET BasicsForm BY DEF EditKept, AccountOK, AccountRec
    <3> QED BY <3>1 DEF BasicsForm, MaxKeywords
  <2> QED BY <2>1, <2>2, <2>3, <2>4 DEF Settled
<1> QED BY <1>1, <1>2, <1>3, PTL DEF EditSpec
=============================================================================
