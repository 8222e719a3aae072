---------------------------- MODULE AccountProofs ----------------------------
(***************************************************************************)
(* Proofs about users.status for any set of concurrent requests, any set   *)
(* of allowed operations and any grace; and about the erasure of an        *)
(* account for any number of workers, sessions and faults.                 *)
(***************************************************************************)
EXTENDS AccountPurge, TLAPS

\* What the two triggers make of a legal account for a legal new status.
LEMMA TriggersTyped ==
    ASSUME StatusTypeOK, NEW st \in Statuses
    PROVE  TrackDeletedAt(st) \in Ages /\ SyncIdentityBan(st) \in BOOLEAN
  <1>1. TrackDeletedAt(st) \in Ages
    BY GraceAssumption DEF StatusTypeOK, TrackDeletedAt, Ages, Null
  <1>2. CASE st = "banned" /\ status # "banned"
    <2>1. SyncIdentityBan(st) = TRUE
      BY <1>2 DEF SyncIdentityBan
    <2> QED
      BY <1>1, <2>1
  <1>3. CASE st = "active" /\ status = "banned"
    <2>1. SyncIdentityBan(st) = FALSE
      BY <1>3 DEF SyncIdentityBan
    <2> QED
      BY <1>1, <2>1
  <1>4. CASE ~(st = "banned" /\ status # "banned") /\ ~(st = "active" /\ status = "banned")
    <2>1. SyncIdentityBan(st) = idBanned
      BY <1>4 DEF SyncIdentityBan
    <2> QED
      BY <1>1, <2>1 DEF StatusTypeOK
  <1> QED
    BY <1>2, <1>3, <1>4

\* A write of the status keeps the types of what it writes and leaves a banned
\* account flagged.
LEMMA SetStatusSafe ==
    ASSUME StatusTypeOK, BanReachesIdentity, NEW st \in Statuses, SetStatus(st)
    PROVE  /\ status' \in Statuses /\ deletedAge' \in Ages /\ idBanned' \in BOOLEAN
           /\ BanReachesIdentity'
  <1>1. status' = st /\ deletedAge' = TrackDeletedAt(st) /\ idBanned' = SyncIdentityBan(st)
    BY DEF SetStatus
  <1>2. TrackDeletedAt(st) \in Ages /\ SyncIdentityBan(st) \in BOOLEAN
    BY TriggersTyped
  <1>3. st = "banned" => SyncIdentityBan(st)
    BY DEF SyncIdentityBan, BanReachesIdentity
  <1> QED
    BY <1>1, <1>2, <1>3 DEF BanReachesIdentity

\* Clocks stay clocks when a day passes.
LEMMA OlderTyped == ASSUME NEW age \in Ages PROVE Older(age) \in Ages
  BY GraceAssumption DEF Older, Ages, Null

StatusInv == StatusTypeOK /\ BanReachesIdentity

LEMMA StatusInit == Init => StatusInv
  BY GraceAssumption, DaysAssumption
     DEF Init, StatusInv, StatusTypeOK, BanReachesIdentity, Statuses, Ages, Null

\* The moderation RPC and the hourly job.
LEMMA ModerationStep == StatusInv /\ Moderation => StatusInv'
  <1> SUFFICES ASSUME StatusTypeOK, BanReachesIdentity, Moderation PROVE StatusInv'
    BY DEF StatusInv
  <1>1. ASSUME NEW days \in (1 .. Days) \cup {Null}, Suspend(days) PROVE StatusInv'
    <2>1. SetStatus("suspended") /\ left' \in (0 .. Days) \cup {Null}
          /\ audit' = "suspend" /\ UNCHANGED <<asked, edge>>
      BY <1>1, DaysAssumption DEF Suspend, Null
    <2> QED
      BY <2>1, SetStatusSafe DEF StatusInv, StatusTypeOK, Statuses
  <1>2. CASE Unsuspend
    <2>1. SetStatus("active") /\ left' = Null /\ audit' = "unsuspend" /\ UNCHANGED <<asked, edge>>
      BY <1>2 DEF Unsuspend
    <2> QED
      BY <2>1, SetStatusSafe DEF StatusInv, StatusTypeOK, Statuses
  <1>3. CASE Ban
    <2>1. SetStatus("banned") /\ left' = Null /\ audit' = "ban" /\ UNCHANGED <<asked, edge>>
      BY <1>3 DEF Ban
    <2> QED
      BY <2>1, SetStatusSafe DEF StatusInv, StatusTypeOK, Statuses
  <1>4. CASE Unban
    <2>1. SetStatus("active") /\ audit' = "unban" /\ UNCHANGED <<left, asked, edge>>
      BY <1>4 DEF Unban
    <2> QED
      BY <2>1, SetStatusSafe DEF StatusInv, StatusTypeOK, Statuses
  <1>5. CASE LiftExpired
    <2>1. SetStatus("active") /\ left' = Null /\ audit' = "unsuspend" /\ UNCHANGED <<asked, edge>>
      BY <1>5 DEF LiftExpired
    <2> QED
      BY <2>1, SetStatusSafe DEF StatusInv, StatusTypeOK, Statuses
  <1> QED
    BY <1>1, <1>2, <1>3, <1>4, <1>5 DEF Moderation

\* The reads and the failures of a request touch nothing but the request.
LEMMA ReadStep ==
    ASSUME StatusInv, NEW c \in Edges,
           ReadForDelete(c) \/ AdminReadForDelete(c) \/ ReadForReactivate(c) \/ EdgeFails(c)
    PROVE  StatusInv'
  <1>1. /\ UNCHANGED <<status, left, deletedAge, asked, idBanned, audit>>
        /\ \E v \in {"idle", "delete", "reactivate"} : edge' = [edge EXCEPT ![c] = v]
    BY DEF ReadForDelete, AdminReadForDelete, ReadForReactivate, EdgeFails
  <1>2. edge' \in [Edges -> {"idle", "delete", "reactivate"}]
    BY <1>1 DEF StatusInv, StatusTypeOK
  <1> QED
    BY <1>1, <1>2 DEF StatusInv, StatusTypeOK, BanReachesIdentity

\* The writes that do not look at the status again, and the one that does.
LEMMA WriteStep ==
    ASSUME StatusInv, Recover \/ \E c \in Edges : WriteDelete(c) \/ WriteReactivate(c)
    PROVE  StatusInv'
  <1> USE DEF StatusInv
  <1>1. ASSUME NEW c \in Edges, WriteDelete(c) PROVE StatusInv'
    <2>1. SetStatus("deleted") /\ asked' \in {0, asked} /\ UNCHANGED <<left, audit>>
      BY <1>1 DEF WriteDelete
    <2>2. edge' \in [Edges -> {"idle", "delete", "reactivate"}]
      BY <1>1 DEF WriteDelete, StatusTypeOK
    <2>3. asked' \in Ages
      BY <2>1, GraceAssumption DEF StatusTypeOK, Ages, Null
    <2> QED
      BY <2>1, <2>2, <2>3, SetStatusSafe DEF StatusTypeOK, Statuses
  <1>2. ASSUME NEW c \in Edges, WriteReactivate(c) PROVE StatusInv'
    <2>1. SetStatus("active") /\ asked' = Null /\ UNCHANGED <<left, audit>>
      BY <1>2 DEF WriteReactivate
    <2>2. edge' \in [Edges -> {"idle", "delete", "reactivate"}]
      BY <1>2 DEF WriteReactivate, StatusTypeOK
    <2> QED
      BY <2>1, <2>2, SetStatusSafe DEF StatusTypeOK, Statuses, Ages
  <1>3. CASE Recover
    <2>1. SetStatus("active") /\ asked' = Null /\ UNCHANGED <<left, audit, edge>>
      BY <1>3 DEF Recover
    <2> QED
      BY <2>1, SetStatusSafe DEF StatusTypeOK, Statuses, Ages
  <1> QED
    BY <1>1, <1>2, <1>3

LEMMA TickStep == StatusInv /\ Tick => StatusInv'
  <1> SUFFICES ASSUME StatusInv, Tick PROVE StatusInv'
    OBVIOUS
  <1>1. deletedAge' \in Ages /\ asked' \in Ages
    BY OlderTyped DEF Tick, StatusInv, StatusTypeOK
  <1>2. left' \in (0 .. Days) \cup {Null}
    BY DaysAssumption DEF Tick, StatusInv, StatusTypeOK, Null
  <1> QED
    BY <1>1, <1>2 DEF Tick, StatusInv, StatusTypeOK, BanReachesIdentity

\* The two invariants together are inductive.
LEMMA StatusStep == StatusInv /\ [StatusNext]_statusVars => StatusInv'
  <1> SUFFICES ASSUME StatusInv, [StatusNext]_statusVars PROVE StatusInv'
    OBVIOUS
  <1>1. CASE Moderation
    BY <1>1, ModerationStep
  <1>2. CASE Recover
    BY <1>2, WriteStep
  <1>3. CASE Tick
    BY <1>3, TickStep
  <1>4. ASSUME NEW c \in Edges, EdgeStep(c) PROVE StatusInv'
    <2>1. CASE WriteDelete(c) \/ WriteReactivate(c)
      BY <2>1, WriteStep
    <2>2. CASE ReadForDelete(c) \/ AdminReadForDelete(c) \/ ReadForReactivate(c) \/ EdgeFails(c)
      BY <2>2, ReadStep
    <2> QED
      BY <1>4, <2>1, <2>2 DEF EdgeStep
  <1>5. CASE UNCHANGED statusVars
    BY <1>5 DEF statusVars, StatusInv, StatusTypeOK, BanReachesIdentity
  <1> QED
    BY <1>1, <1>2, <1>3, <1>4, <1>5 DEF StatusNext

\* Every column and every request in progress keeps its type, whichever writers
\* of users.status overlap.
THEOREM StatusTypeCorrect == StatusSpec => []StatusTypeOK
  <1>1. StatusInv => StatusTypeOK
    BY DEF StatusInv
  <1> QED
    BY <1>1, StatusInit, StatusStep, PTL DEF StatusSpec

\* A banned account's identity carries the flag, whatever requests were between
\* their read and their write when it was banned (0009 sync_identity_ban).
THEOREM BanIsFlagged == StatusSpec => []BanReachesIdentity
  <1>1. StatusInv => BanReachesIdentity
    BY DEF StatusInv
  <1> QED
    BY <1>1, StatusInit, StatusStep, PTL DEF StatusSpec
-----------------------------------------------------------------------------
(***************************************************************************)
(* The erasure of an account.  The worker that holds the live lease sees   *)
(* the stages as the job has them; what a worker or the job calls done was *)
(* done; a complete deletion stays one.                                    *)
(***************************************************************************)

\* The stage a worker is busy with, between the claim and the release.
Busy == Stages \cup {"verify", "record"}
At(r) == CASE r.pc = "verify" -> "storage" [] r.pc = "record" -> r.stage [] OTHER -> r.pc

JobSound ==
    /\ ~job.on => job = NoJob
    /\ job.live => job.status = "running"
    /\ job.mode = "anonymize" => job.st["auth"] = "pending"
    /\ job.status = "done" => Complete(job)
    /\ job.st["db"] # "skipped"
    /\ job.st["db"] = "done" => ~idData
    /\ job.st["auth"] = "done" => status = "gone"
    /\ job.st["auth"] = "skipped" => "skip" \in Extras

WorkerSound(w) ==
    LET r == wk[w]
    IN  /\ r.pc \in Busy => ~Finished(r.st[At(r)])
        /\ r.pc \in Busy /\ At(r) = "auth" => r.claimed = "hard" /\ r.st["db"] = "done"
        /\ r.st["db"] # "skipped" /\ (r.st["db"] = "done" => ~idData)
        /\ r.pc = "record" /\ r.out = "done" =>
             (r.stage = "db" => ~idData) /\ (r.stage = "auth" => status = "gone")
        /\ r.from = "request" => r.mode = "hard"

HolderSound(w) ==
    LET r == wk[w]
    IN  /\ job.owner = w /\ r.pc \in Busy \cup {"release"} /\ r.mode = "hard" => job.mode = "hard"
        /\ job.owner = w /\ job.live /\ r.pc \in Busy =>
             r.st = job.st /\ (r.claimed = "hard" => job.mode = "hard")

DataTypeOK ==
    /\ pii \in BOOLEAN /\ idData \in BOOLEAN /\ purged \in BOOLEAN
    /\ row \in [Faces -> {"none", "opening", "open"}]
    /\ flow \in [Faces -> {"idle", "create", "attach", "store"}]
    /\ sess \in SUBSET Faces /\ objects \in SUBSET Faces

CallTypeOK ==
    /\ job \in JobType
    /\ wk \in [Workers -> WorkerType]
    /\ request \in [st : {"none", "pending", "done", "rejected"}, user : BOOLEAN]

Typed == StatusInv /\ DataTypeOK /\ CallTypeOK

Sound ==
    /\ JobSound
    /\ \A w \in Workers : WorkerSound(w) /\ HolderSound(w)
    /\ GoneLosesIdentityData

LEMMA TypedIsTypeOK == Typed => TypeOK
  BY DEF Typed, StatusInv, DataTypeOK, CallTypeOK, TypeOK

\* The stage a worker goes to is one it still needs, later than the last one;
\* nothing else about the worker changes, except that it forgets the sessions
\* it no longer has to delete.
LEMMA GoingShape ==
    ASSUME NEW r \in WorkerType, NEW n \in Nat
    PROVE  \/ Going(r, n) = [Idle EXCEPT !.pc = "release", !.from = r.from, !.mode = r.mode]
           \/ \E s \in Stages :
                /\ Order[s] > n /\ Needs(r, s)
                /\ Going(r, n) = [r EXCEPT !.pc = s, !.todo = IF n < Order["provider"] THEN @ ELSE {}]
  <1> DEFINE rest == {s \in Stages : Order[s] > n /\ Needs(r, s)}
             next == CHOOSE s \in rest : \A t \in rest : Order[s] <= Order[t]
  <1>1. CASE rest = {}
    BY <1>1 DEF Going
  <1>2. CASE rest # {}
    <2>1. \E s \in rest : \A t \in rest : Order[s] <= Order[t]
      <3>1. CASE "storage" \in rest
        BY <3>1 DEF Stages, Order
      <3>2. CASE "storage" \notin rest /\ "provider" \in rest
        BY <3>2 DEF Stages, Order
      <3>3. CASE "storage" \notin rest /\ "provider" \notin rest /\ "db" \in rest
        BY <3>3 DEF Stages, Order
      <3>4. CASE rest = {"auth"}
        BY <3>4 DEF Stages, Order
      <3> HIDE DEF rest
      <3>5. rest \subseteq Stages
        BY DEF rest
      <3> QED
        BY <1>2, <3>1, <3>2, <3>3, <3>4, <3>5 DEF Stages
    <2>2. next \in rest
      BY <2>1
    <2>3. Going(r, n) = [r EXCEPT !.pc = next, !.todo = IF n < Order["provider"] THEN @ ELSE {}]
      BY <1>2 DEF Going
    <2> HIDE DEF next
    <2> QED
      BY <2>2, <2>3
  <1> QED
    BY <1>1, <1>2

\* What Going returns, for a reader who does not need to know which stage.
LEMMA GoingFacts ==
    ASSUME NEW r \in WorkerType, NEW n \in Nat
    PROVE  \E g \in WorkerType :
             /\ g = Going(r, n) /\ g.mode = r.mode /\ g.from = r.from /\ g.out \in {r.out, "done"}
             /\ \/ g.pc = "release" /\ g.st = AllPending /\ g.todo = {}
                \/ /\ g.pc \in Stages /\ Order[g.pc] > n /\ Needs(r, g.pc)
                   /\ g.st = r.st /\ g.claimed = r.claimed
                   /\ g.todo = IF n < Order["provider"] THEN r.todo ELSE {}
  <1>1. CASE Going(r, n) = [Idle EXCEPT !.pc = "release", !.from = r.from, !.mode = r.mode]
    <2>1. Idle \in WorkerType /\ Idle.st = AllPending /\ Idle.todo = {} /\ Idle.out = "done"
      BY DEF Idle, WorkerType, AllPending, Stages, Outcomes, Modes
    <2>2. PICK g : g = [Idle EXCEPT !.pc = "release", !.from = r.from, !.mode = r.mode]
      OBVIOUS
    <2>3. /\ g \in WorkerType /\ g.pc = "release" /\ g.from = r.from /\ g.mode = r.mode
          /\ g.st = Idle.st /\ g.todo = Idle.todo /\ g.out = Idle.out
      BY <2>1, <2>2 DEF WorkerType
    <2> QED
      BY <1>1, <2>1, <2>2, <2>3
  <1>2. ASSUME NEW s \in Stages, Order[s] > n, Needs(r, s),
               Going(r, n) = [r EXCEPT !.pc = s, !.todo = IF n < Order["provider"] THEN @ ELSE {}]
        PROVE  \E g \in WorkerType :
             /\ g = Going(r, n) /\ g.mode = r.mode /\ g.from = r.from /\ g.out \in {r.out, "done"}
             /\ \/ g.pc = "release" /\ g.st = AllPending /\ g.todo = {}
                \/ /\ g.pc \in Stages /\ Order[g.pc] > n /\ Needs(r, g.pc)
                   /\ g.st = r.st /\ g.claimed = r.claimed
                   /\ g.todo = IF n < Order["provider"] THEN r.todo ELSE {}
    <2>1. PICK rest \in SUBSET Faces : rest = IF n < Order["provider"] THEN r.todo ELSE {}
      BY DEF WorkerType
    <2>2. PICK g : g = [r EXCEPT !.pc = s, !.todo = rest]
      OBVIOUS
    <2>3. g = Going(r, n)
      BY <1>2, <2>1, <2>2
    <2>4. /\ g \in WorkerType /\ g.pc = s /\ g.from = r.from /\ g.mode = r.mode
          /\ g.st = r.st /\ g.todo = rest /\ g.out = r.out /\ g.claimed = r.claimed
      BY <2>2, <2>1 DEF WorkerType
    <2> QED
      BY <1>2, <2>1, <2>3, <2>4
  <1> QED
    BY <1>1, <1>2, GoingShape

\* A step that leaves a worker alone, does not bring identity data back and
\* does not bring a deleted login account back.
LEMMA OtherWorker ==
    ASSUME NEW v \in Workers, WorkerSound(v), wk'[v] = wk[v], idData' => idData,
           status = "gone" => status' = "gone"
    PROVE  WorkerSound(v)'
  BY DEF WorkerSound

LEMMA OtherHolder ==
    ASSUME NEW v \in Workers, HolderSound(v), wk'[v] = wk[v],
           job'.owner = v => job.owner = v /\ (job.mode = "hard" => job'.mode = "hard"),
           job'.owner = v /\ job'.live => job.live /\ job'.st = job.st
    PROVE  HolderSound(v)'
  BY DEF HolderSound

\* A step that touches neither the job nor a worker.
LEMMA Frame ==
    ASSUME Sound, UNCHANGED <<wk, job, idData>>, status = "gone" <=> status' = "gone"
    PROVE  Sound'
  <1>1. JobSound'
    BY DEF Sound, JobSound, Complete
  <1>2. ASSUME NEW v \in Workers PROVE WorkerSound(v)' /\ HolderSound(v)'
    BY OtherWorker, OtherHolder DEF Sound
  <1>3. GoneLosesIdentityData'
    BY DEF Sound, GoneLosesIdentityData
  <1> QED
    BY <1>1, <1>2, <1>3 DEF Sound

\* A step of one worker that leaves the job alone.
LEMMA OneWorker ==
    ASSUME Sound, wk \in [Workers -> WorkerType], UNCHANGED job,
           NEW w \in Workers, NEW item, wk' = [wk EXCEPT ![w] = item],
           idData' => idData, status = "gone" => status' = "gone",
           status' = "gone" => ~idData',
           WorkerSound(w)', HolderSound(w)'
    PROVE  Sound'
  <1>1. JobSound'
    BY DEF Sound, JobSound, Complete
  <1>2. ASSUME NEW v \in Workers, v # w PROVE WorkerSound(v)' /\ HolderSound(v)'
    <2>1. wk'[v] = wk[v]
      BY <1>2
    <2> QED
      BY <2>1, OtherWorker, OtherHolder DEF Sound
  <1>3. GoneLosesIdentityData'
    BY DEF GoneLosesIdentityData
  <1> QED
    BY <1>1, <1>2, <1>3 DEF Sound

\* A worker outside its stages is sound whatever the account's state.
LEMMA RestingWorker ==
    ASSUME NEW w \in Workers, NEW item \in WorkerType, wk'[w] = item,
           item.pc \in {"idle", "shut", "claim"}, item.st = AllPending,
           item.from = "request" => item.mode = "hard"
    PROVE  WorkerSound(w)' /\ HolderSound(w)'
  <1>1. item.st["db"] = "pending"
    BY DEF AllPending, Stages
  <1> QED
    BY <1>1 DEF WorkerSound, HolderSound, Busy, Stages

LEMMA IdleTyped == Idle \in WorkerType /\ NoJob \in JobType
  BY DEF Idle, WorkerType, NoJob, JobType, AllPending, Stages, Outcomes, Modes

LEMMA PurgeInit == Init /\ InitPurge => Typed /\ Sound
  <1> SUFFICES ASSUME Init, InitPurge PROVE Typed /\ Sound
    OBVIOUS
  <1>1. DataTypeOK
    BY FacesAssumption DEF InitPurge, DataTypeOK
  <1>2. CallTypeOK
    BY IdleTyped DEF InitPurge, CallTypeOK
  <1>3. JobSound
    BY DEF InitPurge, JobSound, NoJob, Complete, AllPending, Stages
  <1>4. ASSUME NEW w \in Workers PROVE WorkerSound(w) /\ HolderSound(w)
    <2>1. wk[w].pc = "idle" /\ wk[w].st["db"] = "pending" /\ wk[w].from = "none"
      BY DEF InitPurge, Idle, AllPending, Stages
    <2> QED
      BY <2>1 DEF WorkerSound, HolderSound, Busy, Stages
  <1>5. GoneLosesIdentityData
    BY DEF Init, GoneLosesIdentityData
  <1> QED
    BY <1>1, <1>2, <1>3, <1>4, <1>5, StatusInit DEF Typed, Sound

\* No writer of users.status deletes the row, and none writes to a row that
\* is gone.
LEMMA StatusKeepsGone == StatusNext => (status = "gone" <=> status' = "gone")
  <1> SUFFICES ASSUME StatusNext PROVE status = "gone" <=> status' = "gone"
    OBVIOUS
  <1>1. CASE Moderation
    BY <1>1 DEF Moderation, Suspend, Unsuspend, Ban, Unban, LiftExpired, Allowed, SetStatus
  <1>2. CASE Recover
    BY <1>2 DEF Recover, Allowed, SetStatus
  <1>3. CASE Tick
    BY <1>3 DEF Tick
  <1>4. ASSUME NEW c \in Edges, EdgeStep(c) PROVE status = "gone" <=> status' = "gone"
    BY <1>4 DEF EdgeStep, ReadForDelete, AdminReadForDelete, ReadForReactivate,
                WriteDelete, WriteReactivate, EdgeFails, SetStatus
  <1> QED
    BY <1>1, <1>2, <1>3, <1>4 DEF StatusNext

LEMMA StatusKept ==
    ASSUME Typed, UNCHANGED statusVars
    PROVE  StatusInv'
  BY StatusStep DEF Typed

LEMMA AccountStep ==
    ASSUME Typed, Sound, StatusNext, UNCHANGED purgeVars
    PROVE  Typed' /\ Sound'
  <1>1. StatusInv'
    BY StatusStep DEF Typed
  <1>2. DataTypeOK' /\ CallTypeOK'
    BY DEF Typed, DataTypeOK, CallTypeOK, purgeVars, dataVars
  <1>3. Sound'
    BY StatusKeepsGone, Frame DEF purgeVars, dataVars
  <1> QED
    BY <1>1, <1>2, <1>3 DEF Typed

\* The face requests, the owner's onboarding and the deletion requests.
LEMMA BesideStep ==
    ASSUME Typed, Sound,
           Onboard \/ FileRequest \/ RejectRequest \/ \E f \in Faces : FaceStep(f)
    PROVE  Typed' /\ Sound'
  <1>1. UNCHANGED <<statusVars, idData, wk, job>>
    BY DEF Onboard, FileRequest, RejectRequest, FaceStep, FaceStart, FaceCreate,
           FaceAttach, HookRead, HookStore, dataVars
  <1>2. Sound'
    BY <1>1, Frame DEF statusVars
  <1>3. StatusInv'
    BY <1>1, StatusKept
  <1>4. DataTypeOK'
    <2>1. CASE Onboard \/ FileRequest \/ RejectRequest
      BY <2>1 DEF Typed, DataTypeOK, Onboard, FileRequest, RejectRequest, dataVars
    <2>2. ASSUME NEW f \in Faces, FaceStep(f) PROVE DataTypeOK'
      <3>1. CASE FaceStart(f)
        BY <3>1 DEF Typed, DataTypeOK, FaceStart
      <3>2. CASE FaceCreate(f)
        BY <2>2, <3>2 DEF Typed, DataTypeOK, FaceCreate
      <3>3. CASE FaceAttach(f)
        BY <2>2, <3>3 DEF Typed, DataTypeOK, FaceAttach
      <3>4. CASE HookRead(f)
        BY <2>2, <3>4 DEF Typed, DataTypeOK, HookRead
      <3>5. CASE HookStore(f)
        BY <2>2, <3>5 DEF Typed, DataTypeOK, HookStore
      <3> QED
        BY <2>2, <3>1, <3>2, <3>3, <3>4, <3>5 DEF FaceStep
    <2> QED
      BY <2>1, <2>2
  <1>5. request' \in [st : {"none", "pending", "done", "rejected"}, user : BOOLEAN]
    <2>1. CASE RejectRequest
      BY <2>1 DEF Typed, CallTypeOK, RejectRequest
    <2>2. CASE FileRequest
      BY <2>2 DEF FileRequest
    <2>3. CASE UNCHANGED request
      BY <2>3 DEF Typed, CallTypeOK
    <2> QED
      BY <2>1, <2>2, <2>3 DEF Onboard, FaceStep, FaceStart, FaceCreate, FaceAttach,
                              HookRead, HookStore
  <1>6. CallTypeOK'
    BY <1>1, <1>5 DEF Typed, CallTypeOK
  <1> QED
    BY <1>2, <1>3, <1>4, <1>6 DEF Typed

\* An invocation starts, or dies with what it had not written.
LEMMA StartStep ==
    ASSUME Typed, Sound, NEW w \in Workers, Started(w) \/ Crash(w)
    PROVE  Typed' /\ Sound'
  <1>1. PICK item \in WorkerType :
          /\ wk' = [wk EXCEPT ![w] = item]
          /\ item.pc \in {"idle", "shut", "claim"} /\ item.st = AllPending
          /\ item.from = "request" => item.mode = "hard"
    <2>1. CASE Crash(w)
      BY <2>1, IdleTyped DEF Crash, Idle
    <2>2. ASSUME NEW by, NEW mode \in Modes, NEW pc \in {"shut", "claim"},
                 Start(w, by, mode, pc), by = "request" => mode = "hard"
          PROVE  \E item \in WorkerType :
                   /\ wk' = [wk EXCEPT ![w] = item]
                   /\ item.pc \in {"idle", "shut", "claim"} /\ item.st = AllPending
                   /\ item.from = "request" => item.mode = "hard"
      <3>1. PICK from \in {"none", "retry", "request"} :
              from = IF by \in {"retry", "request"} THEN by ELSE "none"
        OBVIOUS
      <3>2. PICK item : item = [Idle EXCEPT !.pc = pc, !.mode = mode, !.from = from]
        OBVIOUS
      <3>3. /\ item \in WorkerType /\ item.pc = pc /\ item.mode = mode /\ item.from = from
            /\ item.st = Idle.st
        BY <3>2, IdleTyped DEF WorkerType
      <3>4. wk' = [wk EXCEPT ![w] = item]
        BY <2>2, <3>1, <3>2 DEF Start
      <3> QED
        BY <2>2, <3>1, <3>3, <3>4 DEF Idle
    <2>3. CASE Started(w)
      <3>1. job.mode \in Modes
        BY DEF Typed, CallTypeOK, JobType
      <3>2. CASE BatchTarget(w)
        BY <3>1, <3>2, <2>2 DEF BatchTarget, Modes
      <3>3. CASE PurgeNow(w)
        BY <3>3, <2>2 DEF PurgeNow, Modes
      <3>4. CASE Retry(w)
        BY <3>1, <3>4, <2>2 DEF Retry
      <3>5. CASE HandleRequest(w)
        BY <3>5, <2>2 DEF HandleRequest, Modes
      <3> QED
        BY <2>3, <3>2, <3>3, <3>4, <3>5 DEF Started
    <2> QED
      BY <2>1, <2>3
  <1>2. UNCHANGED <<statusVars, dataVars, job, request>>
    BY DEF Started, BatchTarget, PurgeNow, Retry, HandleRequest, Start, Crash
  <1>3. wk \in [Workers -> WorkerType] /\ wk'[w] = item
    BY <1>1 DEF Typed, CallTypeOK
  <1>4. Sound'
    <2>1. WorkerSound(w)' /\ HolderSound(w)'
      BY <1>1, <1>3, RestingWorker
    <2>2. UNCHANGED <<job, status, idData>>
      BY <1>2 DEF statusVars, dataVars
    <2>3. status = "gone" => ~idData
      BY DEF Sound, GoneLosesIdentityData
    <2> QED
      BY <1>1, <1>3, <2>1, <2>2, <2>3, OneWorker
  <1>5. CallTypeOK'
    BY <1>1, <1>2 DEF Typed, CallTypeOK
  <1>6. DataTypeOK'
    BY <1>2 DEF Typed, DataTypeOK, dataVars
  <1> QED
    BY <1>2, <1>4, <1>5, <1>6, StatusKept DEF Typed

LEMMA ShutStep ==
    ASSUME Typed, Sound, NEW w \in Workers, Shut(w)
    PROVE  Typed' /\ Sound'
  <1>1. wk \in [Workers -> WorkerType] /\ wk[w] \in WorkerType
    BY DEF Typed, CallTypeOK
  <1>2. PICK item : item = [wk[w] EXCEPT !.pc = "claim"]
    OBVIOUS
  <1>3. item \in WorkerType /\ wk' = [wk EXCEPT ![w] = item] /\ wk'[w] = item
    BY <1>1, <1>2 DEF Shut, WorkerType
  <1>4. UNCHANGED <<dataVars, job, request>> /\ (status = "gone" <=> status' = "gone")
    BY DEF Shut, SetStatus, statusVars
  <1>5. WorkerSound(w)' /\ HolderSound(w)'
    <2>1. item.st = wk[w].st /\ item.from = wk[w].from /\ item.mode = wk[w].mode /\ item.pc = "claim"
      BY <1>1, <1>2 DEF WorkerType
    <2>2. WorkerSound(w) /\ idData' = idData
      BY <1>4 DEF Sound, dataVars
    <2> QED
      BY <1>3, <2>1, <2>2 DEF WorkerSound, HolderSound, Busy, Stages
  <1>6. Sound'
    <2>1. UNCHANGED <<job, idData>> /\ (status = "gone" => ~idData)
      BY <1>4 DEF dataVars, Sound, GoneLosesIdentityData
    <2> QED
      BY <1>1, <1>3, <1>4, <1>5, <2>1, OneWorker
  <1>7. StatusInv'
    <2>1. CASE status = "gone"
      BY <2>1, StatusKept DEF Shut
    <2>2. CASE status # "gone"
      <3>1. SetStatus("deleted") /\ asked' \in {0, asked} /\ UNCHANGED <<left, audit, edge>>
        BY <2>2 DEF Shut
      <3>2. asked' \in Ages
        BY <3>1, GraceAssumption DEF Typed, StatusInv, StatusTypeOK, Ages, Null
      <3> QED
        BY <3>1, <3>2, SetStatusSafe DEF Typed, StatusInv, StatusTypeOK, Statuses
    <2> QED
      BY <2>1, <2>2
  <1>8. CallTypeOK'
    BY <1>3, <1>4 DEF Typed, CallTypeOK
  <1>9. DataTypeOK'
    BY <1>4 DEF Typed, DataTypeOK, dataVars
  <1> QED
    BY <1>6, <1>7, <1>8, <1>9 DEF Typed

\* The mode of a job only goes up, and the mark of a complete deletion finds
\* its stage pending.
LEMMA UpgradedFacts ==
    ASSUME Typed, Sound, NEW w \in Workers
    PROVE  /\ Upgraded(w) \in JobType
           /\ Upgraded(w).on = job.on /\ Upgraded(w).st = job.st /\ Upgraded(w).snap = job.snap
           /\ Upgraded(w).owner = job.owner /\ Upgraded(w).live = job.live
           /\ job.mode = "hard" \/ wk[w].mode = "hard" => Upgraded(w).mode = "hard"
           /\ \/ Upgraded(w).status = job.status
              \/ job.status = "done" /\ Upgraded(w).status = "failed"
           /\ Upgraded(w).status = "done" => Upgraded(w) = job
  <1>1. job \in JobType /\ job.st \in [Stages -> Outcomes] /\ wk[w] \in WorkerType
    BY DEF Typed, CallTypeOK, JobType
  <1>2. CASE Reopens(w)
    <2>1. PICK st : st = [job.st EXCEPT !["auth"] = "pending"]
      OBVIOUS
    <2>2. st = job.st
      BY <1>1, <1>2, <2>1 DEF Reopens, Sound, JobSound, Stages
    <2>3. PICK j : j = [job EXCEPT !.mode = "hard", !.status = "failed", !.st = st]
      OBVIOUS
    <2>4. j = Upgraded(w)
      <3>1. Upgraded(w) = [job EXCEPT !.mode = "hard", !.status = "failed", !.st["auth"] = "pending"]
        <4>1. job.status = "done"
          BY <1>2 DEF Reopens
        <4> QED
          BY <1>2, <4>1 DEF Upgraded
      <3> QED
        BY <1>1, <2>1, <2>3, <3>1 DEF JobType
    <2>5. /\ j \in JobType /\ j.on = job.on /\ j.st = st /\ j.snap = job.snap
          /\ j.owner = job.owner /\ j.live = job.live /\ j.mode = "hard" /\ j.status = "failed"
      BY <1>1, <2>2, <2>3 DEF JobType, Modes
    <2> QED
      BY <1>2, <2>2, <2>4, <2>5 DEF Reopens
  <1>3. CASE ~Reopens(w) /\ job.status # "done" /\ wk[w].mode = "hard"
    <2>1. PICK j : j = [job EXCEPT !.mode = "hard"]
      OBVIOUS
    <2>2. j = Upgraded(w)
      BY <1>3, <2>1 DEF Upgraded
    <2>3. /\ j \in JobType /\ j.on = job.on /\ j.st = job.st /\ j.snap = job.snap
          /\ j.owner = job.owner /\ j.live = job.live /\ j.mode = "hard" /\ j.status = job.status
      BY <1>1, <2>1 DEF JobType, Modes
    <2> QED
      BY <1>3, <2>2, <2>3
  <1>4. CASE ~Reopens(w) /\ ~(job.status # "done" /\ wk[w].mode = "hard")
    <2>1. Upgraded(w) = job
      BY <1>4 DEF Upgraded
    <2>2. wk[w].mode = "hard" => job.mode = "hard"
      BY <1>1, <1>4 DEF Reopens, JobType, Modes
    <2> QED
      BY <1>1, <2>1, <2>2
  <1> QED
    BY <1>2, <1>3, <1>4

\* The job a granted claim works on.
LEMMA ClaimedFacts ==
    ASSUME Typed, Sound, NEW w \in Workers, Claimable(w)
    PROVE  \E j \in JobType :
             /\ j = (IF job.on THEN Upgraded(w) ELSE Fresh(w))
             /\ j.on /\ j.st = job.st /\ (wk[w].mode = "hard" => j.mode = "hard")
             /\ j.mode = "anonymize" => j.st["auth"] = "pending"
             /\ job.on => j.snap = job.snap
             /\ ~job.on => j.snap = OpenRows
  <1>1. job \in JobType /\ wk[w] \in WorkerType
    BY DEF Typed, CallTypeOK
  <1>2. CASE job.on
    <2>1. PICK j \in JobType : j = Upgraded(w)
      BY UpgradedFacts
    <2>2. /\ j.on = job.on /\ j.st = job.st /\ j.snap = job.snap
          /\ job.mode = "hard" \/ wk[w].mode = "hard" => j.mode = "hard"
      BY <2>1, UpgradedFacts
    <2>3. j.mode = "anonymize" => j.st["auth"] = "pending"
      BY <1>1, <2>2 DEF JobType, Modes, Sound, JobSound
    <2> QED
      BY <1>2, <2>1, <2>2, <2>3
  <1>3. CASE ~job.on
    <2>1. OpenRows \in SUBSET Faces
      BY DEF OpenRows
    <2>2. PICK j : j = [NoJob EXCEPT !.on = TRUE, !.mode = wk[w].mode, !.snap = OpenRows]
      OBVIOUS
    <2>3. j \in JobType /\ j.on /\ j.st = NoJob.st /\ j.mode = wk[w].mode /\ j.snap = OpenRows
      BY <1>1, <2>1, <2>2, IdleTyped DEF JobType, WorkerType
    <2>4. job = NoJob /\ NoJob.st["auth"] = "pending"
      BY <1>3 DEF Sound, JobSound, NoJob, AllPending, Stages
    <2> QED
      BY <1>3, <2>2, <2>3, <2>4 DEF Fresh
  <1> QED
    BY <1>2, <1>3

LEMMA ClaimGrantedStep ==
    ASSUME Typed, Sound, NEW w \in Workers, ClaimGranted(w)
    PROVE  Typed' /\ Sound'
  <1>1. PICK j \in JobType :
             /\ j = (IF job.on THEN Upgraded(w) ELSE Fresh(w))
             /\ j.on /\ j.st = job.st /\ (wk[w].mode = "hard" => j.mode = "hard")
             /\ j.mode = "anonymize" => j.st["auth"] = "pending"
    BY ClaimedFacts DEF ClaimGranted
  <1>2. PICK r : r = [wk[w] EXCEPT !.claimed = j.mode, !.st = j.st, !.todo = j.snap]
    OBVIOUS
  <1>3. PICK new : new = [j EXCEPT !.status = "running", !.owner = w, !.live = TRUE]
    OBVIOUS
  <1>4. job' = new /\ wk' = [wk EXCEPT ![w] = Going(r, 0)]
        /\ UNCHANGED <<statusVars, dataVars, request>>
    BY <1>1, <1>2, <1>3 DEF ClaimGranted, Holding
  <1>5. wk \in [Workers -> WorkerType] /\ wk[w] \in WorkerType /\ job \in JobType
    BY DEF Typed, CallTypeOK
  <1>6. /\ r \in WorkerType /\ r.claimed = j.mode /\ r.st = j.st /\ r.mode = wk[w].mode
        /\ r.from = wk[w].from /\ r.out = wk[w].out
    BY <1>1, <1>2, <1>5 DEF WorkerType, JobType
  <1>7. /\ new \in JobType /\ new.on = j.on /\ new.st = j.st /\ new.mode = j.mode
        /\ new.status = "running" /\ new.owner = w /\ new.live = TRUE
    BY <1>1, <1>3 DEF JobType
  <1>8. PICK g \in WorkerType :
             /\ g = Going(r, 0) /\ g.mode = r.mode /\ g.from = r.from
             /\ \/ g.pc = "release" /\ g.st = AllPending
                \/ /\ g.pc \in Stages /\ Needs(r, g.pc)
                   /\ g.st = r.st /\ g.claimed = r.claimed
    <2>1. 0 \in Nat
      OBVIOUS
    <2> QED
      BY <1>6, <2>1, GoingFacts
  <1>9. wk' = [wk EXCEPT ![w] = g] /\ wk'[w] = g
    BY <1>4, <1>5, <1>8
  <1>10. UNCHANGED <<idData, status>>
    BY <1>4 DEF statusVars, dataVars
  <1>11. JobSound'
    BY <1>1, <1>4, <1>7, <1>10 DEF Sound, JobSound
  <1>12. WorkerSound(w)'
    <2>1. WorkerSound(w) /\ JobSound
      BY DEF Sound
    <2>2. AllPending["db"] = "pending"
      BY DEF AllPending, Stages
    <2>3. g.from = "request" => g.mode = "hard"
      BY <1>6, <1>8, <2>1 DEF WorkerSound
    <2>4. g.st["db"] # "skipped" /\ (g.st["db"] = "done" => ~idData)
      BY <1>1, <1>6, <1>8, <2>1, <2>2 DEF JobSound
    <2>5. CASE g.pc = "release"
      BY <1>9, <1>10, <2>3, <2>4, <2>5 DEF WorkerSound, Busy, Stages
    <2>6. CASE g.pc \in Stages /\ Needs(r, g.pc) /\ g.st = r.st /\ g.claimed = r.claimed
      <3>1. At(g) = g.pc /\ g.pc # "record"
        BY <2>6 DEF At, Stages
      <3>2. ~Finished(g.st[g.pc])
        BY <2>6 DEF Needs
      <3>3. g.pc = "auth" => g.claimed = "hard" /\ g.st["db"] = "done"
        BY <2>4, <2>6 DEF Needs, Finished
      <3> QED
        BY <1>9, <1>10, <2>3, <2>4, <3>1, <3>2, <3>3 DEF WorkerSound
    <2> QED
      BY <1>8, <2>5, <2>6
  <1>13. HolderSound(w)'
    BY <1>1, <1>4, <1>6, <1>7, <1>8, <1>9 DEF HolderSound, Busy, Stages
  <1>14. ASSUME NEW v \in Workers, v # w PROVE WorkerSound(v)' /\ HolderSound(v)'
    <2>1. wk'[v] = wk[v]
      BY <1>9, <1>14
    <2>2. job'.owner # v
      BY <1>4, <1>7, <1>14
    <2> QED
      BY <1>10, <2>1, <2>2, OtherWorker, OtherHolder DEF Sound
  <1>15. Sound'
    BY <1>10, <1>11, <1>12, <1>13, <1>14 DEF Sound, GoneLosesIdentityData
  <1>16. CallTypeOK'
    BY <1>4, <1>5, <1>7, <1>9 DEF Typed, CallTypeOK
  <1>17. DataTypeOK'
    BY <1>4 DEF Typed, DataTypeOK, dataVars
  <1> QED
    BY <1>4, <1>15, <1>16, <1>17, StatusKept DEF Typed

\* The worker is idle again.  A request is closed only on a success of its own
\* call, or of a retry of a complete deletion.
LEMMA ReturnFacts ==
    ASSUME Typed, NEW w \in Workers, NEW ok \in BOOLEAN, Return(w, ok)
    PROVE  /\ wk' = [wk EXCEPT ![w] = Idle]
           /\ request' \in [st : {"none", "pending", "done", "rejected"}, user : BOOLEAN]
           /\ \/ request'.st = request.st
              \/ /\ request'.st = "done" /\ ok
                 /\ wk[w].from = "request" \/ (wk[w].from = "retry" /\ wk[w].mode = "hard")
  <1>1. request \in [st : {"none", "pending", "done", "rejected"}, user : BOOLEAN]
    BY DEF Typed, CallTypeOK
  <1>2. PICK left1 \in BOOLEAN : left1 = (status # "gone")
    OBVIOUS
  <1>3. CASE wk[w].from = "request" /\ ok
    BY <1>3 DEF Return, Noted
  <1>4. CASE wk[w].from = "request" /\ ~ok
    <2>1. request' = [request EXCEPT !.user = left1]
      BY <1>2, <1>4 DEF Return, Noted
    <2> QED
      BY <1>1, <2>1 DEF Return, Noted
  <1>5. CASE wk[w].from = "retry" /\ ok /\ wk[w].mode = "hard"
             /\ request = [st |-> "pending", user |-> TRUE]
    BY <1>5 DEF Return, Noted
  <1>6. CASE ~(wk[w].from = "request") /\ ~(wk[w].from = "retry" /\ ok /\ wk[w].mode = "hard"
             /\ request = [st |-> "pending", user |-> TRUE])
    <2>1. request' = request
      BY <1>6 DEF Return, Noted
    <2> QED
      BY <1>1, <2>1 DEF Return, Noted
  <1> QED
    BY <1>3, <1>4, <1>5, <1>6

\* A worker that returns leaves the rest sound when the job is.
LEMMA ReturnSound ==
    ASSUME Typed, Sound, NEW w \in Workers, NEW ok \in BOOLEAN, Return(w, ok),
           job' \in JobType, JobSound', UNCHANGED <<statusVars, dataVars>>,
           job'.owner \in {job.owner, Nobody},
           job.mode = "hard" => job'.mode = "hard",
           job'.live => job.live, job'.st = job.st
    PROVE  Typed' /\ Sound'
  <1>1. wk \in [Workers -> WorkerType]
    BY DEF Typed, CallTypeOK
  <1>2. /\ wk' = [wk EXCEPT ![w] = Idle]
        /\ request' \in [st : {"none", "pending", "done", "rejected"}, user : BOOLEAN]
    BY ReturnFacts
  <1>3. wk'[w] = Idle /\ wk' \in [Workers -> WorkerType]
    BY <1>1, <1>2, IdleTyped
  <1>4. UNCHANGED <<idData, status>>
    BY DEF statusVars, dataVars
  <1>5. WorkerSound(w)' /\ HolderSound(w)'
    <2>1. Idle.pc = "idle" /\ Idle.st = AllPending /\ Idle.from = "none"
      BY DEF Idle
    <2> QED
      BY <1>3, <2>1, IdleTyped, RestingWorker
  <1>6. ASSUME NEW v \in Workers, v # w PROVE WorkerSound(v)' /\ HolderSound(v)'
    <2>1. wk'[v] = wk[v]
      BY <1>2, <1>6
    <2>2. v # Nobody
      BY WorkersAssumption
    <2>3. WorkerSound(v) /\ HolderSound(v)
      BY DEF Sound
    <2>4. HolderSound(v)'
      BY <2>1, <2>2, <2>3, OtherHolder
    <2> QED
      BY <1>4, <2>1, <2>3, <2>4, OtherWorker
  <1>7. Sound'
    BY <1>4, <1>5, <1>6 DEF Sound, GoneLosesIdentityData
  <1>8. CallTypeOK'
    BY <1>2, <1>3 DEF CallTypeOK
  <1>9. DataTypeOK'
    BY DEF Typed, DataTypeOK, dataVars
  <1> QED
    BY <1>7, <1>8, <1>9, StatusKept DEF Typed

LEMMA ClaimRefusedStep ==
    ASSUME Typed, Sound, NEW w \in Workers, ClaimRefused(w)
    PROVE  Typed' /\ Sound'
  <1>1. PICK ok \in BOOLEAN : ok = (job.status = "done")
    OBVIOUS
  <1>2. Return(w, ok) /\ UNCHANGED <<statusVars, dataVars>>
        /\ job' = IF job.on THEN Upgraded(w) ELSE job
    BY <1>1 DEF ClaimRefused
  <1>3. PICK u \in JobType : u = Upgraded(w)
    BY UpgradedFacts
  <1>4. /\ u.on = job.on /\ u.st = job.st /\ u.owner = job.owner /\ u.live = job.live
        /\ job.mode = "hard" => u.mode = "hard"
        /\ u.status = job.status \/ (job.status = "done" /\ u.status = "failed")
        /\ u.status = "done" => u = job
    BY <1>3, UpgradedFacts
  <1>5. job \in JobType /\ job.mode \in Modes
    BY DEF Typed, CallTypeOK, JobType
  <1>6. job' \in JobType /\ job'.owner = job.owner /\ (job.mode = "hard" => job'.mode = "hard")
        /\ job'.live = job.live /\ job'.st = job.st
    BY <1>2, <1>3, <1>4, <1>5
  <1>7. JobSound'
    <2>1. UNCHANGED <<idData, status>>
      BY <1>2 DEF statusVars, dataVars
    <2>2. CASE ~job.on
      BY <1>2, <2>1, <2>2 DEF Sound, JobSound, Complete
    <2>3. CASE job.on
      <3>1. job' = u
        BY <1>2, <1>3, <2>3
      <3>2. u.mode = "anonymize" => job.mode = "anonymize"
        BY <1>4, <1>5 DEF Modes
      <3>3. u.live => u.status = "running"
        BY <1>4 DEF Sound, JobSound
      <3>4. u.status = "done" => Complete(u)
        BY <1>4 DEF Sound, JobSound
      <3> QED
        BY <1>4, <2>1, <2>3, <3>1, <3>2, <3>3, <3>4 DEF Sound, JobSound
    <2> QED
      BY <2>2, <2>3
  <1> QED
    BY <1>2, <1>6, <1>7, ReturnSound

LEMMA StoppedFacts ==
    ASSUME Typed, NEW w \in Workers, NEW s \in Stages, NEW out \in {"done", "failed"},
           Stopped(w, s, out)
    PROVE  \E item \in WorkerType :
             /\ wk' = [wk EXCEPT ![w] = item]
             /\ item.pc = "record" /\ item.stage = s /\ item.out = out
             /\ item.st = wk[w].st /\ item.claimed = wk[w].claimed /\ item.mode = wk[w].mode
             /\ item.from = wk[w].from /\ item.todo = wk[w].todo
  <1>1. wk[w] \in WorkerType /\ wk \in [Workers -> WorkerType]
    BY DEF Typed, CallTypeOK
  <1>2. PICK item : item = [wk[w] EXCEPT !.pc = "record", !.stage = s, !.out = out]
    OBVIOUS
  <1>3. wk' = [wk EXCEPT ![w] = item]
    BY <1>1, <1>2 DEF Stopped, WorkerType
  <1>4. /\ item \in WorkerType /\ item.pc = "record" /\ item.stage = s /\ item.out = out
        /\ item.st = wk[w].st /\ item.claimed = wk[w].claimed /\ item.mode = wk[w].mode
        /\ item.from = wk[w].from /\ item.todo = wk[w].todo
    BY <1>1, <1>2 DEF WorkerType
  <1> QED
    BY <1>3, <1>4

\* A worker that has run a stage, or the first half of one.
LEMMA StageRun ==
    ASSUME Typed, Sound, NEW w \in Workers, wk[w].pc \in Stages \cup {"verify"},
           NEW item \in WorkerType, wk' = [wk EXCEPT ![w] = item],
           item.st = wk[w].st, item.claimed = wk[w].claimed, item.mode = wk[w].mode,
           item.from = wk[w].from,
           item.pc \in {"verify", "record"}, At(item) = At(wk[w]),
           item.pc = "record" /\ item.out = "done" =>
             (item.stage = "db" => ~idData') /\ (item.stage = "auth" => status' = "gone"),
           UNCHANGED job, idData' => idData, status = "gone" => status' = "gone",
           status' = "gone" => ~idData'
    PROVE  Sound'
  <1>1. wk \in [Workers -> WorkerType] /\ wk'[w] = item
    BY DEF Typed, CallTypeOK
  <1>2. WorkerSound(w) /\ HolderSound(w)
    BY DEF Sound
  <1>3. wk[w].pc \in Busy /\ item.pc \in Busy
    BY DEF Busy
  <1>4. WorkerSound(w)'
    BY <1>1, <1>2, <1>3 DEF WorkerSound
  <1>5. HolderSound(w)'
    BY <1>1, <1>2, <1>3 DEF HolderSound
  <1> QED
    BY <1>1, <1>4, <1>5, OneWorker

LEMMA StorageStep ==
    ASSUME Typed, Sound, NEW w \in Workers, Storage(w) \/ VerifyStorage(w)
    PROVE  Typed' /\ Sound'
  <1>1. wk[w] \in WorkerType /\ wk \in [Workers -> WorkerType]
    BY DEF Typed, CallTypeOK
  <1>2. UNCHANGED <<statusVars, pii, idData, purged, row, flow, sess, job, request>>
        /\ wk[w].pc \in {"storage", "verify"} /\ objects' \in SUBSET Faces
    BY DEF Storage, VerifyStorage, dataVars, Typed, DataTypeOK
  <1>3. PICK item \in WorkerType :
             /\ wk' = [wk EXCEPT ![w] = item]
             /\ item.st = wk[w].st /\ item.claimed = wk[w].claimed /\ item.mode = wk[w].mode
             /\ item.from = wk[w].from
             /\ item.pc \in {"verify", "record"} /\ At(item) = "storage"
    <2>1. ASSUME NEW out \in {"done", "failed"}, Stopped(w, "storage", out)
          PROVE  \E item \in WorkerType :
             /\ wk' = [wk EXCEPT ![w] = item]
             /\ item.st = wk[w].st /\ item.claimed = wk[w].claimed /\ item.mode = wk[w].mode
             /\ item.from = wk[w].from
             /\ item.pc \in {"verify", "record"} /\ At(item) = "storage"
      BY <2>1, StoppedFacts DEF Stages, At
    <2>2. CASE wk' = [wk EXCEPT ![w].pc = "verify"]
      <3>1. PICK item : item = [wk[w] EXCEPT !.pc = "verify"]
        OBVIOUS
      <3>2. /\ item \in WorkerType /\ item.pc = "verify" /\ wk' = [wk EXCEPT ![w] = item]
            /\ item.st = wk[w].st /\ item.claimed = wk[w].claimed /\ item.mode = wk[w].mode
            /\ item.from = wk[w].from
        BY <1>1, <2>2, <3>1 DEF WorkerType
      <3> QED
        BY <3>2 DEF At
    <2> QED
      BY <2>1, <2>2 DEF Storage, VerifyStorage
  <1>4. At(wk[w]) = "storage"
    BY <1>2 DEF At
  <1>5. item.pc = "record" => item.stage = "storage"
    BY <1>3 DEF At
  <1>6. Sound'
    <2>1. status = "gone" => ~idData
      BY DEF Sound, GoneLosesIdentityData
    <2>2. wk[w].pc \in Stages \cup {"verify"}
      BY <1>2 DEF Stages
    <2>3. UNCHANGED <<job, idData, status>>
      BY <1>2 DEF statusVars
    <2> QED
      BY <1>3, <1>4, <1>5, <2>1, <2>2, <2>3, StageRun
  <1>7. CallTypeOK'
    BY <1>1, <1>2, <1>3 DEF Typed, CallTypeOK
  <1>8. DataTypeOK'
    BY <1>2 DEF Typed, DataTypeOK
  <1> QED
    BY <1>2, <1>6, <1>7, <1>8, StatusKept DEF Typed

LEMMA ProviderStep ==
    ASSUME Typed, Sound, NEW w \in Workers, Provider(w)
    PROVE  Typed' /\ Sound'
  <1>1. wk[w] \in WorkerType /\ wk \in [Workers -> WorkerType]
    BY DEF Typed, CallTypeOK
  <1>2. UNCHANGED <<statusVars, pii, idData, purged, row, flow, objects, job, request>>
        /\ wk[w].pc = "provider" /\ sess' \in SUBSET Faces
    BY DEF Provider, Typed, DataTypeOK
  <1>3. PICK gone \in SUBSET (wk[w].todo \cap sess) :
          wk' = [wk EXCEPT ![w].pc = "record", ![w].stage = "provider",
                           ![w].todo = wk[w].todo \ gone,
                           ![w].out = IF wk[w].todo \ gone = {} THEN "done" ELSE "failed"]
    BY DEF Provider
  <1>4. PICK out \in {"done", "failed"} : out = IF wk[w].todo \ gone = {} THEN "done" ELSE "failed"
    OBVIOUS
  <1>5. PICK rest \in SUBSET Faces : rest = wk[w].todo \ gone
    BY <1>1 DEF WorkerType
  <1>6. PICK item : item = [wk[w] EXCEPT !.pc = "record", !.stage = "provider", !.todo = rest, !.out = out]
    OBVIOUS
  <1>7. wk' = [wk EXCEPT ![w] = item]
    BY <1>1, <1>3, <1>4, <1>5, <1>6 DEF WorkerType
  <1>8. /\ item \in WorkerType /\ item.pc = "record" /\ item.stage = "provider"
        /\ item.st = wk[w].st /\ item.claimed = wk[w].claimed /\ item.mode = wk[w].mode
        /\ item.from = wk[w].from
    BY <1>1, <1>6 DEF WorkerType, Stages
  <1>9. Sound'
    <2>1. status = "gone" => ~idData
      BY DEF Sound, GoneLosesIdentityData
    <2>2. wk[w].pc \in Stages \cup {"verify"} /\ At(wk[w]) = "provider" /\ At(item) = "provider"
      BY <1>2, <1>8 DEF Stages, At
    <2>3. UNCHANGED <<job, idData, status>>
      BY <1>2 DEF statusVars
    <2> QED
      BY <1>7, <1>8, <2>1, <2>2, <2>3, StageRun
  <1>10. CallTypeOK'
    BY <1>1, <1>2, <1>7, <1>8 DEF Typed, CallTypeOK
  <1>11. DataTypeOK'
    BY <1>2 DEF Typed, DataTypeOK
  <1> QED
    BY <1>2, <1>9, <1>10, <1>11, StatusKept DEF Typed

LEMMA DbStep ==
    ASSUME Typed, Sound, NEW w \in Workers, Db(w)
    PROVE  Typed' /\ Sound'
  <1>1. UNCHANGED <<statusVars, flow, sess, objects, job, request>> /\ wk[w].pc = "db"
        /\ wk \in [Workers -> WorkerType]
    BY DEF Db, Typed, CallTypeOK
  <1>2. PICK out \in {"done", "failed"} :
          /\ Stopped(w, "db", out)
          /\ \/ pii' = FALSE /\ idData' = FALSE /\ purged' = TRUE /\ row' = [f \in Faces |-> "none"]
             \/ out = "failed" /\ UNCHANGED <<pii, idData, purged, row>>
    BY DEF Db
  <1>3. PICK item \in WorkerType :
             /\ wk' = [wk EXCEPT ![w] = item]
             /\ item.pc = "record" /\ item.stage = "db" /\ item.out = out
             /\ item.st = wk[w].st /\ item.claimed = wk[w].claimed /\ item.mode = wk[w].mode
             /\ item.from = wk[w].from
    BY <1>2, StoppedFacts DEF Stages
  <1>4. Sound'
    <2>1. idData' => idData
      BY <1>2
    <2>2. status = "gone" => ~idData
      BY DEF Sound, GoneLosesIdentityData
    <2>3. wk[w].pc \in Stages \cup {"verify"} /\ At(wk[w]) = "db" /\ At(item) = "db"
      BY <1>1, <1>3 DEF Stages, At
    <2>4. UNCHANGED <<job, status>>
      BY <1>1 DEF statusVars
    <2>5. out = "done" => ~idData'
      BY <1>2
    <2> QED
      BY <1>3, <2>1, <2>2, <2>3, <2>4, <2>5, StageRun
  <1>5. CallTypeOK'
    BY <1>1, <1>3 DEF Typed, CallTypeOK
  <1>6. DataTypeOK'
    BY <1>1, <1>2 DEF Typed, DataTypeOK
  <1> QED
    BY <1>1, <1>4, <1>5, <1>6, StatusKept DEF Typed

\* The auth stage comes after the identity row was anonymised.
LEMMA AuthStep ==
    ASSUME Typed, Sound, NEW w \in Workers, Auth(w)
    PROVE  Typed' /\ Sound'
  <1>1. UNCHANGED <<left, deletedAge, asked, idBanned, audit, edge,
                    idData, purged, flow, sess, objects, job>>
        /\ wk[w].pc = "auth" /\ wk \in [Workers -> WorkerType]
    BY DEF Auth, Typed, CallTypeOK
  <1>2. PICK out \in {"done", "failed"} :
          /\ Stopped(w, "auth", out)
          /\ \/ /\ status' = "gone" /\ pii' = FALSE /\ row' = [f \in Faces |-> "none"]
                /\ request' = [request EXCEPT !.user = FALSE]
             \/ out = "failed" /\ UNCHANGED <<status, pii, row, request>>
    BY DEF Auth
  <1>3. PICK item \in WorkerType :
             /\ wk' = [wk EXCEPT ![w] = item]
             /\ item.pc = "record" /\ item.stage = "auth" /\ item.out = out
             /\ item.st = wk[w].st /\ item.claimed = wk[w].claimed /\ item.mode = wk[w].mode
             /\ item.from = wk[w].from
    BY <1>2, StoppedFacts DEF Stages
  <1>4. wk[w].pc \in Stages \cup {"verify"} /\ At(wk[w]) = "auth" /\ At(item) = "auth"
    BY <1>1, <1>3 DEF Stages, At
  <1>5. ~idData
    BY <1>4 DEF Sound, WorkerSound, Busy
  <1>6. Sound'
    <2>1. status = "gone" => status' = "gone"
      BY <1>2
    <2>2. out = "done" => status' = "gone"
      BY <1>2
    <2> QED
      BY <1>1, <1>3, <1>4, <1>5, <2>1, <2>2, StageRun
  <1>7. StatusInv'
    <2>1. CASE status' = "gone"
      BY <1>1, <2>1 DEF Typed, StatusInv, StatusTypeOK, BanReachesIdentity, Statuses
    <2>2. CASE status' = status
      BY <1>1, <2>2, StatusKept DEF statusVars
    <2> QED
      BY <1>2, <2>1, <2>2
  <1>8. CallTypeOK'
    <2>1. request' \in [st : {"none", "pending", "done", "rejected"}, user : BOOLEAN]
      BY <1>2 DEF Typed, CallTypeOK
    <2> QED
      BY <1>1, <1>3, <2>1 DEF Typed, CallTypeOK
  <1>9. DataTypeOK'
    BY <1>1, <1>2 DEF Typed, DataTypeOK
  <1> QED
    BY <1>6, <1>7, <1>8, <1>9 DEF Typed

\* The snapshot that is left when a stage is recorded.
SnapAfter(w) ==
    CASE wk[w].stage # "provider" -> job.snap
      [] wk[w].stage = "provider" /\ wk[w].out = "done" -> {}
      [] OTHER -> wk[w].todo

\* What the holder of the lease writes, and how it goes on.
LEMMA RecordedFacts ==
    ASSUME Typed, NEW w \in Workers,
           job' = [job EXCEPT !.st[wk[w].stage] = wk[w].out, !.snap = SnapAfter(w)],
           wk' = [wk EXCEPT ![w] =
                    Going([wk[w] EXCEPT !.st[wk[w].stage] = wk[w].out, !.out = "done"],
                          Order[wk[w].stage])]
    PROVE  \E ran \in WorkerType, g \in WorkerType, st \in [Stages -> Outcomes] :
             /\ wk' = [wk EXCEPT ![w] = g]
             /\ ran.st = [wk[w].st EXCEPT ![wk[w].stage] = wk[w].out]
             /\ ran.mode = wk[w].mode /\ ran.from = wk[w].from /\ ran.claimed = wk[w].claimed
             /\ ran.todo = wk[w].todo
             /\ g.mode = wk[w].mode /\ g.from = wk[w].from
             /\ \/ g.pc = "release" /\ g.st = AllPending
                \/ /\ g.pc \in Stages /\ Order[g.pc] > Order[wk[w].stage] /\ Needs(ran, g.pc)
                   /\ g.st = ran.st /\ g.claimed = ran.claimed
                   /\ g.todo = IF Order[wk[w].stage] < Order["provider"] THEN ran.todo ELSE {}
             /\ st = [job.st EXCEPT ![wk[w].stage] = wk[w].out]
             /\ job' \in JobType /\ job'.st = st /\ job'.on = job.on /\ job'.mode = job.mode
             /\ job'.status = job.status /\ job'.owner = job.owner /\ job'.live = job.live
             /\ job'.snap = SnapAfter(w)
  <1>1. /\ wk[w] \in WorkerType /\ wk \in [Workers -> WorkerType] /\ job \in JobType
        /\ wk[w].stage \in Stages /\ wk[w].out \in Outcomes /\ wk[w].todo \in SUBSET Faces
        /\ wk[w].st \in [Stages -> Outcomes] /\ job.st \in [Stages -> Outcomes]
        /\ job.snap \in SUBSET Faces
    BY DEF Typed, CallTypeOK, WorkerType, JobType, Outcomes
  <1>2. PICK wst \in [Stages -> Outcomes] : wst = [wk[w].st EXCEPT ![wk[w].stage] = wk[w].out]
    BY <1>1
  <1>3. PICK st \in [Stages -> Outcomes] : st = [job.st EXCEPT ![wk[w].stage] = wk[w].out]
    BY <1>1
  <1>4. PICK snap \in SUBSET Faces : snap = SnapAfter(w)
    <2>1. SnapAfter(w) \in {job.snap, {}, wk[w].todo}
      BY DEF SnapAfter
    <2> QED
      BY <1>1, <2>1
  <1>5. PICK ran : ran = [wk[w] EXCEPT !.st = wst, !.out = "done"]
    OBVIOUS
  <1>6. /\ ran \in WorkerType /\ ran.st = wst /\ ran.mode = wk[w].mode /\ ran.from = wk[w].from
        /\ ran.claimed = wk[w].claimed /\ ran.todo = wk[w].todo
    BY <1>1, <1>5 DEF WorkerType
  <1>7. PICK new : new = [job EXCEPT !.st = st, !.snap = snap]
    OBVIOUS
  <1>8. /\ new \in JobType /\ new.st = st /\ new.on = job.on /\ new.mode = job.mode
        /\ new.status = job.status /\ new.owner = job.owner /\ new.live = job.live
        /\ new.snap = snap
    BY <1>1, <1>7 DEF JobType
  <1>9. job' = new
    BY <1>1, <1>3, <1>4, <1>7
  <1>10. wk' = [wk EXCEPT ![w] = Going(ran, Order[wk[w].stage])]
    BY <1>1, <1>2, <1>5
  <1>11. Order[wk[w].stage] \in Nat
    BY <1>1 DEF Order, Stages
  <1>12. PICK g \in WorkerType :
             /\ g = Going(ran, Order[wk[w].stage]) /\ g.mode = ran.mode /\ g.from = ran.from
             /\ \/ g.pc = "release" /\ g.st = AllPending
                \/ /\ g.pc \in Stages /\ Order[g.pc] > Order[wk[w].stage] /\ Needs(ran, g.pc)
                   /\ g.st = ran.st /\ g.claimed = ran.claimed
                   /\ g.todo = IF Order[wk[w].stage] < Order["provider"] THEN ran.todo ELSE {}
    BY <1>6, <1>11, GoingFacts
  <1>13. wk' = [wk EXCEPT ![w] = g]
    BY <1>10, <1>12
  <1>14. /\ job' \in JobType /\ job'.st = st /\ job'.on = job.on /\ job'.mode = job.mode
         /\ job'.status = job.status /\ job'.owner = job.owner /\ job'.live = job.live
         /\ job'.snap = SnapAfter(w)
    BY <1>4, <1>8, <1>9
  <1>15. ran.st = [wk[w].st EXCEPT ![wk[w].stage] = wk[w].out]
    BY <1>2, <1>6
  <1>16. /\ g.mode = wk[w].mode /\ g.from = wk[w].from
    BY <1>6, <1>12
  <1> ran \in WorkerType /\ g \in WorkerType /\ st \in [Stages -> Outcomes]
    BY <1>3, <1>6, <1>12
  <1> WITNESS ran \in WorkerType, g \in WorkerType, st \in [Stages -> Outcomes]
  <1> QED
    BY <1>3, <1>6, <1>12, <1>13, <1>14, <1>15, <1>16

LEMMA RecordStep ==
    ASSUME Typed, Sound, NEW w \in Workers, Record(w)
    PROVE  Typed' /\ Sound'
  <1>1. /\ UNCHANGED <<statusVars, dataVars, request, idData, status>>
        /\ wk[w].pc = "record" /\ wk[w].pc \in Busy /\ At(wk[w]) = wk[w].stage
    BY DEF Record, statusVars, dataVars, Busy, At
  <1>2. /\ wk \in [Workers -> WorkerType] /\ wk[w] \in WorkerType /\ wk[w].stage \in Stages
        /\ wk[w].out \in {"done", "failed"} /\ wk[w].st \in [Stages -> Outcomes]
        /\ job \in JobType /\ job.st \in [Stages -> Outcomes]
    BY DEF Typed, CallTypeOK, WorkerType, JobType
  <1>3. WorkerSound(w) /\ HolderSound(w) /\ JobSound
    BY DEF Sound
  <1>4. StatusInv' /\ DataTypeOK'
    BY <1>1, StatusKept DEF Typed, DataTypeOK, dataVars
  <1>5. CASE /\ job.owner = w /\ job.live
             /\ job' = [job EXCEPT !.st[wk[w].stage] = wk[w].out, !.snap = SnapAfter(w)]
             /\ wk' = [wk EXCEPT ![w] =
                        Going([wk[w] EXCEPT !.st[wk[w].stage] = wk[w].out, !.out = "done"],
                              Order[wk[w].stage])]
    <2>1. PICK ran \in WorkerType, g \in WorkerType, st \in [Stages -> Outcomes] :
             /\ wk' = [wk EXCEPT ![w] = g]
             /\ ran.st = [wk[w].st EXCEPT ![wk[w].stage] = wk[w].out]
             /\ ran.mode = wk[w].mode /\ ran.from = wk[w].from /\ ran.claimed = wk[w].claimed
             /\ ran.todo = wk[w].todo
             /\ g.mode = wk[w].mode /\ g.from = wk[w].from
             /\ \/ g.pc = "release" /\ g.st = AllPending
                \/ /\ g.pc \in Stages /\ Order[g.pc] > Order[wk[w].stage] /\ Needs(ran, g.pc)
                   /\ g.st = ran.st /\ g.claimed = ran.claimed
                   /\ g.todo = IF Order[wk[w].stage] < Order["provider"] THEN ran.todo ELSE {}
             /\ st = [job.st EXCEPT ![wk[w].stage] = wk[w].out]
             /\ job' \in JobType /\ job'.st = st /\ job'.on = job.on /\ job'.mode = job.mode
             /\ job'.status = job.status /\ job'.owner = job.owner /\ job'.live = job.live
             /\ job'.snap = SnapAfter(w)
      BY <1>5, RecordedFacts
    <2>2. wk'[w] = g /\ wk' \in [Workers -> WorkerType]
      BY <1>2, <2>1
    <2>3. wk[w].st = job.st /\ (wk[w].claimed = "hard" => job.mode = "hard")
      BY <1>1, <1>3, <1>5 DEF HolderSound
    <2>4. /\ wk[w].out = "done" =>
               (wk[w].stage = "db" => ~idData) /\ (wk[w].stage = "auth" => status = "gone")
          /\ wk[w].stage = "auth" => job.mode = "hard"
          /\ wk[w].st["db"] # "skipped" /\ (wk[w].st["db"] = "done" => ~idData)
      BY <1>1, <1>3, <2>3 DEF WorkerSound
    <2>5. st["db"] # "skipped" /\ (st["db"] = "done" => ~idData)
      BY <1>2, <2>1, <2>3, <2>4
    <2>6. JobSound'
      <3>1. job.on /\ job.status = "running"
        BY <1>3, <1>5 DEF JobSound, NoJob
      <3>2. st["auth"] = "done" => status = "gone"
        BY <1>2, <1>3, <2>1, <2>4 DEF JobSound
      <3>3. job.mode = "anonymize" => st["auth"] = "pending"
        BY <1>2, <1>3, <2>1, <2>4 DEF JobSound
      <3>4. st["auth"] = "skipped" => "skip" \in Extras
        BY <1>2, <1>3, <2>1, <2>4 DEF JobSound
      <3> QED
        BY <1>1, <2>1, <2>5, <3>1, <3>2, <3>3, <3>4 DEF JobSound
    <2>7. WorkerSound(w)'
      <3>1. g.from = "request" => g.mode = "hard"
        BY <1>3, <2>1 DEF WorkerSound
      <3>2. CASE g.pc = "release" /\ g.st = AllPending
        <4>1. g.st["db"] = "pending"
          BY <3>2 DEF AllPending, Stages
        <4> QED
          BY <2>2, <3>1, <3>2, <4>1 DEF WorkerSound, Busy, Stages
      <3>3. CASE g.pc \in Stages /\ Needs(ran, g.pc) /\ g.st = ran.st /\ g.claimed = ran.claimed
        <4>1. g.st = st
          BY <2>1, <2>3, <3>3
        <4>2. At(g) = g.pc /\ g.pc # "record"
          BY <3>3 DEF At, Stages
        <4>3. ~Finished(g.st[g.pc])
          BY <3>3 DEF Needs
        <4>4. g.pc = "auth" => g.claimed = "hard" /\ g.st["db"] = "done"
          BY <2>5, <3>3, <4>1 DEF Needs, Finished
        <4> QED
          BY <1>1, <2>2, <2>5, <3>1, <4>1, <4>2, <4>3, <4>4 DEF WorkerSound
      <3> QED
        BY <2>1, <3>2, <3>3
    <2>8. HolderSound(w)'
      <3>1. wk[w].mode = "hard" => job.mode = "hard"
        BY <1>1, <1>3, <1>5 DEF HolderSound
      <3>2. g.pc \in Busy => g.st = st /\ g.claimed = wk[w].claimed
        BY <2>1, <2>3 DEF Busy, Stages
      <3> QED
        BY <2>1, <2>2, <2>3, <3>1, <3>2 DEF HolderSound
    <2>9. ASSUME NEW v \in Workers, v # w PROVE WorkerSound(v)' /\ HolderSound(v)'
      <3>1. wk'[v] = wk[v] /\ job'.owner # v
        BY <1>5, <2>1, <2>9
      <3> QED
        BY <1>1, <3>1, OtherWorker, OtherHolder DEF Sound
    <2>10. Sound'
      BY <1>1, <2>6, <2>7, <2>8, <2>9 DEF Sound, GoneLosesIdentityData
    <2>11. CallTypeOK'
      BY <1>1, <2>1, <2>2 DEF Typed, CallTypeOK
    <2> QED
      BY <1>4, <2>10, <2>11 DEF Typed
  <1>6. CASE /\ UNCHANGED job
             /\ wk' = [wk EXCEPT ![w] = [Idle EXCEPT !.pc = "release", !.from = wk[w].from,
                                                      !.mode = wk[w].mode]]
    <2>1. PICK item : item = [Idle EXCEPT !.pc = "release", !.from = wk[w].from, !.mode = wk[w].mode]
      OBVIOUS
    <2>2. /\ item \in WorkerType /\ item.pc = "release" /\ item.from = wk[w].from
          /\ item.mode = wk[w].mode /\ item.st = Idle.st
      BY <1>2, <2>1, IdleTyped DEF WorkerType
    <2>3. wk' = [wk EXCEPT ![w] = item] /\ wk'[w] = item
      BY <1>2, <1>6, <2>1
    <2>4. item.st["db"] = "pending"
      BY <2>2 DEF Idle, AllPending, Stages
    <2>5. WorkerSound(w)'
      BY <1>3, <2>2, <2>3, <2>4 DEF WorkerSound, Busy, Stages
    <2>6. HolderSound(w)'
      BY <1>1, <1>3, <1>6, <2>2, <2>3 DEF HolderSound, Busy, Stages
    <2>7. status' = "gone" => ~idData'
      BY <1>1 DEF Sound, GoneLosesIdentityData
    <2>8. Sound'
      BY <1>1, <1>2, <1>6, <2>3, <2>5, <2>6, <2>7, OneWorker
    <2>9. CallTypeOK'
      BY <1>1, <1>2, <1>6, <2>2, <2>3 DEF Typed, CallTypeOK
    <2> QED
      BY <1>4, <2>8, <2>9 DEF Typed
  <1> QED
    <2>1. SnapAfter(w) = CASE wk[w].stage # "provider" -> job.snap
                           [] wk[w].out = "done" -> {}
                           [] OTHER -> wk[w].todo
      BY DEF SnapAfter
    <2> QED
      BY <1>5, <1>6, <2>1 DEF Record, NotRecorded

LEMMA ReleaseStep ==
    ASSUME Typed, Sound, NEW w \in Workers, Release(w) \/ ReleaseLost(w)
    PROVE  Typed' /\ Sound'
  <1>1. job \in JobType /\ JobSound
    BY DEF Typed, CallTypeOK, Sound
  <1>2. UNCHANGED <<statusVars, dataVars, idData, status>>
    BY DEF Release, ReleaseLost, statusVars, dataVars
  <1>3. CASE Release(w)
    <2>1. PICK ok \in BOOLEAN : ok = Complete(job)
      BY DEF Complete
    <2>2. PICK word \in {"done", "failed"} : word = IF Complete(job) THEN "done" ELSE "failed"
      OBVIOUS
    <2>3. PICK new : new = [job EXCEPT !.status = word, !.owner = Nobody, !.live = FALSE]
      OBVIOUS
    <2>4. /\ new \in JobType /\ new.on = job.on /\ new.st = job.st /\ new.mode = job.mode
          /\ new.status = word /\ new.owner = Nobody /\ new.live = FALSE
      BY <1>1, <2>3 DEF JobType
    <2>5. job' = new /\ Return(w, ok) /\ job.owner = w
      BY <1>3, <2>1, <2>2, <2>3 DEF Release
    <2>6. job.on
      BY <1>1, <2>5, WorkersAssumption DEF JobSound, NoJob
    <2>7. word = "done" => Complete(new)
      BY <2>2, <2>4 DEF Complete
    <2>8. JobSound'
      BY <1>1, <1>2, <2>4, <2>5, <2>6, <2>7 DEF JobSound
    <2> QED
      BY <1>2, <2>4, <2>5, <2>8, ReturnSound
  <1>4. CASE ReleaseLost(w)
    <2>1. Return(w, FALSE) /\ job' = job
      BY <1>4 DEF ReleaseLost
    <2>2. JobSound'
      BY <1>1, <1>2, <2>1 DEF JobSound, Complete
    <2> QED
      BY <1>1, <1>2, <2>1, <2>2, ReturnSound
  <1> QED
    BY <1>3, <1>4

\* A stage is skipped only while nobody holds the lease.
LEMMA SkippedFacts ==
    ASSUME Typed, Sound, NEW s \in Stages, SkipStage(s)
    PROVE  /\ "skip" \in Extras /\ s # "db" /\ job.on /\ ~job.live /\ job.st[s] = "failed"
           /\ job' \in JobType /\ job'.on = job.on /\ job'.mode = job.mode
           /\ job'.st = [job.st EXCEPT ![s] = "skipped"]
           /\ job'.owner = job.owner /\ job'.live = job.live
           /\ job'.status = "done" => Complete(job')
           /\ job'.snap = IF s = "provider" THEN {} ELSE job.snap
           /\ UNCHANGED <<statusVars, dataVars, wk, request>>
  <1>1. job \in JobType /\ JobSound /\ job.st \in [Stages -> Outcomes]
    BY DEF Typed, CallTypeOK, Sound, JobType
  <1>2. PICK st \in [Stages -> Outcomes] : st = [job.st EXCEPT ![s] = "skipped"]
    BY <1>1 DEF Outcomes
  <1>3. PICK snap \in SUBSET Faces : snap = IF s = "provider" THEN {} ELSE job.snap
    BY <1>1 DEF JobType
  <1>4. PICK j : j = [job EXCEPT !.st = st, !.snap = snap]
    OBVIOUS
  <1>5. /\ j \in JobType /\ j.on = job.on /\ j.mode = job.mode /\ j.st = st
        /\ j.owner = job.owner /\ j.live = job.live /\ j.status = job.status /\ j.snap = snap
    BY <1>1, <1>4 DEF JobType
  <1>6. j = [job EXCEPT !.st[s] = "skipped", !.snap = IF s = "provider" THEN {} ELSE @]
    BY <1>1, <1>2, <1>3, <1>4 DEF JobType
  <1>7. job' = [j EXCEPT !.status = IF Complete(j) THEN "done" ELSE @]
    BY <1>6 DEF SkipStage
  <1>8. PICK word : word = IF Complete(j) THEN "done" ELSE j.status
    OBVIOUS
  <1>9. word \in {"none", "running", "failed", "done"}
    BY <1>5, <1>8 DEF JobType
  <1>10. job' = [j EXCEPT !.status = word]
    BY <1>7, <1>8
  <1>11. PICK new : new = [j EXCEPT !.status = word]
    OBVIOUS
  <1>12. /\ new \in JobType /\ new.on = j.on /\ new.mode = j.mode /\ new.st = st
         /\ new.owner = j.owner /\ new.live = j.live /\ new.status = word /\ new.snap = snap
    BY <1>5, <1>9, <1>11 DEF JobType
  <1>13. word = "done" => Complete(new)
    <2>1. Complete(job) => Complete(j)
      BY <1>1, <1>2, <1>5 DEF Complete, Finished
    <2>2. Complete(j) => Complete(new)
      BY <1>5, <1>12 DEF Complete
    <2> QED
      BY <1>1, <1>5, <1>8, <2>1, <2>2 DEF JobSound
  <1>14. /\ "skip" \in Extras /\ s # "db" /\ job.on /\ ~Leased /\ job.st[s] = "failed"
         /\ UNCHANGED <<statusVars, dataVars, wk, request>>
    BY DEF SkipStage
  <1>15. ~job.live
    BY <1>1, <1>14 DEF Leased, JobSound
  <1> QED
    BY <1>2, <1>3, <1>5, <1>10, <1>11, <1>12, <1>13, <1>14, <1>15

\* The lease runs out, a stage is skipped, an old job is deleted.
LEMMA JobStep ==
    ASSUME Typed, Sound, LeaseExpires \/ Prune \/ \E s \in Stages : SkipStage(s)
    PROVE  Typed' /\ Sound'
  <1>1. job \in JobType /\ JobSound /\ job.st \in [Stages -> Outcomes]
    BY DEF Typed, CallTypeOK, Sound, JobType
  <1>2. /\ UNCHANGED <<statusVars, dataVars, wk, request>> /\ job' \in JobType /\ JobSound'
        /\ job'.live = FALSE
        /\ job' = NoJob \/ (job'.owner = job.owner /\ job'.mode = job.mode)
    <2>1. CASE LeaseExpires
      <3>1. PICK new : new = [job EXCEPT !.live = FALSE]
        OBVIOUS
      <3>2. /\ new \in JobType /\ new.on = job.on /\ new.mode = job.mode /\ new.st = job.st
            /\ new.owner = job.owner /\ new.live = FALSE /\ new.status = job.status
        BY <1>1, <3>1 DEF JobType
      <3>3. job' = new /\ UNCHANGED <<statusVars, dataVars, wk, request, idData, status>> /\ job.live
        BY <2>1, <3>1 DEF LeaseExpires, Leased, statusVars, dataVars
      <3>4. JobSound'
        BY <1>1, <3>2, <3>3 DEF JobSound, NoJob, Complete
      <3> QED
        BY <3>2, <3>3, <3>4
    <2>2. CASE Prune
      <3>1. job' = NoJob /\ UNCHANGED <<statusVars, dataVars, wk, request>>
        BY <2>2 DEF Prune
      <3>2. JobSound'
        BY <3>1 DEF JobSound, NoJob, AllPending, Stages
      <3> QED
        BY <3>1, <3>2, IdleTyped DEF NoJob
    <2>3. ASSUME NEW s \in Stages, SkipStage(s)
          PROVE  /\ UNCHANGED <<statusVars, dataVars, wk, request>> /\ job' \in JobType /\ JobSound'
                 /\ job'.live = FALSE /\ job'.owner = job.owner /\ job'.mode = job.mode
      <3>1. /\ "skip" \in Extras /\ s # "db" /\ job.on /\ ~job.live /\ job.st[s] = "failed"
            /\ job' \in JobType /\ job'.on = job.on /\ job'.mode = job.mode
            /\ job'.st = [job.st EXCEPT ![s] = "skipped"]
            /\ job'.owner = job.owner /\ job'.live = job.live
            /\ (job'.status = "done" => Complete(job'))
            /\ UNCHANGED <<statusVars, dataVars, wk, request>>
        BY <2>3, SkippedFacts
      <3>2. UNCHANGED <<idData, status>>
        BY <3>1 DEF statusVars, dataVars
      <3>3. job'.st["db"] = job.st["db"] /\ job'.st["auth"] \in {job.st["auth"], "skipped"}
        BY <1>1, <3>1
      <3>4. job'.mode = "anonymize" => job'.st["auth"] = "pending"
        BY <1>1, <3>1 DEF JobSound
      <3>5. JobSound'
        BY <1>1, <3>1, <3>2, <3>3, <3>4 DEF JobSound
      <3>6. job'.live = FALSE
        BY <3>1 DEF JobType
      <3> QED
        BY <3>1, <3>5, <3>6
    <2> QED
      BY <2>1, <2>2, <2>3
  <1>3. ASSUME NEW v \in Workers PROVE WorkerSound(v)' /\ HolderSound(v)'
    <2>1. v # Nobody /\ NoJob.owner = Nobody
      BY WorkersAssumption DEF NoJob
    <2>2. UNCHANGED <<idData, status>>
      BY <1>2 DEF statusVars, dataVars
    <2> QED
      BY <1>2, <2>1, <2>2, OtherWorker, OtherHolder DEF Sound
  <1>4. Sound'
    BY <1>2, <1>3 DEF Sound, GoneLosesIdentityData, statusVars, dataVars
  <1>5. CallTypeOK'
    BY <1>2 DEF Typed, CallTypeOK
  <1>6. DataTypeOK'
    BY <1>2 DEF Typed, DataTypeOK, dataVars
  <1> QED
    BY <1>2, <1>4, <1>5, <1>6, StatusKept DEF Typed

LEMMA PurgeStep == Typed /\ Sound /\ [Next]_vars => (Typed /\ Sound)'
  <1> SUFFICES ASSUME Typed, Sound, [Next]_vars PROVE Typed' /\ Sound'
    OBVIOUS
  <1>1. CASE StatusNext /\ UNCHANGED purgeVars
    BY <1>1, AccountStep
  <1>2. ASSUME NEW w \in Workers, Started(w) \/ WorkerStep(w) \/ Crash(w)
        PROVE  Typed' /\ Sound'
    BY <1>2, StartStep, ShutStep, ClaimGrantedStep, ClaimRefusedStep, StorageStep, ProviderStep,
       DbStep, AuthStep, RecordStep, ReleaseStep DEF WorkerStep
  <1>3. CASE LeaseExpires \/ Prune \/ \E s \in Stages : SkipStage(s)
    BY <1>3, JobStep
  <1>4. CASE Onboard \/ FileRequest \/ RejectRequest \/ \E f \in Faces : FaceStep(f)
    BY <1>4, BesideStep
  <1>5. CASE UNCHANGED vars
    <2>1. UNCHANGED <<statusVars, status, wk, job, request>> /\ UNCHANGED dataVars
      BY <1>5 DEF vars, purgeVars, statusVars
    <2>2. Sound'
      BY <2>1, Frame DEF dataVars
    <2> QED
      BY <2>1, <2>2, StatusKept DEF Typed, DataTypeOK, CallTypeOK, dataVars
  <1> QED
    BY <1>1, <1>2, <1>3, <1>4, <1>5 DEF Next

LEMMA PurgeInductive == Spec => [](Typed /\ Sound)
  BY PurgeInit, PurgeStep, PTL DEF Spec

\* A finished stage is not run or skipped again; the row of the job may be
\* deleted.
LEMMA FinishedKept ==
    ASSUME Typed, Sound, Next, NEW s \in Stages, Finished(job.st[s]), ~Prune
    PROVE  job'.st[s] = job.st[s]
  <1>1. job \in JobType /\ job.st \in [Stages -> Outcomes] /\ JobSound
    BY DEF Typed, CallTypeOK, JobType, Sound
  <1>2. CASE UNCHANGED job
    BY <1>2
  <1>3. ASSUME NEW w \in Workers, ClaimGranted(w) PROVE job'.st = job.st
    <2>1. PICK j \in JobType : j = (IF job.on THEN Upgraded(w) ELSE Fresh(w)) /\ j.st = job.st
      BY <1>3, ClaimedFacts DEF ClaimGranted
    <2>2. job' = [j EXCEPT !.status = "running", !.owner = w, !.live = TRUE]
      BY <1>3, <2>1 DEF ClaimGranted
    <2> QED
      BY <2>1, <2>2 DEF JobType
  <1>4. ASSUME NEW w \in Workers, ClaimRefused(w) PROVE job'.st = job.st
    BY <1>4, UpgradedFacts DEF ClaimRefused
  <1>5. ASSUME NEW w \in Workers, Release(w) PROVE job'.st = job.st
    BY <1>1, <1>5 DEF Release, JobType
  <1>6. ASSUME NEW w \in Workers, Record(w) PROVE job'.st[s] = job.st[s]
    <2>1. CASE UNCHANGED job
      BY <2>1
    <2>2. CASE job.owner = w /\ job.live
               /\ \E snap : job' = [job EXCEPT !.st[wk[w].stage] = wk[w].out, !.snap = snap]
      <3>1. wk[w].st = job.st /\ ~Finished(wk[w].st[wk[w].stage])
        BY <1>6, <2>2 DEF Record, Sound, HolderSound, WorkerSound, Busy, At
      <3>2. job'.st = [job.st EXCEPT ![wk[w].stage] = wk[w].out]
        BY <1>1, <2>2 DEF JobType
      <3> QED
        BY <1>1, <3>1, <3>2
    <2> QED
      BY <1>6, <2>1, <2>2 DEF Record, NotRecorded
  <1>7. CASE LeaseExpires
    BY <1>1, <1>7 DEF LeaseExpires, JobType
  <1>8. ASSUME NEW t \in Stages, SkipStage(t) PROVE job'.st[s] = job.st[s]
    <2>1. job.st[t] = "failed" /\ job'.st = [job.st EXCEPT ![t] = "skipped"]
      BY <1>8, SkippedFacts
    <2> QED
      BY <1>1, <2>1 DEF Finished
  <1>9. CASE Onboard \/ FileRequest \/ RejectRequest \/ \E f \in Faces : FaceStep(f)
    BY <1>9 DEF Onboard, FileRequest, RejectRequest, FaceStep, FaceStart, FaceCreate,
                FaceAttach, HookRead, HookStore
  <1>10. CASE StatusNext /\ UNCHANGED purgeVars
    BY <1>10 DEF purgeVars
  <1>11. ASSUME NEW w \in Workers, Started(w) \/ Crash(w) PROVE UNCHANGED job
    BY <1>11 DEF Started, BatchTarget, PurgeNow, Retry, HandleRequest, Start, Crash
  <1>12. ASSUME NEW w \in Workers,
                Shut(w) \/ Storage(w) \/ VerifyStorage(w) \/ Provider(w) \/ Db(w) \/ Auth(w)
                \/ ReleaseLost(w)
         PROVE  UNCHANGED job
    BY <1>12 DEF Shut, Storage, VerifyStorage, Provider, Db, Auth, ReleaseLost
  <1> QED
    BY <1>2, <1>3, <1>4, <1>5, <1>6, <1>7, <1>8, <1>9, <1>10, <1>11, <1>12 DEF Next, WorkerStep

\* No late, repeated or revived worker, no further claim and no operator takes
\* a finished stage back, for any number of workers and whatever fails.
THEOREM FinishedStagesStand == Spec => DoneStaysDone
  <1>1. Typed /\ Sound /\ [Next]_vars
        => [\A s \in Stages : job.st[s] = "done" /\ job'.on => job'.st[s] = "done"]_vars
    <2> SUFFICES ASSUME Typed, Sound, Next, NEW s \in Stages, job.st[s] = "done", job'.on
                 PROVE  job'.st[s] = "done"
      OBVIOUS
    <2>1. ~Prune
      BY DEF Prune, NoJob
    <2> QED
      BY <2>1, FinishedKept DEF Finished
  <1> QED
    BY <1>1, PurgeInductive, PTL DEF Spec, DoneStaysDone

\* What the worker of a request may say of the account.
LEMMA RequestStep ==
    ASSUME Typed, Sound, RequestDoneMeansGone, Next, ~({"prune", "skip"} \subseteq Extras)
    PROVE  RequestDoneMeansGone'
  <1>1. JobSound /\ job \in JobType
    BY DEF Sound, Typed, CallTypeOK
  <1>2. status = "gone" => status' = "gone"
    <2>1. CASE StatusNext
      BY <2>1, StatusKeepsGone
    <2>2. CASE ~StatusNext
      BY ZenonT(30), <2>2 DEF Next, WorkerStep, Started, BatchTarget, PurgeNow, Retry, HandleRequest, Start,
         Shut, ClaimGranted, ClaimRefused, Storage, VerifyStorage, Provider, Db, Auth, Record,
         Release, ReleaseLost, Crash, LeaseExpires, Prune, FileRequest, RejectRequest, Onboard,
         SkipStage, FaceStep, FaceStart, FaceCreate, FaceAttach, HookRead, HookStore, statusVars
    <2> QED
      BY <2>1, <2>2
  <1>3. CASE request.st = "done" \/ request'.st # "done"
    <2>1. job.st["auth"] = "skipped" => ~Prune
      BY <1>1 DEF JobSound, Prune
    <2>2. job.st["auth"] = "skipped" => job'.st["auth"] = "skipped"
      BY <2>1, FinishedKept DEF Stages, Finished
    <2> QED
      BY <1>2, <1>3, <2>2 DEF RequestDoneMeansGone
  <1>4. CASE request.st # "done" /\ request'.st = "done"
    <2>1. PICK w \in Workers, ok \in BOOLEAN :
            /\ Return(w, ok)
            /\ \/ ClaimRefused(w) /\ ok = (job.status = "done")
               \/ Release(w) /\ ok = Complete(job)
               \/ ReleaseLost(w) /\ ok = FALSE
      <3>1. request' # request
        BY <1>4
      <3>2. ASSUME NEW w \in Workers, Auth(w) PROVE request'.st = request.st
        BY <3>2 DEF Auth, Typed, CallTypeOK
      <3>3. FileRequest \/ RejectRequest => request'.st # "done"
        BY DEF FileRequest, RejectRequest, Typed, CallTypeOK
      <3>4. \E w \in Workers : ClaimRefused(w) \/ Release(w) \/ ReleaseLost(w)
        BY <1>4, <3>1, <3>2, <3>3 DEF Next, WorkerStep, Started, BatchTarget, PurgeNow, Retry,
           HandleRequest, Start, Shut, ClaimGranted, Storage, VerifyStorage, Provider, Db, Record,
           Crash, LeaseExpires, Prune, Onboard, SkipStage, FaceStep, FaceStart, FaceCreate,
           FaceAttach, HookRead, HookStore, purgeVars
      <3>5. (job.status = "done") \in BOOLEAN /\ Complete(job) \in BOOLEAN
        BY DEF Complete
      <3> QED
        BY <3>4, <3>5 DEF ClaimRefused, Release, ReleaseLost
    <2>2. ok /\ wk[w].mode = "hard"
      BY <1>4, <2>1, ReturnFacts DEF Sound, WorkerSound
    <2>3. CASE ClaimRefused(w)
      <3>1. job.status = "done" /\ wk[w].pc = "claim" /\ ~Claimable(w)
        BY <2>1, <2>2, <2>3 DEF ClaimRefused, Release, ReleaseLost
      <3>2. job.on /\ ~Leased /\ ~Reopens(w)
        BY <1>1, <3>1 DEF JobSound, NoJob, Leased, Claimable
      <3>3. job.mode = "hard" /\ Complete(job)
        BY <1>1, <2>2, <3>1, <3>2 DEF JobType, Modes, Reopens, JobSound
      <3>4. job.st["auth"] = "skipped" \/ status = "gone"
        BY <1>1, <3>3 DEF Complete, Finished, JobSound
      <3>5. job'.st = job.st
        BY <2>3, UpgradedFacts DEF ClaimRefused
      <3> QED
        BY <1>2, <3>4, <3>5 DEF RequestDoneMeansGone
    <2>4. CASE Release(w)
      <3>1. job.owner = w /\ wk[w].pc = "release"
        BY <2>4 DEF Release
      <3>2. Complete(job)
        BY <2>1, <2>2, <3>1 DEF ClaimRefused, ReleaseLost, Release
      <3>3. job.mode = "hard"
        BY <2>2, <3>1 DEF Sound, HolderSound
      <3>4. job.st["auth"] = "skipped" \/ status = "gone"
        BY <1>1, <3>2, <3>3 DEF Complete, Finished, JobSound
      <3>5. job'.st = job.st
        BY <1>1, <2>4 DEF Release, JobType
      <3> QED
        BY <1>2, <3>4, <3>5 DEF RequestDoneMeansGone
    <2> QED
      BY <2>1, <2>2, <2>3, <2>4
  <1> QED
    BY <1>3, <1>4

\* The login account that is gone has lost its identity data, and a request is
\* closed only for such an account or where an operator skipped the stage.  The
\* job's row is where the skip is written: with both skips and the deletion of
\* old jobs the second part is not true of the state alone (the statement leaves
\* that combination out: a job is deleted only long after it was done).
THEOREM GoneIsErased ==
    ASSUME ~({"prune", "skip"} \subseteq Extras)
    PROVE  Spec => []GoneInv
  <1>1. Init /\ InitPurge => RequestDoneMeansGone
    BY DEF InitPurge, RequestDoneMeansGone
  <1>2. Typed /\ Sound /\ RequestDoneMeansGone /\ [Next]_vars => RequestDoneMeansGone'
    <2> SUFFICES ASSUME Typed, Sound, RequestDoneMeansGone, [Next]_vars PROVE RequestDoneMeansGone'
      OBVIOUS
    <2>1. CASE Next
      BY <2>1, RequestStep
    <2>2. CASE UNCHANGED vars
      BY <2>2 DEF vars, purgeVars, statusVars, RequestDoneMeansGone
    <2> QED
      BY <2>1, <2>2
  <1>3. Typed /\ Sound /\ RequestDoneMeansGone => GoneInv
    BY DEF Sound, GoneInv
  <1> QED
    BY <1>1, <1>2, <1>3, PurgeInductive, PTL DEF Spec
-----------------------------------------------------------------------------
(***************************************************************************)
(* What the stages erase, for an account to which nothing is added any     *)
(* more: no face request is on its way and the owner does not come back.   *)
(***************************************************************************)

\* What a stage that is done has erased.
Erased(s) ==
    /\ s = "storage" => objects = {}
    /\ s = "provider" => sess = {}
    /\ s = "db" => ~pii /\ ~idData /\ \A f \in Faces : row[f] = "none"

\* The provider stage is still before the worker.
Before(r) ==
    r.pc \in {"storage", "verify", "provider"} \/ (r.pc = "record" /\ r.stage = "storage")

\* The worker that may still delete sessions has them all on its list.
WorkerReaches(w) ==
    LET r == wk[w]
    IN  /\ r.pc = "record" /\ r.out = "done" => Erased(r.stage)
        /\ Before(r) /\ ~Finished(r.st["provider"]) => sess \subseteq r.todo
        /\ r.pc = "record" /\ r.stage = "provider" => sess \subseteq r.todo

\* The job has the sessions in its snapshot; without a job they have their rows.
JobReaches ==
    /\ \A s \in Stages : job.st[s] = "done" => Erased(s)
    /\ job.on /\ ~Finished(job.st["provider"]) => sess \subseteq job.snap
    /\ ~job.on => sess = {} \/ (sess \subseteq OpenRows /\ \A w \in Workers : wk[w].pc \notin Busy)
    /\ job.st["provider"] = "skipped" => "skip" \in Extras

Reaching ==
    /\ \A f \in Faces : flow[f] = "idle"
    /\ JobReaches
    /\ \A w \in Workers : WorkerReaches(w)

\* Data only ever get fewer.
LEMMA ErasedKept ==
    ASSUME NEW s \in Stages, Erased(s), objects' \subseteq objects, sess' \subseteq sess,
           pii' => pii, idData' => idData,
           \A f \in Faces : row[f] = "none" => row'[f] = "none"
    PROVE  Erased(s)'
  BY DEF Erased

LEMMA OtherReaches ==
    ASSUME Typed, NEW v \in Workers, WorkerReaches(v), wk'[v] = wk[v],
           objects' \subseteq objects, sess' \subseteq sess, pii' => pii, idData' => idData,
           \A f \in Faces : row[f] = "none" => row'[f] = "none"
    PROVE  WorkerReaches(v)'
  <1>1. wk[v].stage \in Stages
    BY DEF Typed, CallTypeOK, WorkerType
  <1>2. wk[v].pc = "record" /\ wk[v].out = "done" => Erased(wk[v].stage)'
    BY <1>1, ErasedKept DEF WorkerReaches
  <1>3. /\ Before(wk[v]) /\ ~Finished(wk[v].st["provider"]) => sess' \subseteq wk[v].todo
        /\ wk[v].pc = "record" /\ wk[v].stage = "provider" => sess' \subseteq wk[v].todo
    BY DEF WorkerReaches
  <1> QED
    BY <1>2, <1>3 DEF WorkerReaches

\* A worker that is in none of its stages has nothing to reach.
LEMMA RestReaches ==
    ASSUME NEW v \in Workers, wk'[v].pc \notin Busy
    PROVE  WorkerReaches(v)'
  BY DEF WorkerReaches, Before, Busy, Stages

\* No data change, and every worker either stays as it is or comes to rest.
LEMMA ReachFrame ==
    ASSUME Typed, Reaching, UNCHANGED dataVars, JobReaches',
           \A v \in Workers : wk'[v] = wk[v] \/ wk'[v].pc \notin Busy
    PROVE  Reaching'
  <1>1. UNCHANGED <<pii, idData, row, flow, sess, objects>>
    BY DEF dataVars
  <1>2. ASSUME NEW v \in Workers PROVE WorkerReaches(v)'
    BY <1>1, OtherReaches, RestReaches DEF Reaching
  <1> QED
    BY <1>1, <1>2 DEF Reaching

LEMMA JobReachesKept ==
    ASSUME JobReaches, UNCHANGED dataVars,
           job'.st = job.st, job'.on = job.on, job'.snap = job.snap,
           \A v \in Workers : wk'[v] = wk[v] \/ wk'[v].pc \notin Busy
    PROVE  JobReaches'
  <1>1. UNCHANGED <<pii, idData, row, sess, objects>>
    BY DEF dataVars
  <1>2. \A s \in Stages : Erased(s) => Erased(s)'
    BY <1>1 DEF Erased
  <1>3. OpenRows' = OpenRows
    BY <1>1 DEF OpenRows
  <1> QED
    BY <1>1, <1>2, <1>3 DEF JobReaches

\* Everything but the stages themselves and the operator's and the job's own
\* changes: starts, refusals, releases, crashes.
LEMMA RestingStep ==
    ASSUME Typed, Sound, Reaching, NEW w \in Workers,
           \/ Started(w) \/ Crash(w) \/ Shut(w) \/ ClaimRefused(w) \/ Release(w) \/ ReleaseLost(w)
    PROVE  Reaching'
  <1>1. wk \in [Workers -> WorkerType] /\ job \in JobType
    BY DEF Typed, CallTypeOK
  <1>2. Idle.pc \notin Busy /\ Idle \in WorkerType
    BY IdleTyped DEF Idle, Busy, Stages
  <1>3. UNCHANGED dataVars
    BY DEF Started, BatchTarget, PurgeNow, Retry, HandleRequest, Start, Crash, Shut,
           ClaimRefused, Release, ReleaseLost
  <1>4. \A v \in Workers : wk'[v] = wk[v] \/ wk'[v].pc \notin Busy
    <2>1. CASE Started(w)
      <3>1. PICK by, mode, pc : pc \in {"shut", "claim"} /\ Start(w, by, mode, pc)
        BY <2>1 DEF Started, BatchTarget, PurgeNow, Retry, HandleRequest
      <3>2. PICK from : from = IF by \in {"retry", "request"} THEN by ELSE "none"
        OBVIOUS
      <3>3. PICK item : item = [Idle EXCEPT !.pc = pc, !.mode = mode, !.from = from]
        OBVIOUS
      <3>4. item.pc = pc
        BY <1>2, <3>3 DEF WorkerType
      <3>5. wk' = [wk EXCEPT ![w] = item]
        BY <3>1, <3>2, <3>3 DEF Start
      <3> QED
        BY <1>1, <3>1, <3>4, <3>5 DEF Busy, Stages
    <2>2. CASE Shut(w)
      <3>1. wk' = [wk EXCEPT ![w] = [wk[w] EXCEPT !.pc = "claim"]]
        BY <2>2 DEF Shut
      <3>2. [wk[w] EXCEPT !.pc = "claim"].pc = "claim"
        BY <1>1 DEF WorkerType
      <3> QED
        BY <1>1, <3>1, <3>2 DEF Busy, Stages
    <2>3. CASE wk' = [wk EXCEPT ![w] = Idle]
      BY <1>1, <1>2, <2>3
    <2> QED
      BY <2>1, <2>2, <2>3 DEF Crash, ClaimRefused, Release, ReleaseLost, Return
  <1>5. job'.st = job.st /\ job'.on = job.on /\ job'.snap = job.snap
    <2>1. CASE ClaimRefused(w)
      BY <2>1, UpgradedFacts DEF ClaimRefused
    <2>2. CASE Release(w)
      BY <1>1, <2>2 DEF Release, JobType
    <2>3. CASE UNCHANGED job
      BY <2>3
    <2> QED
      BY <2>1, <2>2, <2>3 DEF Started, BatchTarget, PurgeNow, Retry, HandleRequest, Start, Crash,
                              Shut, ReleaseLost
  <1> QED
    BY <1>3, <1>4, <1>5, JobReachesKept, ReachFrame DEF Reaching

\* The claim: the job's snapshot, taken from the rows or from before.
LEMMA ClaimReaches ==
    ASSUME Typed, Sound, Reaching, NEW w \in Workers, ClaimGranted(w)
    PROVE  Reaching'
  <1>1. PICK j \in JobType :
             /\ j = (IF job.on THEN Upgraded(w) ELSE Fresh(w))
             /\ j.on /\ j.st = job.st
             /\ job.on => j.snap = job.snap
             /\ ~job.on => j.snap = OpenRows
    BY ClaimedFacts DEF ClaimGranted
  <1>2. PICK r : r = [wk[w] EXCEPT !.claimed = j.mode, !.st = j.st, !.todo = j.snap]
    OBVIOUS
  <1>3. PICK new : new = [j EXCEPT !.status = "running", !.owner = w, !.live = TRUE]
    OBVIOUS
  <1>4. job' = new /\ wk' = [wk EXCEPT ![w] = Going(r, 0)]
        /\ UNCHANGED <<statusVars, dataVars, request>>
    BY <1>1, <1>2, <1>3 DEF ClaimGranted, Holding
  <1>5. wk \in [Workers -> WorkerType] /\ wk[w] \in WorkerType /\ job \in JobType
    BY DEF Typed, CallTypeOK
  <1>6. r \in WorkerType /\ r.st = j.st /\ r.todo = j.snap
    BY <1>1, <1>2, <1>5 DEF WorkerType, JobType
  <1>7. new.on = j.on /\ new.st = j.st /\ new.snap = j.snap
    BY <1>1, <1>3 DEF JobType
  <1>8. 0 \in Nat /\ 0 < Order["provider"]
    BY DEF Order, Stages
  <1>9. PICK g \in WorkerType :
             /\ g = Going(r, 0)
             /\ \/ g.pc = "release"
                \/ /\ g.pc \in Stages /\ g.st = r.st /\ g.todo = r.todo
    BY <1>6, <1>8, GoingFacts
  <1>10. wk' = [wk EXCEPT ![w] = g] /\ wk'[w] = g
    BY <1>4, <1>5, <1>9
  <1>11. UNCHANGED <<pii, idData, row, flow, sess, objects>>
    BY <1>4 DEF dataVars
  <1>12. job.st["provider"] # "done" => sess \subseteq j.snap \/ Finished(job.st["provider"])
    BY <1>1 DEF Reaching, JobReaches, Finished
  <1>13. ~Finished(j.st["provider"]) => sess \subseteq j.snap
    BY <1>1, <1>12 DEF Finished
  <1>14. JobReaches'
    <2>1. \A s \in Stages : Erased(s) => Erased(s)'
      BY <1>11 DEF Erased
    <2> QED
      BY <1>1, <1>4, <1>7, <1>11, <1>13, <2>1 DEF Reaching, JobReaches
  <1>15. WorkerReaches(w)'
    <2>1. g.pc # "record"
      BY <1>9 DEF Stages
    <2>2. CASE g.pc = "release"
      BY <1>10, <2>2, RestReaches DEF Busy, Stages
    <2>3. CASE g.pc \in Stages /\ g.st = r.st /\ g.todo = r.todo
      BY <1>6, <1>10, <1>11, <1>13, <2>1, <2>3 DEF WorkerReaches, Before
    <2> QED
      BY <1>9, <2>2, <2>3
  <1>16. ASSUME NEW v \in Workers, v # w PROVE WorkerReaches(v)'
    <2>1. wk'[v] = wk[v]
      BY <1>10, <1>16
    <2> QED
      BY <1>11, <2>1, OtherReaches DEF Reaching
  <1> QED
    BY <1>11, <1>14, <1>15, <1>16 DEF Reaching

\* A stage has run: its worker knows what it erased.
LEMMA StageReaches ==
    ASSUME Typed, Reaching, NEW w \in Workers, wk[w].pc \in Busy,
           NEW item \in WorkerType, wk' = [wk EXCEPT ![w] = item],
           objects' \subseteq objects, sess' \subseteq sess, pii' => pii, idData' => idData,
           \A f \in Faces : row[f] = "none" => row'[f] = "none",
           UNCHANGED <<job, flow>>, WorkerReaches(w)'
    PROVE  Reaching'
  <1>1. wk \in [Workers -> WorkerType]
    BY DEF Typed, CallTypeOK
  <1>2. ASSUME NEW v \in Workers, v # w PROVE WorkerReaches(v)'
    <2>1. wk'[v] = wk[v]
      BY <1>2
    <2> QED
      BY <2>1, OtherReaches DEF Reaching
  <1>3. JobReaches'
    <2>1. \A s \in Stages : Erased(s) => Erased(s)'
      BY ErasedKept
    <2>2. ~job.on => sess' = {}
      BY DEF Reaching, JobReaches
    <2> QED
      BY <2>1, <2>2 DEF Reaching, JobReaches
  <1> QED
    BY <1>2, <1>3 DEF Reaching

LEMMA StorageReaches ==
    ASSUME Typed, Sound, Reaching, NEW w \in Workers, Storage(w) \/ VerifyStorage(w)
    PROVE  Reaching'
  <1>1. wk[w] \in WorkerType /\ wk \in [Workers -> WorkerType] /\ WorkerReaches(w)
    BY DEF Typed, CallTypeOK, Reaching
  <1>2. UNCHANGED <<pii, idData, row, flow, sess, job>> /\ objects' \subseteq objects
        /\ wk[w].pc \in {"storage", "verify"} /\ wk[w].pc \in Busy
    BY DEF Storage, VerifyStorage, dataVars, Busy, Stages
  <1>3. ~Finished(wk[w].st["provider"]) => sess \subseteq wk[w].todo
    BY <1>1, <1>2 DEF WorkerReaches, Before
  <1>4. ASSUME NEW out \in {"done", "failed"}, Stopped(w, "storage", out),
               out = "done" => objects' = {}
        PROVE  Reaching'
    <2>1. PICK item \in WorkerType :
             /\ wk' = [wk EXCEPT ![w] = item]
             /\ item.pc = "record" /\ item.stage = "storage" /\ item.out = out
             /\ item.st = wk[w].st /\ item.todo = wk[w].todo
      BY <1>4, StoppedFacts DEF Stages
    <2>2. wk'[w] = item
      BY <1>1, <2>1
    <2>3. WorkerReaches(w)'
      BY <1>2, <1>3, <1>4, <2>1, <2>2 DEF WorkerReaches, Before, Erased
    <2> QED
      BY <1>2, <2>1, <2>3, StageReaches
  <1>5. CASE wk' = [wk EXCEPT ![w].pc = "verify"]
    <2>1. PICK item : item = [wk[w] EXCEPT !.pc = "verify"]
      OBVIOUS
    <2>2. /\ item \in WorkerType /\ item.pc = "verify" /\ wk' = [wk EXCEPT ![w] = item]
          /\ item.st = wk[w].st /\ item.todo = wk[w].todo
      BY <1>1, <1>5, <2>1 DEF WorkerType
    <2>3. wk'[w] = item
      BY <1>1, <2>2
    <2>4. WorkerReaches(w)'
      BY <1>2, <1>3, <2>2, <2>3 DEF WorkerReaches, Before
    <2> QED
      BY <1>2, <2>2, <2>4, StageReaches
  <1>6. VerifyStorage(w) => objects' = objects
    BY DEF VerifyStorage, dataVars
  <1> QED
    BY <1>4, <1>5, <1>6 DEF Storage, VerifyStorage

LEMMA ProviderReaches ==
    ASSUME Typed, Sound, Reaching, NEW w \in Workers, Provider(w)
    PROVE  Reaching'
  <1>1. wk[w] \in WorkerType /\ wk \in [Workers -> WorkerType] /\ WorkerReaches(w) /\ WorkerSound(w)
    BY DEF Typed, CallTypeOK, Reaching, Sound
  <1>2. UNCHANGED <<pii, idData, row, flow, objects, job>> /\ wk[w].pc = "provider"
        /\ wk[w].pc \in Busy
    BY DEF Provider, Busy, Stages
  <1>3. sess \subseteq wk[w].todo
    <2>1. At(wk[w]) = "provider"
      BY <1>2 DEF At
    <2> QED
      BY <1>1, <1>2, <2>1 DEF WorkerReaches, WorkerSound, Before
  <1>4. PICK gone \in SUBSET (wk[w].todo \cap sess) :
          /\ sess' = sess \ gone
          /\ wk' = [wk EXCEPT ![w].pc = "record", ![w].stage = "provider",
                           ![w].todo = wk[w].todo \ gone,
                           ![w].out = IF wk[w].todo \ gone = {} THEN "done" ELSE "failed"]
    BY DEF Provider
  <1>5. PICK out \in {"done", "failed"} : out = IF wk[w].todo \ gone = {} THEN "done" ELSE "failed"
    OBVIOUS
  <1>6. PICK rest \in SUBSET Faces : rest = wk[w].todo \ gone
    BY <1>1 DEF WorkerType
  <1>7. PICK item : item = [wk[w] EXCEPT !.pc = "record", !.stage = "provider", !.todo = rest, !.out = out]
    OBVIOUS
  <1>8. wk' = [wk EXCEPT ![w] = item]
    BY <1>1, <1>4, <1>5, <1>6, <1>7 DEF WorkerType
  <1>9. /\ item \in WorkerType /\ item.pc = "record" /\ item.stage = "provider"
        /\ item.todo = rest /\ item.out = out
    BY <1>1, <1>7 DEF WorkerType, Stages
  <1>10. wk'[w] = item
    BY <1>1, <1>8
  <1>11. sess' \subseteq rest /\ (out = "done" => sess' = {}) /\ sess' \subseteq sess
    BY <1>3, <1>4, <1>5, <1>6
  <1>12. WorkerReaches(w)'
    BY <1>9, <1>10, <1>11 DEF WorkerReaches, Before, Erased
  <1> QED
    BY <1>2, <1>8, <1>9, <1>11, <1>12, StageReaches

LEMMA DbAuthReaches ==
    ASSUME Typed, Sound, Reaching, NEW w \in Workers, Db(w) \/ Auth(w)
    PROVE  Reaching'
  <1>1. wk \in [Workers -> WorkerType]
    BY DEF Typed, CallTypeOK
  <1>2. PICK s \in {"db", "auth"}, out \in {"done", "failed"} :
          /\ wk[w].pc = s /\ Stopped(w, s, out)
          /\ UNCHANGED <<flow, sess, objects, job>>
          /\ \/ pii' = FALSE /\ idData' \in {FALSE, idData} /\ row' = [f \in Faces |-> "none"]
             \/ UNCHANGED <<pii, idData, row>>
          /\ s = "db" /\ out = "done" => ~pii' /\ ~idData' /\ row' = [f \in Faces |-> "none"]
    <2>1. CASE Db(w)
      BY <2>1 DEF Db
    <2>2. CASE Auth(w)
      BY <2>2 DEF Auth
    <2> QED
      BY <2>1, <2>2
  <1>3. PICK item \in WorkerType :
             /\ wk' = [wk EXCEPT ![w] = item]
             /\ item.pc = "record" /\ item.stage = s /\ item.out = out
    BY <1>2, StoppedFacts DEF Stages
  <1>4. wk'[w] = item /\ wk[w].pc \in Busy
    BY <1>1, <1>2, <1>3 DEF Busy, Stages
  <1>5. /\ idData' => idData
        /\ pii' => pii
        /\ \A f \in Faces : row[f] = "none" => row'[f] = "none"
    <2>1. idData' => idData
      BY <1>2
    <2>2. pii' => pii
      BY <1>2
    <2>3. \A f \in Faces : row[f] = "none" => row'[f] = "none"
      BY <1>2
    <2> QED
      BY <2>1, <2>2, <2>3
  <1>6. WorkerReaches(w)'
    BY <1>2, <1>3, <1>4 DEF WorkerReaches, Before, Erased
  <1> QED
    BY <1>2, <1>3, <1>4, <1>5, <1>6, StageReaches

LEMMA RecordReaches ==
    ASSUME Typed, Sound, Reaching, NEW w \in Workers, Record(w)
    PROVE  Reaching'
  <1>1. /\ UNCHANGED dataVars /\ UNCHANGED <<pii, idData, row, flow, sess, objects>>
        /\ wk[w].pc = "record" /\ wk[w].pc \in Busy /\ At(wk[w]) = wk[w].stage
    BY DEF Record, dataVars, Busy, At
  <1>2. /\ wk \in [Workers -> WorkerType] /\ wk[w] \in WorkerType /\ wk[w].stage \in Stages
        /\ wk[w].out \in {"done", "failed"} /\ wk[w].st \in [Stages -> Outcomes]
        /\ job \in JobType /\ job.st \in [Stages -> Outcomes]
    BY DEF Typed, CallTypeOK, WorkerType, JobType
  <1>3. WorkerSound(w) /\ HolderSound(w) /\ JobSound /\ WorkerReaches(w) /\ JobReaches
    BY DEF Sound, Reaching
  <1>4. CASE /\ job.owner = w /\ job.live
             /\ job' = [job EXCEPT !.st[wk[w].stage] = wk[w].out, !.snap = SnapAfter(w)]
             /\ wk' = [wk EXCEPT ![w] =
                        Going([wk[w] EXCEPT !.st[wk[w].stage] = wk[w].out, !.out = "done"],
                              Order[wk[w].stage])]
    <2>1. PICK ran \in WorkerType, g \in WorkerType, st \in [Stages -> Outcomes] :
             /\ wk' = [wk EXCEPT ![w] = g]
             /\ ran.st = [wk[w].st EXCEPT ![wk[w].stage] = wk[w].out]
             /\ ran.mode = wk[w].mode /\ ran.from = wk[w].from /\ ran.claimed = wk[w].claimed
             /\ ran.todo = wk[w].todo
             /\ g.mode = wk[w].mode /\ g.from = wk[w].from
             /\ \/ g.pc = "release" /\ g.st = AllPending
                \/ /\ g.pc \in Stages /\ Order[g.pc] > Order[wk[w].stage] /\ Needs(ran, g.pc)
                   /\ g.st = ran.st /\ g.claimed = ran.claimed
                   /\ g.todo = IF Order[wk[w].stage] < Order["provider"] THEN ran.todo ELSE {}
             /\ st = [job.st EXCEPT ![wk[w].stage] = wk[w].out]
             /\ job' \in JobType /\ job'.st = st /\ job'.on = job.on /\ job'.mode = job.mode
             /\ job'.status = job.status /\ job'.owner = job.owner /\ job'.live = job.live
             /\ job'.snap = SnapAfter(w)
      BY <1>4, RecordedFacts
    <2>2. wk'[w] = g /\ job.on
      BY <1>2, <1>3, <1>4, <2>1 DEF JobSound, NoJob
    <2>3. wk[w].st = job.st /\ ~Finished(wk[w].st[wk[w].stage])
      BY <1>1, <1>3, <1>4 DEF HolderSound, WorkerSound
    <2>4. JobReaches'
      <3>1. \A s \in Stages : Erased(s) => Erased(s)'
        BY <1>1 DEF Erased
      <3>2. ASSUME NEW s \in Stages, st[s] = "done" PROVE Erased(s)
        <4>1. CASE s = wk[w].stage
          BY <1>1, <1>2, <1>3, <2>1, <3>2, <4>1 DEF WorkerReaches
        <4>2. CASE s # wk[w].stage
          BY <1>2, <1>3, <2>1, <3>2, <4>2 DEF JobReaches
        <4> QED
          BY <4>1, <4>2
      <3>3. ~Finished(st["provider"]) => sess \subseteq SnapAfter(w)
        <4>1. CASE wk[w].stage = "provider"
          <5>1. ~Finished(st["provider"]) => SnapAfter(w) = wk[w].todo
            BY <1>2, <2>1, <4>1 DEF SnapAfter, Finished
          <5> QED
            BY <1>1, <1>3, <4>1, <5>1 DEF WorkerReaches
        <4>2. CASE wk[w].stage # "provider"
          <5>1. SnapAfter(w) = job.snap /\ st["provider"] = job.st["provider"]
            BY <1>2, <2>1, <4>2 DEF SnapAfter, Stages
          <5> QED
            BY <1>3, <2>2, <5>1 DEF JobReaches
        <4> QED
          BY <4>1, <4>2
      <3>4. st["provider"] = "skipped" => "skip" \in Extras
        BY <1>2, <1>3, <2>1 DEF JobReaches
      <3> QED
        BY <1>1, <2>1, <2>2, <3>1, <3>2, <3>3, <3>4 DEF JobReaches
    <2>5. WorkerReaches(w)'
      <3>1. CASE g.pc = "release"
        BY <2>2, <3>1, RestReaches DEF Busy, Stages
      <3>2. CASE g.pc \in Stages /\ Order[g.pc] > Order[wk[w].stage] /\ g.st = ran.st
                 /\ g.todo = IF Order[wk[w].stage] < Order["provider"] THEN ran.todo ELSE {}
        <4>1. Before(g) => wk[w].stage = "storage"
          BY <1>2, <3>2 DEF Before, Stages, Order
        <4>2. g.pc # "record"
          BY <3>2 DEF Stages
        <4>3. wk[w].stage = "storage" =>
                g.todo = wk[w].todo /\ g.st["provider"] = wk[w].st["provider"]
          BY <1>2, <2>1, <3>2 DEF Order, Stages
        <4>4. wk[w].stage = "storage" => Before(wk[w])
          BY <1>1 DEF Before
        <4> QED
          BY <1>1, <1>3, <2>2, <4>1, <4>2, <4>3, <4>4 DEF WorkerReaches
      <3> QED
        BY <2>1, <3>1, <3>2
    <2>6. ASSUME NEW v \in Workers, v # w PROVE WorkerReaches(v)'
      <3>1. wk'[v] = wk[v]
        BY <2>1, <2>6
      <3> QED
        BY <1>1, <3>1, OtherReaches DEF Reaching
    <2> QED
      BY <1>1, <2>4, <2>5, <2>6 DEF Reaching
  <1>5. CASE /\ UNCHANGED job
             /\ wk' = [wk EXCEPT ![w] = [Idle EXCEPT !.pc = "release", !.from = wk[w].from,
                                                      !.mode = wk[w].mode]]
    <2>1. [Idle EXCEPT !.pc = "release", !.from = wk[w].from, !.mode = wk[w].mode].pc = "release"
      BY IdleTyped DEF WorkerType
    <2>2. \A v \in Workers : wk'[v] = wk[v] \/ wk'[v].pc \notin Busy
      BY <1>2, <1>5, <2>1 DEF Busy, Stages
    <2> QED
      BY <1>1, <1>3, <1>5, <2>2, JobReachesKept, ReachFrame
  <1> QED
    <2>1. SnapAfter(w) = CASE wk[w].stage # "provider" -> job.snap
                           [] wk[w].out = "done" -> {}
                           [] OTHER -> wk[w].todo
      BY DEF SnapAfter
    <2> QED
      BY <1>4, <1>5, <2>1 DEF Record, NotRecorded

\* The end of a lease, the operator's skip, the deletion of an old job.  After
\* a skip the job that is deleted would take the record of it along.
LEMMA JobReachesStep ==
    ASSUME Typed, Sound, Reaching, ~({"prune", "skip"} \subseteq Extras),
           LeaseExpires \/ Prune \/ \E s \in Stages : SkipStage(s)
    PROVE  Reaching'
  <1>1. job \in JobType /\ job.st \in [Stages -> Outcomes] /\ JobReaches /\ JobSound
    BY DEF Typed, CallTypeOK, Reaching, JobType, Sound
  <1>2. UNCHANGED <<dataVars, wk>>
    BY DEF LeaseExpires, Prune, SkipStage
  <1>3. UNCHANGED <<pii, idData, row, sess, objects>> /\ OpenRows' = OpenRows
    BY <1>2 DEF dataVars, OpenRows
  <1>4. CASE LeaseExpires
    <2>1. job'.st = job.st /\ job'.on = job.on /\ job'.snap = job.snap
      BY <1>1, <1>4 DEF LeaseExpires, JobType
    <2> QED
      BY <1>1, <1>2, <2>1, JobReachesKept, ReachFrame
  <1>5. CASE Prune
    <2>1. Complete(job) /\ "skip" \notin Extras
      BY <1>1, <1>5 DEF Prune, JobSound
    <2>2. sess = {}
      BY <1>1, <2>1 DEF Complete, Finished, JobReaches, Erased, Stages
    <2>3. job'.on = FALSE /\ \A s \in Stages : job'.st[s] = "pending"
      BY <1>5 DEF Prune, NoJob, AllPending
    <2>4. JobReaches'
      BY <1>3, <2>2, <2>3 DEF JobReaches, Stages
    <2> QED
      BY <1>2, <2>4, ReachFrame
  <1>6. ASSUME NEW s \in Stages, SkipStage(s) PROVE Reaching'
    <2>1. /\ "skip" \in Extras /\ job.on /\ job'.on = job.on
          /\ job'.st = [job.st EXCEPT ![s] = "skipped"]
          /\ job'.snap = IF s = "provider" THEN {} ELSE job.snap
      BY <1>6, SkippedFacts
    <2>2. \A t \in Stages : Erased(t) => Erased(t)'
      BY <1>3 DEF Erased
    <2>3. \A t \in Stages : job'.st[t] = "done" => Erased(t)
      BY <1>1, <2>1 DEF JobReaches
    <2>4. ~Finished(job'.st["provider"]) => sess \subseteq job'.snap
      <3>1. CASE s = "provider"
        BY <1>1, <2>1, <3>1 DEF Finished
      <3>2. CASE s # "provider"
        BY <1>1, <2>1, <3>2 DEF JobReaches, Stages
      <3> QED
        BY <3>1, <3>2
    <2>5. JobReaches'
      BY <1>3, <2>1, <2>2, <2>3, <2>4 DEF JobReaches
    <2> QED
      BY <1>2, <2>5, ReachFrame
  <1> QED
    BY <1>4, <1>5, <1>6

LEMMA ReachingStep ==
    ASSUME Typed, Sound, Reaching, [Next]_vars,
           Extras \cap {"face", "return"} = {}, ~({"prune", "skip"} \subseteq Extras)
    PROVE  Reaching'
  <1>1. CASE UNCHANGED <<dataVars, job, wk>>
    BY <1>1, JobReachesKept, ReachFrame DEF Reaching
  <1>2. ASSUME NEW w \in Workers, Started(w) \/ WorkerStep(w) \/ Crash(w) PROVE Reaching'
    BY <1>2, RestingStep, ClaimReaches, StorageReaches, ProviderReaches, DbAuthReaches,
       RecordReaches DEF WorkerStep
  <1>3. CASE LeaseExpires \/ Prune \/ \E s \in Stages : SkipStage(s)
    BY <1>3, JobReachesStep
  <1>4. CASE Onboard \/ \E f \in Faces : FaceStep(f)
    BY <1>4 DEF Onboard, FaceStep, FaceStart, FaceCreate, FaceAttach, HookRead, HookStore, Reaching
  <1>5. CASE FileRequest \/ RejectRequest
    BY <1>1, <1>5 DEF FileRequest, RejectRequest
  <1>6. CASE (StatusNext /\ UNCHANGED purgeVars) \/ UNCHANGED vars
    BY <1>1, <1>6 DEF vars, purgeVars
  <1> QED
    BY <1>2, <1>3, <1>4, <1>5, <1>6 DEF Next

\* For an account to which nothing is added any more: what the job calls done
\* is erased, and every session left at the provider can be found, whichever
\* workers ran the stages and wherever they failed, crashed or lost their lease.
THEOREM StagesErase ==
    ASSUME Extras \cap {"face", "return"} = {}, ~({"prune", "skip"} \subseteq Extras)
    PROVE  Spec => []PurgeInv
  <1>1. Init /\ InitPurge => Reaching
    <2> SUFFICES ASSUME Init, InitPurge PROVE Reaching
      OBVIOUS
    <2>1. \A w \in Workers : wk[w].pc = "idle"
      BY DEF InitPurge, Idle
    <2>2. InitFaces \subseteq OpenRows
      BY FacesAssumption DEF InitPurge, OpenRows
    <2>3. JobReaches
      BY <2>1, <2>2 DEF InitPurge, JobReaches, NoJob, AllPending, Stages, Busy
    <2> QED
      BY <2>1, <2>3 DEF Reaching, WorkerReaches, Before, InitPurge
  <1>2. Typed /\ Sound /\ Reaching /\ [Next]_vars => Reaching'
    BY ReachingStep
  <1>3. Typed /\ Sound /\ Reaching => PurgeInv
    <2> SUFFICES ASSUME Typed, Sound, Reaching PROVE PurgeInv
      OBVIOUS
    <2>1. job.st \in [Stages -> Outcomes]
      BY DEF Typed, CallTypeOK, JobType
    <2>2. DoneStagesErase
      BY DEF Reaching, JobReaches, Erased, Stages, Sound, JobSound, DoneStagesErase
    <2>3. SessionsReachable
      BY <2>1 DEF Reaching, JobReaches, Erased, Stages, Finished, SessionsReachable
    <2> QED
      BY <2>2, <2>3, TypedIsTypeOK DEF PurgeInv
  <1> QED
    BY <1>1, <1>2, <1>3, PurgeInductive, PTL DEF Spec

\* Every row, job, worker and request keeps its type, whatever overlaps.
THEOREM PurgeTypeCorrect == Spec => []TypeOK
  BY PurgeInductive, TypedIsTypeOK, PTL
=============================================================================
