---------------------------- MODULE AccountPurge ----------------------------
(***************************************************************************)
(* The erasure of one deleted account: account_purge_jobs (0028), the      *)
(* worker that runs its stages (accountPurgeCore.ts), account_purge (0019) *)
(* and the operator's page of deletion requests, next to the writers of    *)
(* users.status of AccountStatus and to the face verification requests     *)
(* that add data while an erasure may be running.                          *)
(*                                                                         *)
(* A worker is one invocation of account-purge.  Its calls to the database *)
(* and to the outside are steps of their own; between two of them it may   *)
(* crash, its lease may expire, the owner may come back.                   *)
(***************************************************************************)
EXTENDS AccountStatus, FiniteSets

CONSTANTS
    Workers,
    Faces,      \* face verification sessions the owner may ever have
    InitFaces,  \* those that are open at the start
    Callers,    \* who starts workers: batch, now, retry, request
    Faults,     \* what may go wrong: fail, crash, lease
    Extras      \* what else may happen: skip, prune, face, return

AllCallers == {"batch", "now", "retry", "request"}
AllFaults == {"fail", "crash", "lease"}
AllExtras == {"skip", "prune", "face", "return"}
Nobody == "nobody"

ASSUME CallersAssumption == Callers \subseteq AllCallers
ASSUME FaultsAssumption == Faults \subseteq AllFaults
ASSUME ExtrasAssumption == Extras \subseteq AllExtras
ASSUME FacesAssumption == InitFaces \subseteq Faces /\ IsFiniteSet(Faces)
ASSUME WorkersAssumption == Nobody \notin Workers

VARIABLES
    pii,      \* profile, answers, message bodies, ...
    idData,   \* birth date and gender of user_identities
    purged,   \* users.purged_at is set
    row,      \* face_verifications: no row, one without, one with a session id
    flow,     \* where the face request or webhook of a session is
    sess,     \* sessions that exist at the provider
    objects,  \* reference images in storage
    job,      \* the row of account_purge_jobs
    wk,       \* the workers
    request   \* the row of account_deletion_requests

dataVars == <<pii, idData, purged, row, flow, sess, objects>>
purgeVars == <<dataVars, job, wk, request>>
vars == <<statusVars, purgeVars>>
-----------------------------------------------------------------------------
Stages == {"storage", "provider", "db", "auth"}
Order == [storage |-> 1, provider |-> 2, db |-> 3, auth |-> 4]
Outcomes == {"pending", "done", "failed", "skipped"}
Finished(o) == o \in {"done", "skipped"}
AllPending == [s \in Stages |-> "pending"]

NoJob == [on |-> FALSE, mode |-> "anonymize", status |-> "none", st |-> AllPending,
          snap |-> {}, owner |-> Nobody, live |-> FALSE]
Idle == [pc |-> "idle", mode |-> "anonymize", claimed |-> "anonymize", from |-> "none",
         stage |-> "storage", st |-> AllPending, todo |-> {}, out |-> "done"]

\* All stages the mode asks for are done or skipped.
Complete(j) ==
    /\ \A s \in {"storage", "provider", "db"} : Finished(j.st[s])
    /\ j.mode = "anonymize" \/ Finished(j.st["auth"])

\* A call to the storage, the provider or the database may fail, or its answer
\* be lost: every error becomes a code, and none means that nothing was left.
CallFails == "fail" \in Faults

Leased == job.status = "running" /\ job.live
Erasable == status \in {"deleted", "banned"}
OpenRows == {f \in Faces : row[f] = "open"}

InitPurge ==
    /\ pii = TRUE /\ idData = TRUE /\ purged = FALSE
    /\ row = [f \in Faces |-> IF f \in InitFaces THEN "open" ELSE "none"]
    /\ flow = [f \in Faces |-> "idle"]
    /\ sess = InitFaces /\ objects = InitFaces
    /\ job = NoJob
    /\ wk = [w \in Workers |-> Idle]
    /\ request = [st |-> "none", user |-> FALSE]

\* Only the page of deletion requests waits for the answer.
Start(w, by, mode, pc) ==
    /\ by \in Callers /\ wk[w].pc = "idle"
    /\ wk' = [wk EXCEPT ![w] = [Idle EXCEPT !.pc = pc, !.mode = mode,
                          !.from = IF by \in {"retry", "request"} THEN by ELSE "none"]]
    /\ UNCHANGED <<statusVars, dataVars, job, request>>

\* Wrong targets: the failed jobs are left out.
BatchTargetNewOnly(w) ==
    Due /\ ~purged /\ ~job.on /\ Start(w, "batch", "anonymize", "claim")

\* account_purge_batch_targets: a due account without a job, or a failed job.
BatchTarget(w) ==
    \/ Due /\ ~purged /\ ~job.on /\ Start(w, "batch", "anonymize", "claim")
    \/ job.status = "failed" /\ Start(w, "batch", job.mode, "claim")

\* loadFailedPurgeJobs: jobs that are not done, and that nobody runs now.
Listed == job.on /\ job.status # "done" /\ ~Leased

\* findUserByContact, for the contact of the one request.
Found == status # "gone"

\* purgeNow, and the retry on the page of deletion requests.
PurgeNow(w) == Start(w, "now", "anonymize", "claim")
Retry(w) == Listed /\ Start(w, "retry", job.mode, "claim")

\* handleRequest: an active account is deleted first.
HandleRequest(w) ==
    /\ request.st = "pending" /\ Found
    /\ Start(w, "request", "hard", IF status = "active" THEN "shut" ELSE "claim")

Shut(w) ==
    /\ wk[w].pc = "shut"
    /\ IF status = "gone" THEN UNCHANGED statusVars
       ELSE /\ SetStatus("deleted")
            /\ asked' = IF asked = Null \/ status = "active" THEN 0 ELSE asked
            /\ UNCHANGED <<left, audit, edge>>
    /\ wk' = [wk EXCEPT ![w].pc = "claim"]
    /\ UNCHANGED <<dataVars, job, request>>
-----------------------------------------------------------------------------
\* A wrong worker: auth does not wait for db.
NeedsAnyOrder(r, s) ==
    /\ ~Finished(r.st[s])
    /\ s = "auth" => r.claimed = "hard"

\* The worker's next stage: those its claim listed as finished are passed
\* over, and auth waits for db.
Needs(r, s) ==
    /\ ~Finished(r.st[s])
    /\ s = "auth" => r.claimed = "hard" /\ Finished(r.st["db"])

\* After its last stage the worker has only to release the job.
Going(r, n) ==
    LET rest == {s \in Stages : Order[s] > n /\ Needs(r, s)}
        next == CHOOSE s \in rest : \A t \in rest : Order[s] <= Order[t]
    IN  IF rest = {}
        THEN [Idle EXCEPT !.pc = "release", !.from = r.from, !.mode = r.mode]
        ELSE [r EXCEPT !.pc = next, !.todo = IF n < Order["provider"] THEN @ ELSE {}]

\* A wrong page: it closes the request whatever the answer was.
ReturnCloses(w, ok) ==
    /\ wk' = [wk EXCEPT ![w] = Idle]
    /\ request' = IF wk[w].from = "request" THEN [st |-> "done", user |-> FALSE]
                  ELSE request

\* What the operator's page notes of the call it made: a request is closed by
\* its own call, or by the retry of the account's complete deletion.
Noted(w, ok) ==
    CASE wk[w].from = "request" /\ ok -> [st |-> "done", user |-> FALSE]
      [] wk[w].from = "request" /\ ~ok -> [request EXCEPT !.user = status # "gone"]
      [] wk[w].from = "retry" /\ ok /\ wk[w].mode = "hard"
           /\ request = [st |-> "pending", user |-> TRUE] -> [st |-> "done", user |-> FALSE]
      [] OTHER -> request

\* The worker returns to whoever called it (callAccountPurge): whatever is not
\* a clear success counts as a failure.
Return(w, ok) ==
    /\ wk' = [wk EXCEPT ![w] = Idle]
    /\ request' = Noted(w, ok)

\* account_purge_job_claim.  The account's status is looked at only when
\* there is no job yet; the mode goes up even when the claim is refused.
Reopens(w) == job.status = "done" /\ wk[w].mode = "hard" /\ job.mode = "anonymize"

Upgraded(w) ==
    CASE Reopens(w) -> [job EXCEPT !.mode = "hard", !.status = "failed",
                                   !.st["auth"] = "pending"]
      [] job.status # "done" /\ wk[w].mode = "hard" -> [job EXCEPT !.mode = "hard"]
      [] OTHER -> job

\* A wrong claim that takes no snapshot of the sessions.
FreshUnsnapped(w) == [NoJob EXCEPT !.on = TRUE, !.mode = wk[w].mode]

Fresh(w) == [NoJob EXCEPT !.on = TRUE, !.mode = wk[w].mode, !.snap = OpenRows]

Claimable(w) ==
    IF job.on THEN ~Leased /\ (job.status = "done" => Reopens(w)) ELSE Erasable

\* What the worker keeps of the answer: the mode, the stages and the sessions
\* as they are now, however they change later.
Holding(w, j) == [wk[w] EXCEPT !.claimed = j.mode, !.st = j.st, !.todo = j.snap]

ClaimGranted(w) ==
    /\ wk[w].pc = "claim" /\ Claimable(w)
    /\ LET j == IF job.on THEN Upgraded(w) ELSE Fresh(w)
       IN  /\ job' = [j EXCEPT !.status = "running", !.owner = w, !.live = TRUE]
           /\ wk' = [wk EXCEPT ![w] = Going(Holding(w, j), 0)]
    /\ UNCHANGED <<statusVars, dataVars, request>>

\* busy, already_done, not_deleted or not_found
ClaimRefused(w) ==
    /\ wk[w].pc = "claim" /\ ~Claimable(w)
    /\ job' = IF job.on THEN Upgraded(w) ELSE job
    /\ Return(w, job.status = "done")
    /\ UNCHANGED <<statusVars, dataVars>>
-----------------------------------------------------------------------------
Stopped(w, s, out) ==
    wk' = [wk EXCEPT ![w].pc = "record", ![w].stage = s, ![w].out = out]

\* deleteUserStorage: everything listed is removed, then listed again.
Storage(w) ==
    /\ wk[w].pc = "storage"
    /\ \/ objects' = {} /\ wk' = [wk EXCEPT ![w].pc = "verify"]
       \/ /\ CallFails
          /\ objects' \in SUBSET objects
          /\ Stopped(w, "storage", "failed")
    /\ UNCHANGED <<statusVars, pii, idData, purged, row, flow, sess, job, request>>

VerifyStorage(w) ==
    /\ wk[w].pc = "verify"
    /\ \/ Stopped(w, "storage", IF objects = {} THEN "done" ELSE "failed")
       \/ CallFails /\ Stopped(w, "storage", "failed")
    /\ UNCHANGED <<statusVars, dataVars, job, request>>

\* deleteProviderSessions: of a session that no longer exists the provider
\* answers 404, which counts as a failure.
Provider(w) ==
    /\ wk[w].pc = "provider"
    /\ \E gone \in SUBSET (wk[w].todo \cap sess) :
         /\ ~CallFails => gone = wk[w].todo \cap sess
         /\ sess' = sess \ gone
         /\ LET remaining == wk[w].todo \ gone
            IN  wk' = [wk EXCEPT ![w].pc = "record", ![w].stage = "provider",
                                 ![w].todo = remaining,
                                 ![w].out = IF remaining = {} THEN "done" ELSE "failed"]
    /\ UNCHANGED <<statusVars, pii, idData, purged, row, flow, objects, job, request>>

\* account_purge, one transaction.  Its answer may be lost.
Db(w) ==
    /\ wk[w].pc = "db"
    /\ \/ /\ Erasable
          /\ pii' = FALSE /\ idData' = FALSE /\ purged' = TRUE
          /\ row' = [f \in Faces |-> "none"]
          /\ \/ Stopped(w, "db", "done")
             \/ CallFails /\ Stopped(w, "db", "failed")
       \/ /\ ~Erasable \/ CallFails
          /\ Stopped(w, "db", "failed")
          /\ UNCHANGED <<pii, idData, purged, row>>
    /\ UNCHANGED <<statusVars, flow, sess, objects, job, request>>

\* auth.admin.deleteUser: the users row and all that hangs on it go, the
\* identity row stays and the deletion request loses its user.
Auth(w) ==
    /\ wk[w].pc = "auth"
    /\ \/ /\ status' = "gone"
          /\ pii' = FALSE
          /\ row' = [f \in Faces |-> "none"]
          /\ request' = [request EXCEPT !.user = FALSE]
          /\ \/ Stopped(w, "auth", "done")
             \/ CallFails /\ Stopped(w, "auth", "failed")
       \/ /\ CallFails
          /\ Stopped(w, "auth", "failed")
          /\ UNCHANGED <<status, pii, row, request>>
    /\ UNCHANGED <<left, deletedAge, asked, idBanned, audit, edge,
                   idData, purged, flow, sess, objects, job>>
-----------------------------------------------------------------------------
\* Wrong records: one that writes 'done' for every stage that was run, one
\* that does not ask whose lease it is.
RecordRun(w) ==
    /\ wk[w].pc = "record"
    /\ job' = [job EXCEPT !.st[wk[w].stage] = "done"]
    /\ wk' = [wk EXCEPT ![w] = Going([wk[w] EXCEPT !.st[wk[w].stage] = "done"],
                                    Order[wk[w].stage])]
    /\ UNCHANGED <<statusVars, dataVars, request>>

RecordUnleased(w) ==
    /\ wk[w].pc = "record"
    /\ job' = [job EXCEPT !.st[wk[w].stage] = wk[w].out]
    /\ wk' = [wk EXCEPT ![w] = Going([wk[w] EXCEPT !.st[wk[w].stage] = wk[w].out],
                                    Order[wk[w].stage])]
    /\ UNCHANGED <<statusVars, dataVars, request>>

\* The lease is another's or over, or the call fails: the worker starts no
\* further stage.
NotRecorded(w) ==
    /\ ~(job.owner = w /\ job.live) \/ CallFails
    /\ wk' = [wk EXCEPT ![w] = [Idle EXCEPT !.pc = "release", !.from = wk[w].from,
                                            !.mode = wk[w].mode]]
    /\ UNCHANGED job

\* account_purge_job_stage, for the holder of a live lease.
Record(w) ==
    /\ wk[w].pc = "record"
    /\ LET r == wk[w]
           ran == [r EXCEPT !.st[r.stage] = r.out, !.out = "done"]
           snap == CASE r.stage # "provider" -> job.snap
                     [] r.out = "done" -> {}
                     [] OTHER -> r.todo
       IN  \/ /\ job.owner = w /\ job.live
              /\ job' = [job EXCEPT !.st[r.stage] = r.out, !.snap = snap]
              /\ wk' = [wk EXCEPT ![w] = Going(ran, Order[r.stage])]
           \/ NotRecorded(w)
    /\ UNCHANGED <<statusVars, dataVars, request>>

\* A wrong release that leaves its lease behind under a status of its own.
ReleaseOtherWord(w) ==
    /\ wk[w].pc = "release" /\ job.owner = w
    /\ job' = [job EXCEPT !.status = IF Complete(job) THEN "complete" ELSE "failed"]
    /\ Return(w, Complete(job))
    /\ UNCHANGED <<statusVars, dataVars>>

\* account_purge_job_release, for the owner, whether or not its lease lives.
Release(w) ==
    /\ wk[w].pc = "release" /\ job.owner = w
    /\ job' = [job EXCEPT !.status = IF Complete(job) THEN "done" ELSE "failed",
                          !.owner = Nobody, !.live = FALSE]
    /\ Return(w, Complete(job))
    /\ UNCHANGED <<statusVars, dataVars>>

\* It is not the owner any more, or the call fails.
ReleaseLost(w) ==
    /\ wk[w].pc = "release" /\ (job.owner # w \/ CallFails)
    /\ Return(w, FALSE)
    /\ UNCHANGED <<statusVars, dataVars, job>>

LeaseExpires ==
    /\ "lease" \in Faults /\ Leased
    /\ job' = [job EXCEPT !.live = FALSE]
    /\ UNCHANGED <<statusVars, dataVars, wk, request>>

\* The invocation dies with what it had not written.  Its lease runs out.
Crash(w) ==
    /\ "crash" \in Faults /\ wk[w].pc # "idle"
    /\ wk' = [wk EXCEPT ![w] = Idle]
    /\ UNCHANGED <<statusVars, dataVars, job, request>>

\* account_purge_job_skip_stage, by the operator.
SkipStage(s) ==
    /\ "skip" \in Extras /\ s # "db"
    /\ job.on /\ ~Leased /\ job.st[s] = "failed"
    /\ LET j == [job EXCEPT !.st[s] = "skipped",
                            !.snap = IF s = "provider" THEN {} ELSE @]
       IN  job' = [j EXCEPT !.status = IF Complete(j) THEN "done" ELSE @]
    /\ UNCHANGED <<statusVars, dataVars, wk, request>>

\* account_purge_jobs_prune
Prune ==
    /\ "prune" \in Extras /\ job.status = "done"
    /\ job' = NoJob
    /\ UNCHANGED <<statusVars, dataVars, wk, request>>
-----------------------------------------------------------------------------
\* start-face-liveness: the row, the provider's session, its id in the row.
FaceStart(f) ==
    /\ "face" \in Extras /\ status # "gone"
    /\ row[f] = "none" /\ f \notin sess \cup objects /\ flow[f] = "idle"
    /\ row' = [row EXCEPT ![f] = "opening"]
    /\ flow' = [flow EXCEPT ![f] = "create"]
    /\ UNCHANGED <<statusVars, pii, idData, purged, sess, objects, job, wk, request>>

FaceCreate(f) ==
    /\ flow[f] = "create"
    /\ \/ sess' = sess \cup {f} /\ flow' = [flow EXCEPT ![f] = "attach"]
       \/ CallFails /\ UNCHANGED sess /\ flow' = [flow EXCEPT ![f] = "idle"]
    /\ UNCHANGED <<statusVars, pii, idData, purged, row, objects, job, wk, request>>

\* An UPDATE by id: without the row it changes nothing, and is no error.
FaceAttach(f) ==
    /\ flow[f] = "attach"
    /\ row' = [row EXCEPT ![f] = IF @ = "opening" THEN "open" ELSE @]
    /\ flow' = [flow EXCEPT ![f] = "idle"]
    /\ UNCHANGED <<statusVars, pii, idData, purged, sess, objects, job, wk, request>>

\* The webhook or the sync: it reads the row, then stores the image.
HookRead(f) ==
    /\ "face" \in Extras /\ row[f] = "open" /\ flow[f] = "idle" /\ f \notin objects
    /\ flow' = [flow EXCEPT ![f] = "store"]
    /\ UNCHANGED <<statusVars, pii, idData, purged, row, sess, objects, job, wk, request>>

HookStore(f) ==
    /\ flow[f] = "store"
    /\ objects' = objects \cup {f}
    /\ flow' = [flow EXCEPT ![f] = "idle"]
    /\ UNCHANGED <<statusVars, pii, idData, purged, row, sess, job, wk, request>>

\* An owner who came back after the erasure goes through onboarding again.
Onboard ==
    /\ "return" \in Extras /\ status = "active" /\ ~pii
    /\ pii' = TRUE
    /\ UNCHANGED <<statusVars, idData, purged, row, flow, sess, objects, job, wk, request>>

\* The public page takes a request; an operator will find the account by it.
FileRequest ==
    /\ "request" \in Callers /\ request.st = "none"
    /\ request' = [st |-> "pending", user |-> FALSE]
    /\ UNCHANGED <<statusVars, dataVars, job, wk>>

RejectRequest ==
    /\ request.st = "pending"
    /\ request' = [request EXCEPT !.st = "rejected"]
    /\ UNCHANGED <<statusVars, dataVars, job, wk>>
-----------------------------------------------------------------------------
WorkerStep(w) ==
    \/ Shut(w) \/ ClaimGranted(w) \/ ClaimRefused(w)
    \/ Storage(w) \/ VerifyStorage(w) \/ Provider(w) \/ Db(w) \/ Auth(w)
    \/ Record(w) \/ Release(w) \/ ReleaseLost(w)

Started(w) == BatchTarget(w) \/ PurgeNow(w) \/ Retry(w) \/ HandleRequest(w)

FaceStep(f) ==
    FaceStart(f) \/ FaceCreate(f) \/ FaceAttach(f) \/ HookRead(f) \/ HookStore(f)

Next ==
    \/ StatusNext /\ UNCHANGED purgeVars
    \/ \E w \in Workers : Started(w) \/ WorkerStep(w) \/ Crash(w)
    \/ LeaseExpires \/ Prune \/ FileRequest \/ RejectRequest \/ Onboard
    \/ \E s \in Stages : SkipStage(s)
    \/ \E f \in Faces : FaceStep(f)

Spec == Init /\ InitPurge /\ [][Next]_vars

\* The daily batch comes again and again, a running worker goes on, a lease
\* runs out.  Operators and owners owe nothing.
Fairness ==
    /\ \A w \in Workers : SF_vars(BatchTarget(w)) /\ WF_vars(WorkerStep(w))
    /\ WF_vars(LeaseExpires) /\ WF_vars(Tick /\ UNCHANGED purgeVars)
FairSpec == Spec /\ Fairness
-----------------------------------------------------------------------------
Modes == {"anonymize", "hard"}
JobType ==
    [on : BOOLEAN, mode : Modes, status : {"none", "running", "failed", "done"},
     st : [Stages -> Outcomes], snap : SUBSET Faces,
     owner : Workers \cup {Nobody}, live : BOOLEAN]
WorkerType ==
    [pc : Stages \cup {"idle", "shut", "claim", "verify", "record", "release"},
     mode : Modes, claimed : Modes, from : {"none", "retry", "request"}, stage : Stages,
     st : [Stages -> Outcomes], todo : SUBSET Faces, out : {"done", "failed"}]

\* Every variable stays within the values its table or call may hold.
TypeOK ==
    /\ StatusTypeOK
    /\ pii \in BOOLEAN /\ idData \in BOOLEAN /\ purged \in BOOLEAN
    /\ row \in [Faces -> {"none", "opening", "open"}]
    /\ flow \in [Faces -> {"idle", "create", "attach", "store"}]
    /\ sess \in SUBSET Faces /\ objects \in SUBSET Faces
    /\ job \in JobType
    /\ wk \in [Workers -> WorkerType]
    /\ request \in [st : {"none", "pending", "done", "rejected"}, user : BOOLEAN]

\* A stage the job calls done has left nothing of what it erases, whichever
\* workers ran it and wherever they failed, crashed or lost their lease
\* (accountPurgeCore.ts: a stage is done only on a definite result).
DoneStagesErase ==
    /\ job.st["storage"] = "done" => objects = {}
    /\ job.st["provider"] = "done" => sess = {}
    /\ job.st["db"] = "done" => ~pii /\ ~idData /\ \A f \in Faces : row[f] = "none"
    /\ job.st["auth"] = "done" => status = "gone"

\* Until an operator skips the stage, each session left at the provider can be
\* found: in its face_verifications row or in the job's snapshot, also after
\* the db stage has deleted the rows (0028 provider_sessions).
SessionsReachable ==
    job.st["provider"] # "skipped" => sess \subseteq OpenRows \cup job.snap

\* The login account goes only after the identity row has been anonymised:
\* that row survives the cascade and could not be reached any more.
GoneLosesIdentityData == status = "gone" => ~idData

\* A deletion request is closed only when the account is gone, unless an
\* operator skipped the auth stage.
RequestDoneMeansGone ==
    request.st = "done" => status = "gone" \/ job.st["auth"] = "skipped"

\* What the erasure promises about the data, and what it promises about the
\* login account.
PurgeInv == TypeOK /\ DoneStagesErase /\ SessionsReachable
GoneInv == GoneLosesIdentityData /\ RequestDoneMeansGone

\* No late or repeated worker takes a finished stage back (the lease check of
\* account_purge_job_stage).
DoneStaysDone ==
    [][\A s \in Stages : job.st[s] = "done" /\ job'.on => job'.st[s] = "done"]_vars

\* Every erasure that was begun is finished, also when it is made a complete
\* deletion while a worker runs it (0028: failed jobs are retried daily).
EveryJobEnds == job.on ~> job.status = "done"

\* Only accounts that are deleted or banned are erased: none goes while it is
\* active (account-purge/index.ts).
ActiveAccountKept == [][status = "active" => status' # "gone"]_vars
=============================================================================
