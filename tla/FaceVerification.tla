--------------------------- MODULE FaceVerification ---------------------------
(***************************************************************************)
(* Face verification of one user: sessions at the provider, the rows that  *)
(* record them, webhooks that come late, twice or out of order, the app's  *)
(* synchronisation, the operator's review, and the queue that removes what *)
(* ended sessions leave behind.  A handler is a sequence of awaits, each   *)
(* of them a step; what it read before an await may be old after it.       *)
(***************************************************************************)
EXTENDS Naturals, FiniteSets

CONSTANTS
    Rows,      \* face_verifications the limit of sessions allows: 1, 2, ... in order of creation
    Sessions,  \* sessions of the provider
    Calls,     \* handlers running at a time
    Cleaned,   \* bound: rows whose 24 hours in the clean-up queue may pass
    Kinds,     \* what they may be: "start", "sync", "hook", "approve", "reject", "repair"
    Verdicts,  \* what the provider may say of a session
    MaxEvents, \* bound: changes at the provider
    MaxAsks,   \* bound: requests, webhook deliveries, reviews, rows running out of time, and faults
    MaxTries,  \* p_max_attempts of the clean-up queue
    MaxFaults, \* bound: failing calls and killed handlers
    Faults,    \* which: "create", "decision", "image", "rpc", "kill", "storage", "delete"
    Legacy     \* rows of before 0014 may exist: approved without the user's flag

Said == {"Not Started", "Resubmitted", "In Review", "Approved", "Declined", "Expired"}
\* Whole status, exactly one liveness check in the answer, that check approved, a similar face found.
Verdict == [said : Said, checked : BOOLEAN, live : BOOLEAN, dup : BOOLEAN]
Of(said, checked, live, dup) == [said |-> said, checked |-> checked, live |-> live, dup |-> dup]
NoVerdict == Of("Deleted", FALSE, FALSE, FALSE)
Opened == Of("Not Started", FALSE, FALSE, FALSE)
Passed == Of("Approved", TRUE, TRUE, FALSE)

ASSUME FaceBounds == /\ Rows = 1 .. Cardinality(Rows) /\ Cardinality(Rows) \in Nat \ {0}
                     /\ Cleaned \subseteq Rows
                     /\ "none" \notin Sessions
                     /\ Verdicts \subseteq Verdict
                     /\ {MaxEvents, MaxAsks, MaxFaults} \subseteq Nat
                     /\ MaxTries \in Nat \ {0}
                     /\ Legacy \in BOOLEAN

VARIABLES
    rows,     \* public.face_verifications
    verified, \* users.face_verified
    consented,\* a row of face_consents of the current version
    images,   \* reference images in the private bucket
    queue,    \* public.face_asset_cleanup, by row
    prov,     \* the provider's record of each session
    hooks,    \* webhooks the provider has to deliver
    seen,     \* public.face_webhook_events
    clock,    \* changes at the provider so far
    calls,    \* handlers
    asks,     \* how much of MaxAsks is used
    cleaner,  \* the clean-up run
    faults,   \* how much of MaxFaults is used
    refused   \* rows an operator or the provider ever rejected

tables == <<rows, verified, images, queue, refused>>
vars == <<tables, consented, prov, hooks, seen, clock, calls, asks, cleaner, faults>>

Statuses == {"none", "pending", "in_review", "approved", "rejected", "expired"}
Ended == {"expired", "rejected"}
Unborn == [st |-> "none", sess |-> "none", at |-> 0, said |-> "none", passed |-> FALSE, ref |-> 0, age |-> "new"]
NoItem == [st |-> "none", path |-> 0, sess |-> "none", tries |-> 0, leased |-> FALSE]
Idle == [pc |-> "idle", kind |-> "none", r |-> 0, snap |-> Unborn, sess |-> "none", ev |-> 0,
         dec |-> NoVerdict, at |-> 0, path |-> 0, mends |-> FALSE]
AtRest == [pc |-> "idle", r |-> 0, path |-> 0, sess |-> "none"]

\* A webhook carries the second of its event; a handler's own clock reads between two events.
EventAt(n) == 2 * n
CallNow == 2 * clock + 1
SqlMax(a, b) == IF a >= b THEN a ELSE b
-----------------------------------------------------------------------------
(* What the provider says, as faceCore reads it.  0 stands for "not yet".  *)

mapDiditStatus(said) ==
    CASE said = "Approved" -> "approved"
      [] said = "Declined" -> "rejected"
      [] said = "In Review" -> "in_review"
      [] said = "Expired" -> "expired"
      [] OTHER -> "pending"
requiresDecisionLookup(st) == st \in {"approved", "rejected", "in_review"}

\* A finished session without its liveness check has no usable decision.
parseDiditDecision(v) ==
    {d \in {v} : d # NoVerdict /\ (mapDiditStatus(d.said) \in {"approved", "in_review"} => d.checked)}

\* Suspected duplicates are accepted by nobody but an operator.
resolveOutcome(v) ==
    IF v.dup THEN (IF v.said = "Declined" THEN "rejected" ELSE "in_review")
    ELSE IF v.said = "Approved" /\ ~v.live THEN "in_review"
    ELSE mapDiditStatus(v.said)

decideTransition(row, outcome, at, said) ==
    CASE row.st = "approved" -> IF outcome = "approved" THEN "duplicate" ELSE "terminal"
      [] row.st # "approved" /\ row.at > 0 /\ at < row.at -> "stale"
      [] row.st # "approved" /\ row.at > 0 /\ at = row.at /\ row.said = said /\ row.st = outcome -> "duplicate"
      [] OTHER -> "apply"

\* One path for each row of the user.
referenceImagePath(r) == r
-----------------------------------------------------------------------------
(* Writes of a row, with the triggers of 0013 and 0029.                    *)

Refused(old, new) ==
    \/ old.st = "approved" /\ new.st # "approved"
    \/ old.passed /\ ~new.passed
    \/ old.sess # "none" /\ new.sess # old.sess
    \/ old.at > 0 /\ new.at < old.at

\* The queue after row r became new.
Enqueue(q, r, old, new) ==
    IF new.st \in Ended /\ old.st # new.st /\ (new.ref # 0 \/ new.sess # "none") /\ q[r].st = "none"
    THEN [q EXCEPT ![r] = [NoItem EXCEPT !.st = "pending", !.path = new.ref, !.sess = new.sess]]
    ELSE q

Store(r, new) ==
    /\ rows' = [rows EXCEPT ![r] = new]
    /\ queue' = Enqueue(queue, r, rows[r], new)
    /\ refused' = IF new.st = "rejected" THEN refused \cup {r} ELSE refused

\* updateRow: the error of a trigger is a result, not an exception.
updateRow(r, new) ==
    IF Refused(rows[r], new) THEN UNCHANGED <<rows, queue, refused>> ELSE Store(r, new)

Others(r) == {q \in Rows \ {r} : rows[q].st = "approved"}
Approvable(r, path, passed) ==
    /\ rows[r].sess # "none"
    /\ path # 0
    /\ passed \/ rows[r].passed
    /\ rows[r].st # "rejected"

\* face_liveness_approve of 0029, one transaction under the user's advisory lock.
ApproveTwice(r, path, at) ==
    /\ Store(r, [rows[r] EXCEPT !.st = "approved", !.passed = TRUE, !.ref = path, !.at = SqlMax(@, at), !.said = "Approved"])
    /\ verified' = TRUE
face_liveness_approve(r, path, at) ==
    IF rows[r].st # "approved" /\ Others(r) # {}
    THEN /\ Store(r, [rows[r] EXCEPT !.st = "expired", !.at = SqlMax(@, at), !.ref = IF @ = 0 THEN path ELSE @])
         /\ UNCHANGED verified
    ELSE /\ Store(r, [rows[r] EXCEPT !.st = "approved", !.passed = TRUE, !.ref = path, !.at = SqlMax(@, at), !.said = "Approved"])
         /\ verified' = TRUE
-----------------------------------------------------------------------------
Init ==
    /\ consented = FALSE
    /\ hooks = {} /\ seen = {} /\ faults = 0 /\ asks = 0
    /\ queue = [r \in Rows |-> NoItem]
    /\ calls = [c \in Calls |-> Idle]
    /\ cleaner = AtRest
    /\ refused = {}
    /\ verified = FALSE
    /\ \/ rows = [r \in Rows |-> Unborn] /\ images = {} /\ prov = [s \in Sessions |-> NoVerdict]
          /\ clock = 0
       \/ /\ Legacy /\ clock = 1
          /\ \E s \in Sessions, p \in {0, referenceImagePath(1)} :
                /\ rows = [r \in Rows |-> IF r = 1
                                          THEN [Unborn EXCEPT !.st = "approved", !.sess = s, !.passed = TRUE, !.ref = p]
                                          ELSE Unborn]
                /\ images = {p} \ {0}
                /\ prov = [q \in Sessions |-> IF q = s THEN Passed ELSE NoVerdict]

Fault(f) == f \in Faults /\ faults < MaxFaults /\ asks + faults < MaxAsks /\ faults' = faults + 1
\* The handler goes on to pc with these fields of its record changed.
Go(c, new) == calls' = [calls EXCEPT ![c] = new]
To(c, pc) == Go(c, [calls[c] EXCEPT !.pc = pc])
Over(c) == Go(c, Idle)
\* A webhook that was dealt with is recorded before the 200; anything else simply answers.
Noted(k) == [Idle EXCEPT !.pc = "mark", !.kind = "hook", !.sess = k.sess, !.ev = k.ev]
Done(c) == Go(c, IF calls[c].kind = "hook" THEN Noted(calls[c]) ELSE Idle)
Begin(c, kind) == calls[c].pc = "idle" /\ kind \in Kinds /\ asks + faults < MaxAsks /\ asks' = asks + 1
-----------------------------------------------------------------------------
(* The provider and the passing of time.                                   *)

Decide(s) ==
    /\ clock < MaxEvents
    /\ prov[s] # NoVerdict
    /\ \E v \in Verdicts :
          /\ v # prov[s]
          /\ prov' = [prov EXCEPT ![s] = v]
          /\ hooks' = hooks \cup {[sess |-> s, said |-> v.said, at |-> EventAt(clock + 1)]}
    /\ clock' = clock + 1
    /\ UNCHANGED <<tables, consented, seen, calls, asks, cleaner, faults>>

\* A pending row comes within a minute of its end, or past it.
Age(r) ==
    /\ rows[r].st = "pending" /\ rows[r].age = "new" /\ asks + faults < MaxAsks /\ asks' = asks + 1
    /\ \E a \in {"margin", "over"} : rows' = [rows EXCEPT ![r].age = a]
    /\ UNCHANGED <<verified, images, queue, refused, consented, prov, hooks, seen, clock, calls, cleaner, faults>>

recordConsent ==
    /\ ~consented /\ consented' = TRUE
    /\ UNCHANGED <<tables, prov, hooks, seen, clock, calls, asks, cleaner, faults>>

\* The isolate of a handler, or of the clean-up, is gone.  It matters between two writes.
Kill(c) ==
    /\ calls[c].pc \in {"create", "lookup", "attach", "reopen", "mark"} \/ calls[c].path # 0
    /\ Fault("kill")
    /\ Over(c)
    /\ UNCHANGED <<tables, consented, prov, hooks, seen, clock, asks, cleaner>>
KillCleaner ==
    /\ cleaner.pc # "idle" /\ Fault("kill")
    /\ cleaner' = AtRest
    /\ UNCHANGED <<tables, consented, prov, hooks, seen, clock, calls, asks>>
-----------------------------------------------------------------------------
(* start: a new session of the provider.                                   *)

StartSession(c) ==
    /\ Begin(c, "start") /\ ~verified /\ consented
    /\ Go(c, [Idle EXCEPT !.pc = "begin", !.kind = "start"])
    /\ UNCHANGED <<tables, consented, prov, hooks, seen, clock, cleaner, faults>>

Lapsed == {r \in Rows : rows[r].st = "pending" /\ rows[r].age = "over"}
Swept == [r \in Rows |-> IF r \in Lapsed THEN [rows[r] EXCEPT !.st = "expired"] ELSE rows[r]]
SweptQueue == [r \in Rows |-> IF r \in Lapsed THEN Enqueue(queue, r, rows[r], Swept[r])[r] ELSE queue[r]]
Reusable == {r \in Rows : rows[r].st = "pending" /\ rows[r].sess # "none" /\ rows[r].age = "new"}
Free == {r \in Rows : rows[r].st = "none"}

\* face_liveness_begin_session, under the user's advisory lock.  A second answer "reuse" ends the call.
BeginSession(c) ==
    /\ calls[c].pc \in {"begin", "again"}
    /\ IF verified THEN Over(c) /\ UNCHANGED <<rows, queue>>
       ELSE IF Reusable # {}
       THEN /\ rows' = Swept /\ queue' = SweptQueue
            /\ IF calls[c].pc = "again" THEN Over(c)
               ELSE \E r \in Reusable : /\ \A q \in Reusable : q <= r
                                        /\ Go(c, [calls[c] EXCEPT !.pc = "supersede", !.r = r])
       ELSE IF Free = {}
       THEN rows' = Swept /\ queue' = SweptQueue /\ Over(c)
       ELSE LET r == CHOOSE x \in Free : \A y \in Free : x <= y
            IN  /\ rows' = [Swept EXCEPT ![r] = [Unborn EXCEPT !.st = "pending"]]
                /\ queue' = SweptQueue
                /\ Go(c, [calls[c] EXCEPT !.pc = "create", !.r = r])
    /\ UNCHANGED <<verified, images, refused, consented, prov, hooks, seen, clock, asks, cleaner, faults>>

SupersedePending(c) ==
    /\ calls[c].pc = "supersede"
    /\ updateRow(calls[c].r, [rows[calls[c].r] EXCEPT !.st = "expired"])
    /\ To(c, "again")
    /\ UNCHANGED <<verified, images, consented, prov, hooks, seen, clock, asks, cleaner, faults>>

Unfinished == {s \in Sessions : prov[s].said \in {"Not Started", "Resubmitted"}}
Fresh == {s \in Sessions : prov[s] = NoVerdict /\ \A r \in Rows : rows[r].sess # s}

\* The provider opens a session, or gives back one the user did not finish.
CreateSession(c) ==
    /\ calls[c].pc = "create"
    /\ \/ /\ Fault("create") /\ To(c, "giveup") /\ UNCHANGED prov
       \/ \E s \in Unfinished \cup Fresh :
             /\ prov' = IF s \in Fresh THEN [prov EXCEPT ![s] = Opened] ELSE prov
             /\ Go(c, [calls[c] EXCEPT !.pc = "lookup", !.sess = s, !.dec = prov'[s]])
             /\ UNCHANGED faults
    /\ UNCHANGED <<tables, consented, hooks, seen, clock, asks, cleaner>>

\* The row the new one stands for is looked up; an approved one is never opened again.
LookupExisting(c) ==
    /\ calls[c].pc = "lookup"
    /\ LET old == {r \in Rows : rows[r].sess = calls[c].sess}
       IN  IF old = {} THEN To(c, "attach")
           ELSE \E r \in old : IF rows[r].st = "approved" THEN To(c, "giveup")
                               ELSE Go(c, [calls[c] EXCEPT !.pc = "replace", !.path = r])
    /\ UNCHANGED <<tables, consented, prov, hooks, seen, clock, asks, cleaner, faults>>

\* The row of this request ends, as failed or as replaced by the one found.
EndOwnRow(c) ==
    /\ calls[c].pc \in {"giveup", "replace"}
    /\ updateRow(calls[c].r, [rows[calls[c].r] EXCEPT !.st = "expired"])
    /\ IF calls[c].pc = "giveup" THEN Over(c) ELSE To(c, "reopen")
    /\ UNCHANGED <<verified, images, consented, prov, hooks, seen, clock, asks, cleaner, faults>>

Reopen(c) ==
    /\ calls[c].pc = "reopen"
    /\ updateRow(calls[c].path, [rows[calls[c].path] EXCEPT !.st = "pending", !.age = "new",
                                                            !.said = calls[c].dec.said])
    /\ Over(c)
    /\ UNCHANGED <<verified, images, consented, prov, hooks, seen, clock, asks, cleaner, faults>>

\* A session of another row breaks the unique index: the exception ends the request.
AttachSession(c) ==
    /\ calls[c].pc = "attach"
    /\ LET new == [rows[calls[c].r] EXCEPT !.sess = calls[c].sess, !.age = "new", !.said = "Not Started"]
       IN  IF Refused(rows[calls[c].r], new) \/ \E q \in Rows : rows[q].sess = calls[c].sess
           THEN UNCHANGED <<rows, queue, refused>>
           ELSE Store(calls[c].r, new)
    /\ Over(c)
    /\ UNCHANGED <<verified, images, consented, prov, hooks, seen, clock, asks, cleaner, faults>>
-----------------------------------------------------------------------------
(* sync, webhook and review: what each of them does before the decision.   *)

RowOf(s) == {r \in Rows : rows[r].sess = s}
Read(kind, r) == [Idle EXCEPT !.kind = kind, !.r = r, !.snap = rows[r], !.sess = rows[r].sess]

SyncSession(c, s) ==
    /\ Begin(c, "sync")
    /\ \E r \in RowOf(s) :
          /\ rows[r].st \notin Ended
          /\ Go(c, [Read("sync", r) EXCEPT !.pc = IF rows[r].st = "approved" THEN "repair" ELSE "decision"])
    /\ UNCHANGED <<tables, consented, prov, hooks, seen, clock, cleaner, faults>>

SameEvent(row, m) == row.at > 0 /\ row.at = m.at /\ row.said = m.said
HookNext(row, m) ==
    CASE SameEvent(row, m) -> "mark"
      [] ~SameEvent(row, m) /\ row.st = "approved" -> "repair"
      [] ~SameEvent(row, m) /\ row.st # "approved" /\ row.at > 0 /\ m.at < row.at -> "mark"
      [] OTHER -> IF requiresDecisionLookup(mapDiditStatus(m.said)) THEN "decision" ELSE "middle"

\* A signed session event whose id is not recorded yet; one of an unknown session is only recorded.
ReceiveHook(c, m) ==
    /\ Begin(c, "hook") /\ m \in hooks \ seen
    /\ IF RowOf(m.sess) = {}
       THEN Go(c, Noted([sess |-> m.sess, ev |-> m.at]))
       ELSE \E r \in RowOf(m.sess) :
               LET k == [Read("hook", r) EXCEPT !.pc = HookNext(rows[r], m), !.ev = m.at, !.dec.said = m.said]
               IN  Go(c, IF k.pc = "mark" THEN Noted(k) ELSE k)
    /\ UNCHANGED <<tables, consented, prov, hooks, seen, clock, cleaner, faults>>

\* A middle state, or the end of the session, is written as the webhook says it.
StoreMiddle(c) ==
    /\ calls[c].pc = "middle"
    /\ LET row == rows[calls[c].r]
           said == calls[c].dec.said
       IN  updateRow(calls[c].r, [row EXCEPT !.said = said, !.at = calls[c].ev,
                                             !.st = IF mapDiditStatus(said) = "expired" THEN "expired" ELSE @])
    /\ Done(c)
    /\ UNCHANGED <<verified, images, consented, prov, hooks, seen, clock, asks, cleaner, faults>>

MarkHook(c) ==
    /\ calls[c].pc = "mark"
    /\ seen' = seen \cup {m \in hooks : m.sess = calls[c].sess /\ m.at = calls[c].ev}
    /\ Over(c)
    /\ UNCHANGED <<tables, consented, prov, hooks, clock, asks, cleaner, faults>>

ReadForReview(c, r) ==
    /\ rows[r].sess # "none"
    /\ \/ /\ Begin(c, "reject") /\ rows[r].st \in {"in_review", "pending"}
          /\ Go(c, [Idle EXCEPT !.kind = "reject", !.r = r, !.pc = "review"])
       \/ /\ Begin(c, "repair") /\ rows[r].st = "approved"
          /\ Go(c, [Read("repair", r) EXCEPT !.pc = "repair"])
       \/ /\ Begin(c, "approve") /\ rows[r].st = "in_review" /\ rows[r].passed
          /\ Go(c, [Read("approve", r) EXCEPT !.pc = "decision"])
    /\ UNCHANGED <<tables, consented, prov, hooks, seen, clock, cleaner, faults>>
-----------------------------------------------------------------------------
(* The decision of the provider and its application: faceOutcome.          *)

\* From here on only the path and the time matter.
ToRpc(k, path) == [k EXCEPT !.pc = "rpc", !.path = path, !.snap = Unborn, !.dec = NoVerdict]

\* A row that is approved while the user's flag is not: the approval is repeated, from the row or from a new decision.
repairApprovedRow(c) ==
    /\ calls[c].pc = "repair"
    /\ LET k == calls[c]
       IN  IF verified THEN Done(c)
           ELSE IF k.snap.ref # 0 /\ k.snap.passed
           THEN Go(c, ToRpc([k EXCEPT !.mends = TRUE, !.at = IF k.snap.at > 0 THEN k.snap.at ELSE CallNow],
                            k.snap.ref))
           ELSE Go(c, [k EXCEPT !.pc = "decision", !.mends = TRUE])
    /\ UNCHANGED <<tables, consented, prov, hooks, seen, clock, asks, cleaner, faults>>

\* Without a usable decision nothing is approved and a webhook is asked for again.
getDecision(c) ==
    /\ calls[c].pc = "decision"
    /\ LET k == calls[c]
       IN  \/ Fault("decision") /\ Over(c)
           \/ parseDiditDecision(prov[k.sess]) = {} /\ Over(c) /\ UNCHANGED faults
           \/ \E d \in parseDiditDecision(prov[k.sess]) :
                 /\ IF k.kind = "approve" /\ ~d.live THEN Over(c)
                    ELSE Go(c, [k EXCEPT !.dec = d,
                                         !.at = IF k.kind = "hook" /\ ~k.mends THEN k.ev ELSE CallNow,
                                         !.path = IF k.kind = "approve" THEN k.snap.ref ELSE 0,
                                         !.pc = IF k.kind # "approve" THEN "check"
                                                ELSE IF k.snap.ref # 0 THEN "review" ELSE "image"])
                 /\ UNCHANGED faults
    /\ UNCHANGED <<tables, consented, prov, hooks, seen, clock, asks, cleaner>>

\* An approval needs the liveness check and an image, kept already or fetched now.
finalizeApproval(c) ==
    IF ~calls[c].dec.live THEN Done(c)
    ELSE IF calls[c].snap.ref # 0 THEN Go(c, ToRpc(calls[c], calls[c].snap.ref))
    ELSE To(c, "image")

\* applyDecisionToRow up to its write; the row is the one read before the decision, the flag is read now.
ApplyDecision(c) ==
    /\ calls[c].pc = "check"
    /\ LET row == calls[c].snap
           d == calls[c].dec
           outcome == resolveOutcome(d)
       IN  IF row.st = "approved" THEN (IF verified THEN Done(c) ELSE finalizeApproval(c))
           ELSE IF row.st # "rejected" /\ verified THEN Go(c, [calls[c] EXCEPT !.pc = "close", !.snap = Unborn])
           ELSE IF decideTransition(row, outcome, calls[c].at, d.said) # "apply" THEN Done(c)
           ELSE IF outcome = "approved" THEN finalizeApproval(c)
           ELSE To(c, "patch")
    /\ UNCHANGED <<tables, consented, prov, hooks, seen, clock, asks, cleaner, faults>>

With(k, st, passed) == [rows[k.r] EXCEPT !.st = st, !.said = k.dec.said, !.at = k.at, !.passed = passed]

\* The user is verified through another session: this one ends, whatever the write says.
CloseSuperseded(c) ==
    /\ calls[c].pc = "close"
    /\ updateRow(calls[c].r, With(calls[c], "expired", rows[calls[c].r].passed))
    /\ Done(c)
    /\ UNCHANGED <<verified, images, consented, prov, hooks, seen, clock, asks, cleaner, faults>>

ensureReferenceImage(c) ==
    /\ calls[c].pc = "image"
    /\ LET k == calls[c]
       IN  \/ /\ Fault("image") /\ UNCHANGED images
              /\ IF k.kind = "approve" THEN Over(c)
                 ELSE IF k.snap.st = "approved" THEN Done(c)
                 ELSE To(c, "unavailable")
           \/ /\ images' = images \cup {referenceImagePath(k.r)}
              /\ Go(c, [ToRpc(k, referenceImagePath(k.r)) EXCEPT !.pc = IF k.kind = "approve" THEN "review" ELSE "rpc"])
              /\ UNCHANGED faults
    /\ UNCHANGED <<rows, verified, queue, refused, consented, prov, hooks, seen, clock, asks, cleaner>>

\* What is stored when the decision is not an approval, or is one without its image.
StoreOutcome(c) ==
    /\ calls[c].pc \in {"patch", "unavailable"}
    /\ LET k == calls[c]
           live == k.snap.passed \/ (k.dec.live /\ mapDiditStatus(k.dec.said) \notin {"pending", "expired"})
           new == IF k.pc = "patch" THEN With(k, resolveOutcome(k.dec), live) ELSE With(k, "in_review", TRUE)
       IN  /\ updateRow(k.r, new)
           /\ IF Refused(rows[k.r], new) THEN Over(c) ELSE Done(c)
    /\ UNCHANGED <<verified, images, consented, prov, hooks, seen, clock, asks, cleaner, faults>>

approveVerification(c) ==
    /\ calls[c].pc = "rpc"
    /\ LET k == calls[c]
       IN  \/ /\ Fault("rpc") \/ (~Approvable(k.r, k.path, TRUE) /\ UNCHANGED faults)
              /\ IF k.mends THEN Done(c) ELSE Over(c)
              /\ UNCHANGED <<rows, queue, refused, verified>>
           \/ /\ Approvable(k.r, k.path, TRUE)
              /\ face_liveness_approve(k.r, k.path, k.at)
              /\ Done(c)
              /\ UNCHANGED faults
    /\ UNCHANGED <<images, consented, prov, hooks, seen, clock, asks, cleaner>>

RejectBlind(c) == /\ Store(calls[c].r, [rows[calls[c].r] EXCEPT !.st = "rejected", !.at = SqlMax(@, CallNow)])
                  /\ verified' = FALSE
Reject(c) == /\ Store(calls[c].r, [rows[calls[c].r] EXCEPT !.st = "rejected", !.at = SqlMax(@, CallNow)])
             /\ verified' = (verified /\ Others(calls[c].r) # {})

\* face_liveness_admin_review: the state is looked at again under the row's lock.
adminReview(c) ==
    /\ calls[c].pc = "review"
    /\ LET k == calls[c]
           row == rows[k.r]
       IN  IF k.kind = "reject" /\ row.st \in {"in_review", "pending"} THEN Reject(c)
           ELSE IF k.kind = "approve" /\ row.st = "in_review" /\ row.passed /\ Approvable(k.r, k.path, TRUE)
           THEN face_liveness_approve(k.r, k.path, CallNow)
           ELSE UNCHANGED <<rows, queue, refused, verified>>
    /\ Over(c)
    /\ UNCHANGED <<images, consented, prov, hooks, seen, clock, asks, cleaner, faults>>
-----------------------------------------------------------------------------
(* The clean-up of ended sessions.                                         *)

Referenced(path) == \E r \in Rows : rows[r].st = "approved" /\ rows[r].ref = path

Claimable(r) == /\ r \in Cleaned
                /\ queue[r].st \in {"pending", "failed"}
                /\ ~queue[r].leased
                /\ queue[r].tries < MaxTries
\* The row is looked at again: one that was reopened or approved meanwhile keeps what it has.
ClaimCleanup(r) ==
    /\ cleaner.pc = "idle" /\ Claimable(r)
    /\ LET path == IF Referenced(queue[r].path) THEN 0 ELSE queue[r].path
       IN  IF rows[r].st \notin Ended
           THEN queue' = [queue EXCEPT ![r].st = "cancelled"] /\ UNCHANGED cleaner
           ELSE /\ queue' = [queue EXCEPT ![r].leased = TRUE, ![r].path = path]
                /\ cleaner' = [pc |-> "storage", r |-> r, path |-> path, sess |-> queue[r].sess]
    /\ UNCHANGED <<rows, verified, images, refused, consented, prov, hooks, seen, clock, calls, asks, faults>>

LeaseLapses(r) ==
    /\ queue[r].leased /\ ~(cleaner.pc # "idle" /\ cleaner.r = r)
    /\ queue' = [queue EXCEPT ![r].leased = FALSE]
    /\ UNCHANGED <<rows, verified, images, refused, consented, prov, hooks, seen, clock, calls, asks, cleaner, faults>>

DeleteImage ==
    /\ cleaner.pc = "storage"
    /\ \/ /\ cleaner.path # 0 /\ Fault("storage")
          /\ cleaner' = [cleaner EXCEPT !.pc = "failed"] /\ UNCHANGED images
       \/ /\ images' = images \ {cleaner.path}
          /\ cleaner' = [cleaner EXCEPT !.pc = IF cleaner.sess = "none" THEN "done" ELSE "provider"]
          /\ UNCHANGED faults
    /\ UNCHANGED <<rows, verified, queue, refused, consented, prov, hooks, seen, clock, calls, asks>>

DeleteSession ==
    /\ cleaner.pc = "provider"
    /\ \/ /\ Fault("delete")
          /\ cleaner' = [cleaner EXCEPT !.pc = "failed"] /\ UNCHANGED prov
       \/ /\ prov' = [prov EXCEPT ![cleaner.sess] = NoVerdict]
          /\ cleaner' = [cleaner EXCEPT !.pc = "done"] /\ UNCHANGED faults
    /\ UNCHANGED <<tables, consented, hooks, seen, clock, calls, asks>>

FinishCleanup ==
    /\ cleaner.pc \in {"done", "failed"}
    /\ queue' = [queue EXCEPT ![cleaner.r].st = cleaner.pc, ![cleaner.r].tries = @ + 1, ![cleaner.r].leased = FALSE]
    /\ cleaner' = AtRest
    /\ UNCHANGED <<rows, verified, images, refused, consented, prov, hooks, seen, clock, calls, asks, faults>>
-----------------------------------------------------------------------------
HandlerStep(c) ==
    \/ BeginSession(c) \/ SupersedePending(c) \/ CreateSession(c) \/ LookupExisting(c)
    \/ EndOwnRow(c) \/ Reopen(c) \/ AttachSession(c)
    \/ StoreMiddle(c) \/ MarkHook(c) \/ repairApprovedRow(c) \/ getDecision(c) \/ ApplyDecision(c)
    \/ CloseSuperseded(c) \/ ensureReferenceImage(c) \/ StoreOutcome(c) \/ approveVerification(c)
    \/ adminReview(c)
Request(c) ==
    \/ StartSession(c)
    \/ \E s \in Sessions : SyncSession(c, s)
    \/ \E m \in hooks : ReceiveHook(c, m)
    \/ \E r \in Rows : ReadForReview(c, r)
CleanerStep == DeleteImage \/ DeleteSession \/ FinishCleanup

Next ==
    \/ recordConsent
    \/ \E s \in Sessions : Decide(s)
    \/ \E c \in Calls : Request(c) \/ HandlerStep(c) \/ Kill(c)
    \/ \E r \in Rows : Age(r) \/ ClaimCleanup(r) \/ LeaseLapses(r)
    \/ CleanerStep \/ KillCleaner

Spec == Init /\ [][Next]_vars
-----------------------------------------------------------------------------
TypeOK ==
    /\ rows \in [Rows -> [st : Statuses, sess : Sessions \cup {"none"}, at : Nat, said : Said \cup {"none"},
                          passed : BOOLEAN, ref : Rows \cup {0}, age : {"new", "margin", "over"}]]
    /\ {verified, consented} \subseteq BOOLEAN
    /\ images \subseteq Rows
    /\ refused \subseteq Rows

\* The flag of the user stands on an approved row whose liveness passed and whose image is kept, and there is
\* one such row: two sessions finished at once, a late webhook, a repair or a clean-up never break that.
FlagIsBacked ==
    /\ verified => \E r \in Rows : rows[r].st = "approved" /\ rows[r].passed /\ rows[r].ref \in images
    /\ \A r, q \in Rows : rows[r].st = "approved" /\ rows[q].st = "approved" => r = q

\* Once given, an approval and the user's flag are taken back by no event, review or clean-up.
ApprovalKept ==
    [][ /\ verified => verified'
        /\ \A r \in Rows : rows[r].st = "approved" => rows'[r].st = "approved" /\ rows'[r].sess = rows[r].sess ]_vars

\* A row that was rejected is not brought back by an automatic approval, the user needs a new session (0014:138,
\* docs/face-liveness-didit.md:126): another event may not take it to a state from which it is approved.
RejectedStaysOut == \A r \in refused : rows[r].st # "approved"
=============================================================================
