# Verification of the blind-dating service

TLA+ models of the parts of this repository where requests of several people,
background jobs, late answers and partial failures meet: the PostgreSQL functions and triggers
under `supabase/migrations`, the edge functions under `supabase/functions`, the server actions of
`apps/admin` and the screens of `apps/mobile`. The model checker TLC explores small instances of
each module; the TLA+ proof system TLAPS proves the central properties for every
size. `PROJECT.json` lists components, runs, hazards, theorems, and for every
definition the source lines it models.

Contents: 1 the system, 2 the modules, 3 the runs, 4 fairness, 5 the proofs,
6 observations, 7 what is not modelled, 8 what remains.

## 1. The system

A mobile app (`apps/mobile`, Expo) talks to Supabase: directly to tables under row
level security, to RPCs, and to edge functions that hold the service role. Operators
use a Next.js console (`apps/admin`) that calls the same RPCs. pg_cron starts hourly
and daily jobs. All lasting state is in PostgreSQL (READ COMMITTED), in Storage, at
the identity provider of face verification and in Supabase Auth.

| component | state | operations | meets | hard behaviour | what makes it correct | modules |
|---|---|---|---|---|---|---|
| matching and conversations (0003, 0005, 0020, 0026) | `likes`, `matches`, `recommendations`, `blocks`, `messages`, `users.status` | `recommendation_accept`, direct like and decision (older clients), `conversation_leave`, message insert, block insert, ban | triggers of one table write another; erasure and recommendation runs use the same rows | interleaved transactions, implicit foreign-key locks, lock circles, savepoint rollback | slot limit, no lost mutual like, one account of how a match ended, nothing stored after its end, atomicity | `MatchTx`, `MatchRegistry`, `MatchInv`, `PgLocks` |
| matching score (`_shared/matching`, `starterQuestions.ts`, `icebreaker`) | answers, settings, dealbreakers, opening questions | save a row, compare two people, open a conversation | recommendation runs, chat | rows edited between two comparisons, a copy of the questions kept | a condition of either side excludes, scores stay in range and are symmetric | `MatchingScore`, `StarterQuestions`, `Matchmaking` |
| home screen (`app/(main)/index.tsx`, `recommendations.ts`) | two cached queries and the screen's own state | fetch, show, accept, skip, refetch | server's card of the day, slots | answers late, lost or superseded | the screen offers only what it has read and never decides twice | `TodayScreen` |
| account status and moderation (0009, 0019, 0020, `delete-account`) | `users.status`, `suspended_until`, `deleted_at`, `user_identities.banned`, `moderation_actions` | suspend, unsuspend, ban, unban, hourly lift, delete, reactivate, operator's delete, recovery | a ban closes matches; a deletion starts the clock of the erasure | read-then-write in two statements, triggers that follow every write | a ban reaches the identity, a deletion becomes due, a suspension ends | `AccountStatus` |
| account erasure (0019, 0028, `account-purge`, `deletion-requests`) | `account_purge_jobs`, `account_deletion_requests`, storage, provider sessions, personal rows | batch, retry, complete deletion, skip, prune; stages storage, provider, db, auth | status writers, face verification | leases, crashes, lost answers, repeated stages, irreversible steps | "done" means erased and stays done, nothing becomes unreachable, jobs end | `AccountPurge` |
| face verification and clean-up queue (0013, 0014, 0029, 0030, `_shared/face`, `face.tsx`) | `face_verifications`, the user's flag, `face_asset_cleanup_queue`, provider sessions, stored images | start, webhook, sync, expiry, approval, operator's review, clean-up | erasure, recommendation eligibility | webhooks twice, late or out of order; two approvals; rows of an older version; an image deleted while its row is approved | the flag stands on one approved row and its kept image; an approval is never taken back | `FaceVerification`, `FaceScreen` |
| meetups (0016, meetup screens) | `meetup_intents`, `meetups`, feedback | intent, withdrawal, outcome reports, feedback | needs an active match, sends events | both first answers at once; match ends meanwhile; rows of an older version | mutual state exactly once, a state that follows from both answers | `MeetupTx`, `MeetupRegistry`, `MeetupScreen` |
| recommendation runs (0017, 0026, 0027, 0034) | one run per user and day, lease, sweep cursor, cards | claim, issue card, finish, retry, sweep page | eligibility of both users, slots | lost leases, late finish, overlapping sweeps | one card a day to decide on, a sweep reaches everybody | `RecommendationRuns` |
| notifications (0018, 0034, `send-push`) | event outbox, push tokens, receipts | enqueue, dequeue with claim, mark, disable | every trigger that tells somebody something | sent but not marked, five attempts, two senders | every event is sent or closed | `PushOutbox` |
| identity verification and recovery (0032, `verify-identity`, identity screens) | verification sessions, `user_identities`, accounts and their phones | request, confirm, recover | account status, erasure | two devices of one person, a call cut short between any two writes, leases | one account per person, the owner comes back only to their own | `IdentitySessions` |
| sms codes (0023, `send-sms`, login screen) | counter and last code per number | hook call, decision, delivery, timer | sign-in | a decision after the hook's timeout, a window's edge | never more than the limit per window, the screen's timer is true | `SmsOtp` |
| administrators' login (0031, `adminAuthCore`) | failures, sign-in sessions, second factor, pending cookie | form by form | members' sessions | two forms at once, lock, time | no login without the second factor, no failure uncounted | `AdminLogin` |
| administrators and sessions (0033) | operators, roles, sessions | add, role, status, issue, revoke, check | audit | two owners demote each other, a session issued while its owner is disabled | an owner remains, an ended session stays ended | `AdminMembers` |
| beta cohorts (0025) | cohorts, invite codes, members, waiting list | create, redeem, join, admit | onboarding gate | redemptions and admissions of several statements at once | codes used no oftener than they may, a redemption changes nobody's admission | `BetaInvites` |
| mobile chat client (`lib/chat*.ts`) | message list, pending sends, queries | send, retry, realtime insert, pages, resync, leave, block | messages | answer lost, event before answer, a channel that was down | each message once, in order | `ChatClient` |
| onboarding, profile editing | step, gate, sections; forms and their queries | enter, resume, save a section; edit, save | beta gate, face, identity | failed and late reads, restart between steps, two devices | nobody is home without the steps before it; a form writes what it showed | `Onboarding`, `ProfileEdit` |
| reports and evidence, metrics, remaining screens, legacy prototype | | | | none worth a model | see section 7 | |

## 2. The modules

**Matching.** `PgLocks` is the row-lock table of PostgreSQL: three modes, their
conflicts, who blocks whom (external: modelled from how the migrations use it).
`MatchTx` takes the transactions apart into statements. Each session has a program
counter `pc`; a statement that needs a row lock waits in `Acquire` until it is
granted. The variables of the committed rows (`likes`, `matchSt`, `closedBy`,
`closeKind`, `recs`, `blocks`, `status`, `msgs`) change only in the commit actions,
since other sessions read committed rows. A session that cannot go on rolls back
(`Rollback`); PostgreSQL's deadlock detector is `AbortDeadlock`. The order of the locks
is the order of the code with the one PostgreSQL adds: an INSERT takes KEY SHARE on
the referenced `users` rows in its referential-integrity triggers, which fire before
the tables' own AFTER triggers because triggers fire by name. These implicit locks,
more than the explicit FOR UPDATE, keep two opposite likes from both looking too early
and serialise a block or a ban with a match that is being made. `Recheck` stands for three statements
(two counts, one insert) because both `users` rows are locked by then. `MatchRegistry` is the abstract
specification: the same tables with every request a single step. `MatchInv` holds the
inductive invariant.

**Comparing people.** `MatchingScore` is the comparison as operators: hard conditions of both sides
first, then the weighted parts as whole numbers of `UnitScore` = 1200, which every weight and
every step of the code's scales divides, so that no rounding is hidden. `StarterQuestions` picks the questions
that open a conversation, `Matchmaking` has three people edit the rows these read and keeps what each operation returned
next to it. `TodayScreen` is the client's side: two queries with the
library's rules (a new fetch drops the answer of the one under way) and the screen's own flags.

**Meetups.** `MeetupTx` are the three RPCs of 0016 with their triggers, statement by statement over `PgLocks`;
`MeetupRegistry` is the abstract specification, in which an answer is one step and both firsts are told once; `MeetupScreen` is the screens
over one query whose four reads are not one snapshot.

**Account status.** `AccountStatus` is one account. Every write of `status` goes
through `SetStatus`, which also applies the two triggers (`track_user_deleted_at`,
`sync_identity_ban`). The moderation RPC locks its row, so it is one step; the
delete-account function and the operator's page read the status in one statement and
update by id in another, so they are two (`edge`). `asked` is the model's own clock of
the request that stands, against which the stored `deletedAge` can be judged.

**Account erasure.** `AccountPurge` extends `AccountStatus`: the erasure runs next to
every writer of the status. A worker is one invocation of account-purge; each call it
makes to the database, to Storage, to the provider and to Auth is a step, each may fail
before or after its effect (`Faults` has `fail`), the invocation may die (`crash`) and
its lease may run out (`lease`). `job` is the row of `account_purge_jobs`, `request`
the row of `account_deletion_requests`. The calls that open a face session and those
that store its image are there as well (`Extras` has `face`), because they add data
while stages run.

**Recommendation runs.** `RecommendationRuns` is one day. A worker is an invocation of
`daily-recommendation` (`Apps`) or of the batch (`Sweepers`); every call that changes the
database is a step, reads that follow each other are one. `cards` are the day's rows of
`recommendations`, `run` those of `recommendation_runs` with `live` for a lease that has not run out and
`recent` for a result that still holds a retry back, `cursor` is the row of
`recommendation_batch_cursor`. `Fits` says whose conditions allow a card at all; of those who
fit and are eligible a run may choose anyone or, for want of slots and scores, nobody.
Candidates become ineligible and return (`open`), requesters lose and regain eligibility or slots (`able`).
A finish that fails is swallowed as in the code, neither it nor a save of the cursor
asks for the lease, and an app that finds the run busy asks again by a new `AppStart`. `seen` is the model's own record of
whom the standing sweep has looked at.

**Face verification.** `FaceVerification` is one user: `rows` (`face_verifications`), `prov` (the provider's sessions), `queue` and
`images` (what the clean-up may delete and what it has deleted), `hooks` (events the provider will deliver, again and late), and
`calls`, the edge functions and the operator's page, each with the copy of the row it has read. Every RPC is one step, everything between two awaits of a handler
is one step. Rows without a flag of the version before are initial states (`Legacy`). `refused` is the model's own record of rows that were once rejected. `FaceScreen` is the client: its awaits, polls
and clean-ups against a server that answers late or not at all.

**Identity.** `IdentitySessions` is `verify-identity`: request, confirm and recover as sequences of awaits, several calls at a time, each of which may
be killed anywhere, several accounts and people, and the screens that make the calls. Leases, expiry and the second look before a recovery (`rejudge`) are there;
an erasure of an account may come between any two steps (`EraseAccount`). A claim and the read that explains why it was not granted (`Claim`, `Explain`) are two awaits, and either may fail. The screen's way back (`GoBack`)
is open while a call runs, as its buttons are; the answer then moves the screen from wherever it is.

**The gates.** `SmsOtp` has the hook's timeout, the row lock of the rate limit and the login screen's timer, with requests that overlap because the button to send again is open while one runs; `AdminLogin` the forms of one operator with
failure counter, lock and second factor; `AdminMembers` the transactions of 0033 with the snapshot of their lock statement; `BetaInvites` the redemption
and the admission from the waiting list as transactions of several statements: what one of them has written of an account (`won`, `done`) or of an entry of the list (`settles`, `chosen`) is its own until it commits, the others wait for it or,
where the code says SKIP LOCKED, pass it over. An admission writes its chosen accounts whatever they have become since they were picked (0025:431), in any number of cohorts. **Screens.** `ChatClient`, `Onboarding` and `ProfileEdit` are the clients with the server's answers as they may come back: late, lost, out of order,
or from another device's write. **Notifications.** `PushOutbox` is the outbox with claims, attempts, chunks and two senders; `lost` is the model's own record of the events for which the service has called a device gone. `Onboarding` starts with a new
account or with one the app before the introduction left at any of its steps, the removed `appearance` among them (`OldRow`). `ProfileEdit` measures a nickname in UTF-16 units and in characters, since the form asks for the one and the column for the other (`Nicknames`). In `AdminLogin` the call
that closes a session of the provider may fail, and nobody looks (`SignOut`).

The `MC*` modules give the constants their values. To keep the number of runs small, several put unrelated modules side by side: a variable
`part` says which one a behaviour belongs to, the variables of the others stand at `Absent`, and each invariant speaks of its own part. Parts do not
interact: the distinct states of such a run are the sum of those of its parts.

Each module also contains a few operators marked *Slip* or *wrong*: variants of an action with a plausible mistake,
placed before the action they vary. They are not part of any specification; `PROJECT.json`
pairs each property with one that breaks it, which shows that the property can fail.

## 3. The runs

| run | instance | distinct states | what it shows |
|---|---|---|---|
| `match_slots` | parts slots: 3 users who all know each other, 1 slot, 2 transactions (accept, like, decline, leave); matching: 3 people, 1 save, 1 opening; today: 2 cards, 1 conversation, 1 extra fetch, 1 lost answer | 2.27 million | slot limit, accepted cards have their like, no lost match; comparison and questions (`MatchingInv`); the home screen (`TodayInv`) |
| `match_chat` | 2 users, 2 transactions: accept, declare, leave, send, block, ban; 1 message; fair | 132,432 | the inductive invariant, how matches end, no late message, refinement of `MatchRegistry`, every request is answered |
| `meetup` | 2 users, 2 transactions of the three RPCs, one user may be restricted, a match of an older version; fair | 410,480 | mutual interest and confirmation once, refinement of `MeetupRegistry`, every save ends |
| `rec_sweep` | 2 users, 2 candidates, batch and app, pages of 2, 1 page a call, all faults; fair | 790,250 | one open card, one holder of a run, a cursor that passes nobody over, every target is tried |
| `purge` | parts erase: 2 workers, failures, lease expiry, crashes, skip; requests: complete deletions with retry, batch, skip, a returning owner, face requests | 2.20 million | done stages have erased, sessions reachable, results not taken back; identity row anonymised before the account goes, requests closed only for gone accounts |
| `verification` | parts face: 2 rows, 2 provider sessions, 2 handlers, 2 events, every fault, rows of an older version; identity: 3 accounts, 2 people, 2 numbers, 2 screens, 2 sessions, 2 calls | 1.57 million | the flag stands on one approved row and its image, approvals stay; one account per person, sessions end, identities move only from accounts that are gone |
| `screens` | parts status: all nine operations, 2 overlapping requests, grace 2, suspensions up to 2 days; purge: 2 workers, no faults; entry: 5 faults; face: 2 sessions, 2 reads of patience, 2 slips; push: 1 message and the daily event, 2 tokens, 2 senders, 2 attempts; fair | 76,967 | a ban reaches the identity, nobody is home early, the face screen shows what the server gave, delivered events stay so; jobs finish, deletions become due, suspensions end, entry and waiting end, events close |
| `gates` | parts invites: 2 users, 2 cohorts of 1 place with a code of 1 use each, 2 calls, 3 acts of operators; sms: 2 hook calls, cooldown 1, window 3, 2 codes a window; login: 2 forms, 2 failures; members: 2 operators, 2 orders, 1 session; chat: 1 own and 1 foreign message, 2 tries; edit: 1 device, 1 input, 2 submits; meetup: 2 saves, 2 events | 1.92 million | codes and code messages are counted, no login without its factors, ended sessions stay out, messages shown once, forms write what they showed; redemptions change no admission, owners stay, no message vanishes |
| `status_flag`, `purge_crash`, `rec_empty_ok`, `last_owner` | smallest instance that shows it | | a documented statement the code does not keep, see section 6 |

Bounds. *Matching*: three users are the fewest with which one user can be accepted by two others
at the same time; two transactions let one commit between any two statements of the other, and the
theorems cover any number. A limit of one slot makes the limit bind at the first match. `MaxMsgs` = 1 is enough to store a message in any
state of the conversation. In the slots part only user 1 uses the older clients' requests and only user 3
leaves: any user may be the other's counterpart. A legacy client can declare a card accepted without ever
sending the like (known: `docs/conversation-policy.md` section 5), so `declare` is left out
where `AcceptedHasLike` is checked and appears in `match_chat`. The matching part needs one save between two comparisons; the ranges of answers hold
a value on each side of every condition. *Home screen*: two cards let a new one replace one that is being decided.
*Erasure*: grace is one day: the properties compare an age with the grace, never with another
number. One face session lets the provider stage fail and be repeated; the job's
snapshot holds sessions one by one and never compares two. *Recommendations*: a page of two users lets a call stop between
them and one page a call makes the next call go on from the cursor; `MaxEvents` = 1 allows one crash, one failing claim or page, or one change
of a person, next to any number of failing reads, inserts and finishes and of decided cards. The second user fits one
candidate only (`UnevenFits`), so that each has a different choice. *Face*: two rows and two handlers are what a superseded session, a repeated event and
a race of two approvals need; `MaxAsks` = 4 requests let each row be asked for again, `MaxFaults` = 1 with `MaxTries` = 1 puts one failure at any call. *Identity*: two people and three accounts: a person with an
account, a new account of the same person, and one of somebody else; `Lease` = 0 lets a lease run out within the one unit of time (`MaxNow`), before which
a row's `Ttl` = 2 has not passed, so that a later call takes over a row that is still good, while `RecoveryTtl` = 1 passes. That a row which was never
confirmed runs out is not reached by TLC at these bounds (two units of time are too many states); the theorems hold for every `Ttl`. `MaxRare` = 1 also counts going back while
a call runs (`GoBack`). *Gates*: two of everything that may overlap: two cohorts with one place and one code of one use each let a code's redemption and the admissions of both
cohorts meet at one person. A cooldown shorter than the window and two messages a window let each of the two checks refuse alone; time runs to just past the first
window of the code messages (`MaxTime` = 4). Sessions of operators are created before and after a cut (`MaxNow` = 2). *Push*: two attempts are the last and
one before, `MaxBreaks` = 1 is one death or one failing call of a sender.

Symmetry is used only in runs without liveness and over values no operator orders: sessions in `match_slots`, workers in `purge`,
calls, sessions, screens, numbers and the accounts that do not exist at the start in `verification`, orders and operators in `last_owner`; in `gates` calls, hooks, forms and orders, exchanged all at once (`GateSymmetry`).

Deadlock checking is off where an instance rightly stops: `gates`, `screens` and `last_owner` when their bounds are used up, `verification` when every event
has been delivered, `purge` when the account is gone and no request is left. `match_slots`, `match_chat`, `meetup` and `rec_sweep` check it.

## 4. Fairness

`MatchTx`, `MeetupTx`: a statement that can run again and again does run (strong fairness per session:
PostgreSQL queues the waiters of a row lock, so a lock that keeps becoming free is granted), and
a circle of waiters is broken (`deadlock_timeout`). Nothing obliges a client to begin a request.
`AccountStatus`: days pass and the hourly lift runs. `AccountPurge`: the daily batch comes
again and again (strong fairness, a failed job may be in progress when it comes), an
invocation goes on, leases run out, days pass. Operators and owners owe nothing:
no liveness property relies on a manual retry. `RecommendationRuns`: cron starts a sweep again and again
(every quarter of an hour), an invocation goes on unless it dies, leases run out; nobody has to open the app. Two assumptions on time stand in
its guards: a lease outlives the invocation that holds it (the cursor's 180 s against at most 120 s is written down in
`daily-recommendation-batch/index.ts:28`; for the 90 s of a run it is an assumption), and a call has time for at least one user (`did`).
`Onboarding`: whoever is on a screen goes on with it (`Forward`), because `ReachesHome` speaks about people who do; faults are bounded, so they end.
`FaceScreen`: promises settle, timers fire, and the effect that leaves an approved screen runs; nobody has to press a button. `PushOutbox`: the cron call comes every minute, a sender that runs goes on
unless it dies, claims run out.

## 5. The proofs

Every theorem is about the specification of the module it names, for every value of the constants that meets the module's own assumptions; a hypothesis
of their own have only `AcceptedCardsHaveLikes`, `GoneIsErased` and `StagesErase`; each is explained where the theorem is.

**`MatchProofs`** proves about `MatchTx`, for any finite set of users, any set
of sessions, any requests, any cards and any limit. The assumptions are those stated with the constants: user ids are
positive integers (they are compared by `least`), the limit is positive, requests name two
different users.
The safety properties are not inductive. That a match is made only with a free slot is known at its
insert, but it is the locks that keep it true until the commit, so the invariant `IInv` says which
locks a session holds at each statement and what they protect: conflicting locks are never held by
two sessions (`LocksExclude`); a session in the trigger holds KEY SHARE on both users rows
(`LikeOK`); a session about to commit a match holds both users rows FOR UPDATE, both users have a slot and the
pair has no row (`MakeOK`); one about to commit a like alone knows its answer is not there and cannot come
first (`AloneOK`); a leave and a send hold the match row and it is active; a ban has visited, or has still to
visit, every active match of the account, and no new one can appear (`BanOK`). `Inductive` proves
`Spec => [](TypeOK /\ IInv)`, one lemma per action. The step that takes the work is showing that a
commit of another session cannot falsify what this one knows: either it holds a conflicting lock, or it touches other rows.
From it follow `SlotLimitHolds`, `NoMatchIsLost`, `CloseFactsHold`, `StoredWhileOpen`, `MatchesEndRight`, and
`Implements`: every behaviour of the locked transactions is one of
`MatchRegistry`, where a commit is one request and everything else a stutter. `AcceptedCardsHaveLikes` adds an invariant of its own and one hypothesis on
the constant `Jobs`: nobody uses the older clients' bare update of the decision (`declare`), which breaks the property by design.

**`MeetupProofs`**: `MeetupInductive` (exclusive locks, and that what a trigger has read is still so when it writes, because the match row or the meetup row is locked since),
`ConfirmedOnceHolds`, `IntentAgreesHolds`, and `MeetupImplements`, the refinement of `MeetupRegistry`.
`ScreenTellsTruth` is about the page of one user (`MeetupScreen`): `PairKept` says that every copy of the match, read or shown, was true and has stayed so, because `everMutual` and a confirmation are never taken back (`PairMoves`), and that
a call under way is one the server will accept whatever the other person does until it arrives (`Acceptable`). It is the half of `FormsInv` about meetups.

**`AccountProofs`** proves `StatusTypeCorrect` and `BanIsFlagged` for any number of overlapping requests,
any grace and any suspension length. `BanReachesIdentity` is inductive with the type invariant: the trigger
never clears the flag on a write that sets `banned`, nor sets `banned` without setting the flag.
The erasure is proved over any workers, face sessions and faults. Besides `PurgeTypeCorrect` the module has three results. `FinishedStagesStand` (`DoneStaysDone`): a stage recorded as done
is not taken back, whatever retries, lost answers and expired leases do; only the pruning of the finished job forgets it. The invariant `Sound` it needs says that the holder of a live lease
sees the stages as the job has them (`HolderSound`), that what a worker or the job calls done was done (`WorkerSound`, `JobSound`), and that a complete deletion stays one, so that the worker of a
request finds the mode `hard`. `GoneIsErased` (`GoneInv`): when the account is gone its identity row is anonymised, and a request is closed only then. It assumes that skipping and pruning do not both occur: a skipped stage is remembered in the job's row only,
and once that row is pruned a new job would start from the beginning; either alone is covered. `StagesErase` is about the account to which nothing is added (no face session is opened and the owner does not come back): a stage recorded as
done has left nothing, and sessions that remain are still named somewhere. `Reaching` is the invariant: the job's snapshot or the worker's own list contains every remaining session, and without a job the rows do.
With face requests the statement is not true (a start or a webhook in flight may add data, see section 6).

**`RecommendationProofs`** proves `RecSafetyHolds` (with `OneHolderHolds` and `OneOpenCardHolds`) and `NobodyIsPassedOver` for any number of users, candidates, sweeps
and apps, every fault and every bound. `RecInv` adds what ties an invocation's place to its run and to the
cards it has read: who holds a run holds it under a lease that lives (`HolderRuns`; a claim needs a lease that is over, and a lease ends
only when nobody works under it), and from its reading on until it inserts, the holder's user has no open card (`Looked`), because
only a holder opens one and everybody else only closes them. `WorkerMoves` and `NobodyMoves` state once what a step must leave alone; each
action is then one lemma. The proof rests on the assumption of section 4 that a lease outlives its invocation:
`recommendation_run_finish` does not ask whose run it is, and without the assumption two holders are possible. `SweepInv`, for the cursor, says what a page in progress has looked at:
everybody up to the place the sweep has reached is in `seen` or was no target when the page was read.

**`VerificationProofs`**, faces: `FlagHasItsRow` and `ApprovalsStand`. `FaceInv` has four parts. `FaceTables`: each row with its columns, the flag, the queue of images.
`FaceHandlers`: what each handler may assume of the copy it has read, possibly long ago; the copy binds almost nothing but the ids, and everything else is asked again inside the RPC.
`FaceCleaner` is the heart: an image is queued and deleted only for a row that is `Held` by another approved row, and `face_liveness_approve` never approves a row while
there are `Others`; so a row whose image is gone can never be approved later, and an approved one keeps its image. `FaceWorld`: events and provider sessions.
`FaceStepAll` shows of every step that it keeps `FaceInv`, every approved row and its session, and the flag.
Identity: `OnePersonOneAccount` and `SessionsEndAndPersonsStay`. `LinksInv` is `AccountsInv` (accounts, numbers and identity rows agree), `RowsInv` (verification sessions), `CallsInv` (what a call has read and what of it
can still be relied on) and `ScreensInv`. What a call may rely on is what no other step can take away: `Persist` lists it (an identity stays with its person, a gone account stays gone), `Passes` and `Keeps` say of an account
that its person is this one or that it has none yet. One lemma per await.

**`GateProofs`**: for the invitations (`CodesAreCounted`, `AdmissionsStand`) the row lock of the code makes the read count current when it is written (`Redemption`: `UseLeft`, `OneOfACode`), and who has written an account or holds an entry of the list is alone with it (`WonAlone`, `SettlesAlone`,
`ChosenAlone`), so an account that was won is still nobody's when the redemption commits (`WonIsFree`) and an entry that was chosen still waits. `AdmissionKept` is what the code guarantees. That an admission never changes at all is not
true of it (section 6). For the operators (`MembersInductive`, `EndedSessionsStayOut`, `OwnersRemain`)
`MembersInv` has the lock table (`Exclusive`, `LocksKnown`), what an order has read of a row it holds (`RowsHeld`), the order of cut times (`CutsOrdered`), and that an ended session was created before the cut of its operator or
belongs to a cut that has been made (`EndedAreCut`). `CountedOwnersRemain` is what the code guarantees: an order that locked every owner it counted leaves one. `OwnerRemains`, without that condition, is refuted by `last_owner`.
For the code messages (`MessagesAreCounted`, `OtpInv`) `SendingInv` says that a hook that has read the row of a number under its lock has the row as it still is, and that no two have it at once (`RowsCurrent`); that a permission is used in the unit of time it was
given in, a cool-down after the last message (`GrantsFresh`); and that the list of messages is the one the row counts (`SendsCounted`). For the login (`GuessesAreCounted`, `AdminLoginInv`) `LoginInv` says of each key of the guard that a wrong guess is owed by
its form until it is counted or its count was skipped, and that once the key is locked only forms that had passed the check before can still try, each once (`KeyWindow`); and which form a session opened for a change of the password belongs to (`SessionsPaired`, `ChangesClosed`). What is proved of such a session is that no path of a form forgets it: it is closed, or the call to close it was made and failed (`CloseAsked`);
the code does not repeat that call.
Both hold for any number of hooks or forms at work, any limits and windows, and any failures.

**`ScreenProofs`** has the components that stand between the phone and the server. `PassedMeansFlag` (`FaceScreenInv`): `FaceKept` adds to the property what a task under way may name (a session that was started) and that `verified` is said by an entry that
has read the flag; since the flag is never taken back and sessions are only added (`ServerMoves`), an answer that comes late is still true. `HomeIsEarned` (`HomeInv`): `EntryKept` says of the copy of the row the app has read that the server's row has at least
as much, of each screen which forms have been filled on the way to it, and that a row is completed only when verified and full. An account begun before there was an introduction may be completed without it, and no other section may ever be
missing (section 6). `DeliveredWasTaken` (`OutboxInv`): `OutboxKept` says of every sender that each event it is about to mark as
delivered was taken for a device, or that a device it was for was found gone, and neither is ever taken back, so a sender that marks after its claim has passed to another still marks what is true. `PushAssumption` is finiteness of the tokens, a positive chunk and a number of attempts; `EntryAssumption` is that the bound of faults is a number.
`SettingsStand` is about editing (`ProfileEdit`) and proves `EditInv` but for the normalised public answers; of the forms that let themselves be sent only one with a nickname of one character counted as two units is ever refused (`ValidIsAccepted`). The heart is `StoredAgrees`: whatever form is saved, its rows agree with each other and the form read back from them stores the same rows. `EditKept`
adds the shape of every form in the hands of a device and that a form under way is one that lets itself be sent (`DevicesOK`), so a form sent long ago is as acceptable as a new one (`StoredAccount`). `TextsAssumption`: what is typed is a number or one of the two marks for nothing and nonsense.

**`ChatProofs`**: `ChatInductive`: each message is stored once and shown once, for any messages, tries, pages and requests in flight; an answer is given only for a stored row and a stored row comes only from a request.
`MessagesStay` (`NothingVanishes`) is an action property over the same invariant: each handler that rewrites the list, the late answers of reads and the realtime rows included, drops a message on its way only for its row.
`DecidedStaysGone` (`TodayInv`) is about the home screen. `TodayKept` says of a decided card that the server has the answer (`Answered`, never taken back: `StaysDecided`); that what was read since lacks the card, and what was read before is being replaced by a read that has
begun since, or is shown as an error (`DecidedOK`); and that what the screen holds is one of the answers the server gives (`CardsOK`, `TalksOK`). `TodayBounds` says that the numbers of places and of cards are numbers.

Only model-checked. Liveness under fairness is out of the prover's reach: `EveryRequestEnds`, `SavesEnd`, `EveryTargetTried`, `AccountsEnd`, `EntryEnds`, `EventsClose`. So is what a recursive definition or a fold
computes for every input, which the arithmetic of `MatchingInv` and the normalised public answers in `FormsInv` (`PublicIsChosen`, a fold) need; the rest of `FormsInv` is `ScreenTellsTruth` and `SettingsStand`. `ErasedInv` is `PurgeInv` in one part of its run, which `StagesErase` proves, and the type invariant in the part where faces are requested during the erasure, which `PurgeTypeCorrect` proves; only their combination in `MCPurge` is not a theorem.
The temporal reasoning of the theorems is `PTL` over step lemmas.

## 6. Observations

Runs that end in a counterexample, each a finding in `PROJECT.json`:

- `status_flag`: a reactivation that read `deleted` before a ban writes `active` by id; the ban is undone and
  the flag on the identity is cleared.
- `purge_crash`: a job whose worker died stays `running` and is no target of the batch.
- `rec_empty_ok`: an insert that fails although no other run has stored a card is recorded as `ok`, and the user gets neither a card nor
  another try that day.
- `last_owner`: two demotions that each wait between the snapshot of the lock statement and its first row lock both count two owners; afterwards there is none
  (0033:110–111 against 0033:9 and `docs/security.md:64`).

Statements that the models also refute and that are stated next to their specification, without a run of their own:
`GraceKept` (after delete, suspend, unsuspend, `deleted_at` keeps its old date; the next deletion is due too early),
`ActiveAccountKept` (an owner who reactivates after the db stage of a complete deletion loses the active account to the auth stage),
`RejectedStaysOut` (a late event approves a row the operator rejected), `SentOnce` (`docs/push-notifications.md`, `send-push/index.ts:7`: sent and not marked is sent again),
`OnlyCompletionRefused` (`docs/beta-cohorts.md:40`, `onboardingCore.ts:39` against 0025:210–212 and `start-face-liveness/index.ts:61`),
`ApprovedMovesOn` (`face.tsx:476` against 170–178), `RetryCanSucceed` (the login page's text for `unavailable` against `adminAuth.ts:141`),
`PartnerMeansPartner` (`icebreaker/index.ts:8–9` against 66–72, and `lib/chat.ts:214`), `ShownWasStored` (`profileEdit.ts:79`),
`GivesUpEmpty` (`verifyIdentityCore.ts:407`: the account emptied before a recovery may have been used meanwhile), `MissedAreRecovered` (messages missed while the channel was down and the first page failed).

Met while modelling:

*Matching*
- Two opposite acceptances lock the two users rows in a circle: each holds KEY SHARE on both and wants FOR UPDATE on its own first
  (0026:361), against the comment at 0026:370. PostgreSQL aborts one; `match_chat` shows that nobody waits for ever.
- A pair that blocked each other before it was ever matched can still be matched (0026:350): neither `recommendation_accept` nor
  `handle_mutual_like` reads `blocks`. `StoresOnlyWhileOpen` shows that no message gets through.
- The result `conditions_only` is unreachable, because the region is always compared.
- A day closed with `ok` is not checked again: the claim is skipped and the stored card is returned as it is, although
  `recommend.ts` says that stored cards are validated before they are returned. A card whose candidate was banned stays.
- A user who decides a stale card between the run's read and its `expire` keeps the decision and gets a second card that day
  (`recommend.ts:226`). `OneOpenCard` shows that only one waits for an answer.
- `recommendation_run_finish` and the save of the cursor do not ask whose lease it is; only the lengths of the leases keep late calls out.

*Home screen*
- The skip-reason dialogue, the notice and the error are not tied to the card: a refetch after a left conversation or on a new day shows them over another one; the notice `no_slot_self` stays although a place is free.
- `matchedNickname` is never cleared, so the cards for no slot and for an exhausted pool stay hidden until the screen is mounted again.
- `recommendations.ts:187` says a failed view mark is tried again at the next display, but `index.tsx:75–78` remembers the id first.
- A decision whose answer is lost is not followed by a refetch; a skip of a skipped card overwrites reason and time; yesterday's pending card left open can still be accepted.

*Meetups*
- An intention may be stored, and mutual interest reached, after the match has just ended (0016:507–522 reads it without a lock).
- Two first answers deadlock (KEY SHARE by the foreign key, then FOR UPDATE) and one save fails.
- `canReportOutcome` (`chatCore.ts:225`) hides the report for legacy rows whose interest was withdrawn, although the server (0016:652) takes it.
- Cancelling a change of the intention restores the choice only, not dates and region; the form is filled once, so a change after a refetch starts from the old choice; after a lost answer of an outcome
  the feedback page may be offered and refused (`outcome_required`); a failed background refetch replaces the page by the error.

*Account*
- A suspended user may delete and reactivate the account: active again, without a `moderation_actions` row (`delete-account/index.ts:88`).
- Suspending a deleted account and lifting the suspension brings it back to `active` (0020:116).
- An owner who comes back after the erasure and leaves again is never a target: neither `purged_at` nor the job row is reset (0028:348, 0019:72).
- The grace is looked at when targets are listed, not when an account is claimed and erased (0028:121).
- A session the provider no longer knows is a failure at every retry until an operator skips the stage (`accountPurgeCore.ts:183`).
- A start that fails to attach its session leaves the session at the provider (`startFaceLivenessCore.ts:189`); a webhook that read its row before the erasure may store an image after the
  storage stage was recorded (`faceOutcome.ts:68`).
- A retry that finishes a complete deletion after the account is gone leaves its request pending, as the row has lost its `user_id`
  (`deletion-requests/page.tsx:100`).

*Face verification*
- The image of a superseded row that had already expired is never queued, although 0029:263 expects it; images stored before a failed or rejected approval are referenced by no row; a row reopened after its queue item was
  cancelled is never queued again.
- An `Approved` event for a rejected row is answered 503 at every retry; an event before the session is attached is recorded as unknown and lost (the sync recovers it).
- The operator's review locks the row, then the advisory lock; `face_liveness_approve` does it the other way round: they can deadlock.
- An approved row of the older version without the flag makes every new session superseded until it is repaired; `begin_session` ignores rows in review.
- The screen: `settle` ignores `synced.faceVerified` for expired sessions (its clause is dead); the errors `already_verified` and `beta_admission_required` with 'continue' are unreachable; it stays on 'approved' after
  a failed `proceed` without a session; `resumeWaiting` is not disabled while a retry is in flight.

*Identity*
- A session left `checking` by a killed call whose `expires_at` passes answers 409 for ever; after a recovery that deleted the new account but failed to move the number, the screen stays on 'found' and every retry gets 401.
- A confirm may take over, after the lease of 120 s, a session that a recovery holds; a failing `reactivateIfDeleted` is not noticed although `recovered: true` is answered; a read error of `findIdentityByHash` looks like
  "no identity"; an owner banned between the second decision and the move of the number still gets it; the status 'recovered' is never written.
- A claim that fails in the database is answered like a session that cannot be claimed, as `session_expired` where the row is still open (`verifyIdentityCore.ts:246–247`, 223), and the screen gives the session up although it could be confirmed.
- 'Enter again' and 'cancel' (`identity.tsx:312`, 335) are open while a call runs: the answer that comes then moves the screen on from the form.

*Entry and beta*
- A redemption locks its code only, so two codes of one cohort, or a code and an admission from the waiting list, can exceed the cohort's capacity; two redemptions of one user at once use two codes for one admission; a join next to
  a redemption leaves an admitted user with a pending row; `beta_admit_user` ignores the capacity.
- `beta_admit_waitlist` picks people who are not admitted, waits for their rows and writes them without asking again (0025:416–431): a redemption under way, whose person joins the list before its commit, is overwritten with the
  cohort and the time of the list's admission, and the use of the code stays counted. Two cohorts cannot overwrite each other, because each holds the entries it has chosen. The cohort's row is read without a lock by a redemption (0025:297–300), so one
  that has begun goes on after the cohort was closed.
- An account older than the introduction that stands at the removed step `appearance` or at `preferences` and whose progress cannot be read is sent to the preferences (`options.ts:154`) and completes there: `guard_onboarding_completion` (0025:210–233) asks for the
  identity, the face and the admission only. 0015:22–25 says such accounts are taken to the steps they lack, the introduction among them.
- `fetchAppUser` ignores errors: a network error at start sends a finished user to /onboarding/identity, and verifying again there calls `advanceOnboarding('face')`, which sets `onboarding_completed = false`. A slow `fetchAppUser` of one
  account may overwrite that of the next. A failing `fetchBetaAccessState` reads as 'open'. When `advanceOnboarding` throws, the button stays busy until a restart. The introduction's update without a profile row stores nothing and goes on.
  The suspended screen's sign-out does not navigate.

*Profile editing*
- A stale form (opened again before the refetch, or after a failed one) writes back an earlier value, or an edit equal to the cache is skipped; two devices tear settings from dealbreakers; `preferences_save` deletes must-have kinds the screen
  does not know; `ValuesForm` vanishes with what was typed when a background refetch fails (`values.tsx`, `!isError`); a save that resolves after the screen was left calls `router.back()` on another screen; "existing values remain" is
  also shown when the save was stored and only its answer lost; an introduction without goal or user returns silently.
- The form asks for a nickname of at least two UTF-16 units (`ProfileForm.tsx:94`), the column for two to twelve characters (0001:116): a single emoji can be sent and is refused.
- The check 1950..2007 of the form is narrower than the column's (..2010) and, being locked to the verified identity, shuts people out; facts that cannot be read unlock the form, and the server then refuses other values.

*Code messages*
- `loadOtpCooldowns` may overwrite a fresher timer; a 429 for the hourly limit locks the screen for 60 s only; a failed call to the message service counts; a fixed window allows twice the limit in a sliding hour; `now()` is
  the start of the transaction.

*Administrators*
- `signOut` ignores an error of the provider and swallows an exception (`supabaseAdminAuth.ts:128–134`), and nothing tries again: a session opened to change a password or refused on the way may stay open at the provider until it runs out. The comment there says the
  row of the database decides who is logged in.
- The actor's own role is checked before the owners are locked: one who has just been demoted may still act.
- A session whose insert falls between the cut time and the second UPDATE of a disabling survives, and is accepted when the operator is enabled again.
- `runChangePassword` and `runSelfMfaReset` ignore a failing `revokeAllSessions`, although the page says all sessions end; `resetAdminMfa` answers ok as well; a wrong code redraws the enrolment with a new secret; a second
  login orphans the provider session of the first.

*Chat*
- After a failed first page the next resync reads 60 s back only and `hasMore` stays false; an earlier, slow resync clears the error of a later one; more than 500 missed rows leave a gap.
- `discardFailed` loses the text when the input is not empty, and a discarded message may be stored; `applyStarter` overwrites a draft; leaving the screen forgets failed rows; `markConversationRead` marks everything read also when the fetch
  failed; SUBSCRIBED does not refetch the details; previews and unread counts look at the newest 300 messages; a report stored before a failed block is sent twice.

*Notifications*
- One device that is gone closes an event for all (`pushCore.ts:165–170`), also where a live device of the recipient had an ordinary error, although `pushCore.ts:151` speaks of an event whose devices are all gone; nobody tries that device again.
- An event at its fifth attempt is closed as expired by another dequeue while its sender still works; a skip decided for an old proposal closes the event after it was moved to the new one, which is then never announced (0034:231);
  disabling a token may hit one that another account has registered since; `togglePref` writes all four switches, so quick toggles and a failed read overwrite each other; events older than six hours are closed as `unknown_kind`.

## 7. What is not modelled

Report rows and evidence, error records, metrics and funnel views (append-only or read-only), static screens and the legacy prototype.
Of the modelled components: message bodies, exit reasons and analytics rows; the unique index of `matches`
as a place to wait (both users rows are locked before the insert); the erasure's effect on matches and likes; page sizes and error
codes of the workers; for the recommendation runs the change of the date in the middle of a sweep, the manual start with `after`, the cooldown
of earlier days and the observation columns; `warn`, `dismiss` and `note`, which leave the status alone; in `SmsOtp` the rotation of the hook's secret; in `AdminLogin` the check of `sub`, the login of the older version, and one account with one
client, where reading the enrolled factors and removing one is a single step; in `PushOutbox` the age of events and receipts; in `BetaInvites` the limit of tries a person has and the reread of the cohort under the code's lock, and `beta_admit_user`, which no page calls (`Onboarding` has it); in `Onboarding` a switch of accounts. Scores are exact fractions, not floating point.

## 8. What remains

- Proofs: `MatchingInv` and the normalised answers of `PublicIsChosen`, which need induction over folds; the refinement of an abstract outbox.
- Models: a second day of recommendations with the cooldown of earlier cards and a change of the date during a sweep; the erasure's effect on matches next to a conversation that is open; the rate limits of calls other than code messages;
  two accounts on one device in `Onboarding`; the age of events in `PushOutbox`.
