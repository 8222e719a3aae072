------------------------- MODULE RecommendationRuns -------------------------
(***************************************************************************)
(* The cards of one day: recommendation_runs with its claim and lease      *)
(* (0017, 0027), the run that makes a card (runWithClaim.ts, recommend.ts) *)
(* for the app and for the batch, and the sweep of the batch with its      *)
(* cursor (batchSweep.ts, 0034).                                           *)
(*                                                                         *)
(* A worker is one invocation of an edge function; its calls to the        *)
(* database are steps of their own, reads that follow each other one step. *)
(* Users are numbered in the order of their ids, Null is the null cursor.  *)
(* An accepted and a skipped card are the same here, as are the results    *)
(* after which a user is tried again soon (failed lookups, not ready).     *)
(***************************************************************************)
EXTENDS Naturals, FiniteSetsExt

CONSTANTS
    Users,       \* those who may get a card
    Cands,       \* those who may be on it
    Fits,        \* pairs of both whose conditions allow a card
    Sweepers,    \* invocations of daily-recommendation-batch
    Apps,        \* invocations of daily-recommendation
    PageSize, MaxPages,
    Faults,      \* what may fail: lookup, insert, finish, sweep
    Moves,       \* what may change: cand, able, decide
    MaxEvents    \* bound on other moves, crashes and calls of a sweep that fail

Workers == Sweepers \cup Apps
Null == 0

ASSUME UsersAssumption == Users \subseteq Nat \ {Null} /\ IsFiniteSet(Users)
ASSUME FitsAssumption == Fits \subseteq Users \X Cands
ASSUME WorkersAssumption == Sweepers \cap Apps = {}
ASSUME PageAssumption == PageSize \in Nat \ {0} /\ MaxPages \in Nat \ {0}
ASSUME EventsAssumption == MaxEvents \in Nat

VARIABLES
    cards,    \* recommendations of the day: status by user and candidate
    run,      \* recommendation_runs of the day
    open,     \* candidates that are eligible
    able,     \* requesters: eligible, eligible without a slot, or neither
    cursor,   \* recommendation_batch_cursor
    wk,       \* the invocations
    seen,     \* whom the sweep that stands has looked at
    events

vars == <<cards, run, open, able, cursor, wk, seen, events>>
world == <<open, able, events>>
-----------------------------------------------------------------------------
NoRun == [st |-> "none", result |-> "none", live |-> FALSE, recent |-> FALSE]
Idle == [pc |-> "idle", u |-> Null, stale |-> {}, pick |-> {}, result |-> "none",
         after |-> Null, ids |-> {}, full |-> FALSE, pages |-> 0, did |-> FALSE]

Init ==
    /\ cards = [u \in Users |-> [c \in Cands |-> "none"]]
    /\ run = [u \in Users |-> NoRun]
    /\ open = Cands
    /\ able = [u \in Users |-> "yes"]
    /\ cursor = [after |-> Null, live |-> FALSE]
    /\ wk = [w \in Workers |-> Idle]
    /\ seen = {}
    /\ events = 0

CardsOf(u, states) == {c \in Cands : cards[u][c] \in states}

\* The cards that take the place of the day.
Counted == {"pending", "decided"}

\* The results that close the day.
Final == {"ok", "slots_full"}

HoldPcs == {"today", "expire", "scan", "insert", "finish"}
Held(u) == \E w \in Workers : wk[w].u = u /\ wk[w].pc \in HoldPcs
Sweeping == \E w \in Sweepers : wk[w].pc # "idle"

\* recommendation_batch_targets: who is eligible, has a slot and no card, and
\* no run that is in progress, final or recent.
Target(u) ==
    /\ able[u] = "yes" /\ CardsOf(u, Counted) = {}
    /\ ~(run[u].st = "running" /\ run[u].live)
    /\ ~(run[u].st = "ended" /\ (run[u].result \in Final \/ run[u].recent))
-----------------------------------------------------------------------------
\* A wrong claim that takes a run over although its lease lives.
ClaimableRunning(u) ==
    run[u].st = "ended" => /\ run[u].result \notin Final
                           /\ ~(run[u].result = "exhausted" /\ run[u].recent)

\* recommendation_run_claim: not a run in progress, not a day that has its
\* answer, not one that was found exhausted a moment ago.
Claimable(u) ==
    /\ run[u].st = "running" => ~run[u].live
    /\ run[u].st = "ended" => /\ run[u].result \notin Final
                              /\ ~(run[u].result = "exhausted" /\ run[u].recent)

\* What follows one user: the app has its answer, the sweep goes on.
Leave(w) ==
    IF w \in Apps THEN Idle
    ELSE [wk[w] EXCEPT !.pc = "next", !.u = Null, !.stale = {}, !.pick = {},
                       !.result = "none", !.after = wk[w].u, !.did = TRUE]

\* A wrong word: a result that the column does not allow.
EndsOtherWord(w, result) ==
    wk' = [wk EXCEPT ![w].pc = "finish", ![w].stale = {}, ![w].pick = {},
                     ![w].result = IF result = "slots_full" THEN "no_slot" ELSE result]

Ends(w, result) ==
    wk' = [wk EXCEPT ![w].pc = "finish", ![w].result = result,
                     ![w].stale = {}, ![w].pick = {}]

\* daily-recommendation, for the user who opens the app.
AppStart(w, u) ==
    /\ w \in Apps /\ wk[w].pc = "idle"
    /\ wk' = [wk EXCEPT ![w].pc = "claim", ![w].u = u]
    /\ UNCHANGED <<cards, run, cursor, seen, world>>

\* Whoever is refused reads what is stored.
Claim(w) ==
    /\ wk[w].pc = "claim"
    /\ \/ /\ Claimable(wk[w].u)
          /\ run' = [run EXCEPT ![wk[w].u] = [NoRun EXCEPT !.st = "running", !.live = TRUE]]
          /\ wk' = [wk EXCEPT ![w].pc = "today"]
       \/ /\ ~Claimable(wk[w].u)
          /\ wk' = [wk EXCEPT ![w] = Leave(w)]
          /\ UNCHANGED run
    /\ UNCHANGED <<cards, cursor, seen, world>>

\* The requester's account, the cards of the day and their candidates.  A card
\* that waits for an answer about somebody who is not eligible any more does
\* not count.
ReadToday(w) ==
    /\ wk[w].pc = "today"
    /\ LET u == wk[w].u
           stale == CardsOf(u, {"pending"}) \ open
           enough == CardsOf(u, Counted) # stale
       IN  \/ able[u] = "no" /\ Ends(w, "failed")
           \/ /\ able[u] # "no"
              /\ wk' = [wk EXCEPT ![w].stale = stale,
                                  ![w].result = IF enough THEN "ok" ELSE "none",
                                  ![w].pc = IF stale # {} THEN "expire"
                                            ELSE IF enough THEN "finish" ELSE "scan"]
           \/ "lookup" \in Faults /\ Ends(w, "failed")
    /\ UNCHANGED <<cards, run, cursor, seen, world>>

\* expireRecommendations closes what still waits.
Expire(w) ==
    /\ wk[w].pc = "expire"
    /\ \/ /\ cards' = [cards EXCEPT ![wk[w].u] = [c \in Cands |->
                          IF c \in wk[w].stale /\ @[c] = "pending" THEN "expired" ELSE @[c]]]
          /\ wk' = [wk EXCEPT ![w].pc = IF wk[w].result = "ok" THEN "finish" ELSE "scan",
                              ![w].stale = {}]
       \/ "lookup" \in Faults /\ Ends(w, "failed") /\ UNCHANGED cards
    /\ UNCHANGED <<run, cursor, seen, world>>

\* excludedByRecommendationHistory, of the day's cards
Excluded(u) == {c \in Cands : cards[u][c] # "none"}

\* What the data source leaves of the eligible candidates: conditions and blocks
\* of both sides, likes and matches, and who was on a card already.
Acceptable(u) == {c \in open \ Excluded(u) : <<u, c>> \in Fits}

\* The requester's slots, then the pages of candidates.  Scores and the
\* candidates' own slots may leave any of the acceptable ones, or none.
Scan(w) ==
    /\ wk[w].pc = "scan"
    /\ LET u == wk[w].u
       IN  \/ able[u] = "full" /\ Ends(w, "slots_full")
           \/ able[u] # "full" /\ Ends(w, "exhausted")
           \/ /\ able[u] # "full"
              /\ \E c \in Acceptable(u) :
                    wk' = [wk EXCEPT ![w].pc = "insert", ![w].pick = {c}]
           \/ "lookup" \in Faults /\ Ends(w, "failed")
    /\ UNCHANGED <<cards, run, cursor, seen, world>>

\* When the insert fails for whatever reason the run reads the stored cards
\* again, and ends as one that has found something.
Insert(w) ==
    /\ wk[w].pc = "insert"
    /\ \/ /\ cards' = [cards EXCEPT ![wk[w].u] = [c \in Cands |->
                          IF c \in wk[w].pick /\ @[c] = "none" THEN "pending" ELSE @[c]]]
          /\ Ends(w, "ok")
       \/ /\ "insert" \in Faults
          /\ \/ Ends(w, "ok")
             \/ "lookup" \in Faults /\ Ends(w, "failed")
          /\ UNCHANGED cards
    /\ UNCHANGED <<run, cursor, seen, world>>

\* recommendation_run_finish does not ask whose run it is.  A call that fails
\* is swallowed: the run stays 'running' until its lease is over.
Finish(w) ==
    /\ wk[w].pc = "finish"
    /\ \/ run' = [run EXCEPT ![wk[w].u] =
                     [st |-> "ended", result |-> wk[w].result, live |-> FALSE,
                      recent |-> wk[w].result \notin Final]]
       \/ "finish" \in Faults /\ UNCHANGED run
    /\ wk' = [wk EXCEPT ![w] = Leave(w)]
    /\ UNCHANGED <<cards, cursor, seen, world>>
-----------------------------------------------------------------------------
\* A wrong cursor: every call begins with the first user.
SweepFromStart(w) ==
    /\ wk[w].pc = "idle" /\ ~cursor.live
    /\ cursor' = [cursor EXCEPT !.live = TRUE]
    /\ seen' = {}
    /\ wk' = [wk EXCEPT ![w].pc = "page"]
    /\ UNCHANGED <<cards, run, world>>

\* recommendation_batch_cursor_claim.  With a null cursor a new sweep begins.
SweepStart(w) ==
    /\ wk[w].pc = "idle" /\ ~cursor.live
    /\ cursor' = [cursor EXCEPT !.live = TRUE]
    /\ seen' = IF cursor.after = Null THEN {} ELSE seen
    /\ wk' = [wk EXCEPT ![w].pc = "page", ![w].after = cursor.after]
    /\ UNCHANGED <<cards, run, world>>

MorePages(w) == wk[w].pages < MaxPages

\* The next targets in the order of their ids; the others up to there are
\* looked at by not being targets.
ReadPage(w) ==
    /\ wk[w].pc = "page" /\ MorePages(w)
    /\ LET rest == {u \in Users : u > wk[w].after}
           targets == {u \in rest : Target(u)}
           page == {u \in targets : Cardinality({v \in targets : v <= u}) <= PageSize}
           full == Cardinality(page) = PageSize
           last == IF full THEN Max(page) ELSE Max(Users)
       IN  /\ wk' = [wk EXCEPT ![w].pc = IF page = {} THEN "release" ELSE "next",
                               ![w].after = IF page = {} THEN Null ELSE @,
                               ![w].ids = page, ![w].full = full,
                               ![w].pages = IF page = {} THEN @ ELSE @ + 1]
           /\ seen' = seen \cup {u \in rest \ page : u <= last}
    /\ UNCHANGED <<cards, run, cursor, world>>

LastPage(w) ==
    /\ wk[w].pc = "page" /\ ~MorePages(w)
    /\ wk' = [wk EXCEPT ![w].pc = "release"]
    /\ UNCHANGED <<cards, run, cursor, seen, world>>

NextUser(w) ==
    /\ wk[w].pc = "next"
    /\ \E u \in wk[w].ids :
          /\ \A v \in wk[w].ids : u <= v
          /\ wk' = [wk EXCEPT ![w].pc = "claim", ![w].u = u, ![w].ids = @ \ {u}]
          /\ seen' = seen \cup {u}
    /\ UNCHANGED <<cards, run, cursor, world>>

\* A wrong end: a call that runs out of time takes its page for done.
OutOfTimePageDone(w) ==
    /\ wk[w].pc = "next" /\ wk[w].ids # {} /\ wk[w].did
    /\ wk' = [wk EXCEPT ![w].pc = "release", ![w].after = Max(wk[w].ids)]
    /\ UNCHANGED <<cards, run, cursor, seen, world>>

\* The time budget is used up between two users.
OutOfTime(w) ==
    /\ wk[w].pc = "next" /\ wk[w].ids # {} /\ wk[w].did
    /\ wk' = [wk EXCEPT ![w].pc = "release"]
    /\ UNCHANGED <<cards, run, cursor, seen, world>>

\* A short page is the last one: the next sweep begins with the first user.
PageDone(w) ==
    /\ wk[w].pc = "next" /\ wk[w].ids = {}
    /\ \/ /\ wk[w].full
          /\ cursor' = [after |-> wk[w].after, live |-> TRUE]
          /\ wk' = [wk EXCEPT ![w].pc = "page"]
       \/ /\ ~wk[w].full
          /\ wk' = [wk EXCEPT ![w].pc = "release", ![w].after = Null]
          /\ UNCHANGED cursor
    /\ UNCHANGED <<cards, run, seen, world>>

\* recommendation_batch_cursor_save(release): neither it nor the save of a
\* page asks whose lease it is.
Release(w) ==
    /\ wk[w].pc = "release"
    /\ cursor' = [after |-> wk[w].after, live |-> FALSE]
    /\ wk' = [wk EXCEPT ![w] = Idle]
    /\ UNCHANGED <<cards, run, seen, world>>

\* The claim of a user fails: no run, and the sweep goes on.
ClaimFails(w) ==
    /\ "sweep" \in Faults /\ events < MaxEvents /\ wk[w].pc = "claim"
    /\ events' = events + 1
    /\ wk' = [wk EXCEPT ![w] = Leave(w)]
    /\ UNCHANGED <<cards, run, open, able, cursor, seen>>

\* A query or a save of the sweep fails: the call ends, and still releases.
SweepFails(w) ==
    /\ "sweep" \in Faults /\ events < MaxEvents
    /\ wk[w].pc = "page" \/ (wk[w].pc = "next" /\ wk[w].ids = {} /\ wk[w].full)
    /\ events' = events + 1
    /\ wk' = [wk EXCEPT ![w].pc = "release"]
    /\ UNCHANGED <<cards, run, open, able, cursor, seen>>

\* An invocation dies, and leaves its claim and its lease, or its last call
\* fails, which releases the lease.
Crash(w) ==
    /\ events < MaxEvents /\ wk[w].pc # "idle"
    /\ events' = events + 1
    /\ wk' = [wk EXCEPT ![w] = Idle]
    /\ UNCHANGED <<cards, run, open, able, cursor, seen>>
-----------------------------------------------------------------------------
\* A lease is longer than an invocation: it runs out only when nobody works
\* under it any more.
RunExpires(u) ==
    /\ run[u].live /\ ~Held(u)
    /\ run' = [run EXCEPT ![u].live = FALSE]
    /\ UNCHANGED <<cards, cursor, wk, seen, world>>

CursorExpires ==
    /\ cursor.live /\ ~Sweeping
    /\ cursor' = [cursor EXCEPT !.live = FALSE]
    /\ UNCHANGED <<cards, run, wk, seen, world>>

\* The hour after an exhausted run, or the quarter of an hour after a failed
\* one, is over.
RetryPasses(u) ==
    /\ run[u].recent
    /\ run' = [run EXCEPT ![u].recent = FALSE]
    /\ UNCHANGED <<cards, cursor, wk, seen, world>>

\* An acceptance or a skip.
Decide(u, c) ==
    /\ "decide" \in Moves /\ cards[u][c] = "pending"
    /\ cards' = [cards EXCEPT ![u][c] = "decided"]
    /\ UNCHANGED <<run, cursor, wk, seen, world>>

\* Bans, blocks, lost verifications, and their ends.
CandMoves(c) ==
    /\ "cand" \in Moves /\ events < MaxEvents
    /\ events' = events + 1
    /\ open' = IF c \in open THEN open \ {c} ELSE open \cup {c}
    /\ UNCHANGED <<cards, run, able, cursor, wk, seen>>

AbleMoves(u) ==
    /\ "able" \in Moves /\ events < MaxEvents
    /\ events' = events + 1
    /\ \E a \in {"yes", "full", "no"} \ {able[u]} : able' = [able EXCEPT ![u] = a]
    /\ UNCHANGED <<cards, run, open, cursor, wk, seen>>
-----------------------------------------------------------------------------
WorkerStep(w) ==
    \/ Claim(w) \/ ReadToday(w) \/ Expire(w) \/ Scan(w) \/ Insert(w) \/ Finish(w)
    \/ ReadPage(w) \/ LastPage(w) \/ NextUser(w) \/ PageDone(w) \/ Release(w)

Next ==
    \/ \E w \in Workers : WorkerStep(w) \/ OutOfTime(w) \/ ClaimFails(w) \/ SweepFails(w) \/ Crash(w)
    \/ \E w \in Sweepers : SweepStart(w)
    \/ \E w \in Apps, u \in Users : AppStart(w, u)
    \/ \E u \in Users : RunExpires(u) \/ RetryPasses(u) \/ AbleMoves(u)
    \/ \E u \in Users, c \in Cands : Decide(u, c)
    \/ \E c \in Cands : CandMoves(c)
    \/ CursorExpires

Spec == Init /\ [][Next]_vars

\* Cron starts a sweep again and again, an invocation goes on or dies, leases
\* run out.  Nobody has to open the app.
Fairness ==
    /\ WF_vars(\E w \in Sweepers : SweepStart(w))
    /\ \A w \in Workers : WF_vars(WorkerStep(w))
    /\ \A u \in Users : WF_vars(RunExpires(u))
    /\ WF_vars(CursorExpires)
FairSpec == Spec /\ Fairness
-----------------------------------------------------------------------------
Results == Final \cup {"none", "exhausted", "failed"}

\* Every variable stays within the values its table or call may hold.
TypeOK ==
    /\ cards \in [Users -> [Cands -> {"none", "pending", "decided", "expired"}]]
    /\ run \in [Users -> [st : {"none", "running", "ended"}, result : Results,
                          live : BOOLEAN, recent : BOOLEAN]]
    /\ open \subseteq Cands
    /\ able \in [Users -> {"yes", "full", "no"}]
    /\ cursor \in [after : Users \cup {Null}, live : BOOLEAN]
    /\ wk \in [Workers ->
                 [pc : HoldPcs \cup {"idle", "claim", "page", "next", "release"},
                  u : Users \cup {Null}, stale : SUBSET Cands, pick : SUBSET Cands,
                  result : Results, after : Users \cup {Null}, ids : SUBSET Users,
                  full : BOOLEAN, pages : 0 .. MaxPages, did : BOOLEAN]]
    /\ seen \subseteq Users
    /\ events \in 0 .. MaxEvents

\* One introduction at a time: however app, batch, crashes and retries overlap,
\* nobody has two cards to decide on (0017 recommendation_run_claim).
OneOpenCard == \A u \in Users : Cardinality(CardsOf(u, {"pending"})) <= 1

\* The run of a user is in one invocation's hands.
OneHolder ==
    \A v, w \in Workers :
        v # w /\ wk[v].pc \in HoldPcs /\ wk[w].pc \in HoldPcs => wk[v].u # wk[w].u

\* The three together: what overlapping invocations may never do to a user.
RecSafety == TypeOK /\ OneOpenCard /\ OneHolder

\* The cursor passes nobody over: the sweep that stands has tried every user up
\* to it, or has found that it was no target, also after a call that ran out
\* of time, failed or died (0034: the next call goes on where one stopped).
NobodyPassedOver ==
    cursor.after # Null => \A u \in Users : u <= cursor.after => u \in seen

\* A day that is closed with 'ok' has brought a card: its user is not asked
\* again that day, and is not told that nobody was found (recommend.ts).
OkMeansCard ==
    \A u \in Users : run[u].st = "ended" /\ run[u].result = "ok"
                     => CardsOf(u, Counted) # {}

\* The retries of the users in front do not starve those behind: whoever is a
\* target of the batch is tried, or stops being one (batchSweep.ts).
EveryTargetTried == \A u \in Users : Target(u) ~> ~Target(u)
=============================================================================
