------------------------ MODULE RecommendationProofs ------------------------
(***************************************************************************)
(* Proofs about RecommendationRuns for any number of users, candidates and *)
(* invocations: one holder of a run, one card to decide on.                *)
(***************************************************************************)
EXTENDS RecommendationRuns, FiniteSetTheorems, TLAPS

\* An invocation that claims or holds a run has a user.
Located == \A w \in Workers : wk[w].pc \in HoldPcs \cup {"claim"} => wk[w].u \in Users

\* Who holds a run holds it under a lease that lives.
HolderRuns ==
    \A w \in Workers : wk[w].pc \in HoldPcs =>
        run[wk[w].u].st = "running" /\ run[wk[w].u].live

\* What a run knows of the open cards of its user: none when it looks for a
\* candidate, at most those it is about to close when it closes them.
NoneOpen(u) == \A c \in Cands : cards[u][c] # "pending"
LookedAt(w) ==
    /\ wk[w].pc \in {"scan", "insert"} => NoneOpen(wk[w].u)
    /\ wk[w].pc = "expire" /\ wk[w].result # "ok" =>
          \A c \in Cands : cards[wk[w].u][c] = "pending" => c \in wk[w].stale
    /\ \A c, d \in wk[w].pick : c = d
Looked == \A w \in Workers : LookedAt(w)

AtMostOneOpen ==
    \A u \in Users : \A c, d \in Cands :
        cards[u][c] = "pending" /\ cards[u][d] = "pending" => c = d

RecInv == TypeOK /\ Located /\ HolderRuns /\ OneHolder /\ Looked /\ AtMostOneOpen
-----------------------------------------------------------------------------
WorkerRec == [pc : HoldPcs \cup {"idle", "claim", "page", "next", "release"},
              u : Users \cup {Null}, stale : SUBSET Cands, pick : SUBSET Cands,
              result : Results, after : Users \cup {Null}, ids : SUBSET Users,
              full : BOOLEAN, pages : 0 .. MaxPages, did : BOOLEAN]
RunRec == [st : {"none", "running", "ended"}, result : Results, live : BOOLEAN, recent : BOOLEAN]

\* What ends the handling of a user leaves a legal place of an invocation.
LEMMA LeaveTyped ==
    ASSUME TypeOK, NEW w \in Workers
    PROVE  Leave(w) \in WorkerRec /\ Leave(w).pc \in {"idle", "next"} /\ Leave(w).pick = {}
  <1>1. wk[w] \in WorkerRec
    BY DEF TypeOK, WorkerRec
  <1>2. Idle \in WorkerRec /\ Idle.pc = "idle" /\ Idle.pick = {}
    BY PageAssumption DEF Idle, WorkerRec, Null, Results
  <1> QED
    BY <1>1, <1>2 DEF Leave, WorkerRec, Results

LEMMA EndsTyped ==
    ASSUME TypeOK, NEW w \in Workers, NEW result \in Results, Ends(w, result)
    PROVE  wk' \in [Workers -> WorkerRec]
  <1> DEFINE rec == [wk[w] EXCEPT !.pc = "finish", !.result = result, !.stale = {}, !.pick = {}]
  <1>1. wk \in [Workers -> WorkerRec]
    BY DEF TypeOK, WorkerRec
  <1>2. rec \in WorkerRec
    BY ZenonT(30), <1>1 DEF WorkerRec, HoldPcs
  <1>3. wk' = [wk EXCEPT ![w] = rec]
    BY <1>1 DEF Ends, WorkerRec
  <1> QED
    BY <1>1, <1>2, <1>3

LEMMA TypeInit == Init => TypeOK
  <1> SUFFICES ASSUME Init PROVE TypeOK
    OBVIOUS
  <1>1. Idle \in WorkerRec
    BY PageAssumption DEF Idle, WorkerRec, Null, Results
  <1>2. NoRun \in RunRec
    BY DEF NoRun, RunRec, Results
  <1>3. wk \in [Workers -> WorkerRec] /\ run \in [Users -> RunRec]
    BY <1>1, <1>2 DEF Init
  <1> QED
    BY <1>3, EventsAssumption DEF Init, TypeOK, WorkerRec, RunRec, Null

\* The steps of a run.
LEMMA RunTyped ==
    ASSUME TypeOK, NEW w \in Workers,
           Claim(w) \/ ReadToday(w) \/ Expire(w) \/ Scan(w) \/ Insert(w) \/ Finish(w)
    PROVE  TypeOK'
  <1>1. wk \in [Workers -> WorkerRec] /\ run \in [Users -> RunRec]
    BY DEF TypeOK, WorkerRec, RunRec
  <1>2. {"ok", "none", "failed", "exhausted", "slots_full"} \subseteq Results
    BY DEF Results, Final
  <1>3. Leave(w) \in WorkerRec
    BY LeaveTyped
  <1>4. CASE Claim(w)
    <2>1. [NoRun EXCEPT !.st = "running", !.live = TRUE] \in RunRec
      BY <1>2 DEF NoRun, RunRec
    <2>2. run' \in [Users -> RunRec]
      BY <1>1, <1>4, <2>1 DEF Claim
    <2>3. wk' \in [Workers -> WorkerRec]
      BY <1>1, <1>3, <1>4 DEF Claim, WorkerRec, HoldPcs
    <2> QED
      BY <1>4, <2>2, <2>3 DEF Claim, TypeOK, WorkerRec, RunRec, world
  <1>5. CASE ReadToday(w)
    <2>1. wk' \in [Workers -> WorkerRec]
      <3>1. ASSUME NEW result \in Results, Ends(w, result)
            PROVE  wk' \in [Workers -> WorkerRec]
        BY <3>1, EndsTyped
      <3>2. CASE Ends(w, "failed")
        BY <3>1, <3>2, <1>2
      <3>3. ASSUME NEW stale \in SUBSET Cands, NEW result \in {"ok", "none"},
                   NEW pc \in {"expire", "finish", "scan"},
                   wk' = [wk EXCEPT ![w].stale = stale, ![w].result = result, ![w].pc = pc]
            PROVE  wk' \in [Workers -> WorkerRec]
        <4> DEFINE rec == [wk[w] EXCEPT !.stale = stale, !.result = result, !.pc = pc]
        <4>1. rec \in WorkerRec
          BY ZenonT(30), <1>1, <1>2 DEF WorkerRec, HoldPcs
        <4>2. wk' = [wk EXCEPT ![w] = rec]
          BY <1>1, <3>3 DEF WorkerRec
        <4> QED
          BY <1>1, <4>1, <4>2
      <3>4. CardsOf(wk[w].u, {"pending"}) \ open \in SUBSET Cands
        BY DEF CardsOf
      <3> QED
        BY <1>5, <3>2, <3>3, <3>4 DEF ReadToday
    <2> QED
      BY <1>5, <2>1 DEF ReadToday, TypeOK, WorkerRec, world
  <1>6. CASE Expire(w)
    <2>1. wk' \in [Workers -> WorkerRec]
      BY <1>1, <1>2, <1>6, EndsTyped DEF Expire, WorkerRec, HoldPcs
    <2>2. cards' \in [Users -> [Cands -> {"none", "pending", "decided", "expired"}]]
      <3> DEFINE u == wk[w].u
                 row == [c \in Cands |-> IF c \in wk[w].stale /\ cards[u][c] = "pending"
                                         THEN "expired" ELSE cards[u][c]]
      <3>1. cards' = cards \/ cards' = [cards EXCEPT ![u] = row]
        BY <1>6 DEF Expire
      <3>2. cards \in [Users -> [Cands -> {"none", "pending", "decided", "expired"}]]
        BY DEF TypeOK
      <3>3. u \in Users => row \in [Cands -> {"none", "pending", "decided", "expired"}]
        BY <3>2
      <3> HIDE DEF u, row
      <3> QED
        BY <3>1, <3>2, <3>3
    <2> QED
      BY <1>6, <2>1, <2>2 DEF Expire, TypeOK, WorkerRec, world
  <1>7. CASE Scan(w)
    <2>1. wk' \in [Workers -> WorkerRec]
      <3>1. CASE \E result \in Results : Ends(w, result)
        BY <3>1, EndsTyped
      <3>2. ASSUME NEW c \in open, wk' = [wk EXCEPT ![w].pc = "insert", ![w].pick = {c}]
            PROVE  wk' \in [Workers -> WorkerRec]
        <4> DEFINE rec == [wk[w] EXCEPT !.pc = "insert", !.pick = {c}]
        <4>1. {c} \in SUBSET Cands
          BY DEF TypeOK
        <4>2. rec \in WorkerRec
          BY <1>1, <4>1 DEF WorkerRec, HoldPcs
        <4>3. wk' = [wk EXCEPT ![w] = rec]
          BY <1>1, <3>2 DEF WorkerRec
        <4> QED
          BY <1>1, <4>2, <4>3
      <3> QED
        BY <1>2, <1>7, <3>1, <3>2 DEF Scan, Acceptable, Excluded
    <2> QED
      BY <1>7, <2>1 DEF Scan, Acceptable, Excluded, TypeOK, WorkerRec, world
  <1>8. CASE Insert(w)
    <2>1. wk' \in [Workers -> WorkerRec]
      BY <1>2, <1>8, EndsTyped DEF Insert
    <2>2. cards' \in [Users -> [Cands -> {"none", "pending", "decided", "expired"}]]
      <3> DEFINE u == wk[w].u
                 row == [c \in Cands |-> IF c \in wk[w].pick /\ cards[u][c] = "none"
                                         THEN "pending" ELSE cards[u][c]]
      <3>1. cards' = cards \/ cards' = [cards EXCEPT ![u] = row]
        BY <1>8 DEF Insert
      <3>2. cards \in [Users -> [Cands -> {"none", "pending", "decided", "expired"}]]
        BY DEF TypeOK
      <3>3. u \in Users => row \in [Cands -> {"none", "pending", "decided", "expired"}]
        BY <3>2
      <3> HIDE DEF u, row
      <3> QED
        BY <3>1, <3>2, <3>3
    <2> QED
      BY <1>8, <2>1, <2>2 DEF Insert, TypeOK, WorkerRec, world
  <1>9. CASE Finish(w)
    <2>1. wk[w].result \in Results
      BY <1>1 DEF WorkerRec
    <2>2. [st |-> "ended", result |-> wk[w].result, live |-> FALSE,
           recent |-> wk[w].result \notin Final] \in RunRec
      BY <2>1 DEF RunRec
    <2>3. run' \in [Users -> RunRec]
      BY <1>1, <1>9, <2>2 DEF Finish
    <2>4. wk' \in [Workers -> WorkerRec]
      BY <1>1, <1>3, <1>9 DEF Finish
    <2> QED
      BY <1>9, <2>3, <2>4 DEF Finish, TypeOK, WorkerRec, RunRec, world
  <1> QED
    BY <1>4, <1>5, <1>6, <1>7, <1>8, <1>9

\* The steps of the sweep.
LEMMA SweepTyped ==
    ASSUME TypeOK, NEW w \in Workers,
           \/ SweepStart(w) \/ ReadPage(w) \/ LastPage(w) \/ NextUser(w) \/ PageDone(w)
           \/ Release(w) \/ OutOfTime(w) \/ ClaimFails(w) \/ SweepFails(w) \/ Crash(w)
    PROVE  TypeOK'
  <1>1. wk \in [Workers -> WorkerRec]
    BY DEF TypeOK, WorkerRec
  <1>2. Leave(w) \in WorkerRec
    BY LeaveTyped
  <1>3. Idle \in WorkerRec
    BY PageAssumption DEF Idle, WorkerRec, Null, Results
  <1>4. CASE SweepStart(w)
    <2>1. wk' \in [Workers -> WorkerRec]
      <3> DEFINE rec == [wk[w] EXCEPT !.pc = "page", !.after = cursor.after]
      <3>1. cursor.after \in Users \cup {Null}
        BY DEF TypeOK
      <3>2. rec \in WorkerRec
        BY <1>1, <3>1 DEF WorkerRec
      <3>3. wk' = [wk EXCEPT ![w] = rec]
        BY <1>1, <1>4 DEF SweepStart, WorkerRec
      <3> QED
        BY <1>1, <3>2, <3>3
    <2>2. cursor' \in [after : Users \cup {Null}, live : BOOLEAN] /\ seen' \subseteq Users
      BY <1>4 DEF SweepStart, TypeOK
    <2> QED
      BY <1>4, <2>1, <2>2 DEF SweepStart, TypeOK, WorkerRec, world
  <1>5. CASE ReadPage(w)
    <2>1. wk[w].pages + 1 \in 0 .. MaxPages /\ wk[w].after \in Users \cup {Null}
      <3>1. wk[w] \in WorkerRec
        BY <1>1
      <3>2. wk[w].pages \in 0 .. MaxPages /\ wk[w].after \in Users \cup {Null}
        BY <3>1 DEF WorkerRec
      <3>3. wk[w].pages < MaxPages
        BY <1>5 DEF ReadPage, MorePages
      <3> QED
        BY <3>2, <3>3, PageAssumption
    <2>2. ASSUME NEW page \in SUBSET Users, NEW pc \in {"release", "next"},
                 NEW after \in Users \cup {Null}, NEW full \in BOOLEAN,
                 NEW pages \in 0 .. MaxPages,
                 wk' = [wk EXCEPT ![w].pc = pc, ![w].after = after, ![w].ids = page,
                                  ![w].full = full, ![w].pages = pages]
          PROVE  wk' \in [Workers -> WorkerRec]
      <3> DEFINE rec == [wk[w] EXCEPT !.pc = pc, !.after = after, !.ids = page,
                                      !.full = full, !.pages = pages]
      <3>1. rec \in WorkerRec
        BY ZenonT(30), <1>1 DEF WorkerRec
      <3>2. wk' = [wk EXCEPT ![w] = rec]
        BY <1>1, <2>2 DEF WorkerRec
      <3> QED
        BY <1>1, <3>1, <3>2
    <2>3. wk[w].pages \in 0 .. MaxPages
      BY <1>1 DEF WorkerRec
    <2>4. wk' \in [Workers -> WorkerRec]
      <3> DEFINE rest == {u \in Users : u > wk[w].after}
                 targets == {u \in rest : Target(u)}
                 page == {u \in targets : Cardinality({v \in targets : v <= u}) <= PageSize}
                 pc == IF page = {} THEN "release" ELSE "next"
                 after == IF page = {} THEN Null ELSE wk[w].after
                 full == Cardinality(page) = PageSize
                 pages == IF page = {} THEN wk[w].pages ELSE wk[w].pages + 1
      <3>1. wk' = [wk EXCEPT ![w].pc = pc, ![w].after = after, ![w].ids = page,
                             ![w].full = full, ![w].pages = pages]
        BY <1>5 DEF ReadPage
      <3>2. page \in SUBSET Users /\ full \in BOOLEAN
        OBVIOUS
      <3>3. pc \in {"release", "next"} /\ after \in Users \cup {Null} /\ pages \in 0 .. MaxPages
        BY <2>1, <2>3
      <3> HIDE DEF page, pc, after, full, pages
      <3> QED
        BY <2>2, <3>1, <3>2, <3>3
    <2>5. seen' \subseteq Users
      BY <1>5 DEF ReadPage, TypeOK
    <2> QED
      BY <1>5, <2>4, <2>5 DEF ReadPage, TypeOK, WorkerRec, world
  <1>6. CASE LastPage(w)
    <2>1. wk' \in [Workers -> WorkerRec]
      BY <1>1, <1>6 DEF LastPage, WorkerRec
    <2> QED
      BY <1>6, <2>1 DEF LastPage, TypeOK, WorkerRec, world
  <1>7. CASE NextUser(w)
    <2>1. PICK u \in wk[w].ids :
            /\ wk' = [wk EXCEPT ![w].pc = "claim", ![w].u = u, ![w].ids = @ \ {u}]
            /\ seen' = seen \cup {u}
      BY <1>7 DEF NextUser
    <2>2. u \in Users /\ wk[w].ids \ {u} \in SUBSET Users
      BY <1>1, <2>1 DEF WorkerRec
    <2>3. wk' \in [Workers -> WorkerRec]
      BY <1>1, <2>1, <2>2 DEF WorkerRec
    <2> QED
      BY <1>7, <2>1, <2>2, <2>3 DEF NextUser, TypeOK, WorkerRec, world
  <1>8. CASE PageDone(w)
    <2>1. wk[w].after \in Users \cup {Null}
      BY <1>1 DEF WorkerRec
    <2>2. wk' \in [Workers -> WorkerRec]
      BY <1>1, <1>8 DEF PageDone, WorkerRec
    <2>3. cursor' \in [after : Users \cup {Null}, live : BOOLEAN]
      <3>1. cursor' = cursor \/ cursor' = [after |-> wk[w].after, live |-> TRUE]
        BY <1>8 DEF PageDone
      <3>2. cursor \in [after : Users \cup {Null}, live : BOOLEAN]
        BY DEF TypeOK
      <3>3. [after |-> wk[w].after, live |-> TRUE] \in [after : Users \cup {Null}, live : BOOLEAN]
        BY <2>1
      <3> QED
        BY <3>1, <3>2, <3>3
    <2> QED
      BY <1>8, <2>2, <2>3 DEF PageDone, TypeOK, WorkerRec, world
  <1>9. CASE Release(w)
    <2>1. wk[w].after \in Users \cup {Null}
      BY <1>1 DEF WorkerRec
    <2>2. wk' \in [Workers -> WorkerRec]
      BY <1>1, <1>3, <1>9 DEF Release
    <2> QED
      BY <1>9, <2>1, <2>2 DEF Release, TypeOK, WorkerRec, world
  <1>10. CASE OutOfTime(w)
    <2>1. wk' \in [Workers -> WorkerRec]
      BY <1>1, <1>10 DEF OutOfTime, WorkerRec
    <2> QED
      BY <1>10, <2>1 DEF OutOfTime, TypeOK, WorkerRec, world
  <1>11. CASE ClaimFails(w)
    <2>1. wk' \in [Workers -> WorkerRec]
      BY <1>1, <1>2, <1>11 DEF ClaimFails
    <2> QED
      BY <1>11, <2>1, EventsAssumption DEF ClaimFails, TypeOK, WorkerRec
  <1>12. CASE SweepFails(w)
    <2>1. wk' \in [Workers -> WorkerRec]
      BY <1>1, <1>12 DEF SweepFails, WorkerRec
    <2> QED
      <3>1. /\ events < MaxEvents /\ events' = events + 1
            /\ UNCHANGED <<cards, run, open, able, cursor, seen>>
        BY <1>12 DEF SweepFails
      <3>2. events' \in 0 .. MaxEvents
        BY <3>1, EventsAssumption DEF TypeOK
      <3> QED
        BY <2>1, <3>1, <3>2 DEF TypeOK, WorkerRec
  <1>13. CASE Crash(w)
    <2>1. wk' \in [Workers -> WorkerRec]
      BY <1>1, <1>3, <1>13 DEF Crash
    <2> QED
      BY <1>13, <2>1, EventsAssumption DEF Crash, TypeOK, WorkerRec
  <1> QED
    BY <1>4, <1>5, <1>6, <1>7, <1>8, <1>9, <1>10, <1>11, <1>12, <1>13

\* Time, people, and the user who opens the app.
Around ==
    \/ \E w \in Apps, u \in Users : AppStart(w, u)
    \/ \E u \in Users : RunExpires(u) \/ RetryPasses(u) \/ AbleMoves(u)
    \/ \E u \in Users, c \in Cands : Decide(u, c)
    \/ \E c \in Cands : CandMoves(c)
    \/ CursorExpires

LEMMA AroundTyped == TypeOK /\ Around => TypeOK'
  <1> SUFFICES ASSUME TypeOK, Around PROVE TypeOK'
    OBVIOUS
  <1>1. ASSUME NEW w \in Apps, NEW u \in Users, AppStart(w, u) PROVE TypeOK'
    <2>1. wk \in [Workers -> WorkerRec] /\ w \in Workers
      BY DEF TypeOK, WorkerRec, Workers
    <2>2. wk' \in [Workers -> WorkerRec]
      <3> DEFINE rec == [wk[w] EXCEPT !.pc = "claim", !.u = u]
      <3>1. rec \in WorkerRec
        BY <2>1 DEF WorkerRec
      <3>2. wk' = [wk EXCEPT ![w] = rec]
        BY <1>1, <2>1 DEF AppStart, WorkerRec
      <3> QED
        BY <2>1, <3>1, <3>2
    <2> QED
      BY <1>1, <2>2 DEF AppStart, TypeOK, WorkerRec, world
  <1>2. ASSUME NEW u \in Users, RunExpires(u) \/ RetryPasses(u) PROVE TypeOK'
    <2>1. run \in [Users -> RunRec]
      BY DEF TypeOK, RunRec
    <2>2. run' \in [Users -> RunRec]
      BY ZenonT(30), <1>2, <2>1 DEF RunExpires, RetryPasses, RunRec
    <2> QED
      BY <1>2, <2>2 DEF RunExpires, RetryPasses, TypeOK, RunRec, world
  <1>3. ASSUME NEW u \in Users, AbleMoves(u) PROVE TypeOK'
    BY <1>3, EventsAssumption DEF AbleMoves, TypeOK
  <1>4. ASSUME NEW u \in Users, NEW c \in Cands, Decide(u, c) PROVE TypeOK'
    BY <1>4 DEF Decide, TypeOK, world
  <1>5. ASSUME NEW c \in Cands, CandMoves(c) PROVE TypeOK'
    BY <1>5, EventsAssumption DEF CandMoves, TypeOK
  <1>6. CASE CursorExpires
    BY <1>6 DEF CursorExpires, TypeOK, world
  <1> QED
    BY <1>1, <1>2, <1>3, <1>4, <1>5, <1>6 DEF Around

LEMMA TypeStep == TypeOK /\ [Next]_vars => TypeOK'
  <1> SUFFICES ASSUME TypeOK, [Next]_vars PROVE TypeOK'
    OBVIOUS
  <1>1. ASSUME NEW w \in Workers,
               WorkerStep(w) \/ OutOfTime(w) \/ ClaimFails(w) \/ SweepFails(w) \/ Crash(w)
        PROVE  TypeOK'
    BY <1>1, RunTyped, SweepTyped DEF WorkerStep
  <1>2. ASSUME NEW w \in Sweepers, SweepStart(w) PROVE TypeOK'
    BY <1>2, SweepTyped DEF Workers
  <1>3. CASE UNCHANGED vars
    BY <1>3 DEF vars, TypeOK
  <1>4. CASE Around
    BY <1>4, AroundTyped
  <1> QED
    BY <1>1, <1>2, <1>3, <1>4 DEF Next, Around
-----------------------------------------------------------------------------
\* Open cards may only have become fewer.
Fewer == \A u \in Users, c \in Cands : cards'[u][c] = "pending" => cards[u][c] = "pending"

\* A step that starts no run, opens no card and leaves w where it looked keeps
\* the invariant.
LEMMA WorkerMoves ==
    ASSUME RecInv, TypeOK', HolderRuns', Fewer, NEW w \in Workers,
           \A v \in Workers : v # w => wk'[v] = wk[v],
           wk'[w].pc \in HoldPcs => wk[w].pc \in HoldPcs /\ wk'[w].u = wk[w].u,
           wk'[w].pc = "claim" => wk'[w].u \in Users,
           LookedAt(w)'
    PROVE  RecInv'
  <1>1. Located'
    BY DEF RecInv, Located
  <1>2. OneHolder'
    BY DEF RecInv, OneHolder
  <1>3. ASSUME NEW v \in Workers, v # w PROVE LookedAt(v)'
    <2>1. LookedAt(v) /\ wk'[v] = wk[v]
      BY <1>3 DEF RecInv, Looked
    <2>2. wk[v].pc \in {"scan", "insert", "expire"} => wk[v].u \in Users
      BY DEF RecInv, Located, HoldPcs
    <2> QED
      BY <2>1, <2>2 DEF LookedAt, NoneOpen, Fewer
  <1>4. Looked'
    BY <1>3 DEF Looked
  <1>5. AtMostOneOpen'
    BY DEF RecInv, AtMostOneOpen, Fewer
  <1> QED
    BY <1>1, <1>2, <1>4, <1>5 DEF RecInv

\* The same for a step of nobody.
LEMMA NobodyMoves ==
    ASSUME RecInv, TypeOK', HolderRuns', Fewer, wk' = wk
    PROVE  RecInv'
  <1>1. Located' /\ OneHolder'
    BY DEF RecInv, Located, OneHolder
  <1>2. ASSUME NEW v \in Workers PROVE LookedAt(v)'
    <2>1. LookedAt(v)
      BY DEF RecInv, Looked
    <2>2. wk[v].pc \in {"scan", "insert", "expire"} => wk[v].u \in Users
      BY DEF RecInv, Located, HoldPcs
    <2> QED
      BY <2>1, <2>2 DEF LookedAt, NoneOpen, Fewer
  <1>3. Looked'
    BY <1>2 DEF Looked
  <1>4. AtMostOneOpen'
    BY DEF RecInv, AtMostOneOpen, Fewer
  <1> QED
    BY <1>1, <1>3, <1>4 DEF RecInv

LEMMA HoldersKept ==
    ASSUME HolderRuns, run' = run, NEW w \in Workers,
           \A v \in Workers : v # w => wk'[v] = wk[v],
           wk'[w].pc \in HoldPcs => wk[w].pc \in HoldPcs /\ wk'[w].u = wk[w].u
    PROVE  HolderRuns'
  BY DEF HolderRuns

\* A run is claimed: nobody else holds it, as its lease would live.
LEMMA ClaimSafe ==
    ASSUME RecInv, TypeOK', NEW w \in Workers, Claim(w)
    PROVE  RecInv'
  <1> DEFINE u == wk[w].u
  <1>1. wk \in [Workers -> WorkerRec] /\ run \in [Users -> RunRec] /\ u \in Users
    BY DEF RecInv, TypeOK, WorkerRec, RunRec, Located, Claim
  <1>2. cards' = cards
    BY DEF Claim
  <1>3. CASE ~Claimable(u)
    <2>1. wk' = [wk EXCEPT ![w] = Leave(w)] /\ run' = run
      BY <1>3 DEF Claim
    <2>2. wk'[w] = Leave(w) /\ Leave(w).pc \in {"idle", "next"} /\ Leave(w).pick = {}
      BY <1>1, <2>1, LeaveTyped DEF RecInv
    <2>3. \A v \in Workers : v # w => wk'[v] = wk[v]
      BY <1>1, <2>1
    <2>4. HolderRuns' /\ LookedAt(w)'
      BY <2>1, <2>2, <2>3, HoldersKept DEF RecInv, LookedAt, HoldPcs
    <2> QED
      BY <1>2, <2>2, <2>3, <2>4, WorkerMoves DEF Fewer, HoldPcs
  <1>4. CASE Claimable(u)
    <2>1. /\ wk' = [wk EXCEPT ![w].pc = "today"]
          /\ run' = [run EXCEPT ![u] = [NoRun EXCEPT !.st = "running", !.live = TRUE]]
      BY <1>4 DEF Claim
    <2>2. /\ wk'[w].pc = "today" /\ wk'[w].u = u /\ wk'[w].pick = wk[w].pick
          /\ \A v \in Workers : v # w => wk'[v] = wk[v]
      BY <1>1, <2>1 DEF WorkerRec
    <2>3. run'[u].st = "running" /\ run'[u].live
      BY <1>1, <2>1 DEF NoRun
    <2>4. ~(run[u].st = "running" /\ run[u].live)
      BY <1>4 DEF Claimable
    <2>5. \A v \in Workers : wk[v].pc \in HoldPcs => wk[v].u # u
      BY <2>4 DEF RecInv, HolderRuns
    <2>6. \A x \in Users : x # u => run'[x] = run[x]
      BY <1>1, <2>1
    <2>7. HolderRuns'
      BY <2>2, <2>3, <2>5, <2>6 DEF RecInv, HolderRuns, Located
    <2>8. OneHolder'
      BY <2>2, <2>5 DEF RecInv, OneHolder
    <2>9. Located' /\ Looked' /\ AtMostOneOpen'
      <3>1. Located'
        BY <1>1, <2>2 DEF RecInv, Located
      <3>2. AtMostOneOpen'
        BY <1>2 DEF RecInv, AtMostOneOpen
      <3>3. ASSUME NEW v \in Workers PROVE LookedAt(v)'
        <4>1. LookedAt(v)
          BY DEF RecInv, Looked
        <4> QED
          BY <1>2, <2>2, <4>1 DEF LookedAt, NoneOpen
      <3> QED
        BY <3>1, <3>2, <3>3 DEF Looked
    <2> QED
      BY <2>7, <2>8, <2>9 DEF RecInv
  <1> QED
    BY <1>3, <1>4

\* An end of the run keeps it with its holder.
LEMMA EndsSafe ==
    ASSUME RecInv, TypeOK', NEW w \in Workers, NEW result, Ends(w, result),
           wk[w].pc \in HoldPcs, run' = run, Fewer
    PROVE  RecInv'
  <1>1. wk \in [Workers -> WorkerRec]
    BY DEF RecInv, TypeOK, WorkerRec
  <1>2. /\ wk'[w].pc = "finish" /\ wk'[w].u = wk[w].u /\ wk'[w].pick = {}
        /\ \A v \in Workers : v # w => wk'[v] = wk[v]
    BY <1>1 DEF Ends, WorkerRec
  <1>3. HolderRuns' /\ LookedAt(w)'
    BY <1>2, HoldersKept DEF RecInv, LookedAt
  <1> QED
    BY <1>2, <1>3, WorkerMoves

\* A step of a run that goes on keeps it when it knows enough of the open cards.
LEMMA GoesOn ==
    ASSUME RecInv, TypeOK', NEW w \in Workers, wk[w].pc \in HoldPcs, run' = run, Fewer,
           wk'[w].u = wk[w].u, \A v \in Workers : v # w => wk'[v] = wk[v],
           wk'[w].pc \in HoldPcs, LookedAt(w)'
    PROVE  RecInv'
  <1>1. HolderRuns'
    BY HoldersKept DEF RecInv
  <1> QED
    BY <1>1, WorkerMoves DEF HoldPcs

LEMMA ReadTodaySafe ==
    ASSUME RecInv, TypeOK', NEW w \in Workers, ReadToday(w)
    PROVE  RecInv'
  <1> DEFINE u == wk[w].u
             stale == CardsOf(u, {"pending"}) \ open
             enough == CardsOf(u, Counted) # stale
             result == IF enough THEN "ok" ELSE "none"
             pc == IF stale # {} THEN "expire" ELSE IF enough THEN "finish" ELSE "scan"
  <1>1. wk \in [Workers -> WorkerRec] /\ wk[w].pc \in HoldPcs
    BY DEF RecInv, TypeOK, WorkerRec, ReadToday, HoldPcs
  <1>2. cards' = cards /\ run' = run
    BY DEF ReadToday
  <1>3. ASSUME NEW r, Ends(w, r) PROVE RecInv'
    BY <1>1, <1>2, <1>3, EndsSafe DEF Fewer
  <1>4. CASE wk' = [wk EXCEPT ![w].stale = stale, ![w].result = result, ![w].pc = pc]
    <2>1. /\ wk'[w].pc = pc /\ wk'[w].u = u /\ wk'[w].pick = wk[w].pick
          /\ wk'[w].stale = stale /\ wk'[w].result = result
          /\ \A v \in Workers : v # w => wk'[v] = wk[v]
      BY ZenonT(30), <1>1, <1>4 DEF WorkerRec
    <2>2. ~enough => \A c \in Cands : cards[u][c] = "pending" => c \in stale
      BY DEF CardsOf, Counted
    <2>3. LookedAt(w)
      BY DEF RecInv, Looked
    <2>4. LookedAt(w)'
      BY <1>2, <2>1, <2>2, <2>3 DEF LookedAt, NoneOpen
    <2> QED
      BY <1>1, <1>2, <2>1, <2>4, GoesOn DEF Fewer, HoldPcs
  <1> QED
    BY <1>3, <1>4 DEF ReadToday

LEMMA ExpireSafe ==
    ASSUME RecInv, TypeOK', NEW w \in Workers, Expire(w)
    PROVE  RecInv'
  <1> DEFINE u == wk[w].u
             pc == IF wk[w].result = "ok" THEN "finish" ELSE "scan"
  <1>1. wk \in [Workers -> WorkerRec] /\ wk[w].pc = "expire" /\ wk[w].pc \in HoldPcs
    BY DEF RecInv, TypeOK, WorkerRec, Expire, HoldPcs
  <1>2. u \in Users
    BY <1>1 DEF RecInv, Located
  <1>3. run' = run
    BY DEF Expire
  <1>4. CASE Ends(w, "failed") /\ UNCHANGED cards
    BY <1>1, <1>3, <1>4, EndsSafe DEF Fewer
  <1>5. CASE /\ cards' = [cards EXCEPT ![u] = [c \in Cands |->
                     IF c \in wk[w].stale /\ @[c] = "pending" THEN "expired" ELSE @[c]]]
             /\ wk' = [wk EXCEPT ![w].pc = pc, ![w].stale = {}]
    <2>1. /\ wk'[w].pc = pc /\ wk'[w].u = u /\ wk'[w].pick = wk[w].pick
          /\ \A v \in Workers : v # w => wk'[v] = wk[v]
      BY <1>1, <1>5 DEF WorkerRec
    <2>2. \A c \in Cands : cards'[u][c] = "pending" =>
              cards[u][c] = "pending" /\ c \notin wk[w].stale
      BY <1>2, <1>5 DEF RecInv, TypeOK
    <2>3. \A x \in Users : x # u => cards'[x] = cards[x]
      BY <1>5 DEF RecInv, TypeOK
    <2>4. Fewer
      BY <2>2, <2>3 DEF Fewer
    <2>5. LookedAt(w)
      BY DEF RecInv, Looked
    <2>6. LookedAt(w)'
      BY <1>1, <2>1, <2>2, <2>5 DEF LookedAt, NoneOpen
    <2> QED
      BY <1>1, <1>3, <2>1, <2>4, <2>6, GoesOn DEF HoldPcs
  <1> QED
    BY <1>4, <1>5 DEF Expire

LEMMA ScanSafe ==
    ASSUME RecInv, TypeOK', NEW w \in Workers, Scan(w)
    PROVE  RecInv'
  <1>1. wk \in [Workers -> WorkerRec] /\ wk[w].pc = "scan" /\ wk[w].pc \in HoldPcs
    BY DEF RecInv, TypeOK, WorkerRec, Scan, HoldPcs
  <1>2. cards' = cards /\ run' = run
    BY DEF Scan, Acceptable, Excluded
  <1>3. ASSUME NEW r, Ends(w, r) PROVE RecInv'
    BY <1>1, <1>2, <1>3, EndsSafe DEF Fewer
  <1>4. ASSUME NEW c, wk' = [wk EXCEPT ![w].pc = "insert", ![w].pick = {c}] PROVE RecInv'
    <2>1. /\ wk'[w].pc = "insert" /\ wk'[w].u = wk[w].u /\ wk'[w].pick = {c}
          /\ \A v \in Workers : v # w => wk'[v] = wk[v]
      BY <1>1, <1>4 DEF WorkerRec
    <2>2. LookedAt(w)
      BY DEF RecInv, Looked
    <2>3. LookedAt(w)'
      BY <1>1, <1>2, <2>1, <2>2 DEF LookedAt, NoneOpen
    <2> QED
      BY <1>1, <1>2, <2>1, <2>3, GoesOn DEF Fewer, HoldPcs
  <1> QED
    BY <1>3, <1>4 DEF Scan, Acceptable, Excluded

\* A card is opened: no other is, and no other run of this user looks.
LEMMA InsertSafe ==
    ASSUME RecInv, TypeOK', NEW w \in Workers, Insert(w)
    PROVE  RecInv'
  <1> DEFINE u == wk[w].u
  <1>1. wk \in [Workers -> WorkerRec] /\ wk[w].pc = "insert" /\ wk[w].pc \in HoldPcs
    BY DEF RecInv, TypeOK, WorkerRec, Insert, HoldPcs
  <1>2. u \in Users
    BY <1>1 DEF RecInv, Located
  <1>3. run' = run
    BY DEF Insert
  <1>4. ASSUME NEW r, Ends(w, r), UNCHANGED cards PROVE RecInv'
    BY <1>1, <1>3, <1>4, EndsSafe DEF Fewer
  <1>5. CASE /\ cards' = [cards EXCEPT ![u] = [c \in Cands |->
                    IF c \in wk[w].pick /\ @[c] = "none" THEN "pending" ELSE @[c]]]
             /\ Ends(w, "ok")
    <2>1. /\ wk'[w].pc = "finish" /\ wk'[w].u = u /\ wk'[w].pick = {}
          /\ \A v \in Workers : v # w => wk'[v] = wk[v]
      BY <1>1, <1>5 DEF Ends, WorkerRec
    <2>2. NoneOpen(u) /\ \A c, d \in wk[w].pick : c = d
      BY <1>1 DEF RecInv, Looked, LookedAt
    <2>3. \A c \in Cands : cards'[u][c] = "pending" => c \in wk[w].pick
      BY <1>2, <1>5, <2>2 DEF RecInv, TypeOK, NoneOpen
    <2>4. \A x \in Users : x # u => cards'[x] = cards[x]
      BY <1>5 DEF RecInv, TypeOK
    <2>5. AtMostOneOpen'
      BY <2>2, <2>3, <2>4 DEF RecInv, AtMostOneOpen
    <2>6. HolderRuns'
      BY <1>1, <1>3, <2>1, HoldersKept DEF RecInv
    <2>7. Located' /\ OneHolder'
      BY <1>1, <1>2, <2>1 DEF RecInv, Located, OneHolder
    <2>8. ASSUME NEW v \in Workers, v # w PROVE LookedAt(v)'
      <3>1. LookedAt(v) /\ wk'[v] = wk[v]
        BY <2>1, <2>8 DEF RecInv, Looked
      <3>2. wk[v].pc \in {"scan", "insert", "expire"} => wk[v].u \in Users /\ wk[v].u # u
        BY <1>1, <2>8 DEF RecInv, Located, OneHolder, HoldPcs
      <3> QED
        BY <2>4, <3>1, <3>2 DEF LookedAt, NoneOpen
    <2>9. LookedAt(w)'
      BY <2>1 DEF LookedAt
    <2> QED
      BY <2>5, <2>6, <2>7, <2>8, <2>9 DEF RecInv, Looked
  <1> QED
    BY <1>4, <1>5 DEF Insert

\* A run ends, or its record fails and the lease stays.
LEMMA FinishSafe ==
    ASSUME RecInv, TypeOK', NEW w \in Workers, Finish(w)
    PROVE  RecInv'
  <1> DEFINE u == wk[w].u
  <1>1. /\ wk \in [Workers -> WorkerRec] /\ run \in [Users -> RunRec]
        /\ wk[w].pc \in HoldPcs
    BY DEF RecInv, TypeOK, WorkerRec, RunRec, Finish, HoldPcs
  <1>2. cards' = cards /\ wk' = [wk EXCEPT ![w] = Leave(w)]
    BY DEF Finish
  <1>3. wk'[w] = Leave(w) /\ Leave(w).pc \in {"idle", "next"} /\ Leave(w).pick = {}
    BY <1>1, <1>2, LeaveTyped DEF RecInv
  <1>4. \A v \in Workers : v # w => wk'[v] = wk[v]
    BY <1>1, <1>2
  <1>5. \A x \in Users : x # u => run'[x] = run[x]
    BY <1>1 DEF Finish
  <1>6. \A v \in Workers : v # w /\ wk[v].pc \in HoldPcs => wk[v].u \in Users /\ wk[v].u # u
    BY <1>1 DEF RecInv, OneHolder, Located
  <1>7. HolderRuns'
    BY <1>3, <1>4, <1>5, <1>6 DEF RecInv, HolderRuns, HoldPcs
  <1>8. LookedAt(w)'
    BY <1>3 DEF LookedAt
  <1> QED
    BY <1>2, <1>3, <1>4, <1>7, <1>8, WorkerMoves DEF Fewer, HoldPcs

\* The steps of the sweep hold no run.
LEMMA SweepSafe ==
    ASSUME RecInv, TypeOK', NEW w \in Workers,
           \/ SweepStart(w) \/ ReadPage(w) \/ LastPage(w) \/ NextUser(w) \/ PageDone(w)
           \/ Release(w) \/ OutOfTime(w) \/ ClaimFails(w) \/ SweepFails(w) \/ Crash(w)
    PROVE  RecInv'
  <1>1. wk \in [Workers -> WorkerRec]
    BY DEF RecInv, TypeOK, WorkerRec
  <1>2. Leave(w).pc \in {"idle", "next"} /\ Leave(w).pick = {}
    BY LeaveTyped DEF RecInv
  <1>3. cards' = cards /\ run' = run
    BY DEF SweepStart, ReadPage, LastPage, NextUser, PageDone, Release, OutOfTime,
           ClaimFails, SweepFails, Crash, world
  <1>4. \A v \in Workers : v # w => wk'[v] = wk[v]
    BY <1>1 DEF SweepStart, ReadPage, LastPage, NextUser, PageDone, Release, OutOfTime,
                ClaimFails, SweepFails, Crash
  <1>5. CASE NextUser(w)
    <2>1. PICK u \in wk[w].ids :
              wk' = [wk EXCEPT ![w].pc = "claim", ![w].u = u, ![w].ids = @ \ {u}]
      BY <1>5 DEF NextUser
    <2>2. u \in Users /\ wk'[w].pc = "claim" /\ wk'[w].u = u /\ wk'[w].pick = wk[w].pick
      BY <1>1, <2>1 DEF WorkerRec
    <2>3. LookedAt(w)' /\ HolderRuns'
      BY <1>3, <1>4, <2>2, HoldersKept DEF RecInv, Looked, LookedAt, HoldPcs
    <2> QED
      BY <1>3, <1>4, <2>2, <2>3, WorkerMoves DEF Fewer, HoldPcs
  <1>6. CASE ~NextUser(w)
    <2>1. /\ wk'[w].pc \in {"page", "release", "next", "idle"}
          /\ wk'[w].pick = wk[w].pick \/ wk'[w].pick = {}
      <3>1. CASE SweepStart(w) \/ LastPage(w) \/ OutOfTime(w) \/ SweepFails(w) \/ PageDone(w)
        BY <1>1, <3>1 DEF SweepStart, LastPage, OutOfTime, SweepFails, PageDone, WorkerRec
      <3>2. CASE ReadPage(w)
        BY ZenonT(30), <1>1, <3>2 DEF ReadPage, WorkerRec
      <3>3. CASE Release(w) \/ Crash(w)
        BY <1>1, <3>3 DEF Release, Crash, Idle
      <3>4. CASE ClaimFails(w)
        BY <1>1, <1>2, <3>4 DEF ClaimFails
      <3> QED
        BY <1>6, <3>1, <3>2, <3>3, <3>4
    <2>2. LookedAt(w)' /\ HolderRuns'
      BY <1>3, <1>4, <2>1, HoldersKept DEF RecInv, Looked, LookedAt, HoldPcs
    <2> QED
      BY <1>3, <1>4, <2>1, <2>2, WorkerMoves DEF Fewer, HoldPcs
  <1> QED
    BY <1>5, <1>6

\* Leases run out only where nobody works; decisions close cards.
LEMMA AroundSafe == RecInv /\ TypeOK' /\ Around => RecInv'
  <1> SUFFICES ASSUME RecInv, TypeOK', Around PROVE RecInv'
    OBVIOUS
  <1>1. ASSUME NEW w \in Apps, NEW u \in Users, AppStart(w, u) PROVE RecInv'
    <2>1. wk \in [Workers -> WorkerRec] /\ w \in Workers
      BY DEF RecInv, TypeOK, WorkerRec, Workers
    <2>2. /\ wk'[w].pc = "claim" /\ wk'[w].u = u /\ wk'[w].pick = wk[w].pick
          /\ \A v \in Workers : v # w => wk'[v] = wk[v]
          /\ cards' = cards /\ run' = run
      BY <1>1, <2>1 DEF AppStart, WorkerRec
    <2>3. LookedAt(w)' /\ HolderRuns'
      BY <2>1, <2>2, HoldersKept DEF RecInv, Looked, LookedAt, HoldPcs
    <2> QED
      BY <2>1, <2>2, <2>3, WorkerMoves DEF Fewer, HoldPcs
  <1>2. ASSUME NEW u \in Users, RunExpires(u) PROVE RecInv'
    <2>1. run \in [Users -> RunRec]
      BY DEF RecInv, TypeOK, RunRec
    <2>2. \A x \in Users : x # u => run'[x] = run[x]
      BY <1>2, <2>1 DEF RunExpires
    <2>3. \A v \in Workers : wk[v].pc \in HoldPcs => wk[v].u # u /\ wk[v].u \in Users
      BY <1>2 DEF RunExpires, Held, RecInv, Located
    <2>4. wk' = wk /\ cards' = cards
      BY <1>2 DEF RunExpires
    <2>5. HolderRuns'
      BY <2>2, <2>3, <2>4 DEF RecInv, HolderRuns
    <2> QED
      BY <2>4, <2>5, NobodyMoves DEF Fewer
  <1>3. ASSUME NEW u \in Users, RetryPasses(u) PROVE RecInv'
    <2>1. run \in [Users -> RunRec]
      BY DEF RecInv, TypeOK, RunRec
    <2>2. \A x \in Users : run'[x].st = run[x].st /\ run'[x].live = run[x].live
      BY <1>3, <2>1 DEF RetryPasses, RunRec
    <2>3. wk' = wk /\ cards' = cards
      BY <1>3 DEF RetryPasses
    <2>4. HolderRuns'
      BY <2>2, <2>3 DEF RecInv, HolderRuns, Located
    <2> QED
      BY <2>3, <2>4, NobodyMoves DEF Fewer
  <1>4. ASSUME NEW u \in Users, NEW c \in Cands, Decide(u, c) PROVE RecInv'
    <2>1. wk' = wk /\ run' = run
      BY <1>4 DEF Decide
    <2>2. Fewer
      BY <1>4 DEF Decide, Fewer, RecInv, TypeOK
    <2>3. HolderRuns'
      BY <2>1 DEF RecInv, HolderRuns
    <2> QED
      BY <2>1, <2>2, <2>3, NobodyMoves
  <1>5. ASSUME wk' = wk, run' = run, cards' = cards PROVE RecInv'
    BY <1>5, NobodyMoves DEF RecInv, HolderRuns, Fewer
  <1>6. ASSUME NEW u \in Users, AbleMoves(u) PROVE RecInv'
    BY <1>5, <1>6 DEF AbleMoves
  <1>7. ASSUME NEW c \in Cands, CandMoves(c) PROVE RecInv'
    BY <1>5, <1>7 DEF CandMoves
  <1>8. CASE CursorExpires
    BY <1>5, <1>8 DEF CursorExpires
  <1> QED
    BY <1>1, <1>2, <1>3, <1>4, <1>6, <1>7, <1>8 DEF Around
-----------------------------------------------------------------------------
LEMMA RecInit == Init => RecInv
  <1> SUFFICES ASSUME Init PROVE RecInv
    OBVIOUS
  <1>1. \A w \in Workers : wk[w].pc = "idle" /\ wk[w].pick = {}
    BY DEF Init, Idle
  <1>2. Located /\ HolderRuns /\ OneHolder /\ Looked
    BY <1>1 DEF Located, HolderRuns, OneHolder, Looked, LookedAt, HoldPcs
  <1>3. AtMostOneOpen
    BY DEF Init, AtMostOneOpen
  <1> QED
    BY <1>2, <1>3, TypeInit DEF RecInv

LEMMA RecStep == RecInv /\ [Next]_vars => RecInv'
  <1> SUFFICES ASSUME RecInv, [Next]_vars PROVE RecInv'
    OBVIOUS
  <1>1. TypeOK'
    BY TypeStep DEF RecInv
  <1>2. ASSUME NEW w \in Workers,
               WorkerStep(w) \/ OutOfTime(w) \/ ClaimFails(w) \/ SweepFails(w) \/ Crash(w)
        PROVE  RecInv'
    BY <1>1, <1>2, ClaimSafe, ReadTodaySafe, ExpireSafe, ScanSafe, InsertSafe, FinishSafe,
       SweepSafe DEF WorkerStep
  <1>3. ASSUME NEW w \in Sweepers, SweepStart(w) PROVE RecInv'
    BY <1>1, <1>3, SweepSafe DEF Workers
  <1>4. CASE UNCHANGED vars
    BY <1>1, <1>4, NobodyMoves DEF vars, RecInv, HolderRuns, Fewer
  <1>5. CASE Around
    BY <1>1, <1>5, AroundSafe
  <1> QED
    BY <1>2, <1>3, <1>4, <1>5 DEF Next, Around

\* The invariant holds in every reachable state (0017, 0027, runWithClaim.ts,
\* batchSweep.ts, for any number of invocations and users).
THEOREM RecInductive == Spec => []RecInv
  BY RecInit, RecStep, PTL DEF Spec

\* Every variable keeps its type.
THEOREM RecTypeCorrect == Spec => []TypeOK
  <1>1. RecInv => TypeOK
    BY DEF RecInv
  <1> QED
    BY <1>1, RecInductive, PTL

\* The run of a user is in one invocation's hands, however app, batch, crashes
\* and expiring leases overlap (recommendation_run_claim).
THEOREM OneHolderHolds == Spec => []OneHolder
  <1>1. RecInv => OneHolder
    BY DEF RecInv
  <1> QED
    BY <1>1, RecInductive, PTL

\* Nobody has two cards of a day to decide on.
THEOREM OneOpenCardHolds == Spec => []OneOpenCard
  <1>1. RecInv => OneOpenCard
    <2> SUFFICES ASSUME RecInv, NEW u \in Users
                 PROVE  Cardinality(CardsOf(u, {"pending"})) <= 1
      BY DEF OneOpenCard
    <2>1. CASE CardsOf(u, {"pending"}) = {}
      BY <2>1, FS_EmptySet
    <2>2. CASE CardsOf(u, {"pending"}) # {}
      <3>1. PICK c \in Cands : cards[u][c] = "pending"
        BY <2>2 DEF CardsOf
      <3>2. CardsOf(u, {"pending"}) = {c}
        BY <3>1 DEF RecInv, AtMostOneOpen, CardsOf
      <3> QED
        <4>1. Cardinality({c}) = 1
          BY FS_Singleton
        <4> QED
          BY <3>2, <4>1
    <2> QED
      BY <2>1, <2>2
  <1> QED
    BY <1>1, RecInductive, PTL

\* Types, one holder and one open card, for any number of users, candidates and
\* invocations.
THEOREM RecSafetyHolds == Spec => []RecSafety
  BY RecTypeCorrect, OneHolderHolds, OneOpenCardHolds, PTL DEF RecSafety
-----------------------------------------------------------------------------
(* The sweep of the batch: whom its cursor has passed has been looked at.  *)

\* A finite set of numbers that is not empty has a greatest one.
LEMMA MaxIsGreatest ==
    ASSUME NEW S \in SUBSET Nat, IsFiniteSet(S), S # {}
    PROVE  Max(S) \in S /\ \A x \in S : x <= Max(S)
  <1> DEFINE Greatest(T) == \E x \in T : \A y \in T : x >= y
             Bad == {T \in SUBSET S : T # {} /\ ~Greatest(T)}
  <1>1. ASSUME Bad # {} PROVE FALSE
    <2>1. IsWellFoundedOn(StrictSubsetOrdering(S), SUBSET S)
      BY FS_StrictSubsetOrderingWellFounded, FS_FiniteSubsetsOfFinite
    <2>2. PICK T \in Bad : \A U \in Bad : <<U, T>> \notin StrictSubsetOrdering(S)
      BY <1>1, <2>1, WFMin, Zenon
    <2>3. PICK x \in T : TRUE
      BY <2>2
    <2> DEFINE U == T \ {x}
    <2>4. U \notin Bad
      BY <2>2, <2>3 DEF StrictSubsetOrdering
    <2>5. U = {} \/ Greatest(U)
      BY <2>2, <2>4
    <2>6. Greatest(T)
      BY <2>2, <2>3, <2>5
    <2> QED
      BY <2>2, <2>6
  <1>2. PICK x \in S : \A y \in S : x >= y
    BY <1>1
  <1>3. Max(S) \in S /\ \A y \in S : Max(S) >= y
    BY <1>2 DEF Max
  <1> QED
    BY <1>3

UpTo(k) == {u \in Users : u <= k}

LEMMA UsersAreNumbers == Users \subseteq Nat /\ Null \in Nat /\ \A u \in Users : u > Null
  BY UsersAssumption DEF Null

LEMMA UpToNull == UpTo(Null) = {}
  <1>1. \A u \in Users : ~(u <= Null)
    BY UsersAreNumbers
  <1> QED
    BY <1>1 DEF UpTo

\* The lease on the cursor: one invocation sweeps at a time, and none without it.
OneSweep ==
    /\ \A w \in Apps : wk[w].pc \notin {"page", "next", "release"}
    /\ \A v, w \in Sweepers : wk[v].pc # "idle" /\ wk[w].pc # "idle" => v = w
    /\ Sweeping => cursor.live

\* Nobody up to the user in hand, and nobody before one of the page who is
\* still to come, is left out.
LooksAtAll(w) ==
    /\ wk[w].pc = "idle" => wk[w].ids = {}
    /\ wk[w].pc \in {"page", "next", "release"} => UpTo(wk[w].after) \subseteq seen
    /\ wk[w].pc \in HoldPcs \cup {"claim"} => UpTo(wk[w].u) \subseteq seen
    /\ \A u \in wk[w].ids : UpTo(u) \subseteq seen \cup wk[w].ids

SweepInv ==
    /\ OneSweep
    /\ UpTo(cursor.after) \subseteq seen
    /\ \A w \in Sweepers : LooksAtAll(w)

LEMMA SweepInit == Init => SweepInv
  <1> SUFFICES ASSUME Init PROVE SweepInv
    OBVIOUS
  <1>1. \A w \in Workers : wk[w].pc = "idle" /\ wk[w].ids = {}
    BY DEF Init, Idle
  <1> QED
    BY <1>1, UpToNull DEF Init, SweepInv, OneSweep, Sweeping, LooksAtAll, HoldPcs, Workers

\* A step of one sweeper that keeps the cursor and goes on from where it is.
LEMMA SweeperMoves ==
    ASSUME TypeOK, SweepInv, NEW w \in Sweepers, wk[w].pc # "idle",
           \A v \in Workers : v # w => wk'[v] = wk[v],
           cursor' = cursor, seen \subseteq seen', LooksAtAll(w)'
    PROVE  SweepInv'
  <1>1. ASSUME NEW v \in Sweepers PROVE LooksAtAll(v)'
    BY DEF SweepInv, LooksAtAll, Workers, HoldPcs
  <1>2. OneSweep'
    BY WorkersAssumption DEF SweepInv, OneSweep, Sweeping, Workers
  <1> QED
    BY <1>1, <1>2 DEF SweepInv

\* What an invocation does with the run of one user, for the app or the sweep.
LEMMA RunKeepsSweep ==
    ASSUME TypeOK, SweepInv, NEW w \in Workers,
           \/ Claim(w) \/ ReadToday(w) \/ Expire(w) \/ Scan(w) \/ Insert(w) \/ Finish(w)
           \/ ClaimFails(w)
    PROVE  SweepInv'
  <1>1. wk \in [Workers -> WorkerRec]
    BY DEF TypeOK, WorkerRec
  <1>2. wk[w].pc \in HoldPcs \cup {"claim"} /\ cursor' = cursor /\ seen' = seen
    BY DEF Claim, ReadToday, Expire, Scan, Insert, Finish, ClaimFails, HoldPcs
  <1>3. \A v \in Workers : v # w => wk'[v] = wk[v]
    BY <1>1 DEF Claim, ReadToday, Expire, Scan, Insert, Finish, ClaimFails, Ends
  <1>4. \/ wk'[w] = Leave(w)
        \/ wk'[w].pc \in HoldPcs /\ wk'[w].u = wk[w].u /\ wk'[w].ids = wk[w].ids
    <2>1. ASSUME NEW result, Ends(w, result)
          PROVE  wk'[w].pc = "finish" /\ wk'[w].u = wk[w].u /\ wk'[w].ids = wk[w].ids
      BY <1>1, <2>1 DEF Ends, WorkerRec
    <2>2. CASE Claim(w) \/ Finish(w) \/ ClaimFails(w)
      BY <1>1, <2>2 DEF Claim, Finish, ClaimFails, WorkerRec, HoldPcs
    <2>3. CASE ReadToday(w)
      <3>1. ASSUME NEW stale, NEW result, NEW pc \in {"expire", "finish", "scan"},
                   wk' = [wk EXCEPT ![w].stale = stale, ![w].result = result, ![w].pc = pc]
            PROVE  wk'[w].pc \in HoldPcs /\ wk'[w].u = wk[w].u /\ wk'[w].ids = wk[w].ids
        BY <1>1, <3>1 DEF WorkerRec, HoldPcs
      <3>2. "finish" \in HoldPcs
        BY DEF HoldPcs
      <3> QED
        <4> DEFINE stale == CardsOf(wk[w].u, {"pending"}) \ open
                   enough == CardsOf(wk[w].u, Counted) # stale
                   result == IF enough THEN "ok" ELSE "none"
                   pc == IF stale # {} THEN "expire" ELSE IF enough THEN "finish" ELSE "scan"
        <4>1. \/ Ends(w, "failed")
              \/ wk' = [wk EXCEPT ![w].stale = stale, ![w].result = result, ![w].pc = pc]
          BY <2>3 DEF ReadToday
        <4>2. pc \in {"expire", "finish", "scan"}
          OBVIOUS
        <4> HIDE DEF stale, enough, result, pc
        <4> QED
          BY <2>1, <3>1, <3>2, <4>1, <4>2
    <2>4. CASE Expire(w) \/ Insert(w)
      BY <1>1, <2>1, <2>4 DEF Expire, Insert, WorkerRec, HoldPcs
    <2>5. CASE Scan(w)
      BY <1>1, <2>1, <2>5 DEF Scan, WorkerRec, HoldPcs
    <2> QED
      BY <2>2, <2>3, <2>4, <2>5
  <1>5. CASE w \in Apps
    <2>1. wk'[w].pc \notin {"page", "next", "release"}
      BY <1>4, <1>5 DEF Leave, Idle, HoldPcs
    <2>2. w \notin Sweepers
      BY <1>5, WorkersAssumption
    <2>3. \A v \in Sweepers : wk'[v] = wk[v]
      BY <1>3, <2>2 DEF Workers
    <2>4. \A v \in Sweepers : LooksAtAll(v)'
      BY <1>2, <2>3 DEF SweepInv, LooksAtAll
    <2>5. OneSweep'
      BY <1>2, <1>3, <2>1, <2>3 DEF SweepInv, OneSweep, Sweeping, Workers
    <2> QED
      BY <1>2, <2>4, <2>5 DEF SweepInv
  <1>6. CASE w \in Sweepers
    <2>1. wk[w].pc # "idle" /\ UpTo(wk[w].u) \subseteq seen
      BY <1>2, <1>6 DEF SweepInv, LooksAtAll, HoldPcs
    <2>2. CASE wk'[w] = Leave(w)
      <3>1. wk'[w].pc = "next" /\ wk'[w].after = wk[w].u /\ wk'[w].ids = wk[w].ids
        BY <1>1, <1>6, <2>2, WorkersAssumption DEF Leave, WorkerRec
      <3>2. LooksAtAll(w)'
        BY <1>2, <1>6, <2>1, <3>1 DEF SweepInv, LooksAtAll, HoldPcs
      <3> QED
        BY <1>2, <1>3, <1>6, <2>1, <3>2, SweeperMoves
    <2>3. CASE wk'[w].pc \in HoldPcs /\ wk'[w].u = wk[w].u /\ wk'[w].ids = wk[w].ids
      <3>1. LooksAtAll(w)'
        BY <1>2, <1>6, <2>1, <2>3 DEF SweepInv, LooksAtAll, HoldPcs
      <3> QED
        BY <1>2, <1>3, <1>6, <2>1, <3>1, SweeperMoves
    <2> QED
      BY <1>4, <2>2, <2>3
  <1> QED
    BY <1>5, <1>6 DEF Workers

\* A page: whom it passes over is no target, and is looked at by that.
LEMMA ReadPageKeepsSweep ==
    ASSUME TypeOK, SweepInv, NEW w \in Sweepers, ReadPage(w)
    PROVE  SweepInv'
  <1> DEFINE rest == {u \in Users : u > wk[w].after}
             targets == {u \in rest : Target(u)}
             page == {u \in targets : Cardinality({v \in targets : v <= u}) <= PageSize}
             full == Cardinality(page) = PageSize
             last == IF full THEN Max(page) ELSE Max(Users)
  <1>1. wk \in [Workers -> WorkerRec] /\ w \in Workers
    BY DEF TypeOK, WorkerRec, Workers
  <1>2. /\ wk[w].pc = "page" /\ cursor' = cursor
        /\ seen' = seen \cup {u \in rest \ page : u <= last}
        /\ wk' = [wk EXCEPT ![w].pc = IF page = {} THEN "release" ELSE "next",
                            ![w].after = IF page = {} THEN Null ELSE @,
                            ![w].ids = page, ![w].full = full,
                            ![w].pages = IF page = {} THEN @ ELSE @ + 1]
    BY DEF ReadPage
  <1>3. page \subseteq Users /\ IsFiniteSet(page) /\ IsFiniteSet(Users)
    BY UsersAssumption, FS_Subset
  <1>4. \A u \in page : u <= last
    <2> SUFFICES ASSUME NEW u \in page PROVE u <= last
      OBVIOUS
    <2> HIDE DEF page
    <2>1. u <= Max(page)
      BY <1>3, MaxIsGreatest, UsersAssumption
    <2>2. u <= Max(Users)
      BY <1>3, MaxIsGreatest, UsersAssumption
    <2> QED
      BY <2>1, <2>2
  <1>5. last \in Int \/ page = {}
    <2> HIDE DEF page
    <2> QED
      <3>1. ASSUME page # {} PROVE Max(page) \in Nat /\ Max(Users) \in Nat
        BY <1>3, <3>1, MaxIsGreatest, UsersAreNumbers
      <3> QED
        BY <3>1
  <1>6. /\ wk'[w].pc = IF page = {} THEN "release" ELSE "next"
        /\ wk'[w].after = IF page = {} THEN Null ELSE wk[w].after
        /\ wk'[w].ids = page
        /\ \A v \in Workers : v # w => wk'[v] = wk[v]
    <2> DEFINE pc == IF page = {} THEN "release" ELSE "next"
               after == IF page = {} THEN Null ELSE wk[w].after
               pages == IF page = {} THEN wk[w].pages ELSE wk[w].pages + 1
    <2>1. wk' = [wk EXCEPT ![w].pc = pc, ![w].after = after, ![w].ids = page,
                           ![w].full = full, ![w].pages = pages]
      <3> HIDE DEF page, full, rest, last, targets
      <3> QED
        BY <1>1, <1>2
    <2> HIDE DEF page, full, pc, after, pages
    <2>2. /\ wk'[w].pc = pc /\ wk'[w].after = after /\ wk'[w].ids = page
          /\ \A v \in Workers : v # w => wk'[v] = wk[v]
      BY <1>1, <2>1 DEF WorkerRec
    <2> QED
      BY <2>2 DEF pc, after
  <1>7. wk[w].after \in Nat
    BY <1>1, UsersAreNumbers DEF WorkerRec
  <1>8. \A u \in page : UpTo(u) \subseteq seen' \cup page
    <2> SUFFICES ASSUME NEW u \in page, NEW v \in UpTo(u) PROVE v \in seen' \cup page
      OBVIOUS
    <2>1. v \in Users /\ v <= u /\ u <= last /\ u \in Nat /\ v \in Nat /\ last \in Int
      BY <1>3, <1>4, <1>5, UsersAssumption DEF UpTo
    <2>2. v <= wk[w].after => v \in seen
      BY <1>2, <2>1 DEF SweepInv, LooksAtAll, UpTo
    <2>3. v \in rest \/ v <= wk[w].after
      BY <1>7, <2>1
    <2>4. v <= last
      BY <2>1
    <2> HIDE DEF page, rest, last
    <2> QED
      BY <1>2, <2>2, <2>3, <2>4
  <1>9. UpTo(wk'[w].after) \subseteq seen'
    <2>1. UpTo(wk[w].after) \subseteq seen /\ seen \subseteq seen'
      BY <1>2 DEF SweepInv, LooksAtAll
    <2> HIDE DEF page
    <2> QED
      BY <1>6, <2>1, UpToNull DEF UpTo
  <1> HIDE DEF page, rest, last, full
  <1>10. LooksAtAll(w)'
    BY <1>6, <1>8, <1>9 DEF LooksAtAll, HoldPcs, UpTo
  <1> QED
    BY <1>2, <1>6, <1>10, SweeperMoves

\* The other steps of the sweep between its start and its end.
LEMMA SweepGoesOn ==
    ASSUME TypeOK, SweepInv, NEW w \in Sweepers,
           LastPage(w) \/ NextUser(w) \/ OutOfTime(w) \/ SweepFails(w)
    PROVE  SweepInv'
  <1>1. wk \in [Workers -> WorkerRec] /\ w \in Workers /\ LooksAtAll(w)
    BY DEF TypeOK, WorkerRec, Workers, SweepInv
  <1>2. /\ wk[w].pc \in {"page", "next"} /\ cursor' = cursor /\ seen \subseteq seen'
        /\ \A v \in Workers : v # w => wk'[v] = wk[v]
    BY <1>1 DEF LastPage, NextUser, OutOfTime, SweepFails
  <1>3. CASE LastPage(w) \/ OutOfTime(w) \/ SweepFails(w)
    <2>1. /\ wk'[w].pc = "release" /\ wk'[w].after = wk[w].after /\ wk'[w].ids = wk[w].ids
          /\ seen' = seen
      BY <1>1, <1>3 DEF LastPage, OutOfTime, SweepFails, WorkerRec
    <2>2. LooksAtAll(w)'
      BY <1>1, <1>2, <2>1 DEF LooksAtAll, HoldPcs
    <2> QED
      BY <1>2, <2>2, SweeperMoves
  <1>4. CASE NextUser(w)
    <2>1. PICK u \in wk[w].ids :
            /\ \A v \in wk[w].ids : u <= v
            /\ wk' = [wk EXCEPT ![w].pc = "claim", ![w].u = u, ![w].ids = @ \ {u}]
            /\ seen' = seen \cup {u}
      BY <1>4 DEF NextUser
    <2>2. wk'[w].pc = "claim" /\ wk'[w].u = u /\ wk'[w].ids = wk[w].ids \ {u}
      BY <1>1, <2>1 DEF WorkerRec
    <2>3. wk[w].ids \subseteq Users
      BY <1>1 DEF WorkerRec
    <2>4. UpTo(u) \subseteq seen'
      <3> SUFFICES ASSUME NEW v \in UpTo(u) PROVE v \in seen'
        OBVIOUS
      <3>1. v \in seen \/ v \in wk[w].ids
        BY <1>1 DEF LooksAtAll
      <3>2. v \in wk[w].ids => v = u
        BY <2>1, <2>3, UsersAssumption DEF UpTo
      <3> QED
        BY <2>1, <3>1, <3>2
    <2>5. LooksAtAll(w)'
      BY <1>1, <2>1, <2>2, <2>4 DEF LooksAtAll, HoldPcs, UpTo
    <2> QED
      BY <1>2, <2>5, SweeperMoves
  <1> QED
    BY <1>3, <1>4

\* Where the sweep takes, moves and gives back the cursor.
LEMMA CursorKeepsSweep ==
    ASSUME TypeOK, SweepInv, NEW w \in Sweepers,
           SweepStart(w) \/ PageDone(w) \/ Release(w)
    PROVE  SweepInv'
  <1>1. wk \in [Workers -> WorkerRec] /\ w \in Workers /\ LooksAtAll(w)
    BY DEF TypeOK, WorkerRec, Workers, SweepInv
  <1>2. /\ cursor \in [after : Users \cup {Null}, live : BOOLEAN]
        /\ \A v \in Workers : v # w => wk'[v] = wk[v]
        /\ UpTo(Null) = {}
    BY <1>1, UpToNull DEF TypeOK, SweepStart, PageDone, Release
  <1>3. CASE SweepStart(w)
    <2>1. \A v \in Sweepers : wk[v].pc = "idle"
      BY <1>3 DEF SweepStart, SweepInv, OneSweep, Sweeping
    <2>2. \A v \in Sweepers : wk[v].ids = {}
      BY <2>1 DEF SweepInv, LooksAtAll
    <2>3. /\ cursor'.live /\ cursor'.after = cursor.after
          /\ seen' = IF cursor.after = Null THEN {} ELSE seen
          /\ wk'[w].pc = "page" /\ wk'[w].after = cursor.after /\ wk'[w].ids = {}
      BY <1>1, <1>2, <1>3, <2>2 DEF SweepStart, WorkerRec
    <2>4. UpTo(cursor'.after) \subseteq seen'
      BY <1>2, <2>3 DEF SweepInv
    <2>5. \A v \in Sweepers : LooksAtAll(v)'
      BY <1>2, <2>1, <2>2, <2>3, <2>4 DEF LooksAtAll, HoldPcs, UpTo, Workers
    <2>6. OneSweep'
      BY <1>2, <2>1, <2>3, WorkersAssumption DEF SweepInv, OneSweep, Sweeping, Workers
    <2> QED
      BY <2>4, <2>5, <2>6 DEF SweepInv, UpTo
  <1>4. CASE PageDone(w)
    <2>1. wk[w].pc = "next" /\ wk[w].ids = {} /\ seen' = seen
      BY <1>4 DEF PageDone
    <2>2. /\ wk'[w].pc \in {"page", "release"} /\ wk'[w].ids = {}
          /\ wk'[w].after = wk[w].after \/ wk'[w].after = Null
          /\ cursor' = cursor \/ (cursor'.after = wk[w].after /\ cursor'.live)
      BY <1>1, <1>4, <2>1 DEF PageDone, WorkerRec
    <2>3. UpTo(wk[w].after) \subseteq seen
      BY <1>1, <2>1 DEF LooksAtAll
    <2>4. LooksAtAll(w)'
      BY <1>2, <2>1, <2>2, <2>3 DEF LooksAtAll, HoldPcs, UpTo
    <2>5. \A v \in Sweepers : LooksAtAll(v)'
      BY <1>2, <2>1, <2>4 DEF SweepInv, LooksAtAll, UpTo, Workers
    <2>6. OneSweep'
      BY <1>2, <2>1, <2>2, WorkersAssumption DEF SweepInv, OneSweep, Sweeping, Workers
    <2> QED
      BY <2>1, <2>2, <2>3, <2>5, <2>6 DEF SweepInv, UpTo
  <1>5. CASE Release(w)
    <2>1. /\ wk[w].pc = "release" /\ seen' = seen /\ wk'[w] = Idle
          /\ cursor'.after = wk[w].after
      BY <1>1, <1>5 DEF Release
    <2>2. LooksAtAll(w)'
      BY <2>1 DEF LooksAtAll, Idle, HoldPcs
    <2>3. \A v \in Sweepers : LooksAtAll(v)'
      BY <1>2, <2>1, <2>2 DEF SweepInv, LooksAtAll, UpTo, Workers
    <2>4. \A v \in Sweepers : wk'[v].pc = "idle"
      BY <1>2, <2>1 DEF SweepInv, OneSweep, Workers, Idle
    <2>5. OneSweep'
      BY <1>2, <2>4, WorkersAssumption DEF SweepInv, OneSweep, Sweeping, Workers
    <2> QED
      BY <1>1, <2>1, <2>3, <2>5 DEF SweepInv, LooksAtAll, UpTo
  <1> QED
    BY <1>3, <1>4, <1>5

LEMMA CrashKeepsSweep ==
    ASSUME TypeOK, SweepInv, NEW w \in Workers, Crash(w)
    PROVE  SweepInv'
  <1>1. /\ wk \in [Workers -> WorkerRec] /\ cursor' = cursor /\ seen' = seen
        /\ wk' = [wk EXCEPT ![w] = Idle]
    BY DEF TypeOK, WorkerRec, Crash
  <1>2. \A v \in Workers : wk'[v] = wk[v] \/ wk'[v] = Idle
    BY <1>1
  <1>3. Idle.pc = "idle" /\ Idle.ids = {}
    BY DEF Idle
  <1>4. \A v \in Sweepers : LooksAtAll(v)'
    BY <1>1, <1>2, <1>3 DEF SweepInv, LooksAtAll, Workers, HoldPcs
  <1>5. OneSweep'
    BY <1>1, <1>2, <1>3 DEF SweepInv, OneSweep, Sweeping, Workers
  <1> QED
    BY <1>1, <1>4, <1>5 DEF SweepInv

LEMMA AroundKeepsSweep ==
    ASSUME TypeOK, SweepInv, Around
    PROVE  SweepInv'
  <1>1. wk \in [Workers -> WorkerRec] /\ cursor \in [after : Users \cup {Null}, live : BOOLEAN]
    BY DEF TypeOK, WorkerRec
  <1>2. ASSUME NEW w \in Apps, NEW u \in Users, AppStart(w, u) PROVE SweepInv'
    <2>1. /\ cursor' = cursor /\ seen' = seen /\ wk'[w].pc = "claim"
          /\ \A v \in Workers : v # w => wk'[v] = wk[v]
      BY <1>1, <1>2 DEF AppStart, WorkerRec, Workers
    <2>2. \A v \in Sweepers : wk'[v] = wk[v]
      BY <2>1, WorkersAssumption DEF Workers
    <2> QED
      BY <2>1, <2>2 DEF SweepInv, OneSweep, Sweeping, LooksAtAll, Workers
  <1>3. CASE CursorExpires
    BY <1>1, <1>3 DEF CursorExpires, SweepInv, OneSweep, Sweeping, LooksAtAll, world
  <1>4. CASE UNCHANGED <<cursor, wk, seen>>
    BY <1>4 DEF SweepInv, OneSweep, Sweeping, LooksAtAll
  <1> QED
    BY <1>2, <1>3, <1>4 DEF Around, RunExpires, RetryPasses, AbleMoves, Decide, CandMoves

LEMMA SweepStep == TypeOK /\ SweepInv /\ [Next]_vars => SweepInv'
  <1> SUFFICES ASSUME TypeOK, SweepInv, [Next]_vars PROVE SweepInv'
    OBVIOUS
  <1>1. ASSUME NEW w \in Workers,
               ReadPage(w) \/ LastPage(w) \/ NextUser(w) \/ PageDone(w) \/ Release(w)
               \/ OutOfTime(w) \/ SweepFails(w)
        PROVE  SweepInv'
    <2>1. wk[w].pc \in {"page", "next", "release"}
      BY <1>1 DEF ReadPage, LastPage, NextUser, PageDone, Release, OutOfTime, SweepFails
    <2>2. w \in Sweepers
      BY <2>1 DEF SweepInv, OneSweep, Workers
    <2> QED
      BY <1>1, <2>2, ReadPageKeepsSweep, SweepGoesOn, CursorKeepsSweep
  <1>2. ASSUME NEW w \in Workers,
               WorkerStep(w) \/ OutOfTime(w) \/ ClaimFails(w) \/ SweepFails(w) \/ Crash(w)
        PROVE  SweepInv'
    BY <1>1, <1>2, RunKeepsSweep, CrashKeepsSweep DEF WorkerStep
  <1>3. ASSUME NEW w \in Sweepers, SweepStart(w) PROVE SweepInv'
    BY <1>3, CursorKeepsSweep
  <1>4. CASE UNCHANGED vars
    BY <1>4 DEF vars, SweepInv, OneSweep, Sweeping, LooksAtAll
  <1> QED
    BY <1>2, <1>3, <1>4, AroundKeepsSweep DEF Next, Around

\* The cursor of the sweep passes nobody over, whichever calls run out of time,
\* fail or die and whoever becomes a target meanwhile (migration 0034).
THEOREM NobodyIsPassedOver == Spec => []NobodyPassedOver
  <1>1. SweepInv => NobodyPassedOver
    BY DEF SweepInv, NobodyPassedOver, UpTo
  <1>2. Spec => []SweepInv
    BY SweepInit, SweepStep, RecTypeCorrect, PTL DEF Spec
  <1> QED
    BY <1>1, <1>2, PTL
=============================================================================
