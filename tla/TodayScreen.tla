------------------------------ MODULE TodayScreen ------------------------------
(***************************************************************************)
(* The home screen with the introduction of the day, and the list of       *)
(* conversations beside it.  Both keep the last answer of their query      *)
(* (react-query: a new fetch drops the answer of the one under way, a      *)
(* failed fetch is repeated once, the data of the last success stays).     *)
(* "server" is what the database holds about this person, "today" and      *)
(* "talks" are the two queries, "home" is the state of the screen.         *)
(***************************************************************************)
EXTENDS Naturals, FiniteSets

CONSTANTS
    MaxTalks,     \* conversations a person may have
    MaxCards,      \* bound: introductions
    MaxFetches,    \* bound: fetches nobody's decision asks for
    MaxLost        \* bound: calls without an answer

ASSUME TodayBounds == {MaxTalks, MaxCards} \subseteq Nat

VARIABLES server, today, talks, home
todayScreen == <<server, today, talks, home>>

Attempts == 3
None == {}
DayCards == 1 .. MaxCards

NoQuery == [phase |-> "idle", attempt |-> 1, reply |-> None, broke |-> FALSE,
            data |-> None, failed |-> FALSE]
Nothing == [does |-> "none", card |-> 0, reply |-> None]

TodayInit ==
    /\ server = [made |-> 0, card |-> 0, run |-> "none", status |-> [c \in DayCards |-> "none"],
                 liked |-> {}, talks |-> [c \in DayCards |-> "none"], fetches |-> 0, lost |-> 0]
    /\ today = [NoQuery EXCEPT !.phase = "asking"]
    /\ talks = NoQuery
    /\ home = [call |-> Nothing, busy |-> FALSE, matched |-> 0, decided |-> {}]

Active == {c \in DayCards : server.talks[c] = "active"}
Full == Cardinality(Active) >= MaxTalks

-----------------------------------------------------------------------------
\* The server.  Its runs are those of RecommendationRuns: only how they end
\* matters here.

RunStarts ==
    /\ server.run \in {"none", "exhausted", "capped"}
    /\ server' = [server EXCEPT !.run = "running"]
    /\ UNCHANGED <<today, talks, home>>

RunEnds ==
    /\ server.run = "running"
    /\ \/ Full /\ server' = [server EXCEPT !.run = "full"]
       \/ /\ ~Full
          /\ \/ \E r \in {"exhausted", "capped"} : server' = [server EXCEPT !.run = r]
             \/ /\ server.made < MaxCards
                /\ server' = [server EXCEPT !.run = "ok", !.made = @ + 1, !.card = server.made + 1,
                                !.status[server.made + 1] = "pending"]
    /\ UNCHANGED <<today, talks, home>>

\* A new day has no introduction yet; the one of yesterday may still wait.
NewDay ==
    /\ server.run \in {"ok", "full"}
    /\ server' = [server EXCEPT !.run = "none", !.card = 0]
    /\ UNCHANGED <<today, talks, home>>

\* A conversation begins when both like.
Liking(c, s) ==
    IF c \in s.liked /\ s.status[c] = "accepted" /\ s.talks[c] = "none"
      THEN [s EXCEPT !.talks[c] = "active"] ELSE s

\* The other person likes too, which needs a place of this one when it makes a
\* conversation.
OtherLikes ==
    /\ \E c \in (1 .. server.made) \ server.liked :
         /\ server.status[c] = "accepted" => ~Full
         /\ server' = Liking(c, [server EXCEPT !.liked = @ \cup {c}])
    /\ UNCHANGED <<today, talks, home>>

\* A conversation ends.
TalkEnds ==
    /\ \E c \in Active : server' = [server EXCEPT !.talks[c] = "ended"]
    /\ UNCHANGED <<today, talks, home>>

\* A card ends without an answer of this person.
CardExpires ==
    /\ \E c \in DayCards : server.status[c] = "pending" /\ server' = [server EXCEPT !.status[c] = "expired"]
    /\ UNCHANGED <<today, talks, home>>

-----------------------------------------------------------------------------
\* What the two calls answer.

Stored == {[id |-> c, status |-> server.status[c]] :
             c \in {d \in DayCards : d = server.card /\ server.status[d] # "expired"}}

Introductions ==
    [recs |-> Stored,
     inProgress |-> server.run = "running" /\ Stored = None,
     exhausted |-> server.run \in {"exhausted", "capped"} /\ Stored = None,
     capped |-> server.run = "capped" /\ Stored = None,
     full |-> server.run = "full" /\ Stored = None]

Conversations ==
    [active |-> Active,
     closed |-> {c \in DayCards : server.talks[c] = "ended"}]

StartFetch(q) == [q EXCEPT !.phase = "asking", !.attempt = 1, !.reply = None, !.broke = FALSE,
                      !.failed = @ /\ q.data # None]

\* A plausible slip: a fetch that is under way is taken for the new one.
BeginIfIdle(q) == IF q.phase = "asking" THEN q ELSE StartFetch(q)

\* A fetch replaces the one under way, whose answer is dropped.
FetchAnew(q) == StartFetch(q)

Serves(q, answer) == [q EXCEPT !.reply = {answer}]
Breaks(q) == [q EXCEPT !.broke = TRUE]

Lost == server.lost < MaxLost /\ server' = [server EXCEPT !.lost = @ + 1]

\* The call reaches the server and reads, or fails.  A call that finds no run
\* makes one: it reads after the run's end.
ServeToday ==
    /\ today.phase = "asking" /\ today.reply = None /\ ~today.broke
    /\ \/ server.run # "none" /\ today' = Serves(today, Introductions) /\ UNCHANGED server
       \/ Lost /\ today' = Breaks(today)
    /\ UNCHANGED <<talks, home>>

ServeTalks ==
    /\ talks.phase = "asking" /\ talks.reply = None /\ ~talks.broke
    /\ \/ talks' = Serves(talks, Conversations) /\ UNCHANGED server
       \/ Lost /\ talks' = Breaks(talks)
    /\ UNCHANGED <<today, home>>

\* A fetch that failed, also when it was repeated once, is shown as an error.
Failing(q) == [q EXCEPT !.phase = "idle", !.broke = FALSE, !.failed = TRUE]
Showing(q, answer) == [q EXCEPT !.phase = "idle", !.reply = None, !.failed = FALSE, !.data = {answer}]

\* fetchTodayRecommendations: while the server still works it is asked again,
\* three times.
ReceiveToday ==
    /\ \/ today.broke /\ today' = Failing(today)
       \/ \E answer \in today.reply :
            today' = IF answer.inProgress /\ today.attempt < Attempts
                       THEN [today EXCEPT !.attempt = @ + 1, !.reply = None]
                       ELSE Showing(today, answer)
    /\ UNCHANGED <<server, talks, home>>

ReceiveTalks ==
    /\ \/ talks.broke /\ talks' = Failing(talks)
       \/ \E answer \in talks.reply : talks' = Showing(talks, answer)
    /\ UNCHANGED <<server, today, home>>

\* "Try again", "check again", the return to the list, a conversation that was
\* left in the chat.
Refetch ==
    /\ server.fetches < MaxFetches
    /\ server' = [server EXCEPT !.fetches = @ + 1]
    /\ \/ today' = FetchAnew(today) /\ UNCHANGED talks
       \/ talks' = FetchAnew(talks) /\ UNCHANGED today
    /\ UNCHANGED home

-----------------------------------------------------------------------------
\* The screen.

Loading(q) == q.data = None /\ ~q.failed
AnswerShown(q) == IF Loading(q) \/ q.failed THEN None ELSE q.data

\* The card on the screen.
Pending == UNION {{r.id : r \in {x \in a.recs : x.status = "pending"}} : a \in AnswerShown(today)}

\* The explanation in its place.  A match just made hides all but the card.
Explains(a) ==
    IF home.matched # 0 THEN "matched"
    ELSE IF a.inProgress THEN "in_progress"
    ELSE IF a.full THEN "slots_full"
    ELSE IF a.exhausted THEN (IF a.capped THEN "not_all_seen" ELSE "nobody")
    ELSE IF \E r \in a.recs : r.status = "accepted" THEN "wait" ELSE "tomorrow"

ScreenSays ==
    (IF Loading(today) THEN {"searching"} ELSE {})
    \cup (IF today.failed THEN {"error"} ELSE {})
    \cup (IF Pending # {} THEN {"card"} ELSE {Explains(a) : a \in AnswerShown(today)})

\* "I would like to know them", or "not this time" with or without a reason.
Choose ==
    /\ ~home.busy
    /\ \E c \in Pending, what \in {"accept", "skip"} :
         home' = [home EXCEPT !.busy = TRUE, !.call = [does |-> what, card |-> c, reply |-> None]]
    /\ UNCHANGED <<server, today, talks>>

\* recommendation_accept: without a place nothing is stored; an acceptance
\* that is repeated is told how things stand.
ExecuteAccept ==
    LET c == home.call.card
        after == Liking(c, [server EXCEPT !.status[c] = "accepted"])
        Answers(answer) == home' = [home EXCEPT !.call.reply = {answer}]
    IN /\ home.call.does = "accept" /\ home.call.reply = None
       /\ \/ /\ server.status[c] = "accepted"
             /\ Answers(IF server.talks[c] = "active" THEN "matched" ELSE "liked")
             /\ UNCHANGED server
          \/ /\ server.status[c] = "pending" /\ ~Full
             /\ server' = after
             /\ Answers(IF after.talks[c] = "active" THEN "matched" ELSE "liked")
          \/ /\ server.status[c] = "pending" /\ Full
             /\ Answers("no_slot_self") /\ UNCHANGED server
          \/ /\ server.status[c] = "pending" /\ ~Full /\ c \in server.liked
             /\ Answers("no_slot_partner") /\ UNCHANGED server
          \/ /\ server.status[c] \notin {"pending", "accepted"}
             /\ Answers("failed") /\ UNCHANGED server
       /\ UNCHANGED <<today, talks>>

\* The update of a skip, which a trigger guards: only a card that waits, or one
\* that is skipped already.
ExecuteSkip ==
    LET c == home.call.card
        stores == server.status[c] \in {"pending", "skipped"}
    IN /\ home.call.does = "skip" /\ home.call.reply = None
       /\ server' = IF stores THEN [server EXCEPT !.status[c] = "skipped"] ELSE server
       /\ home' = [home EXCEPT !.call.reply = {IF stores THEN "skipped" ELSE "failed"}]
       /\ UNCHANGED <<today, talks>>

\* The call does not arrive, or its answer does not come back.
LoseDecision ==
    /\ home.call.does \in {"accept", "skip"} /\ home.call.reply # {"failed"}
    /\ Lost
    /\ home' = [home EXCEPT !.call.reply = {"failed"}]
    /\ UNCHANGED <<today, talks>>

\* A failure, and an answer that there is no place, leave the card on the
\* screen with a notice.
Told ==
    /\ \E answer \in home.call.reply :
         \/ /\ answer \in {"failed", "no_slot_self", "no_slot_partner"}
            /\ home' = [home EXCEPT !.busy = FALSE, !.call = Nothing]
            /\ UNCHANGED today
         \/ /\ answer \in {"matched", "liked", "skipped"}
            /\ home' = [home EXCEPT !.matched = IF answer = "matched" THEN home.call.card ELSE @,
                          !.decided = @ \cup {home.call.card},
                          !.call = [does |-> "today", card |-> 0, reply |-> None]]
            /\ today' = FetchAnew(today)
    /\ UNCHANGED <<server, talks>>

\* After a decision both queries are read anew, one after the other.
TodayRead ==
    /\ home.call.does = "today" /\ today.phase = "idle"
    /\ home' = [home EXCEPT !.call.does = "talks"]
    /\ talks' = FetchAnew(talks)
    /\ UNCHANGED <<server, today>>

TalksRead ==
    /\ home.call.does = "talks" /\ talks.phase = "idle"
    /\ home' = [home EXCEPT !.call = Nothing, !.busy = FALSE]
    /\ UNCHANGED <<server, today, talks>>

TodayNext ==
    \/ RunStarts \/ RunEnds \/ NewDay \/ OtherLikes \/ TalkEnds \/ CardExpires
    \/ ServeToday \/ ServeTalks \/ ReceiveToday \/ ReceiveTalks \/ Refetch
    \/ Choose \/ ExecuteAccept \/ ExecuteSkip \/ LoseDecision \/ Told \/ TodayRead \/ TalksRead

TodaySpec == TodayInit /\ [][TodayNext]_todayScreen

-----------------------------------------------------------------------------
\* A card that was decided here, and whose decision was answered, is never on
\* the screen again once the screen is ready, whatever fetches were under way
\* (index.tsx:103).
DecidedIsGone == ~home.busy => Pending \cap home.decided = {}

\* The screen always says exactly one thing (index.tsx:127-302), and "nobody"
\* and "no place" only when no card waits in the answer it shows.
OneExplanation ==
    /\ Cardinality(ScreenSays) = 1
    /\ \A a \in AnswerShown(today) : a.exhausted \/ a.full \/ a.inProgress => a.recs = None

\* Who is told of a match has a conversation with that person, still open or
\* ended later, and it was this person's own acceptance.
MatchIsReal == home.matched # 0 => server.talks[home.matched] # "none"

\* The list never shows more than the places, and a conversation is never in
\* both of its parts.
ListTrue ==
    \A a \in AnswerShown(talks) :
        /\ Cardinality(a.active) <= MaxTalks
        /\ a.active \cap a.closed = {}

TodayInv == DecidedIsGone /\ OneExplanation /\ MatchIsReal /\ ListTrue
================================================================================
