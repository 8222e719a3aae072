------------------------------ MODULE ChatClient ------------------------------
(***************************************************************************)
(* The chat screen of one user in one conversation against the server:     *)
(* rows that are sent, sent again and answered late, a realtime channel    *)
(* that loses what happens while it is down, pages and resynchronisations  *)
(* in flight, and what the screen believes about the conversation.         *)
(***************************************************************************)
EXTENDS Naturals, FiniteSets

CONSTANTS
    Cids,     \* client message ids the screen may issue
    MaxTries, \* bound: requests for one message
    MaxTheirs,\* bound: messages of the partner
    MaxInstant,   \* bound: time
    Margin,   \* the 60 seconds of resyncSince
    Page,     \* MESSAGE_PAGE_SIZE
    Cap,      \* the 500 rows of fetchMessagesSince
    MaxFetch, \* bound: reads in flight
    Fails,    \* reads may fail
    MaxRare   \* bound: drops, returns to the foreground, moderation, leaving, reopening

ASSUME CidsAssumption == "theirs" \notin Cids
ASSUME ChatBounds == /\ {MaxTries, Page, Cap, MaxFetch} \subseteq Nat \ {0}
                     /\ Fails \in BOOLEAN
                     /\ {MaxTheirs, MaxInstant, Margin, MaxRare} \subseteq Nat

VARIABLES
    table,    \* rows of public.messages of the conversation
    access,   \* what conversation_access would answer
    instant,
    calls,    \* send_message requests that may still reach the server
    answers,  \* and their answers on the way back
    linked,   \* the channel is SUBSCRIBED
    events,   \* INSERT events on the way to the screen
    changed,  \* an UPDATE event of the match is on the way
    known,    \* server rows of the list
    unsent,    \* the optimistic rows of the list, by client id
    waits,    \* the request of each client id the screen waits for, 0 for none
    tries,    \* requests made for each client id
    draft,    \* the input holds a text
    fetches,  \* reads in flight
    hasMore, loadError,
    detail,   \* reason of the access the screen knows, "none" before
    asking,   \* a refetch of the detail is in flight
    leaving,  \* conversation_leave is in flight
    unread,   \* partner's rows without read_at
    rare      \* how much of MaxRare is used

chatServer == <<table, access, instant, calls, answers, unread>>
channel == <<linked, events, changed>>
thread == <<known, unsent, hasMore, loadError>>
sending == <<waits, tries, draft>>
about == <<detail, asking, leaving>>
chatVars == <<chatServer, channel, thread, sending, about, fetches, rare>>

Reasons == {"ok", "ended", "unavailable"}
Failures == {"network", "blocked", "rate_limited", "repeated"}
Rows == [id : Nat, cid : Cids \cup {"theirs"}, at : Nat]
-----------------------------------------------------------------------------
ChatInit ==
    /\ table = {} /\ access = "ok" /\ instant = 0
    /\ calls = {} /\ answers = {} /\ unread = {}
    /\ linked = FALSE /\ events = {} /\ changed = FALSE
    /\ known = {} /\ unsent = [c \in Cids |-> "none"]
    /\ hasMore = FALSE /\ loadError = FALSE
    /\ waits = [c \in Cids |-> 0] /\ tries = [c \in Cids |-> 0] /\ draft = FALSE
    /\ fetches = {}
    /\ detail = "none" /\ asking = TRUE /\ leaving = FALSE
    /\ rare = 0
-----------------------------------------------------------------------------
\* The order of the list and of the server's index: created_at, then id.
Before(r, s) == r.at < s.at \/ (r.at = s.at /\ r.id < s.id)
Oldest(S) == CHOOSE r \in S : \A s \in S : s = r \/ Before(r, s)
Newest(S) == CHOOSE r \in S : \A s \in S : s = r \/ Before(s, r)
FirstOf(S, n) == {r \in S : Cardinality({s \in S : Before(s, r)}) < n}
LastOf(S, n) == {r \in S : Cardinality({s \in S : Before(r, s)}) < n}

\* A client id is issued once, when a message is written.
NotShown(c) == tries[c] = 0

HasRow(S, c) == \E r \in S : r.cid = c

\* mergeMessages and applyIncoming: a server row replaces the optimistic row of
\* its client id.
Merge(rows) ==
    /\ known' = known \cup rows
    /\ unsent' = [c \in Cids |-> IF HasRow(rows, c) THEN "none" ELSE unsent[c]]

\* setLocalStatus: without effect when the server's row has taken the place.
SetLocal(c, st) ==
    unsent' = [unsent EXCEPT ![c] = IF unsent[c] = "none" THEN "none" ELSE st]

Rare == rare < MaxRare /\ rare' = rare + 1

\* markConversationRead: everything the partner has stored by now, whatever the
\* screen has loaded; its failure is not noticed.
MarkRead == unread' \in {unread, {}}
-----------------------------------------------------------------------------
\* An answer nobody waits for any more is dropped by the connection.
Reply(q, res) ==
    answers' = IF waits[q.cid] = q.try
               THEN answers \cup {[cid |-> q.cid, try |-> q.try, res |-> res]} ELSE answers

\* Slip: every request is inserted as it comes.
SendMessageTwice(q) ==
    /\ q \in calls
    /\ calls' = calls \ {q}
    /\ LET row == [id |-> Cardinality(table) + 1, cid |-> q.cid, at |-> instant]
           result == IF access # "ok" THEN {"blocked"} ELSE {"ok", "rate_limited", "repeated"}
       IN  \E res \in result :
             /\ IF res = "ok"
                THEN /\ table' = table \cup {row}
                     /\ events' = IF linked THEN events \cup {row} ELSE events
                ELSE UNCHANGED <<table, events>>
             /\ Reply(q, res)
    /\ UNCHANGED <<rare, access, instant, unread, linked, changed, thread, sending, about, fetches>>

\* The server. send_message returns the row the same client id has stored; a
\* concurrent second insert ends in the same answer by the unique index.
SendMessage(q) ==
    /\ q \in calls
    /\ calls' = calls \ {q}
    /\ LET stored == HasRow(table, q.cid)
           row == [id |-> Cardinality(table) + 1, cid |-> q.cid, at |-> instant]
           result == IF stored THEN {"ok"} ELSE
                     IF access # "ok" THEN {"blocked"} ELSE {"ok", "rate_limited", "repeated"}
       IN  \E res \in result :
             /\ IF res = "ok" /\ ~stored
                THEN /\ table' = table \cup {row}
                     /\ events' = IF linked THEN events \cup {row} ELSE events
                ELSE UNCHANGED <<table, events>>
             /\ Reply(q, res)
    /\ UNCHANGED <<rare, access, instant, unread, linked, changed, thread, sending, about, fetches>>

\* created_at is the start of the inserting transaction, its commit may come later.
TheyWrite ==
    /\ access = "ok"
    /\ Cardinality({r \in table : r.cid = "theirs"}) < MaxTheirs
    /\ \E at \in {instant, IF instant > 0 /\ Margin > 0 THEN instant - 1 ELSE instant} :
         LET row == [id |-> Cardinality(table) + 1, cid |-> "theirs", at |-> at]
         IN  /\ table' = table \cup {row}
             /\ unread' = unread \cup {row.id}
             /\ events' = IF linked THEN events \cup {row} ELSE events
    /\ UNCHANGED <<rare, access, instant, calls, answers, linked, changed, thread, sending, about, fetches>>

\* The match ends (the partner leaves or blocks, an operator bans), or one of
\* the two is restricted and restored, which is no change of the match row.
AccessChanges ==
    /\ \/ access # "ended" /\ access' = "ended" /\ changed' = linked
       \/ access = "ok" /\ access' = "unavailable" /\ UNCHANGED changed
       \/ access = "unavailable" /\ access' = "ok" /\ UNCHANGED changed
    /\ Rare
    /\ UNCHANGED <<table, instant, calls, answers, unread, linked, events, thread, sending, about, fetches>>

Later ==
    /\ instant < MaxInstant /\ instant' = instant + 1
    /\ UNCHANGED <<rare, table, access, calls, answers, unread, channel, thread, sending, about, fetches>>

\* A request is lost before it reaches the server.
LoseCall ==
    /\ \E q \in calls : calls' = calls \ {q}
    /\ Rare
    /\ UNCHANGED <<table, access, instant, answers, unread, channel, thread, sending, about, fetches>>
\* What the screen offers: an input, a button under a failed row, a button above
\* the list, an entry of the menu.
CanWrite == detail = "ok"
CanRetry(c) == unsent[c] \in {"network", "rate_limited"}
CanLoadOlder == hasMore
CanLeave == detail \in {"ok", "unavailable"} /\ ~leaving

\* makeLocalMessage: the optimistic row of a message.
Optimistic(c) == unsent' = [unsent EXCEPT ![c] = "sending"]
-----------------------------------------------------------------------------
\* resync: what to read is decided by the newest server row of the list.
Resync ==
    fetches' = fetches \cup
        {IF known = {} THEN [kind |-> "page", from |-> 0, to |-> 0, rows |-> {}, read |-> FALSE]
         ELSE [kind |-> "since", to |-> 0, rows |-> {}, read |-> FALSE, from |->
                 IF Newest(known).at > Margin THEN Newest(known).at - Margin ELSE 0]}

Ready == detail # "none"
Room == Cardinality(fetches) < MaxFetch

\* The first detail opens the channel and loads; later ones only inform.
DetailArrives ==
    /\ asking
    /\ asking' = FALSE
    /\ \/ /\ detail' = access
          /\ IF Ready THEN UNCHANGED fetches ELSE Resync
       \/ Ready /\ UNCHANGED <<detail, fetches>>
    /\ UNCHANGED <<rare, leaving, chatServer, channel, thread, sending>>

Subscribed ==
    /\ Ready /\ ~linked /\ Room
    /\ linked' = TRUE
    /\ Resync
    /\ UNCHANGED <<rare, chatServer, events, changed, thread, sending, about>>

\* TIMED_OUT, CLOSED, CHANNEL_ERROR: the client library subscribes again.
ChannelDrops ==
    /\ linked
    /\ linked' = FALSE /\ events' = {} /\ changed' = FALSE
    /\ Rare
    /\ UNCHANGED <<chatServer, thread, sending, about, fetches>>

OnMessage ==
    /\ \E r \in events :
         /\ events' = events \ {r}
         /\ Merge({r})
         /\ IF r.cid = "theirs" THEN MarkRead ELSE UNCHANGED unread
    /\ UNCHANGED <<rare, table, access, instant, calls, answers, linked, changed,
                   hasMore, loadError, sending, about, fetches>>

OnMatchChanged ==
    /\ changed /\ changed' = FALSE
    /\ asking' = TRUE
    /\ UNCHANGED <<rare, chatServer, linked, events, thread, sending, detail, leaving, fetches>>

\* The app returns to the foreground, or the user taps the load error.
Foreground ==
    /\ Ready /\ Room
    /\ Resync
    /\ asking' \in {TRUE} \cup (IF loadError THEN {asking} ELSE {})
    /\ Rare
    /\ UNCHANGED <<chatServer, channel, thread, sending, detail, leaving>>

\* loadOlder: one at a time, from the oldest server row of the list.
LoadOlder ==
    /\ CanLoadOlder /\ known # {} /\ Room
    /\ ~\E f \in fetches : f.kind = "older"
    /\ fetches' = fetches \cup {[kind |-> "older", from |-> Oldest(known).at, to |-> Oldest(known).id,
                                 rows |-> {}, read |-> FALSE]}
    /\ Rare
    /\ UNCHANGED <<chatServer, channel, thread, sending, about>>

\* fetchMessagesPage and fetchMessagesSince on the server.
Selected(f) ==
    CASE f.kind = "page"  -> LastOf(table, Page)
      [] f.kind = "since" -> FirstOf({r \in table : r.at >= f.from}, Cap)
      [] f.kind = "older" -> LastOf({r \in table : Before(r, [at |-> f.from, id |-> f.to])}, Page)

ServerReads ==
    /\ \E f \in fetches :
         /\ ~f.read
         /\ fetches' = (fetches \ {f}) \cup {[f EXCEPT !.read = TRUE, !.rows = Selected(f)]}
    /\ UNCHANGED <<rare, chatServer, channel, thread, sending, about>>

\* An answer is merged; a failed read leaves the list alone and says so. A
\* resync marks everything read after either.
FetchEnds ==
    /\ \E f \in fetches :
         /\ fetches' = fetches \ {f}
         /\ \/ /\ f.read
               /\ Merge(f.rows)
               /\ hasMore' = IF f.kind = "since" THEN hasMore ELSE Cardinality(f.rows) >= Page
               /\ loadError' = IF f.kind = "older" THEN loadError ELSE FALSE
            \/ Fails /\ loadError' = TRUE /\ UNCHANGED <<known, unsent, hasMore>>
         /\ IF f.kind = "older" THEN UNCHANGED unread ELSE MarkRead
    /\ UNCHANGED <<rare, table, access, instant, calls, answers, channel, sending, about>>
-----------------------------------------------------------------------------
\* deliver: one request under the client id of the message.
Deliver(c) ==
    /\ tries[c] < MaxTries
    /\ tries' = [tries EXCEPT ![c] = @ + 1]
    /\ waits' = [waits EXCEPT ![c] = tries[c] + 1]
    /\ calls' = calls \cup {[cid |-> c, try |-> tries[c] + 1]}

\* Nobody types what no client id is left for.
TypeText ==
    /\ CanWrite /\ ~draft
    /\ \E c \in Cids : NotShown(c)
    /\ draft' = TRUE
    /\ UNCHANGED <<rare, chatServer, channel, thread, waits, tries, about, fetches>>

\* send: a new client id, an optimistic row, an empty input.
Send ==
    /\ draft /\ CanWrite
    /\ \E c \in Cids :
         /\ NotShown(c)
         /\ Optimistic(c)
         /\ Deliver(c)
    /\ draft' = FALSE
    /\ UNCHANGED <<rare, table, access, instant, answers, unread, channel,
                   known, hasMore, loadError, about, fetches>>

\* Slip: the status is set, the request forgotten.
RetryOnlyLooks ==
    /\ \E c \in Cids :
         /\ CanRetry(c)
         /\ SetLocal(c, "sending")
    /\ UNCHANGED <<rare, chatServer, channel, known, hasMore, loadError, sending, about, fetches>>

\* The button under a row that failed on the way or came too fast.
RetrySend ==
    /\ \E c \in Cids :
         /\ CanRetry(c)
         /\ SetLocal(c, "sending")
         /\ Deliver(c)
    /\ UNCHANGED <<rare, table, access, instant, answers, unread, channel,
                   known, hasMore, loadError, draft, about, fetches>>

\* discardFailed: the text returns to an input that holds none.
Discard ==
    /\ \E c \in Cids :
         /\ unsent[c] \in Failures
         /\ unsent' = [unsent EXCEPT ![c] = "none"]
    /\ draft' = TRUE
    /\ UNCHANGED <<rare, chatServer, channel, known, hasMore, loadError, waits, tries, about, fetches>>

\* Slip: the row is taken off before the stored one is in the list.
AnswerDropsRow(c) ==
    /\ waits[c] > 0
    /\ \E a \in answers :
         /\ a.cid = c /\ a.try = waits[c]
         /\ waits' = [waits EXCEPT ![c] = 0]
         /\ answers' = answers \ {a}
         /\ unsent' = [unsent EXCEPT ![c] = IF a.res = "ok" THEN "none" ELSE a.res]
         /\ asking' = (asking \/ a.res = "blocked")
    /\ UNCHANGED <<rare, table, access, instant, calls, unread, channel, known, hasMore, loadError,
                   tries, draft, detail, leaving, fetches>>

\* The answer the screen waits for: the stored row is merged, an error is
\* classified, a refusal makes it ask how the conversation stands.
Answer(c) ==
    /\ waits[c] > 0
    /\ \E a \in answers :
         /\ a.cid = c /\ a.try = waits[c]
         /\ waits' = [waits EXCEPT ![c] = 0]
         /\ answers' = answers \ {a}
         /\ IF a.res = "ok"
            THEN Merge({r \in table : r.cid = c}) /\ UNCHANGED asking
            ELSE /\ SetLocal(c, a.res) /\ UNCHANGED known
                 /\ asking' = (asking \/ a.res = "blocked")
    /\ UNCHANGED <<rare, table, access, instant, calls, unread, channel, hasMore, loadError,
                   tries, draft, detail, leaving, fetches>>

\* The connection breaks or times out: whether the row is stored is unknown.
NoAnswer(c) ==
    /\ waits[c] > 0
    /\ waits' = [waits EXCEPT ![c] = 0]
    /\ answers' = {a \in answers : a.cid # c}
    /\ SetLocal(c, "network")
    /\ UNCHANGED <<rare, table, access, instant, calls, unread, channel, known, hasMore, loadError,
                   tries, draft, about, fetches>>

\* doLeave: the match ends once; a lost answer shows an error and may be tried
\* again, an answer refetches the detail.
Leave ==
    /\ CanLeave
    /\ leaving' = TRUE
    /\ Rare
    /\ UNCHANGED <<chatServer, channel, thread, sending, detail, asking, fetches>>

LeaveEnds ==
    /\ leaving /\ leaving' = FALSE
    /\ \/ UNCHANGED <<access, changed>>
       \/ access' = "ended" /\ changed' = (changed \/ (linked /\ access # "ended"))
    /\ asking' \in {asking} \cup (IF access' = "ended" THEN {TRUE} ELSE {})
    /\ UNCHANGED <<rare, table, instant, calls, answers, unread, linked, events, thread, sending, detail, fetches>>

\* The screen is left and opened again: only what the server has remains.
ReopenChat ==
    /\ Ready
    /\ known' = {} /\ unsent' = [c \in Cids |-> "none"]
    /\ hasMore' = FALSE /\ loadError' = FALSE
    /\ linked' = FALSE /\ events' = {} /\ changed' = FALSE
    /\ waits' = [c \in Cids |-> 0] /\ draft' = FALSE
    /\ answers' = {} /\ fetches' = {}
    /\ detail' = "none" /\ asking' = TRUE /\ leaving' = FALSE
    /\ Rare
    /\ UNCHANGED <<table, access, instant, calls, unread, tries>>
-----------------------------------------------------------------------------
ServerNext == (\E q \in calls : SendMessage(q)) \/ TheyWrite \/ AccessChanges \/ Later \/ LoseCall
ChannelNext == Subscribed \/ ChannelDrops \/ OnMessage \/ OnMatchChanged
ReadNext == DetailArrives \/ Foreground \/ LoadOlder \/ ServerReads \/ FetchEnds
Replied == \E c \in Cids : Answer(c) \/ NoAnswer(c)
UserNext == TypeText \/ Send \/ RetrySend \/ Discard \/ Leave \/ LeaveEnds \/ ReopenChat

ChatNext == ServerNext \/ ChannelNext \/ ReadNext \/ Replied \/ UserNext

ChatSpec == ChatInit /\ [][ChatNext]_chatVars
-----------------------------------------------------------------------------
ChatTypeOK ==
    /\ table \subseteq Rows /\ IsFiniteSet(table)
    /\ access \in Reasons /\ detail \in Reasons \cup {"none"}
    /\ instant \in Nat /\ rare \in Nat
    /\ calls \subseteq [cid : Cids, try : Nat]
    /\ answers \subseteq [cid : Cids, try : Nat, res : {"ok"} \cup Failures]
    /\ unsent \in [Cids -> {"none", "sending"} \cup Failures]
    /\ waits \in [Cids -> Nat] /\ tries \in [Cids -> Nat]
    /\ \A f \in fetches : f.kind \in {"page", "since", "older"}
    /\ {linked, changed, draft, hasMore, loadError, asking, leaving} \subseteq BOOLEAN
    /\ unread \subseteq {r.id : r \in table}

\* However often a message is sent, whoever answers first and in whatever order
\* answers, events and reads arrive: it is stored once, the list shows it once
\* (its optimistic row or the stored one), and a row that says "sending" has a
\* request the screen still waits for (send, deliver, retry, mergeMessages,
\* send_message).
OnceEach ==
    /\ \A r, s \in table : r.cid = s.cid /\ r.cid \in Cids => r = s
    /\ \A c \in Cids : unsent[c] # "none" => ~HasRow(known, c)
    /\ \A c \in Cids : unsent[c] = "sending" => waits[c] > 0

\* What the screen holds comes from the table, what the table holds was sent, and
\* an answer "ok" is given for a stored row.
Traces ==
    /\ known \subseteq table /\ events \subseteq table
    /\ \A f \in fetches : f.rows \subseteq table
    /\ \A r \in table : r.cid \in Cids => tries[r.cid] > 0
    /\ \A q \in calls : tries[q.cid] > 0
    /\ \A a \in answers : a.res = "ok" => HasRow(table, a.cid)

\* The inductive invariant.
ChatInv == ChatTypeOK /\ OnceEach /\ Traces

\* While the screen is open, a message on its way leaves the list only for its
\* stored row; it never just disappears.
NothingVanishes ==
    [][\A c \in Cids :
          (unsent[c] = "sending" /\ detail' # "none") => (unsent'[c] # "none" \/ HasRow(known', c))]_chatVars

\* What resyncSince promises: once the channel is up again, nothing is on its
\* way and no read has failed, rows missed in between have been merged.
Quiet == linked /\ events = {} /\ fetches = {} /\ ~loadError
MissedAreRecovered ==
    Quiet /\ known # {} => \A r \in table : Before(Oldest(known), r) => r \in known
=============================================================================
