------------------------------ MODULE ChatProofs ------------------------------
(***************************************************************************)
(* Proofs about the two screens that merge answers of the server into what *)
(* they show. ChatClient: every message is stored once and shown once, and *)
(* none on its way vanishes. TodayScreen: a decided card stays gone.       *)
(***************************************************************************)
EXTENDS ChatClient, TodayScreen, FiniteSetTheorems, TLAPS

USE DEF HasRow, NotShown, Optimistic, CanWrite, CanRetry, CanLoadOlder, CanLeave

\* Merging rows that the server has stored keeps what the list promises.
LEMMA MergeKeeps ==
    ASSUME OnceEach, Traces, ChatTypeOK, NEW rows, rows \subseteq table, table' = table, Merge(rows)
    PROVE  /\ known' \subseteq table'
           /\ unsent' \in [Cids -> {"none", "sending"} \cup Failures]
           /\ \A c \in Cids : unsent'[c] # "none" => ~HasRow(known', c)
           /\ \A c \in Cids : unsent'[c] # "none" => unsent'[c] = unsent[c]
BY DEF OnceEach, Traces, ChatTypeOK, Merge, Failures

LEMMA SetLocalKeeps ==
    ASSUME OnceEach, ChatTypeOK, NEW c \in Cids, NEW st \in {"sending"} \cup Failures, SetLocal(c, st)
    PROVE  /\ unsent' \in [Cids -> {"none", "sending"} \cup Failures]
           /\ \A d \in Cids : unsent'[d] # "none" => unsent[d] # "none"
           /\ \A d \in Cids : d # c => unsent'[d] = unsent[d]
           /\ unsent'[c] \in {"none", st}
BY DEF OnceEach, ChatTypeOK, SetLocal, Failures

\* A new row of the table has an id of its own kind and comes from a request.
LEMMA RowCount == ASSUME ChatTypeOK PROVE Cardinality(table) + 1 \in Nat
<1>1. Cardinality(table) \in Nat BY FS_CardinalityType DEF ChatTypeOK
<1> QED BY <1>1

LEMMA InitInv == ChatInit => ChatInv
<1> SUFFICES ASSUME ChatInit PROVE ChatInv OBVIOUS
<1>1. IsFiniteSet({}) BY FS_EmptySet
<1> QED BY <1>1 DEF ChatInit, ChatInv, ChatTypeOK, OnceEach, Traces, Failures, Reasons

LEMMA SendMessageInv ==
    ASSUME ChatInv, NEW q \in calls, SendMessage(q) PROVE ChatInv'
<1> USE DEF ChatInv
<1>0. q.cid \in Cids /\ tries[q.cid] > 0 BY DEF ChatTypeOK, Traces
<1> DEFINE row == [id |-> Cardinality(table) + 1, cid |-> q.cid, at |-> instant]
           stored == HasRow(table, q.cid)
<1>1. /\ calls' \subseteq calls
      /\ UNCHANGED <<access, instant, unread, linked, changed, thread, sending, about, fetches, rare>>
   BY DEF SendMessage
<1>2. PICK res \in {"ok"} \cup Failures :
         /\ IF res = "ok" /\ ~stored
            THEN /\ table' = table \cup {row}
                 /\ events' = IF linked THEN events \cup {row} ELSE events
            ELSE UNCHANGED <<table, events>>
         /\ Reply(q, res)
   BY DEF SendMessage, Failures
<1>3. row \in Rows BY <1>0, RowCount DEF ChatTypeOK, Rows
<1>4. IsFiniteSet(table \cup {row}) BY FS_AddElement DEF ChatTypeOK
<1>5. table \subseteq table' /\ table' \subseteq Rows /\ IsFiniteSet(table') BY <1>2, <1>3, <1>4 DEF ChatTypeOK
<1>6. answers' \subseteq answers \cup {[cid |-> q.cid, try |-> q.try, res |-> res]}
   BY <1>2 DEF Reply
<1>7. res = "ok" => HasRow(table', q.cid)
  <2>1. row.cid = q.cid OBVIOUS
  <2>2. CASE stored BY <2>2, <1>2, <1>5
  <2>3. CASE ~stored /\ res = "ok"
    <3>1. row \in table' BY <2>3, <1>2
    <3> QED BY <3>1, <2>1
  <2> QED BY <2>2, <2>3
<1>8. ChatTypeOK'
  <2>1. [cid |-> q.cid, try |-> q.try, res |-> res] \in [cid : Cids, try : Nat, res : {"ok"} \cup Failures]
     BY <1>2 DEF ChatTypeOK
  <2>2. answers' \subseteq [cid : Cids, try : Nat, res : {"ok"} \cup Failures] BY <2>1, <1>6 DEF ChatTypeOK
  <2>3. unread' \subseteq {r.id : r \in table'} BY <1>1, <1>5 DEF ChatTypeOK
  <2> QED BY <2>2, <2>3, <1>1, <1>5 DEF ChatTypeOK, thread, sending, about
<1>9. OnceEach'
  <2>1. \A r, s \in table' : r.cid = s.cid /\ r.cid \in Cids => r = s BY <1>2 DEF OnceEach
  <2> QED BY <2>1, <1>1 DEF OnceEach, thread, sending
<1>10. Traces'
  <2>1. known' \subseteq table' /\ events' \subseteq table' /\ \A f \in fetches' : f.rows \subseteq table'
     BY <1>1, <1>2, <1>5 DEF Traces, thread
  <2>2. \A r \in table' : r.cid \in Cids => tries'[r.cid] > 0 BY <1>0, <1>1, <1>2 DEF Traces, sending
  <2>3. \A a \in answers' : a.res = "ok" => HasRow(table', a.cid) BY <1>5, <1>6, <1>7 DEF Traces
  <2> QED BY <2>1, <2>2, <2>3, <1>1 DEF Traces, sending
<1> QED BY <1>8, <1>9, <1>10

LEMMA TheyWriteInv == ASSUME ChatInv, TheyWrite PROVE ChatInv'
<1> USE DEF ChatInv
<1>1. PICK at \in {instant, IF instant > 0 /\ Margin > 0 THEN instant - 1 ELSE instant} :
         /\ table' = table \cup {[id |-> Cardinality(table) + 1, cid |-> "theirs", at |-> at]}
         /\ unread' = unread \cup {Cardinality(table) + 1}
         /\ events' = IF linked THEN events \cup {[id |-> Cardinality(table) + 1, cid |-> "theirs", at |-> at]}
                      ELSE events
   BY DEF TheyWrite
<1>9. at \in Nat BY <1>1 DEF ChatTypeOK
<1> DEFINE row == [id |-> Cardinality(table) + 1, cid |-> "theirs", at |-> at]
<1>2. UNCHANGED <<rare, access, instant, calls, answers, linked, changed, thread, sending, about, fetches>>
   BY DEF TheyWrite
<1>3. row \in Rows BY <1>9, RowCount DEF ChatTypeOK, Rows
<1>4. IsFiniteSet(table') BY <1>1, FS_AddElement DEF ChatTypeOK
<1>5. unread' \subseteq {r.id : r \in table'} BY <1>1 DEF ChatTypeOK
<1>6. ChatTypeOK' BY <1>1, <1>2, <1>3, <1>4, <1>5 DEF ChatTypeOK, thread, sending, about
<1>7. OnceEach' BY <1>1, <1>2, CidsAssumption DEF OnceEach, thread, sending
<1>8. Traces' BY <1>1, <1>2, CidsAssumption DEF Traces, thread, sending
<1> QED BY <1>6, <1>7, <1>8

LEMMA AroundInv ==
    ASSUME ChatInv, AccessChanges \/ Later \/ LoseCall \/ ChannelDrops \/ OnMatchChanged
    PROVE  ChatInv'
<1> USE DEF ChatInv, thread, sending, about, channel, chatServer, Rare
<1>1. CASE AccessChanges
  <2>1. /\ access' \in Reasons /\ changed' \in BOOLEAN /\ rare' \in Nat
        /\ UNCHANGED <<table, instant, calls, answers, unread, linked, events, thread, sending, about, fetches>>
     BY <1>1 DEF AccessChanges, ChatTypeOK, Reasons
  <2> QED BY <2>1 DEF ChatTypeOK, OnceEach, Traces
<1>2. CASE Later BY <1>2 DEF Later, ChatTypeOK, OnceEach, Traces
<1>3. CASE LoseCall BY <1>3 DEF LoseCall, ChatTypeOK, OnceEach, Traces
<1>4. CASE ChannelDrops
  <2>1. linked' = FALSE /\ changed' = FALSE /\ events' = {} BY <1>4 DEF ChannelDrops
  <2>3. rare' \in Nat BY <1>4 DEF ChannelDrops, ChatTypeOK
  <2>2. UNCHANGED <<chatServer, thread, sending, about, fetches>> BY <1>4 DEF ChannelDrops
  <2> QED BY <2>1, <2>2, <2>3 DEF ChatTypeOK, OnceEach, Traces
<1>5. CASE OnMatchChanged BY <1>5 DEF OnMatchChanged, ChatTypeOK, OnceEach, Traces
<1> QED BY <1>1, <1>2, <1>3, <1>4, <1>5

\* What a read brings was in the table when the server read it.
LEMMA SelectedStored ==
    ASSUME NEW f, f.kind \in {"page", "since", "older"} PROVE Selected(f) \subseteq table
BY DEF Selected, LastOf, FirstOf

LEMMA ResyncKeeps ==
    ASSUME ChatInv, Resync, table' = table
    PROVE  \A f \in fetches' : f.kind \in {"page", "since", "older"} /\ f.rows \subseteq table'
BY DEF ChatInv, ChatTypeOK, Traces, Resync

LEMMA ReadInv ==
    ASSUME ChatInv, DetailArrives \/ Subscribed \/ Foreground \/ LoadOlder \/ ServerReads
    PROVE  ChatInv'
<1> USE DEF ChatInv, thread, sending, about, channel, chatServer, Rare
<1>1. CASE DetailArrives
  <2>1. \A f \in fetches' : f.kind \in {"page", "since", "older"} /\ f.rows \subseteq table'
     BY <1>1, ResyncKeeps DEF DetailArrives, ChatTypeOK, Traces
  <2> QED BY <2>1, <1>1 DEF DetailArrives, ChatTypeOK, OnceEach, Traces
<1>2. CASE Subscribed
  <2>1. \A f \in fetches' : f.kind \in {"page", "since", "older"} /\ f.rows \subseteq table'
     BY <1>2, ResyncKeeps DEF Subscribed
  <2> QED BY <2>1, <1>2 DEF Subscribed, ChatTypeOK, OnceEach, Traces
<1>3. CASE Foreground
  <2>1. \A f \in fetches' : f.kind \in {"page", "since", "older"} /\ f.rows \subseteq table'
     BY <1>3, ResyncKeeps DEF Foreground
  <2>2. asking' \in BOOLEAN
    <3>1. asking \in BOOLEAN BY DEF ChatTypeOK
    <3>2. asking' \in {TRUE, asking} BY <1>3 DEF Foreground
    <3> QED BY <3>1, <3>2
  <2>3. UNCHANGED <<chatServer, channel, thread, sending, detail, leaving>> BY <1>3 DEF Foreground
  <2>4. rare' \in Nat BY <1>3 DEF Foreground, ChatTypeOK
  <2> QED BY <2>1, <2>2, <2>3, <2>4 DEF ChatTypeOK, OnceEach, Traces
<1>4. CASE LoadOlder BY <1>4 DEF LoadOlder, ChatTypeOK, OnceEach, Traces
<1>5. CASE ServerReads
  <2>1. PICK f \in fetches :
           fetches' = (fetches \ {f}) \cup {[f EXCEPT !.read = TRUE, !.rows = Selected(f)]}
     BY <1>5 DEF ServerReads
  <2>2. f.kind \in {"page", "since", "older"} BY DEF ChatTypeOK
  <2>3. [f EXCEPT !.read = TRUE, !.rows = Selected(f)].rows \subseteq table
     BY <2>2, SelectedStored
  <2>4. [f EXCEPT !.read = TRUE, !.rows = Selected(f)].kind = f.kind OBVIOUS
  <2> QED BY <2>1, <2>2, <2>3, <2>4, <1>5 DEF ServerReads, ChatTypeOK, OnceEach, Traces
<1> QED BY <1>1, <1>2, <1>3, <1>4, <1>5

LEMMA MergeInv ==
    ASSUME ChatInv, OnMessage \/ FetchEnds PROVE ChatInv'
<1> USE DEF ChatInv
<1>1. CASE OnMessage
  <2>1. PICK r \in events : events' = events \ {r} /\ Merge({r})
     BY <1>1 DEF OnMessage
  <2>2. UNCHANGED <<rare, table, access, instant, calls, answers, linked, changed,
                    hasMore, loadError, sending, about, fetches>>
     BY <1>1 DEF OnMessage
  <2>3. unread' \subseteq unread BY <1>1 DEF OnMessage, MarkRead
  <2>4. {r} \subseteq table BY DEF Traces
  <2> QED BY <2>1, <2>2, <2>3, <2>4, MergeKeeps DEF ChatTypeOK, OnceEach, Traces, sending, about
<1>2. CASE FetchEnds
  <2>1. PICK f \in fetches :
           /\ fetches' = fetches \ {f}
           /\ \/ Merge(f.rows) /\ loadError' \in {loadError, FALSE} /\ hasMore' \in BOOLEAN
              \/ loadError' = TRUE /\ UNCHANGED <<known, unsent, hasMore>>
    <3>1. PICK f \in fetches :
             /\ fetches' = fetches \ {f}
             /\ \/ /\ Merge(f.rows)
                   /\ hasMore' = IF f.kind = "since" THEN hasMore ELSE Cardinality(f.rows) >= Page
                   /\ loadError' = IF f.kind = "older" THEN loadError ELSE FALSE
                \/ loadError' = TRUE /\ UNCHANGED <<known, unsent, hasMore>>
       BY <1>2 DEF FetchEnds
    <3>2. hasMore \in BOOLEAN /\ loadError \in BOOLEAN BY DEF ChatTypeOK
    <3>3. (Cardinality(f.rows) >= Page) \in BOOLEAN OBVIOUS
    <3> QED BY <3>1, <3>2, <3>3
  <2>2. UNCHANGED <<rare, table, access, instant, calls, answers, channel, sending, about>>
     BY <1>2 DEF FetchEnds
  <2>3. unread' \subseteq unread BY <1>2 DEF FetchEnds, MarkRead
  <2>4. f.rows \subseteq table BY DEF Traces
  <2>5. CASE Merge(f.rows) /\ loadError' \in {loadError, FALSE} /\ hasMore' \in BOOLEAN
     BY <2>5, <2>1, <2>2, <2>3, <2>4, MergeKeeps DEF ChatTypeOK, OnceEach, Traces, sending, about, channel
  <2>6. CASE loadError' = TRUE /\ UNCHANGED <<known, unsent, hasMore>>
     BY <2>6, <2>1, <2>2, <2>3 DEF ChatTypeOK, OnceEach, Traces, sending, about, channel
  <2> QED BY <2>1, <2>5, <2>6
<1> QED BY <1>1, <1>2

\* A request carries its client id and counts as a try.
LEMMA DeliverKeeps ==
    ASSUME ChatInv, NEW c \in Cids, Deliver(c)
    PROVE  /\ waits' \in [Cids -> Nat] /\ tries' \in [Cids -> Nat]
           /\ waits'[c] > 0 /\ tries'[c] > 0
           /\ \A d \in Cids : d # c => waits'[d] = waits[d] /\ tries'[d] = tries[d]
           /\ calls' \subseteq [cid : Cids, try : Nat]
           /\ \A q \in calls' : tries'[q.cid] > 0
<1> USE DEF ChatInv
<1>1. tries[c] + 1 \in Nat /\ tries[c] + 1 > 0 BY DEF ChatTypeOK
<1>2. /\ tries' = [tries EXCEPT ![c] = tries[c] + 1]
      /\ waits' = [waits EXCEPT ![c] = tries[c] + 1]
      /\ calls' = calls \cup {[cid |-> c, try |-> tries[c] + 1]}
   BY DEF Deliver
<1>3. tries \in [Cids -> Nat] /\ waits \in [Cids -> Nat] BY DEF ChatTypeOK
<1>4. /\ tries' \in [Cids -> Nat] /\ waits' \in [Cids -> Nat]
      /\ waits'[c] > 0 /\ tries'[c] > 0
      /\ \A d \in Cids : d # c => waits'[d] = waits[d] /\ tries'[d] = tries[d]
   BY <1>1, <1>2, <1>3
<1>5. [cid |-> c, try |-> tries[c] + 1] \in [cid : Cids, try : Nat] BY <1>1
<1>6. calls' \subseteq [cid : Cids, try : Nat] BY <1>2, <1>5 DEF ChatTypeOK
<1>7. \A q \in calls' : tries'[q.cid] > 0
  <2> SUFFICES ASSUME NEW q \in calls' PROVE tries'[q.cid] > 0 OBVIOUS
  <2>1. CASE q \in calls
    <3>1. q.cid \in Cids /\ tries[q.cid] > 0 BY <2>1 DEF ChatTypeOK, Traces
    <3> QED BY <3>1, <1>4
  <2>2. CASE q = [cid |-> c, try |-> tries[c] + 1] BY <2>2, <1>4
  <2> QED BY <2>1, <2>2, <1>2
<1> QED BY <1>4, <1>6, <1>7

LEMMA SendInv == ASSUME ChatInv, Send \/ RetrySend PROVE ChatInv'
<1> USE DEF ChatInv
<1>1. CASE Send
  <2>1. PICK c \in Cids : tries[c] = 0 /\ unsent' = [unsent EXCEPT ![c] = "sending"] /\ Deliver(c)
     BY <1>1 DEF Send
  <2>2. UNCHANGED <<rare, table, access, instant, answers, unread, channel, known, hasMore, loadError, about, fetches>>
        /\ draft' = FALSE
     BY <1>1 DEF Send
  <2>3. ~HasRow(known, c) BY <2>1 DEF Traces
  <2>4. ChatTypeOK' BY <2>1, <2>2, DeliverKeeps DEF ChatTypeOK, channel, about
  <2>5. OnceEach' BY <2>1, <2>2, <2>3, DeliverKeeps DEF OnceEach, ChatTypeOK
  <2>6. Traces'
    <3>1. \A r \in table' : r.cid \in Cids => tries'[r.cid] > 0 BY <2>1, <2>2, DeliverKeeps DEF Traces
    <3> QED BY <3>1, <2>1, <2>2, DeliverKeeps DEF Traces, channel
  <2> QED BY <2>4, <2>5, <2>6
<1>2. CASE RetrySend
  <2>1. PICK c \in Cids : unsent[c] \in {"network", "rate_limited"} /\ SetLocal(c, "sending") /\ Deliver(c)
     BY <1>2 DEF RetrySend
  <2>2. UNCHANGED <<rare, table, access, instant, answers, unread, channel, known, hasMore, loadError, draft, about, fetches>>
     BY <1>2 DEF RetrySend
  <2>4. ChatTypeOK' BY <2>1, <2>2, DeliverKeeps, SetLocalKeeps DEF ChatTypeOK, channel, about
  <2>5. OnceEach' BY <2>1, <2>2, DeliverKeeps, SetLocalKeeps DEF OnceEach
  <2>6. Traces'
    <3>1. \A r \in table' : r.cid \in Cids => tries'[r.cid] > 0 BY <2>1, <2>2, DeliverKeeps DEF Traces
    <3> QED BY <3>1, <2>1, <2>2, DeliverKeeps DEF Traces, channel
  <2> QED BY <2>4, <2>5, <2>6
<1> QED BY <1>1, <1>2

LEMMA AnswerInv == ASSUME ChatInv, NEW c \in Cids, Answer(c) \/ NoAnswer(c) PROVE ChatInv'
<1> USE DEF ChatInv
<1>0. waits \in [Cids -> Nat] BY DEF ChatTypeOK
<1>1. CASE Answer(c)
  <2>1. PICK a \in answers :
           /\ a.cid = c
           /\ waits' = [waits EXCEPT ![c] = 0]
           /\ answers' = answers \ {a}
           /\ IF a.res = "ok"
              THEN Merge({r \in table : r.cid = c}) /\ UNCHANGED asking
              ELSE SetLocal(c, a.res) /\ UNCHANGED known /\ asking' = (asking \/ a.res = "blocked")
     BY <1>1 DEF Answer
  <2>2. UNCHANGED <<rare, table, access, instant, calls, unread, channel, hasMore, loadError,
                    tries, draft, detail, leaving, fetches>>
     BY <1>1 DEF Answer
  <2>3. asking' \in BOOLEAN BY <2>1 DEF ChatTypeOK
  <2>4. CASE a.res = "ok"
    <3>1. HasRow({r \in table : r.cid = c}, c) BY <2>1, <2>4 DEF Traces
    <3>2. Merge({r \in table : r.cid = c}) BY <2>1, <2>4
    <3>3. unsent'[c] = "none" BY <3>1, <3>2 DEF Merge
    <3>4. ChatTypeOK' BY <2>1, <2>2, <2>3, <3>2, <1>0, MergeKeeps DEF ChatTypeOK, channel
    <3>5. OnceEach' BY <2>1, <2>2, <3>2, <3>3, <1>0, MergeKeeps DEF OnceEach
    <3>6. Traces' BY <2>1, <2>2, <3>2, MergeKeeps DEF Traces, channel
    <3> QED BY <3>4, <3>5, <3>6
  <2>5. CASE a.res # "ok"
    <3>1. a.res \in Failures /\ SetLocal(c, a.res) BY <2>1, <2>5 DEF ChatTypeOK
    <3>2. unsent'[c] # "sending" BY <3>1, SetLocalKeeps DEF Failures
    <3>4. ChatTypeOK' BY <2>1, <2>2, <2>3, <2>5, <3>1, <1>0, SetLocalKeeps DEF ChatTypeOK, channel
    <3>5. OnceEach' BY <2>1, <2>2, <2>5, <3>1, <3>2, <1>0, SetLocalKeeps DEF OnceEach
    <3>6. Traces' BY <2>1, <2>2, <2>5 DEF Traces, channel
    <3> QED BY <3>4, <3>5, <3>6
  <2> QED BY <2>4, <2>5
<1>2. CASE NoAnswer(c)
  <2>1. /\ waits' = [waits EXCEPT ![c] = 0] /\ answers' \subseteq answers /\ SetLocal(c, "network")
        /\ UNCHANGED <<rare, table, access, instant, calls, unread, channel, known, hasMore, loadError,
                       tries, draft, about, fetches>>
     BY <1>2 DEF NoAnswer
  <2>2. "network" \in Failures BY DEF Failures
  <2>3. unsent'[c] # "sending" BY <2>1, <2>2, SetLocalKeeps
  <2>4. ChatTypeOK' BY <2>1, <2>2, <1>0, SetLocalKeeps DEF ChatTypeOK, channel, about
  <2>5. OnceEach' BY <2>1, <2>2, <2>3, <1>0, SetLocalKeeps DEF OnceEach
  <2>6. Traces' BY <2>1 DEF Traces, channel
  <2> QED BY <2>4, <2>5, <2>6
<1> QED BY <1>1, <1>2

LEMMA UserInv ==
    ASSUME ChatInv, TypeText \/ Discard \/ Leave \/ LeaveEnds \/ ReopenChat PROVE ChatInv'
<1> USE DEF ChatInv, thread, sending, about, channel, chatServer, Rare
<1>1. CASE TypeText BY <1>1 DEF TypeText, ChatTypeOK, OnceEach, Traces
<1>2. CASE Discard BY <1>2 DEF Discard, ChatTypeOK, OnceEach, Traces, Failures
<1>3. CASE Leave BY <1>3 DEF Leave, ChatTypeOK, OnceEach, Traces
<1>4. CASE LeaveEnds
  <2>1. /\ access' \in Reasons /\ changed' \in BOOLEAN /\ asking' \in BOOLEAN /\ leaving' = FALSE
     BY <1>4 DEF LeaveEnds, ChatTypeOK, Reasons
  <2>2. UNCHANGED <<rare, table, instant, calls, answers, unread, linked, events, thread, sending, detail, fetches>>
     BY <1>4 DEF LeaveEnds
  <2> QED BY <2>1, <2>2 DEF ChatTypeOK, OnceEach, Traces
<1>5. CASE ReopenChat
  <2>1. /\ known' = {} /\ events' = {} /\ answers' = {} /\ fetches' = {}
        /\ unsent' = [c \in Cids |-> "none"] /\ waits' = [c \in Cids |-> 0]
        /\ UNCHANGED <<table, access, instant, calls, unread, tries>> /\ rare' \in Nat
     BY <1>5 DEF ReopenChat, ChatTypeOK
  <2>2. /\ detail' = "none"
        /\ {linked', changed', draft', hasMore', loadError', asking', leaving'} \subseteq BOOLEAN
     BY <1>5 DEF ReopenChat
  <2>3. waits' \in [Cids -> Nat] /\ unsent' \in [Cids -> {"none", "sending"} \cup Failures] BY <2>1
  <2>4. OnceEach' BY <2>1 DEF OnceEach
  <2>5. Traces' BY <2>1 DEF Traces
  <2>6. ChatTypeOK' BY <2>1, <2>2, <2>3 DEF ChatTypeOK
  <2> QED BY <2>4, <2>5, <2>6
<1> QED BY <1>1, <1>2, <1>3, <1>4, <1>5

LEMMA NextInv == ChatInv /\ [ChatNext]_chatVars => ChatInv'
<1> SUFFICES ASSUME ChatInv, [ChatNext]_chatVars PROVE ChatInv' OBVIOUS
<1>1. CASE ServerNext BY <1>1, SendMessageInv, TheyWriteInv, AroundInv DEF ServerNext
<1>2. CASE ChannelNext BY <1>2, ReadInv, MergeInv, AroundInv DEF ChannelNext
<1>3. CASE ReadNext BY <1>3, ReadInv, MergeInv DEF ReadNext
<1>4. CASE Replied BY <1>4, AnswerInv DEF Replied
<1>5. CASE UserNext BY <1>5, SendInv, UserInv DEF UserNext
<1>6. CASE UNCHANGED chatVars
   BY <1>6 DEF chatVars, thread, sending, about, channel, chatServer, ChatInv, ChatTypeOK, OnceEach, Traces
<1> QED BY <1>1, <1>2, <1>3, <1>4, <1>5, <1>6 DEF ChatNext

\* Each message is stored once and shown once, through lost answers, repeated
\* requests and whatever order answers, events and reads arrive in.
THEOREM ChatInductive == ChatSpec => []ChatInv
<1>1. ChatInit => ChatInv BY InitInv
<1>2. ChatInv /\ [ChatNext]_chatVars => ChatInv' BY NextInv
<1> QED BY <1>1, <1>2, PTL DEF ChatSpec

\* A row on its way that merged rows take the place of is among them.
LEMMA MergeReplaces ==
    ASSUME NEW rows, Merge(rows), NEW c \in Cids, unsent[c] = "sending"
    PROVE  unsent'[c] # "none" \/ HasRow(known', c)
BY DEF Merge

LEMMA SetLocalStays ==
    ASSUME ChatTypeOK, NEW d \in Cids, NEW st \in {"sending"} \cup Failures, SetLocal(d, st),
           NEW c \in Cids, unsent[c] = "sending"
    PROVE  unsent'[c] # "none"
BY DEF ChatTypeOK, SetLocal, Failures

LEMMA StaysInList ==
    ASSUME ChatInv, [ChatNext]_chatVars, NEW c \in Cids, unsent[c] = "sending", detail' # "none"
    PROVE  unsent'[c] # "none" \/ HasRow(known', c)
<1> USE DEF thread
<1>0. ChatTypeOK /\ unsent \in [Cids -> {"none", "sending"} \cup Failures] BY DEF ChatInv, ChatTypeOK
<1>1. CASE ServerNext
   BY <1>1 DEF ServerNext, SendMessage, TheyWrite, AccessChanges, Later, LoseCall
<1>2. CASE ChannelNext
  <2>1. CASE OnMessage
    <3>1. PICK r \in events : Merge({r}) BY <2>1 DEF OnMessage
    <3> QED BY <3>1, MergeReplaces
  <2> QED BY <2>1, <1>2 DEF ChannelNext, Subscribed, ChannelDrops, OnMatchChanged
<1>3. CASE ReadNext
  <2>1. CASE FetchEnds
    <3>1. PICK f \in fetches : Merge(f.rows) \/ UNCHANGED unsent BY <2>1 DEF FetchEnds
    <3> QED BY <3>1, MergeReplaces
  <2> QED BY <2>1, <1>3 DEF ReadNext, DetailArrives, Foreground, LoadOlder, ServerReads
<1>4. CASE Replied
  <2>1. PICK d \in Cids : Answer(d) \/ NoAnswer(d) BY <1>4 DEF Replied
  <2>2. CASE Answer(d)
    <3>1. PICK a \in answers : IF a.res = "ok" THEN Merge({r \in table : r.cid = d}) ELSE SetLocal(d, a.res)
       BY <2>2 DEF Answer
    <3>2. CASE a.res = "ok" BY <3>1, <3>2, MergeReplaces
    <3>3. CASE a.res # "ok"
      <4>1. a.res \in Failures BY <3>3, <1>0 DEF ChatTypeOK
      <4> QED BY <4>1, <3>1, <3>3, <1>0, SetLocalStays
    <3> QED BY <3>2, <3>3
  <2>3. CASE NoAnswer(d)
    <3>1. SetLocal(d, "network") /\ "network" \in Failures BY <2>3 DEF NoAnswer, Failures
    <3> QED BY <3>1, <1>0, SetLocalStays
  <2> QED BY <2>1, <2>2, <2>3
<1>5. CASE UserNext
  <2>1. CASE Send
    <3>1. PICK d \in Cids : unsent' = [unsent EXCEPT ![d] = "sending"] BY <2>1 DEF Send
    <3> QED BY <3>1, <1>0
  <2>2. CASE RetrySend
    <3>1. PICK d \in Cids : SetLocal(d, "sending") BY <2>2 DEF RetrySend
    <3> QED BY <3>1, <1>0, SetLocalStays
  <2>3. CASE Discard
    <3>1. PICK d \in Cids : unsent[d] \in Failures /\ unsent' = [unsent EXCEPT ![d] = "none"]
       BY <2>3 DEF Discard
    <3>2. d # c BY <3>1 DEF Failures
    <3> QED BY <3>1, <3>2, <1>0
  <2>4. ~ReopenChat BY DEF ReopenChat
  <2> QED BY <2>1, <2>2, <2>3, <2>4, <1>5 DEF UserNext, TypeText, Leave, LeaveEnds
<1>6. CASE UNCHANGED chatVars BY <1>6 DEF chatVars
<1> QED BY <1>1, <1>2, <1>3, <1>4, <1>5, <1>6 DEF ChatNext

\* While the screen is open, a message on its way leaves the list only for its
\* stored row, whatever arrives in between.
THEOREM MessagesStay == ChatSpec => NothingVanishes
<1>1. ChatInv /\ [ChatNext]_chatVars =>
        [\A c \in Cids : (unsent[c] = "sending" /\ detail' # "none")
             => (unsent'[c] # "none" \/ HasRow(known', c))]_chatVars
   BY StaysInList
<1>2. ChatSpec => []ChatInv BY ChatInductive
<1> QED BY <1>1, <1>2, PTL DEF ChatSpec, NothingVanishes

-----------------------------------------------------------------------------
\* The home screen (TodayScreen): its cards, its two queries, its places.

IntroStatus == {"none", "pending", "accepted", "skipped", "expired"}
ServerRec ==
    [made : 0 .. MaxCards, card : 0 .. MaxCards,
     run : {"none", "running", "ok", "full", "exhausted", "capped"},
     status : [DayCards -> IntroStatus], liked : SUBSET DayCards,
     talks : [DayCards -> {"none", "active", "ended"}], fetches : Nat, lost : Nat]
IntroCard == [id : DayCards, status : IntroStatus]
CardsAnswer ==
    [recs : SUBSET IntroCard, inProgress : BOOLEAN, exhausted : BOOLEAN, capped : BOOLEAN, full : BOOLEAN]
TalksAnswer == [active : SUBSET DayCards, closed : SUBSET DayCards]
QueryOf(A) ==
    [phase : {"idle", "asking"}, attempt : Nat, reply : SUBSET A, broke : BOOLEAN,
     data : SUBSET A, failed : BOOLEAN]
Outcomes == {"matched", "liked", "skipped", "failed", "no_slot_self", "no_slot_partner"}
CallRec ==
    [does : {"none", "accept", "skip", "today", "talks"}, card : 0 .. MaxCards, reply : SUBSET Outcomes]
HomeRec == [call : CallRec, busy : BOOLEAN, matched : 0 .. MaxCards, decided : SUBSET DayCards]

AtMostOne(S) == \A x, y \in S : x = y
Answered(c) == server.status[c] \notin {"none", "pending"}

\* What an answer for the cards says of none holds, what one for the
\* conversations lists has its places, and whether a set of cards is gone from it.
Honest(a) == a.exhausted \/ a.full \/ a.inProgress => a.recs = None
Fits(a) == Cardinality(a.active) <= MaxTalks /\ a.active \cap a.closed = {}
Lacks(a, S) == \A r \in a.recs : r.status = "pending" => r.id \notin S

ServerOK ==
    /\ server \in ServerRec
    /\ \A c \in DayCards : c > server.made => server.status[c] = "none"
    /\ Cardinality(Active) <= MaxTalks

CardsOK ==
    /\ today \in QueryOf(CardsAnswer)
    /\ AtMostOne(today.reply) /\ AtMostOne(today.data)
    /\ \A a \in today.reply \cup today.data : Honest(a)

TalksOK ==
    /\ talks \in QueryOf(TalksAnswer)
    /\ \A a \in talks.reply \cup talks.data : Fits(a)

HomeOK ==
    /\ home \in HomeRec
    /\ home.busy <=> home.call.does # "none"
    /\ home.matched # 0 => server.talks[home.matched] # "none"
    /\ home.call.reply # None => home.call.does \in {"accept", "skip"}
    /\ home.call.does \in {"accept", "skip"} => home.call.card \in DayCards
    /\ home.call.reply \cap {"matched", "liked", "skipped"} # {} => Answered(home.call.card)
    /\ "matched" \in home.call.reply => server.talks[home.call.card] # "none"

\* A decision stays one on the server.  What was read since it was answered has
\* not the card, and what was read before is being replaced or shows as an error.
DecidedOK ==
    /\ \A c \in home.decided : Answered(c)
    /\ \A a \in today.reply : Lacks(a, home.decided)
    /\ \/ \A a \in today.data : Lacks(a, home.decided)
       \/ today.failed
       \/ home.call.does = "today" /\ today.phase = "asking"

TodayKept == ServerOK /\ CardsOK /\ TalksOK /\ HomeOK /\ DecidedOK

\* What no step takes back on the server.
StaysDecided ==
    \A c \in DayCards :
        /\ Answered(c) => Answered(c)'
        /\ server.talks[c] # "none" => server'.talks[c] # "none"

LEMMA CardsFinite == IsFiniteSet(DayCards) /\ \A S \in SUBSET DayCards : IsFiniteSet(S) /\ Cardinality(S) \in Nat
<1>1. IsFiniteSet(DayCards) BY TodayBounds, FS_Interval DEF DayCards
<1> QED BY <1>1, FS_Subset, FS_CardinalityType

LEMMA PlacesStay ==
    ASSUME Cardinality(Active) <= MaxTalks, NEW c \in DayCards,
           \A d \in DayCards : d # c => server'.talks[d] = server.talks[d],
           server'.talks[c] = "active" => server.talks[c] = "active" \/ ~Full
    PROVE  Cardinality(Active') <= MaxTalks
<1>0. Active \in SUBSET DayCards /\ Active' \in SUBSET DayCards BY DEF Active
<1>1. IsFiniteSet(Active) /\ Cardinality(Active) \in Nat /\ MaxTalks \in Nat
   BY <1>0, CardsFinite, TodayBounds
<1>2. CASE server'.talks[c] = "active" /\ server.talks[c] # "active"
  <2>1. Active' = Active \cup {c} /\ c \notin Active BY <1>2 DEF Active
  <2>2. Cardinality(Active') = Cardinality(Active) + 1 BY <2>1, <1>1, FS_AddElement
  <2>3. ~(Cardinality(Active) >= MaxTalks) BY <1>2 DEF Full
  <2> QED BY <2>2, <2>3, <1>1
<1>3. CASE ~(server'.talks[c] = "active" /\ server.talks[c] # "active")
  <2>1. Active' \subseteq Active BY <1>3 DEF Active
  <2>2. Cardinality(Active') <= Cardinality(Active) /\ Cardinality(Active') \in Nat
     BY <2>1, <1>0, <1>1, FS_Subset, CardsFinite
  <2> QED BY <2>2, <1>1
<1> QED BY <1>2, <1>3

\* The cards stay as they are.
SameCards ==
    /\ server' \in ServerRec /\ server'.made = server.made
    /\ server'.status = server.status /\ server'.talks = server.talks

LEMMA SameCardsKeep == ASSUME ServerOK, SameCards PROVE ServerOK' /\ StaysDecided
<1>1. Active' = Active BY DEF SameCards, Active
<1> QED BY <1>1 DEF ServerOK, SameCards, StaysDecided, Answered

\* One card gets another answer.
OneCard(c, s) ==
    /\ server' \in ServerRec /\ server'.talks = server.talks
    /\ server'.made >= server.made /\ server'.made >= c
    /\ server'.status[c] = s
    /\ \A d \in DayCards : d # c => server'.status[d] = server.status[d]

LEMMA OneCardKeeps ==
    ASSUME ServerOK, NEW c \in DayCards, NEW s, OneCard(c, s), ~Answered(c) \/ s \notin {"none", "pending"}
    PROVE  ServerOK' /\ StaysDecided
<1>1. Active' = Active BY DEF OneCard, Active
<1>2. /\ server.made \in Nat /\ server'.made \in Nat
      /\ server'.made >= server.made /\ server'.made >= c
   BY DEF OneCard, ServerOK, ServerRec
<1>3. \A d \in DayCards : d > server'.made => d > server.made /\ d # c BY <1>2 DEF DayCards
<1> QED BY <1>1, <1>3 DEF OneCard, ServerOK, StaysDecided, Answered

LEMMA ServerEdits ==
    ASSUME NEW q \in ServerRec, NEW c \in DayCards, NEW s \in IntroStatus
    PROVE  LET r == [q EXCEPT !.status[c] = s] IN
           /\ r \in ServerRec /\ r.status[c] = s
           /\ \A d \in DayCards : d # c => r.status[d] = q.status[d]
           /\ r.talks = q.talks /\ r.made = q.made /\ r.liked = q.liked
BY DEF ServerRec

LEMMA LikingKeeps ==
    ASSUME NEW q \in ServerRec, NEW c \in DayCards
    PROVE  LET r == Liking(c, q) IN
           /\ r \in ServerRec /\ r.status = q.status /\ r.made = q.made
           /\ \A d \in DayCards : d # c => r.talks[d] = q.talks[d]
           /\ r.talks[c] \in {q.talks[c], "active"}
           /\ r.talks[c] # q.talks[c] => q.status[c] = "accepted"
<1>1. CASE c \in q.liked /\ q.status[c] = "accepted" /\ q.talks[c] = "none"
  <2>1. Liking(c, q) = [q EXCEPT !.talks[c] = "active"] BY <1>1 DEF Liking
  <2> QED BY <1>1, <2>1 DEF ServerRec
<1>2. CASE ~(c \in q.liked /\ q.status[c] = "accepted" /\ q.talks[c] = "none")
  <2>1. Liking(c, q) = q BY <1>2 DEF Liking
  <2> QED BY <2>1
<1> QED BY <1>1, <1>2

\* What a fetch, an answer and a failure make of a query.
LEMMA FetchFacts ==
    ASSUME NEW A, NEW q \in QueryOf(A)
    PROVE  LET r == FetchAnew(q) IN
           /\ r \in QueryOf(A) /\ r.phase = "asking" /\ r.reply = None /\ r.data = q.data
           /\ q.failed /\ q.data # None => r.failed
<1>1. q.data \in SUBSET A /\ q.failed \in BOOLEAN BY DEF QueryOf
<1>2. (q.failed /\ q.data # None) \in BOOLEAN OBVIOUS
<1> QED BY <1>1, <1>2 DEF QueryOf, FetchAnew, StartFetch, None

LEMMA ServesFacts ==
    ASSUME NEW A, NEW q \in QueryOf(A), NEW a \in A
    PROVE  LET r == Serves(q, a) IN
           r \in QueryOf(A) /\ r.reply = {a} /\ r.data = q.data /\ r.phase = q.phase /\ r.failed = q.failed
BY DEF QueryOf, Serves

LEMMA BreaksFacts ==
    ASSUME NEW A, NEW q \in QueryOf(A)
    PROVE  LET r == Breaks(q) IN
           r \in QueryOf(A) /\ r.reply = q.reply /\ r.data = q.data /\ r.phase = q.phase /\ r.failed = q.failed
BY DEF QueryOf, Breaks

LEMMA FailingFacts ==
    ASSUME NEW A, NEW q \in QueryOf(A)
    PROVE  LET r == Failing(q) IN r \in QueryOf(A) /\ r.reply = q.reply /\ r.data = q.data /\ r.failed
BY DEF QueryOf, Failing

LEMMA ShowingFacts ==
    ASSUME NEW A, NEW q \in QueryOf(A), NEW a \in A
    PROVE  LET r == Showing(q, a) IN r \in QueryOf(A) /\ r.reply = None /\ r.data = {a}
BY DEF QueryOf, Showing, None

LEMMA AgainFacts ==
    ASSUME NEW A, NEW q \in QueryOf(A)
    PROVE  LET r == [q EXCEPT !.attempt = @ + 1, !.reply = None] IN
           r \in QueryOf(A) /\ r.reply = None /\ r.data = q.data /\ r.phase = q.phase /\ r.failed = q.failed
<1>1. q.attempt + 1 \in Nat BY DEF QueryOf
<1> QED BY <1>1 DEF QueryOf, None

\* The screen stays as it is while the server moves.
LEMMA HomeStays == ASSUME HomeOK, StaysDecided, UNCHANGED home PROVE HomeOK'
<1>1. home.matched # 0 => home.matched \in DayCards BY DEF HomeOK, HomeRec, DayCards
<1>2. home.call.card \in DayCards /\ Answered(home.call.card) => Answered(home.call.card)'
   BY DEF StaysDecided, Answered
<1>3. home.call.card \in DayCards /\ server.talks[home.call.card] # "none" => server'.talks[home.call.card] # "none"
   BY DEF StaysDecided
<1>4. home.matched # 0 => server'.talks[home.matched] # "none" BY <1>1 DEF StaysDecided, HomeOK
<1> QED BY <1>2, <1>3, <1>4 DEF HomeOK, None

LEMMA DecidedStays ==
    ASSUME HomeOK, DecidedOK, StaysDecided, UNCHANGED <<home, today>> PROVE DecidedOK'
<1>1. home.decided \subseteq DayCards BY DEF HomeOK, HomeRec
<1> QED BY <1>1 DEF DecidedOK, StaysDecided

LEMMA NothingMoves == ASSUME UNCHANGED server PROVE StaysDecided
BY DEF StaysDecided, Answered

LEMMA ServerUnchanged == ASSUME ServerOK, UNCHANGED server PROVE ServerOK' /\ StaysDecided
BY NothingMoves DEF ServerOK, Active

-----------------------------------------------------------------------------
\* The steps of the server.
LEMMA ServerMovesInv ==
    ASSUME TodayKept, RunStarts \/ RunEnds \/ NewDay \/ OtherLikes \/ TalkEnds \/ CardExpires
    PROVE  TodayKept'
<1> USE DEF TodayKept
<1>0. server \in ServerRec /\ UNCHANGED <<today, talks, home>>
   BY DEF ServerOK, RunStarts, RunEnds, NewDay, OtherLikes, TalkEnds, CardExpires
<1> SUFFICES ServerOK' /\ StaysDecided BY <1>0, HomeStays, DecidedStays DEF CardsOK, TalksOK
<1>1. CASE RunStarts \/ NewDay
  <2>1. ASSUME RunStarts PROVE SameCards
    <3>1. server' = [server EXCEPT !.run = "running"] BY <2>1 DEF RunStarts
    <3> QED BY <1>0, <3>1 DEF SameCards, ServerRec
  <2>2. ASSUME NewDay PROVE SameCards
    <3>1. server' = [server EXCEPT !.run = "none", !.card = 0] /\ 0 \in 0 .. MaxCards
       BY <2>2, TodayBounds DEF NewDay
    <3> QED BY <1>0, <3>1 DEF SameCards, ServerRec
  <2>3. SameCards BY <1>1, <2>1, <2>2
  <2> QED BY <2>3, SameCardsKeep
<1>2. CASE RunEnds
  <2>1. CASE \E r \in {"full", "exhausted", "capped"} : server' = [server EXCEPT !.run = r]
    <3>1. SameCards BY <1>0, <2>1 DEF SameCards, ServerRec
    <3> QED BY <3>1, SameCardsKeep
  <2>2. CASE /\ server.made < MaxCards
             /\ server' = [server EXCEPT !.run = "ok", !.made = @ + 1, !.card = server.made + 1,
                             !.status[server.made + 1] = "pending"]
    <3> DEFINE c == server.made + 1
    <3>1. server.made \in Nat /\ MaxCards \in Nat /\ c \in DayCards /\ c \in 0 .. MaxCards
       BY <1>0, <2>2, TodayBounds DEF ServerRec, DayCards
    <3>2. server.status[c] = "none" BY <3>1 DEF ServerOK
    <3>4. server' \in ServerRec /\ server'.talks = server.talks /\ server'.made = c
          /\ server'.status[c] = "pending" /\ \A d \in DayCards : d # c => server'.status[d] = server.status[d]
       BY <1>0, <2>2, <3>1 DEF ServerRec, IntroStatus
    <3>3. OneCard(c, "pending") BY <3>1, <3>4 DEF OneCard
    <3> QED BY <3>1, <3>2, <3>3, OneCardKeeps DEF Answered
  <2> QED BY <1>2, <2>1, <2>2 DEF RunEnds
<1>3. CASE OtherLikes
  <2>1. PICK c \in DayCards :
           /\ server.status[c] = "accepted" => ~Full
           /\ server' = Liking(c, [server EXCEPT !.liked = @ \cup {c}])
    <3>1. server.made \in 0 .. MaxCards BY <1>0 DEF ServerRec
    <3>2. 1 .. server.made \subseteq DayCards BY <3>1, TodayBounds DEF DayCards
    <3> QED BY <1>3, <3>2 DEF OtherLikes
  <2> DEFINE q == [server EXCEPT !.liked = @ \cup {c}]
  <2>2. q \in ServerRec /\ q.status = server.status /\ q.talks = server.talks /\ q.made = server.made
     BY <1>0 DEF ServerRec
  <2>3. server' = Liking(c, q) BY <2>1
  <2> HIDE DEF q
  <2>4. /\ server' \in ServerRec /\ server'.status = server.status /\ server'.made = server.made
        /\ \A d \in DayCards : d # c => server'.talks[d] = server.talks[d]
        /\ server'.talks[c] \in {server.talks[c], "active"}
        /\ server'.talks[c] # server.talks[c] => server.status[c] = "accepted"
     BY <2>2, <2>3, LikingKeeps
  <2>5. Cardinality(Active') <= MaxTalks BY <2>1, <2>4, PlacesStay DEF ServerOK
  <2> QED BY <2>4, <2>5 DEF ServerOK, StaysDecided, Answered
<1>4. CASE TalkEnds
  <2>1. PICK c \in Active : server' = [server EXCEPT !.talks[c] = "ended"] BY <1>4 DEF TalkEnds
  <2>2. c \in DayCards BY DEF Active
  <2>3. /\ server' \in ServerRec /\ server'.status = server.status /\ server'.made = server.made
        /\ server'.talks[c] = "ended"
        /\ \A d \in DayCards : d # c => server'.talks[d] = server.talks[d]
     BY <1>0, <2>1, <2>2 DEF ServerRec
  <2>4. Cardinality(Active') <= MaxTalks BY <2>2, <2>3, PlacesStay DEF ServerOK
  <2> QED BY <2>2, <2>3, <2>4 DEF ServerOK, StaysDecided, Answered
<1>5. CASE CardExpires
  <2>1. PICK c \in DayCards : server.status[c] = "pending" /\ server' = [server EXCEPT !.status[c] = "expired"]
     BY <1>5 DEF CardExpires
  <2>2. server.made \in Nat /\ server.made >= c
     BY <1>0, <2>1 DEF ServerOK, ServerRec, DayCards
  <2>4. "expired" \in IntroStatus BY DEF IntroStatus
  <2>3. OneCard(c, "expired") BY <1>0, <2>1, <2>2, <2>4, ServerEdits DEF OneCard
  <2> QED BY <2>1, <2>3, OneCardKeeps DEF Answered
<1> QED BY <1>1, <1>2, <1>3, <1>4, <1>5

-----------------------------------------------------------------------------
\* The two queries.
LEMMA LostKeeps == ASSUME ServerOK, Lost PROVE ServerOK' /\ StaysDecided
<1>1. server.lost + 1 \in Nat BY DEF ServerOK, ServerRec
<1>2. SameCards BY <1>1 DEF Lost, ServerOK, SameCards, ServerRec
<1> QED BY <1>2, SameCardsKeep

\* An answer about the cards is one, is honest, and has none that was answered.
LEMMA IntroductionsTold ==
    ASSUME ServerOK, NEW S, \A c \in S : Answered(c)
    PROVE  Introductions \in CardsAnswer /\ Honest(Introductions) /\ Lacks(Introductions, S)
<1>1. Stored \in SUBSET IntroCard BY DEF Stored, ServerOK, ServerRec, IntroCard
<1>2. Introductions \in CardsAnswer
  <2>1. /\ (server.run = "running" /\ Stored = None) \in BOOLEAN
        /\ (server.run \in {"exhausted", "capped"} /\ Stored = None) \in BOOLEAN
        /\ (server.run = "capped" /\ Stored = None) \in BOOLEAN
        /\ (server.run = "full" /\ Stored = None) \in BOOLEAN
     OBVIOUS
  <2> QED BY <1>1, <2>1 DEF Introductions, CardsAnswer
<1>3. Honest(Introductions) BY DEF Honest, Introductions
<1>4. Lacks(Introductions, S)
  <2>1. Introductions.recs = Stored BY DEF Introductions
  <2>2. \A r \in Stored : r.status = server.status[r.id] BY DEF Stored
  <2> QED BY <2>1, <2>2 DEF Lacks, Answered
<1> QED BY <1>2, <1>3, <1>4

LEMMA ConversationsTold == ASSUME ServerOK PROVE Conversations \in TalksAnswer /\ Fits(Conversations)
BY DEF ServerOK, Conversations, TalksAnswer, Fits, Active

LEMMA ServeTodayInv == ASSUME TodayKept, ServeToday PROVE TodayKept'
<1> USE DEF TodayKept
<1>0. UNCHANGED <<talks, home>> /\ today.reply = None BY DEF ServeToday
<1>1. CASE today' = Serves(today, Introductions) /\ UNCHANGED server
  <2>1. /\ Introductions \in CardsAnswer /\ Honest(Introductions)
        /\ Lacks(Introductions, home.decided)
     BY IntroductionsTold DEF DecidedOK
  <2>2. /\ today' \in QueryOf(CardsAnswer) /\ today'.reply = {Introductions} /\ today'.data = today.data
        /\ today'.phase = today.phase /\ today'.failed = today.failed
     BY <1>1, <2>1, ServesFacts DEF CardsOK
  <2>3. ServerOK' /\ StaysDecided BY <1>1, ServerUnchanged
  <2>4. HomeOK' BY <1>0, <2>3, HomeStays
  <2>5. CardsOK' BY <2>1, <2>2 DEF CardsOK, AtMostOne
  <2>6. \A c \in home.decided : Answered(c)' BY <1>1 DEF DecidedOK, Answered
  <2>7. DecidedOK' BY <1>0, <2>1, <2>2, <2>6 DEF DecidedOK
  <2> QED BY <1>0, <2>3, <2>4, <2>5, <2>7 DEF TalksOK
<1>2. CASE Lost /\ today' = Breaks(today)
  <2>1. /\ today' \in QueryOf(CardsAnswer) /\ today'.reply = today.reply /\ today'.data = today.data
        /\ today'.phase = today.phase /\ today'.failed = today.failed
    <3>1. Introductions \in CardsAnswer BY IntroductionsTold DEF DecidedOK
    <3> QED BY <1>2, <3>1, BreaksFacts DEF CardsOK
  <2>2. ServerOK' /\ StaysDecided BY <1>2, LostKeeps
  <2>3. HomeOK' BY <1>0, <2>2, HomeStays
  <2>4. CardsOK' BY <2>1 DEF CardsOK
  <2>5. \A c \in home.decided : Answered(c)' BY <2>2 DEF DecidedOK, StaysDecided, HomeOK, HomeRec
  <2>6. DecidedOK' BY <1>0, <2>1, <2>5 DEF DecidedOK
  <2> QED BY <1>0, <2>2, <2>3, <2>4, <2>6 DEF TalksOK
<1> QED BY <1>1, <1>2 DEF ServeToday

LEMMA ServeTalksInv == ASSUME TodayKept, ServeTalks PROVE TodayKept'
<1> USE DEF TodayKept
<1>0. UNCHANGED <<today, home>> /\ talks.reply = None BY DEF ServeTalks
<1>1. Conversations \in TalksAnswer /\ Fits(Conversations) BY ConversationsTold
<1>2. TalksOK' /\ ServerOK' /\ StaysDecided
  <2>1. CASE talks' = Serves(talks, Conversations) /\ UNCHANGED server
    <3>1. talks' \in QueryOf(TalksAnswer) /\ talks'.reply = {Conversations} /\ talks'.data = talks.data
       BY <2>1, <1>1, ServesFacts DEF TalksOK
    <3> QED BY <2>1, <3>1, <1>1, ServerUnchanged DEF TalksOK
  <2>2. CASE Lost /\ talks' = Breaks(talks)
    <3>1. talks' \in QueryOf(TalksAnswer) /\ talks'.reply = talks.reply /\ talks'.data = talks.data
       BY <2>2, <1>1, BreaksFacts DEF TalksOK
    <3> QED BY <2>2, <3>1, LostKeeps DEF TalksOK
  <2> QED BY <2>1, <2>2 DEF ServeTalks
<1> QED BY <1>0, <1>2, HomeStays, DecidedStays DEF CardsOK

\* An answer that is shown has no card that was decided; a failure shows none.
LEMMA ReceiveTodayInv == ASSUME TodayKept, ReceiveToday PROVE TodayKept'
<1> USE DEF TodayKept
<1>0. UNCHANGED <<server, talks, home>> BY DEF ReceiveToday
<1>1. ServerOK' /\ HomeOK' BY <1>0, ServerUnchanged, HomeStays
<1>2. \A c \in home.decided : Answered(c)' BY <1>0 DEF DecidedOK, Answered
<1>3. today \in QueryOf(CardsAnswer) BY DEF CardsOK
<1>4. Introductions \in CardsAnswer BY IntroductionsTold DEF DecidedOK
<1>5. CASE today' = Failing(today)
  <2>1. /\ today' \in QueryOf(CardsAnswer) /\ today'.reply = today.reply /\ today'.data = today.data
        /\ today'.failed
     BY <1>3, <1>4, <1>5, FailingFacts
  <2>2. CardsOK' BY <2>1 DEF CardsOK
  <2>3. DecidedOK' BY <1>0, <1>2, <2>1 DEF DecidedOK
  <2> QED BY <1>0, <1>1, <2>2, <2>3 DEF TalksOK
<1>6. CASE today' = [today EXCEPT !.attempt = @ + 1, !.reply = None]
  <2>1. /\ today' \in QueryOf(CardsAnswer) /\ today'.reply = None /\ today'.data = today.data
        /\ today'.phase = today.phase /\ today'.failed = today.failed
     BY <1>3, <1>4, <1>6, AgainFacts
  <2>2. CardsOK' BY <2>1 DEF CardsOK, AtMostOne, None
  <2>3. DecidedOK' BY <1>0, <1>2, <2>1 DEF DecidedOK, None
  <2> QED BY <1>0, <1>1, <2>2, <2>3 DEF TalksOK
<1>7. CASE \E answer \in today.reply : today' = Showing(today, answer)
  <2>1. PICK answer \in today.reply : today' = Showing(today, answer) BY <1>7
  <2>2. answer \in CardsAnswer BY <1>3 DEF QueryOf
  <2>3. today' \in QueryOf(CardsAnswer) /\ today'.reply = None /\ today'.data = {answer}
     BY <1>3, <2>1, <2>2, ShowingFacts
  <2>4. CardsOK' BY <2>3 DEF CardsOK, AtMostOne, None
  <2>5. DecidedOK' BY <1>0, <1>2, <2>3 DEF DecidedOK, None
  <2> QED BY <1>0, <1>1, <2>4, <2>5 DEF TalksOK
<1> QED BY <1>5, <1>6, <1>7 DEF ReceiveToday

LEMMA ReceiveTalksInv == ASSUME TodayKept, ReceiveTalks PROVE TodayKept'
<1> USE DEF TodayKept
<1>0. UNCHANGED <<server, today, home>> BY DEF ReceiveTalks
<1>1. talks \in QueryOf(TalksAnswer) /\ Conversations \in TalksAnswer BY ConversationsTold DEF TalksOK
<1>2. TalksOK'
  <2>1. CASE talks' = Failing(talks)
    <3>1. talks' \in QueryOf(TalksAnswer) /\ talks'.reply = talks.reply /\ talks'.data = talks.data
       BY <1>1, <2>1, FailingFacts
    <3> QED BY <3>1 DEF TalksOK
  <2>2. CASE \E answer \in talks.reply : talks' = Showing(talks, answer)
    <3>1. PICK answer \in talks.reply : talks' = Showing(talks, answer) BY <2>2
    <3>2. answer \in TalksAnswer BY <1>1 DEF QueryOf
    <3>3. talks' \in QueryOf(TalksAnswer) /\ talks'.reply = None /\ talks'.data = {answer}
       BY <1>1, <3>1, <3>2, ShowingFacts
    <3> QED BY <3>3 DEF TalksOK, None
  <2> QED BY <2>1, <2>2 DEF ReceiveTalks
<1>3. ServerOK' /\ StaysDecided BY <1>0, ServerUnchanged
<1> QED BY <1>0, <1>2, <1>3, HomeStays, DecidedStays DEF CardsOK

\* A fetch anew keeps what is shown, and an error with it.
LEMMA FetchCards ==
    ASSUME CardsOK, today' = FetchAnew(today)
    PROVE  /\ CardsOK' /\ today'.phase = "asking" /\ today'.reply = None /\ today'.data = today.data
           /\ today.failed /\ today.data # None => today'.failed
<1>1. /\ today' \in QueryOf(CardsAnswer) /\ today'.phase = "asking" /\ today'.reply = None
      /\ today'.data = today.data /\ (today.failed /\ today.data # None => today'.failed)
   BY FetchFacts DEF CardsOK
<1> QED BY <1>1 DEF CardsOK, AtMostOne, None

LEMMA FetchTalks == ASSUME TalksOK, talks' = FetchAnew(talks) PROVE TalksOK'
<1>1. talks' \in QueryOf(TalksAnswer) /\ talks'.reply = None /\ talks'.data = talks.data
   BY FetchFacts DEF TalksOK
<1> QED BY <1>1 DEF TalksOK, None

LEMMA RefetchInv == ASSUME TodayKept, Refetch PROVE TodayKept'
<1> USE DEF TodayKept
<1>0. UNCHANGED home /\ server' = [server EXCEPT !.fetches = @ + 1] BY DEF Refetch
<1>1. server.fetches + 1 \in Nat /\ server \in ServerRec BY DEF ServerOK, ServerRec
<1>2. SameCards BY <1>0, <1>1 DEF SameCards, ServerRec
<1>3. ServerOK' /\ StaysDecided /\ HomeOK' BY <1>0, <1>2, SameCardsKeep, HomeStays
<1>4. CASE today' = FetchAnew(today) /\ UNCHANGED talks
  <2>1. \A c \in home.decided : Answered(c)' BY <1>3 DEF DecidedOK, StaysDecided, HomeOK, HomeRec
  <2>2. \/ \A a \in today'.data : Lacks(a, home.decided)
        \/ today'.failed
        \/ home.call.does = "today" /\ today'.phase = "asking"
     BY <1>4, FetchCards DEF DecidedOK, None
  <2>3. DecidedOK' BY <1>0, <1>4, <2>1, <2>2, FetchCards DEF DecidedOK, None
  <2> QED BY <1>3, <1>4, <2>3, FetchCards DEF TalksOK
<1>5. CASE talks' = FetchAnew(talks) /\ UNCHANGED today
   BY <1>0, <1>3, <1>5, FetchTalks, DecidedStays DEF CardsOK
<1> QED BY <1>4, <1>5 DEF Refetch

-----------------------------------------------------------------------------
\* The decision of the person.

\* A call of the screen is edited.
LEMMA CallEdits ==
    ASSUME NEW h \in HomeRec, NEW R \in SUBSET Outcomes
    PROVE  LET r == [h EXCEPT !.call.reply = R] IN
           /\ r \in HomeRec /\ r.busy = h.busy /\ r.matched = h.matched /\ r.decided = h.decided
           /\ r.call.does = h.call.does /\ r.call.card = h.call.card /\ r.call.reply = R
<1>1. h.call \in CallRec BY DEF HomeRec
<1>2. [h.call EXCEPT !.reply = R] \in CallRec BY <1>1 DEF CallRec
<1> QED BY <1>1, <1>2 DEF HomeRec, CallRec

\* A reply that is true of the server leaves the screen in order.
LEMMA ReplyKept ==
    ASSUME HomeOK, ServerOK', StaysDecided, DecidedOK, UNCHANGED <<today, talks>>,
           home.call.does \in {"accept", "skip"},
           NEW c \in DayCards, c = home.call.card,
           NEW w \in Outcomes, home' = [home EXCEPT !.call.reply = {w}],
           w \in {"matched", "liked", "skipped"} => Answered(c)',
           w = "matched" => server'.talks[c] # "none"
    PROVE  HomeOK' /\ DecidedOK'
<1>0. home \in HomeRec /\ {w} \in SUBSET Outcomes BY DEF HomeOK
<1>1. /\ home' \in HomeRec /\ home'.busy = home.busy /\ home'.matched = home.matched
      /\ home'.decided = home.decided
      /\ home'.call.does = home.call.does /\ home'.call.card = home.call.card /\ home'.call.reply = {w}
   BY <1>0, CallEdits
<1>2. home.matched # 0 => home.matched \in DayCards BY <1>0 DEF HomeRec, DayCards
<1>3. home.matched # 0 => server'.talks[home.matched] # "none" BY <1>2 DEF HomeOK, StaysDecided
<1>4. HomeOK' BY <1>1, <1>3 DEF HomeOK, Answered
<1>5. \A d \in home.decided : Answered(d)' BY <1>0 DEF DecidedOK, StaysDecided, HomeRec
<1> QED BY <1>1, <1>4, <1>5 DEF DecidedOK

LEMMA ChooseInv == ASSUME TodayKept, Choose PROVE TodayKept'
<1> USE DEF TodayKept
<1>0. UNCHANGED <<server, today, talks>> /\ ~home.busy BY DEF Choose
<1>1. PICK c \in Pending, what \in {"accept", "skip"} :
         home' = [home EXCEPT !.busy = TRUE, !.call = [does |-> what, card |-> c, reply |-> None]]
   BY DEF Choose
<1>2. c \in DayCards
  <2>1. PICK a \in AnswerShown(today) : \E r \in a.recs : c = r.id BY <1>1 DEF Pending
  <2>2. a \in CardsAnswer BY <2>1 DEF CardsOK, QueryOf, AnswerShown, None
  <2>3. a.recs \subseteq IntroCard BY <2>2 DEF CardsAnswer
  <2> QED BY <2>1, <2>3 DEF IntroCard
<1>3. [does |-> what, card |-> c, reply |-> None] \in CallRec
   BY <1>2, TodayBounds DEF CallRec, DayCards, None
<1>4. /\ home' \in HomeRec /\ home'.busy = TRUE /\ home'.matched = home.matched
      /\ home'.decided = home.decided /\ home'.call = [does |-> what, card |-> c, reply |-> None]
   BY <1>1, <1>3 DEF HomeRec, HomeOK
<1>5. home'.call.does = what /\ home'.call.card = c /\ home'.call.reply = None BY <1>4
<1>6. HomeOK' BY <1>0, <1>2, <1>4, <1>5 DEF HomeOK, None
<1>7. home.call.does = "none" BY <1>0 DEF HomeOK
<1>8. \A d \in home.decided : Answered(d)' BY <1>0 DEF DecidedOK, Answered
<1>9. DecidedOK' BY <1>0, <1>4, <1>7, <1>8 DEF DecidedOK
<1> QED BY <1>0, <1>6, <1>9, ServerUnchanged DEF CardsOK, TalksOK

LEMMA ExecuteAcceptInv == ASSUME TodayKept, ExecuteAccept PROVE TodayKept'
<1> USE DEF TodayKept
<1>0. UNCHANGED <<today, talks>> /\ home.call.does = "accept" BY DEF ExecuteAccept
<1>c. PICK c \in DayCards : c = home.call.card BY <1>0 DEF HomeOK
<1>1. c \in DayCards /\ server \in ServerRec BY DEF ServerOK
<1> DEFINE q == [server EXCEPT !.status[c] = "accepted"]
           after == Liking(c, q)
<1> SUFFICES ServerOK' /\ HomeOK' /\ DecidedOK' BY <1>0 DEF CardsOK, TalksOK
<1>2. CASE /\ server.status[c] = "accepted" /\ UNCHANGED server
           /\ home' = [home EXCEPT !.call.reply = {IF server.talks[c] = "active" THEN "matched" ELSE "liked"}]
  <2>1. PICK w \in {"matched", "liked"} :
           home' = [home EXCEPT !.call.reply = {w}] /\ (w = "matched" => server.talks[c] = "active")
     BY <1>2
  <2>2. ServerOK' /\ StaysDecided BY <1>2, ServerUnchanged
  <2>3. Answered(c)' /\ (w = "matched" => server'.talks[c] # "none") BY <1>2, <2>1 DEF Answered
  <2> QED BY <1>0, <2>1, <2>2, <2>3, <1>c, ReplyKept DEF Outcomes
<1>3. CASE /\ server.status[c] = "pending" /\ ~Full /\ server' = after
           /\ home' = [home EXCEPT !.call.reply = {IF after.talks[c] = "active" THEN "matched" ELSE "liked"}]
  <2>1. PICK w \in {"matched", "liked"} :
           home' = [home EXCEPT !.call.reply = {w}] /\ (w = "matched" => server'.talks[c] = "active")
     BY <1>3
  <2>2. /\ q \in ServerRec /\ q.status[c] = "accepted"
        /\ \A d \in DayCards : d # c => q.status[d] = server.status[d]
        /\ q.talks = server.talks /\ q.made = server.made
    <3>1. "accepted" \in IntroStatus BY DEF IntroStatus
    <3> QED BY <1>1, <3>1, ServerEdits
  <2>3. server' = Liking(c, q) BY <1>3
  <2> HIDE DEF q, after
  <2>4. /\ server' \in ServerRec /\ server'.status = q.status /\ server'.made = server.made
        /\ \A d \in DayCards : d # c => server'.talks[d] = server.talks[d]
        /\ server'.talks[c] \in {server.talks[c], "active"}
     BY <1>1, <2>2, <2>3, LikingKeeps
  <2>5. Cardinality(Active') <= MaxTalks BY <1>1, <1>3, <2>4, PlacesStay DEF ServerOK
  <2>6. server.made \in Nat /\ server.made >= c BY <1>1, <1>3 DEF ServerOK, ServerRec, DayCards
  <2>7. ServerOK' BY <1>1, <2>2, <2>4, <2>5, <2>6 DEF ServerOK, DayCards
  <2>8. StaysDecided BY <1>1, <2>2, <2>4 DEF StaysDecided, Answered
  <2>9. Answered(c)' /\ (w = "matched" => server'.talks[c] # "none") BY <2>1, <2>2, <2>4 DEF Answered
  <2> QED BY <1>0, <2>1, <2>7, <2>8, <2>9, <1>c, ReplyKept DEF Outcomes
<1>4. CASE /\ UNCHANGED server
           /\ \E w \in {"no_slot_self", "no_slot_partner", "failed"} : home' = [home EXCEPT !.call.reply = {w}]
  <2>1. PICK w \in {"no_slot_self", "no_slot_partner", "failed"} : home' = [home EXCEPT !.call.reply = {w}]
     BY <1>4
  <2>2. ServerOK' /\ StaysDecided BY <1>4, ServerUnchanged
  <2> QED BY <1>0, <2>1, <2>2, <1>c, ReplyKept DEF Outcomes
<1> QED BY <1>2, <1>3, <1>4, <1>c DEF ExecuteAccept

LEMMA ExecuteSkipInv == ASSUME TodayKept, ExecuteSkip PROVE TodayKept'
<1> USE DEF TodayKept
<1>0. UNCHANGED <<today, talks>> /\ home.call.does = "skip" BY DEF ExecuteSkip
<1>c. PICK c \in DayCards : c = home.call.card BY <1>0 DEF HomeOK
<1>1. c \in DayCards /\ server \in ServerRec BY DEF ServerOK
<1> SUFFICES ServerOK' /\ HomeOK' /\ DecidedOK' BY <1>0 DEF CardsOK, TalksOK
<1>2. CASE server.status[c] \in {"pending", "skipped"}
  <2>1. server' = [server EXCEPT !.status[c] = "skipped"] /\ home' = [home EXCEPT !.call.reply = {"skipped"}]
     BY <1>2, <1>c DEF ExecuteSkip
  <2>2. server.made \in Nat /\ server.made >= c BY <1>1, <1>2 DEF ServerOK, ServerRec, DayCards
  <2>3. "skipped" \in IntroStatus BY DEF IntroStatus
  <2>4. OneCard(c, "skipped") BY <1>1, <2>1, <2>2, <2>3, ServerEdits DEF OneCard
  <2>5. ServerOK' /\ StaysDecided BY <1>1, <2>4, OneCardKeeps
  <2>6. Answered(c)' BY <2>4 DEF OneCard, Answered
  <2> QED BY <1>0, <2>1, <2>5, <2>6, <1>c, ReplyKept DEF Outcomes
<1>3. CASE server.status[c] \notin {"pending", "skipped"}
  <2>1. UNCHANGED server /\ home' = [home EXCEPT !.call.reply = {"failed"}] BY <1>3, <1>c DEF ExecuteSkip
  <2>2. ServerOK' /\ StaysDecided BY <2>1, ServerUnchanged
  <2> QED BY <1>0, <2>1, <2>2, <1>c, ReplyKept DEF Outcomes
<1> QED BY <1>2, <1>3

LEMMA LoseDecisionInv == ASSUME TodayKept, LoseDecision PROVE TodayKept'
<1> USE DEF TodayKept
<1>0. /\ UNCHANGED <<today, talks>> /\ home.call.does \in {"accept", "skip"}
      /\ Lost /\ home' = [home EXCEPT !.call.reply = {"failed"}]
   BY DEF LoseDecision
<1>1. ServerOK' /\ StaysDecided BY <1>0, LostKeeps
<1>c. PICK c \in DayCards : c = home.call.card BY <1>0 DEF HomeOK
<1>2. HomeOK' /\ DecidedOK' BY <1>0, <1>1, <1>c, ReplyKept DEF Outcomes
<1> QED BY <1>0, <1>1, <1>2 DEF CardsOK, TalksOK

\* An answered decision is one on the server, and what was being read before it
\* is dropped.
LEMMA ToldInv == ASSUME TodayKept, Told PROVE TodayKept'
<1> USE DEF TodayKept
<1>0. UNCHANGED <<server, talks>> BY DEF Told
<1>1. ServerOK' /\ TalksOK' BY <1>0, ServerUnchanged DEF TalksOK
<1>2. PICK answer \in home.call.reply :
         \/ /\ home' = [home EXCEPT !.busy = FALSE, !.call = Nothing]
            /\ UNCHANGED today
         \/ /\ answer \in {"matched", "liked", "skipped"}
            /\ home' = [home EXCEPT !.matched = IF answer = "matched" THEN home.call.card ELSE @,
                          !.decided = @ \cup {home.call.card},
                          !.call = [does |-> "today", card |-> 0, reply |-> None]]
            /\ today' = FetchAnew(today)
   BY DEF Told
<1> DEFINE c == home.call.card
<1>3. home \in HomeRec /\ home.call.does \in {"accept", "skip"} /\ c \in DayCards BY <1>2 DEF HomeOK, None
<1>4. 0 \in 0 .. MaxCards /\ DayCards \subseteq 0 .. MaxCards BY TodayBounds DEF DayCards
<1>5. CASE home' = [home EXCEPT !.busy = FALSE, !.call = Nothing] /\ UNCHANGED today
  <2>1. Nothing \in CallRec BY <1>4 DEF Nothing, CallRec, None
  <2>2. /\ home' \in HomeRec /\ home'.busy = FALSE /\ home'.matched = home.matched
        /\ home'.decided = home.decided /\ home'.call = Nothing
     BY <1>3, <1>5, <2>1 DEF HomeRec
  <2>3. Nothing.does = "none" /\ Nothing.reply = None BY DEF Nothing
  <2>4. HomeOK' BY <1>0, <2>2, <2>3 DEF HomeOK, None
  <2>6. DecidedOK' BY <1>0, <1>3, <1>5, <2>2, <2>3 DEF DecidedOK, Answered
  <2> QED BY <1>1, <1>5, <2>4, <2>6 DEF CardsOK
<1>6. CASE /\ answer \in {"matched", "liked", "skipped"}
           /\ home' = [home EXCEPT !.matched = IF answer = "matched" THEN home.call.card ELSE @,
                         !.decided = @ \cup {home.call.card},
                         !.call = [does |-> "today", card |-> 0, reply |-> None]]
           /\ today' = FetchAnew(today)
  <2>1. [does |-> "today", card |-> 0, reply |-> None] \in CallRec BY <1>4 DEF CallRec, None
  <2>2. Answered(c) /\ (answer = "matched" => server.talks[c] # "none") BY <1>2, <1>6 DEF HomeOK
  <2>3. PICK m \in 0 .. MaxCards :
           m = (IF answer = "matched" THEN c ELSE home.matched) /\ (m # 0 => server.talks[m] # "none")
     BY <1>3, <1>4, <2>2 DEF HomeOK, HomeRec
  <2>4. /\ home' \in HomeRec /\ home'.busy = home.busy /\ home'.matched = m
        /\ home'.decided = home.decided \cup {c}
        /\ home'.call = [does |-> "today", card |-> 0, reply |-> None]
     BY <1>3, <1>6, <2>1, <2>3 DEF HomeRec
  <2>5. home'.call.does = "today" /\ home'.call.reply = None BY <2>4
  <2>6. home.busy BY <1>3 DEF HomeOK
  <2>7. HomeOK' BY <1>0, <2>3, <2>4, <2>5, <2>6 DEF HomeOK, None
  <2>8. DecidedOK' BY <1>0, <1>6, <2>2, <2>4, <2>5, FetchCards DEF DecidedOK, Answered, None
  <2> QED BY <1>1, <1>6, <2>7, <2>8, FetchCards
<1> QED BY <1>2, <1>5, <1>6

LEMMA AfterwardsInv == ASSUME TodayKept, TodayRead \/ TalksRead PROVE TodayKept'
<1> USE DEF TodayKept
<1>0. UNCHANGED <<server, today>> BY DEF TodayRead, TalksRead
<1>1. ServerOK' BY <1>0, ServerUnchanged
<1>2. \A d \in home.decided : Answered(d)' BY <1>0 DEF DecidedOK, Answered
<1>3. home \in HomeRec /\ home.call \in CallRec /\ home.call.does \notin {"accept", "skip"}
   BY DEF HomeOK, HomeRec, TodayRead, TalksRead
<1>4. CASE TodayRead
  <2>1. home' = [home EXCEPT !.call.does = "talks"] /\ talks' = FetchAnew(talks)
        /\ today.phase = "idle" /\ home.call.does = "today"
     BY <1>4 DEF TodayRead
  <2>2. [home.call EXCEPT !.does = "talks"] \in CallRec BY <1>3 DEF CallRec
  <2>3. /\ home' \in HomeRec /\ home'.busy = home.busy /\ home'.matched = home.matched
        /\ home'.decided = home.decided /\ home'.call = [home.call EXCEPT !.does = "talks"]
     BY <1>3, <2>1, <2>2 DEF HomeRec
  <2>4. home'.call.does = "talks" /\ home'.call.reply = home.call.reply BY <1>3, <2>3 DEF CallRec
  <2>5. home.call.reply = None BY <1>3 DEF HomeOK
  <2>6. HomeOK' BY <1>0, <2>1, <2>3, <2>4, <2>5 DEF HomeOK, None
  <2>7. DecidedOK' BY <1>0, <1>2, <2>1, <2>3, <2>4 DEF DecidedOK
  <2> QED BY <1>0, <1>1, <2>1, <2>6, <2>7, FetchTalks DEF CardsOK
<1>5. CASE TalksRead
  <2>1. home' = [home EXCEPT !.call = Nothing, !.busy = FALSE] /\ UNCHANGED talks /\ home.call.does = "talks"
     BY <1>5 DEF TalksRead
  <2>2. Nothing \in CallRec BY TodayBounds DEF Nothing, CallRec, None
  <2>3. /\ home' \in HomeRec /\ home'.busy = FALSE /\ home'.matched = home.matched
        /\ home'.decided = home.decided /\ home'.call = Nothing
     BY <1>3, <2>1, <2>2 DEF HomeRec
  <2>4. Nothing.does = "none" /\ Nothing.reply = None BY DEF Nothing
  <2>5. HomeOK' BY <1>0, <2>3, <2>4 DEF HomeOK, None
  <2>6. DecidedOK' BY <1>0, <1>2, <2>1, <2>3 DEF DecidedOK
  <2> QED BY <1>0, <1>1, <2>1, <2>5, <2>6 DEF CardsOK, TalksOK
<1> QED BY <1>4, <1>5

-----------------------------------------------------------------------------
\* At the start nothing was introduced, decided or read.
LEMMA TodayInitInv == ASSUME TodayInit PROVE TodayKept
<1>0. /\ 0 \in 0 .. MaxCards /\ MaxTalks \in Nat BY TodayBounds
<1>1. server = [made |-> 0, card |-> 0, run |-> "none", status |-> [c \in DayCards |-> "none"],
                liked |-> {}, talks |-> [c \in DayCards |-> "none"], fetches |-> 0, lost |-> 0]
   BY DEF TodayInit
<1>2. server \in ServerRec BY <1>0, <1>1 DEF ServerRec, IntroStatus
<1>3. Active = {} BY <1>1 DEF Active
<1>4. ServerOK BY <1>0, <1>1, <1>2, <1>3, FS_EmptySet DEF ServerOK
<1>5. \A A : NoQuery \in QueryOf(A) BY DEF NoQuery, QueryOf, None
<1>6. NoQuery.reply = None /\ NoQuery.data = None BY DEF NoQuery
<1>7. talks = NoQuery /\ today = [NoQuery EXCEPT !.phase = "asking"] BY DEF TodayInit
<1>8. TalksOK BY <1>5, <1>6, <1>7 DEF TalksOK, None
<1>9. today \in QueryOf(CardsAnswer) /\ today.reply = None /\ today.data = None
   BY <1>7 DEF NoQuery, QueryOf, None
<1>10. CardsOK BY <1>9 DEF CardsOK, AtMostOne, None
<1>11. home = [call |-> Nothing, busy |-> FALSE, matched |-> 0, decided |-> {}] BY DEF TodayInit
<1>12. Nothing \in CallRec /\ Nothing.does = "none" /\ Nothing.reply = None
   BY <1>0 DEF Nothing, CallRec, None
<1>13. HomeOK BY <1>0, <1>11, <1>12 DEF HomeOK, HomeRec, None
<1>14. DecidedOK BY <1>9, <1>11 DEF DecidedOK, None
<1> QED BY <1>4, <1>8, <1>10, <1>13, <1>14 DEF TodayKept

LEMMA TodayStepInv == TodayKept /\ [TodayNext]_todayScreen => TodayKept'
<1> SUFFICES ASSUME TodayKept, [TodayNext]_todayScreen PROVE TodayKept' OBVIOUS
<1>1. CASE TodayNext
   BY <1>1, ServerMovesInv, ServeTodayInv, ServeTalksInv, ReceiveTodayInv, ReceiveTalksInv, RefetchInv,
      ChooseInv, ExecuteAcceptInv, ExecuteSkipInv, LoseDecisionInv, ToldInv, AfterwardsInv DEF TodayNext
<1>2. CASE UNCHANGED todayScreen
  <2>1. UNCHANGED <<server, today, talks, home>> BY <1>2 DEF todayScreen
  <2>2. ServerOK' /\ StaysDecided BY <2>1, ServerUnchanged DEF TodayKept
  <2> QED BY <2>1, <2>2, HomeStays, DecidedStays DEF TodayKept, CardsOK, TalksOK
<1> QED BY <1>1, <1>2

\* The screen says one thing: that it searches, an error, the card, or why there is none.
LEMMA SaysOneThing == ASSUME CardsOK PROVE Cardinality(ScreenSays) = 1
<1>1. \E x : ScreenSays = {x}
  <2>0. today.failed \in BOOLEAN BY DEF CardsOK, QueryOf
  <2>1. CASE Loading(today)
    <3>1. ~today.failed /\ AnswerShown(today) = {} BY <2>1 DEF Loading, AnswerShown, None
    <3>2. Pending = {} BY <3>1 DEF Pending
    <3>3. ScreenSays = {"searching"} BY <2>1, <3>1, <3>2 DEF ScreenSays
    <3> QED BY <3>3
  <2>2. CASE ~Loading(today) /\ today.failed
    <3>1. AnswerShown(today) = {} BY <2>2 DEF AnswerShown, None
    <3>2. Pending = {} BY <3>1 DEF Pending
    <3>3. ScreenSays = {"error"} BY <2>2, <3>1, <3>2 DEF ScreenSays
    <3> QED BY <3>3
  <2>3. CASE ~Loading(today) /\ ~today.failed
    <3>1. today.data # {} /\ AnswerShown(today) = today.data BY <2>3 DEF Loading, AnswerShown, None
    <3>2. PICK a : today.data = {a} BY <3>1 DEF CardsOK, AtMostOne
    <3>3. {Explains(b) : b \in AnswerShown(today)} = {Explains(a)} BY <3>1, <3>2
    <3>4. ScreenSays = IF Pending # {} THEN {"card"} ELSE {Explains(a)} BY <2>3, <3>3 DEF ScreenSays
    <3> QED BY <3>4
  <2> QED BY <2>1, <2>2, <2>3
<1> QED BY <1>1, FS_Singleton

LEMMA TodayKeptEnough == ASSUME TodayKept PROVE TodayInv
<1> USE DEF TodayKept
<1>1. DecidedIsGone
  <2> SUFFICES ASSUME ~home.busy, NEW c \in Pending PROVE c \notin home.decided BY DEF DecidedIsGone
  <2>1. home.call.does = "none" BY DEF HomeOK
  <2>2. PICK a \in AnswerShown(today) : \E r \in a.recs : r.status = "pending" /\ c = r.id BY DEF Pending
  <2>3. ~today.failed /\ a \in today.data BY <2>2 DEF AnswerShown, None
  <2>4. Lacks(a, home.decided) BY <2>1, <2>3 DEF DecidedOK
  <2> QED BY <2>2, <2>4 DEF Lacks
<1>2. OneExplanation
  <2>1. AnswerShown(today) \subseteq today.data BY DEF AnswerShown, None
  <2> QED BY <2>1, SaysOneThing DEF OneExplanation, CardsOK, Honest
<1>3. MatchIsReal BY DEF MatchIsReal, HomeOK
<1>4. ListTrue
  <2>1. AnswerShown(talks) \subseteq talks.data BY DEF AnswerShown, None
  <2> QED BY <2>1 DEF ListTrue, TalksOK, Fits
<1> QED BY <1>1, <1>2, <1>3, <1>4 DEF TodayInv

\* A card that was decided does not come back whatever fetches were under way,
\* the screen says one thing and says "nobody" of no waiting card, who is told
\* of a match has the conversation, and the list keeps to the places: for any
\* number of introductions, places, fetches and lost calls.
THEOREM DecidedStaysGone == TodaySpec => []TodayInv
<1>1. TodayInit => TodayKept BY TodayInitInv
<1>2. TodayKept /\ [TodayNext]_todayScreen => TodayKept' BY TodayStepInv
<1>3. TodayKept => TodayInv BY TodayKeptEnough
<1> QED BY <1>1, <1>2, <1>3, PTL DEF TodaySpec
=============================================================================
