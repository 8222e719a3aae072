------------------------------- MODULE PushOutbox -------------------------------
(***************************************************************************)
(* The outbox of notifications of one recipient and the senders that empty *)
(* it: notification_events_dequeue, buildPushBatch, the push service a     *)
(* chunk at a time, applyTickets and notification_events_mark. A sender    *)
(* may die or be slower than its claim lasts, so that two work on one      *)
(* event. All messages of this recipient are in one conversation.          *)
(***************************************************************************)
EXTENDS Naturals, FiniteSets, Sequences

CONSTANTS
    Messages,      \* events of kind new_message
    Daily,         \* the event of kind daily_recommendation
    Tokens,        \* push tokens of the recipient's devices
    Senders,       \* bound: runs of send-push at once
    MaxAttempts,   \* of an event: 5 in the code
    ChunkSize,     \* EXPO_CHUNK
    MaxBreaks      \* bound: what does not go the usual way

ASSUME PushAssumption ==
    /\ IsFiniteSet(Tokens)
    /\ MaxAttempts \in Nat /\ ChunkSize \in Nat \ {0}

VARIABLES
    outbox,     \* notification_events
    enabled,    \* push_tokens that are enabled
    wanted,     \* the recipient is active and has the notification switched on
    proposal,   \* the recommendation: its number, and still pending and valid
    runs,       \* the senders
    accepted,   \* how often the service has taken a message of the event
    lost,       \* events with a message to a device the service has reported as gone
    breaks

pushOutbox == <<outbox, enabled, wanted, proposal, runs, accepted, lost, breaks>>

Events == Messages \cup {Daily}
\* claim: none, held (for less than 60 s), stale
NoEvent == [made |-> FALSE, closed |-> FALSE, why |-> "none", claim |-> "none", attempts |-> 0, ref |-> 0]
\* jobs: the messages to send, skipped: the events to close without one
NoRun == [pc |-> "off", jobs |-> <<>>, skipped |-> {}, ok |-> {}, failed |-> {}, gone |-> {}]

PushInit ==
    /\ outbox = [e \in Events |-> NoEvent]
    /\ enabled = Tokens /\ wanted = TRUE
    /\ proposal = [n |-> 0, valid |-> FALSE]
    /\ runs = [s \in Senders |-> NoRun]
    /\ accepted = [e \in Events |-> 0]
    /\ lost = {} /\ breaks = 0

Break == breaks < MaxBreaks /\ breaks' = breaks + 1
NoBreak == breaks' = breaks
Pending(e) == outbox[e].made /\ ~outbox[e].closed
-----------------------------------------------------------------------------
(* Events come, and what they are about changes.                           *)

\* The trigger of a message; dedupe_key makes it one event.
MessageComes(e) ==
    /\ e \in Messages /\ ~outbox[e].made
    /\ outbox' = [outbox EXCEPT ![e].made = TRUE]
    /\ UNCHANGED <<enabled, wanted, proposal, runs, accepted, lost, breaks>>

\* handle_recommendation_notification: the second proposal of a day takes over the
\* event that has not been closed.
ProposalComes ==
    /\ proposal.n < 2 /\ ~proposal.valid
    /\ proposal' = [n |-> proposal.n + 1, valid |-> TRUE]
    /\ outbox' = [outbox EXCEPT ![Daily].made = TRUE, ![Daily].ref = IF outbox[Daily].closed THEN @ ELSE proposal.n + 1]
    /\ UNCHANGED <<enabled, wanted, runs, accepted, lost, breaks>>

\* It expires or is answered, or one of the two is no longer there for the other.
ProposalEnds ==
    /\ proposal.valid
    /\ proposal' = [proposal EXCEPT !.valid = FALSE]
    /\ UNCHANGED <<outbox, enabled, wanted, runs, accepted, lost, breaks>>

\* Switches and the status of the account; push_token_register, unregisterPushToken
RecipientChanges ==
    /\ Break
    /\ \/ wanted' = ~wanted /\ UNCHANGED enabled
       \/ \E k \in Tokens :
            /\ enabled' = (IF k \in enabled THEN enabled \ {k} ELSE enabled \cup {k})
            /\ UNCHANGED wanted
    /\ UNCHANGED <<outbox, proposal, runs, accepted, lost>>

\* Sixty seconds after it was taken a claim counts for nothing.
ClaimsAge ==
    /\ \E e \in Events : outbox[e].claim = "held"
    /\ \A s \in Senders : runs[s].pc # "off" => breaks < MaxBreaks
    /\ breaks' = IF \E s \in Senders : runs[s].pc # "off" THEN breaks + 1 ELSE breaks
    /\ outbox' = [e \in Events |-> [outbox[e] EXCEPT !.claim = IF @ = "held" THEN "stale" ELSE @]]
    /\ UNCHANGED <<enabled, wanted, proposal, runs, accepted, lost>>
-----------------------------------------------------------------------------
(* notification_events_dequeue and buildPushBatch                          *)

Expired(e) == Pending(e) /\ outbox[e].attempts >= MaxAttempts

\* Slip: the claim of a sender that died is never taken over.
TakeableFresh(e) == Pending(e) /\ ~Expired(e) /\ outbox[e].claim = "none"

Takeable(e) == Pending(e) /\ ~Expired(e) /\ outbox[e].claim # "held"
Taken == {e \in Events : Takeable(e)}

ValidNow(e) == e = Daily => outbox[e].ref = proposal.n /\ proposal.valid
Sendable(e) == wanted /\ ValidNow(e) /\ enabled # {}
\* One message to a device for all the messages of the conversation; the messages
\* of a group follow each other, in the order of the rows that were read.
Groups(es) == {g \in {es \cap Messages, es \cap {Daily}} : g # {}}
JobsOf(es) ==
    LET jobs == {[to |-> k, ids |-> g] : k \in enabled, g \in Groups(es)} IN
    CHOOSE q \in [1..Cardinality(jobs) -> jobs] :
        /\ \A i, j \in DOMAIN q : i # j => q[i] # q[j]
        /\ \A i, j, n \in DOMAIN q : i < j /\ j < n /\ q[i].ids = q[n].ids => q[j].ids = q[i].ids

\* An event of which five attempts have been made is closed with the same call,
\* and so is one whose sender is still at its fifth.
Dequeue(s) ==
    /\ runs[s] = NoRun /\ \E e \in Events : Takeable(e) \/ Expired(e)
    /\ outbox' = [e \in Events |->
         IF Takeable(e) THEN [outbox[e] EXCEPT !.claim = "held", !.attempts = @ + 1]
         ELSE IF Expired(e) THEN [outbox[e] EXCEPT !.closed = TRUE, !.why = "expired"]
         ELSE outbox[e]]
    /\ LET es == {e \in Taken : Sendable(e)} IN
       runs' = [runs EXCEPT ![s] =
         [NoRun EXCEPT !.pc = "skip", !.jobs = JobsOf(es), !.skipped = Taken \ es]]
    /\ UNCHANGED <<enabled, wanted, proposal, accepted, lost, breaks>>

\* A call that fails is logged and no more.
MarkSkipped(s) ==
    /\ runs[s].pc = "skip"
    /\ runs' = [runs EXCEPT ![s].pc = IF runs[s].jobs = <<>> THEN "off" ELSE "send",
                            ![s].skipped = {}]
    /\ \/ NoBreak
          /\ outbox' = [e \in Events |-> IF e \in runs[s].skipped
                          THEN [outbox[e] EXCEPT !.closed = TRUE, !.why = "skipped"] ELSE outbox[e]]
       \/ runs[s].skipped # {} /\ Break /\ UNCHANGED outbox
    /\ UNCHANGED <<enabled, wanted, proposal, accepted, lost>>
-----------------------------------------------------------------------------
(* The push service, applyTickets, and what is written                     *)

SizeOf(s) == IF Len(runs[s].jobs) < ChunkSize THEN Len(runs[s].jobs) ELSE ChunkSize
Part(s) == SubSeq(runs[s].jobs, 1, SizeOf(s))
Rest(s) == SubSeq(runs[s].jobs, SizeOf(s) + 1, Len(runs[s].jobs))
IdsAt(part, is) == UNION {part[i].ids : i \in is}

\* Slip: any ticket closes the event, one with an error as well.
DeliveredAnyway(part, fine, gone) == IdsAt(part, DOMAIN part)

\* A ticket that is fine closes the event, and so does a device that is gone.
Delivered(part, fine, gone) == IdsAt(part, fine \cup gone)

\* fine, gone: the messages of the chunk with such a ticket; the others have an
\* error, or no ticket.
Tickets(s) ==
    /\ runs[s].pc = "send"
    /\ LET part == Part(s) IN
       \E fine, gone \in SUBSET DOMAIN part :
         /\ fine \cap gone = {}
         /\ IF fine = DOMAIN part THEN NoBreak ELSE Break
         /\ accepted' = [e \in Events |-> accepted[e] + Cardinality({i \in fine : e \in part[i].ids})]
         /\ lost' = lost \cup IdsAt(part, gone)
         /\ LET ok == Delivered(part, fine, gone) IN
            runs' = [runs EXCEPT ![s].pc = "mark", ![s].jobs = Rest(s), ![s].ok = ok,
                       ![s].failed = IdsAt(part, DOMAIN part) \ ok, ![s].gone = {part[i].to : i \in gone}]
    /\ UNCHANGED <<outbox, enabled, wanted, proposal>>

\* No answer to the call, or one that cannot be read: the messages may have gone.
ServiceFails(s) ==
    /\ runs[s].pc = "send" /\ Break
    /\ LET part == Part(s) IN
       /\ accepted' \in {accepted, [e \in Events |->
            accepted[e] + Cardinality({i \in DOMAIN part : e \in part[i].ids})]}
       /\ runs' = [runs EXCEPT ![s].pc = "mark", ![s].jobs = Rest(s), ![s].ok = {},
                     ![s].failed = IdsAt(part, DOMAIN part), ![s].gone = {}]
    /\ UNCHANGED <<outbox, enabled, wanted, proposal, lost>>

\* An event that is closed stays closed; of one that failed the claim is given back.
Mark(s) ==
    /\ runs[s].pc = "mark"
    /\ runs' = [runs EXCEPT ![s].pc = "disable"]
    /\ \/ NoBreak
          /\ outbox' = [e \in Events |->
               CASE e \in runs[s].ok -> [outbox[e] EXCEPT !.closed = TRUE, !.why = IF @ = "none" THEN "delivered" ELSE @]
                 [] e \in runs[s].failed -> [outbox[e] EXCEPT !.claim = "none"]
                 [] OTHER -> outbox[e]]
       \/ Break /\ UNCHANGED outbox
    /\ UNCHANGED <<enabled, wanted, proposal, accepted, lost>>

\* push_tokens_disable, and the next chunk
DisableTokens(s) ==
    /\ runs[s].pc = "disable"
    /\ enabled' = enabled \ runs[s].gone
    /\ runs' = [runs EXCEPT ![s] = IF runs[s].jobs = <<>> THEN NoRun
                 ELSE [NoRun EXCEPT !.pc = "send", !.jobs = runs[s].jobs]]
    /\ UNCHANGED <<outbox, wanted, proposal, accepted, lost, breaks>>

SenderDies(s) ==
    /\ runs[s] # NoRun /\ Break
    /\ runs' = [runs EXCEPT ![s] = NoRun]
    /\ UNCHANGED <<outbox, enabled, wanted, proposal, accepted, lost>>

SenderWorks(s) == Dequeue(s) \/ MarkSkipped(s) \/ Tickets(s) \/ ServiceFails(s) \/ Mark(s) \/ DisableTokens(s)

PushNext ==
    \/ \E e \in Events : MessageComes(e)
    \/ ProposalComes \/ ProposalEnds \/ RecipientChanges \/ ClaimsAge
    \/ \E s \in Senders : SenderWorks(s) \/ SenderDies(s)

\* The cron starts a sender every minute, a sender ends, and time goes on.
PushFairness ==
    /\ \A s \in Senders : WF_pushOutbox(SenderWorks(s))
    /\ WF_pushOutbox(ClaimsAge)

PushSpec == PushInit /\ [][PushNext]_pushOutbox /\ PushFairness
-----------------------------------------------------------------------------
\* 1. An event is closed as delivered only after the service has said of a
\* message of this very event that it took it, or that the device is gone: a
\* ticket with another error, one that is missing and a sender that comes back
\* late close nothing as delivered; and no event is tried more often than it may
\* be. (One device that is gone closes the event, also where a live one had an error.)
OutboxInv ==
    \A e \in Events :
      /\ outbox[e].why = "delivered" => accepted[e] > 0 \/ e \in lost
      /\ outbox[e].attempts <= MaxAttempts

\* 2. Every event is closed in the end, whichever senders die, are late or are
\* refused by the service.
EventsClose == \A e \in Events : outbox[e].made ~> outbox[e].closed

\* 3. However many senders run, an event is sent once to a device.
SentOnce == \A e \in Events : accepted[e] <= Cardinality(Tokens)
=============================================================================
