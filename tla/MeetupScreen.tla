----------------------------- MODULE MeetupScreen -----------------------------
(***************************************************************************)
(* The screens of a meetup: "would you meet", "did you meet" and the       *)
(* private feedback.  They show the last answer of one query, which reads  *)
(* the match, both intentions and the person's own answers side by side,   *)
(* while the other person and the match move on.  The server's three calls *)
(* are one step each here; MeetupTx has their statements.                  *)
(***************************************************************************)
EXTENDS Naturals, FiniteSets

CONSTANTS
    DateOptions,                       \* dates to choose from
    MaxMeetupSaves, MaxOpens,                \* bounds: saves, extra reads
    MaxEvents                          \* bound: saves, lost calls and moves of the other person, together

VARIABLES pair, view
meetupScreen == <<pair, view>>

NoReads == [asking |-> FALSE, match |-> {}, intents |-> {}, own |-> {}]
NoSave == [kind |-> "none", choice |-> "none", extra |-> {}, answer |-> "none"]

\* What can be chosen, before the server's copy has filled it.
EmptyForm == [hydrated |-> FALSE, intent |-> "none", dates |-> {}, outcome |-> "none", reason |-> {},
              feedback |-> {}, editing |-> {}]

MeetupScreenInit ==
    /\ \E state \in {"none", "scheduled"}, i \in {"none", "yes"} : pair =
         [open |-> TRUE, state |-> state, everMutual |-> FALSE,
          mine |-> [intent |-> "none", dates |-> {}],
          other |-> [intent |-> i, dates |-> IF i = "yes" THEN DateOptions ELSE {}],
          outcome |-> "none", reason |-> {}, otherOutcome |-> "none", feedback |-> {},
          refused |-> FALSE, saves |-> 0, reads |-> 0, events |-> 0]
    /\ view = [page |-> "away", data |-> {}, failed |-> FALSE, fetch |-> NoReads, form |-> EmptyForm,
               busy |-> FALSE, save |-> NoSave]

-----------------------------------------------------------------------------
\* The server.

MayHappen == pair.saves + pair.events < MaxEvents

BothYes(p) == p.mine.intent = "yes" /\ p.other.intent = "yes"

\* handle_meetup_intent, after an intention was stored.
AfterIntent(p) ==
    IF BothYes(p) /\ p.state \in {"none", "interest_withdrawn"}
      THEN [p EXCEPT !.state = "mutual_interest", !.everMutual = TRUE]
    ELSE IF ~BothYes(p) /\ p.state \in {"mutual_interest", "scheduled"}
      THEN [p EXCEPT !.state = "interest_withdrawn"]
    ELSE p

\* handle_meetup_outcome, after an answer was stored.
AfterOutcome(p) ==
    IF p.outcome = "met" /\ p.otherOutcome = "met" THEN [p EXCEPT !.state = "met_confirmed"] ELSE p

\* What meetup_report_outcome asks of the match.
Reportable(p) == p.everMutual \/ p.state # "none"

\* The other person answers, or somebody ends the match.
OtherMoves ==
    /\ MayHappen
    /\ \/ /\ pair.open
          /\ \E i \in {"yes", "not_yet"} :
               pair' = AfterIntent([pair EXCEPT !.other = [intent |-> i,
                         dates |-> IF i = "yes" THEN DateOptions ELSE {}], !.events = @ + 1])
       \/ /\ Reportable(pair)
          /\ \E o \in {"met", "not_met"} : pair' = AfterOutcome([pair EXCEPT !.otherOutcome = o, !.events = @ + 1])
       \/ pair.open /\ pair' = [pair EXCEPT !.open = FALSE, !.events = @ + 1]
    /\ UNCHANGED view

-----------------------------------------------------------------------------
\* The query.

\* The other's row is only handed out while both say yes.
VisibleOther == IF BothYes(pair) THEN {pair.other} ELSE {}

\* Both agree now: the match says so and both rows do.
IsMutualNow(state) == state \in {"mutual_interest", "scheduled"}
IsBothConfirmed(state) == state = "met_confirmed"

\* A plausible slip: the state of the match alone decides.
MutualByState(match, intents) == IsMutualNow(match.state)

MutualNow(match, intents) ==
    IsMutualNow(match.state) /\ intents.mine.intent = "yes" /\ \E row \in intents.other : row.intent = "yes"

CanReportOutcome(match) == match.everMutual \/ match.state \notin {"none", "interest_withdrawn"}

Status(match, intents, own) ==
    LET mutual == MutualNow(match, intents)
    IN [open |-> match.open, state |-> match.state, mutual |-> mutual,
        intent |-> intents.mine.intent, dates |-> intents.mine.dates,
        otherDates |-> IF mutual THEN UNION {row.dates : row \in intents.other} ELSE {},
        outcome |-> own.outcome, reason |-> own.reason, feedback |-> own.feedback,
        confirmed |-> IsBothConfirmed(match.state), canReport |-> CanReportOutcome(match)]

ReadAnew(v) == [v EXCEPT !.fetch = [NoReads EXCEPT !.asking = TRUE], !.failed = @ /\ v.data # {}]

\* The form is filled once, by the first answer there is; feedback that exists
\* fills the other page's.
Hydrated(v) ==
    IF v.form.hydrated \/ v.data = {} \/ v.page = "away" THEN v
    ELSE LET d == CHOOSE d \in v.data : TRUE
         IN [v EXCEPT !.form = [EmptyForm EXCEPT !.hydrated = TRUE, !.intent = d.intent, !.dates = d.dates,
                                 !.outcome = d.outcome, !.reason = d.reason, !.feedback = d.feedback]]

\* The three reads run side by side; no row of the match is an error.
ReadMatch ==
    /\ view.fetch.asking /\ view.fetch.match = {}
    /\ view' = [view EXCEPT !.fetch.match = {[open |-> pair.open, state |-> pair.state, everMutual |-> pair.everMutual]}]
    /\ UNCHANGED pair

ReadIntents ==
    /\ view.fetch.asking /\ view.fetch.intents = {}
    /\ view' = [view EXCEPT !.fetch.intents = {[mine |-> pair.mine, other |-> VisibleOther]}]
    /\ UNCHANGED pair

\* Only this person changes the outcome and the feedback read here.
ReadOwn ==
    /\ view.fetch.asking /\ view.fetch.own = {}
    /\ view' = [view EXCEPT !.fetch.own = {[outcome |-> pair.outcome, reason |-> pair.reason, feedback |-> pair.feedback]}]
    /\ UNCHANGED pair

StatusArrives ==
    /\ \E m \in view.fetch.match, i \in view.fetch.intents, o \in view.fetch.own :
         view' = Hydrated([view EXCEPT !.data = {Status(m, i, o)}, !.failed = FALSE, !.fetch = NoReads])
    /\ UNCHANGED pair

LoseOne == MayHappen /\ pair' = [pair EXCEPT !.events = @ + 1]

\* One of the reads fails, also when all are repeated once.
StatusFails ==
    /\ view.fetch.asking /\ LoseOne
    /\ view' = [view EXCEPT !.fetch = NoReads, !.failed = TRUE]

\* A page opens: what is known shows at once, fresh or while it is read anew.
OpenPage ==
    /\ view.page = "away"
    /\ \E to \in {"meetup", "feedback"} :
         LET opened == [view EXCEPT !.page = to]
         IN \/ /\ view.data = {} \/ pair.reads < MaxOpens
               /\ view' = Hydrated(IF view.fetch.asking THEN opened ELSE ReadAnew(opened))
               /\ pair' = [pair EXCEPT !.reads = IF view.data = {} THEN @ ELSE @ + 1]
            \/ view.data # {} /\ view' = Hydrated(opened) /\ UNCHANGED pair

RetryStatus ==
    /\ view.page = "meetup" /\ view.failed /\ ~view.fetch.asking
    /\ view' = ReadAnew(view) /\ UNCHANGED pair

\* The form goes with its page; a call under way goes on.
LeavePage ==
    /\ view.page # "away"
    /\ view' = [view EXCEPT !.page = "away", !.form = EmptyForm, !.busy = FALSE]
    /\ UNCHANGED pair

-----------------------------------------------------------------------------
\* The meetup page: what it shows, and its buttons.

Shown == IF view.page = "away" \/ view.failed THEN {} ELSE view.data
On(part) ==
    view.page = "meetup" /\ \E d \in Shown :
      \/ part = "intent_form" /\ d.open /\ (d.intent = "none" \/ "intent" \in view.form.editing)
      \/ part = "intent" /\ d.open /\ d.intent # "none" /\ "intent" \notin view.form.editing
      \/ part = "outcome_form" /\ d.canReport /\ (d.outcome = "none" \/ "outcome" \in view.form.editing)
      \/ part = "outcome" /\ d.canReport /\ d.outcome # "none" /\ "outcome" \notin view.form.editing

Chooses(field, value) == view' = [view EXCEPT !.form = [@ EXCEPT ![field] = value]]

EditIntent ==
    /\ \/ On("intent_form") /\ \E i \in {"yes", "not_yet"} : Chooses("intent", i)
       \/ On("intent_form") /\ view.form.intent = "yes" /\ \E ds \in SUBSET DateOptions : Chooses("dates", ds)
       \/ On("intent") /\ ~view.busy /\ Chooses("editing", view.form.editing \cup {"intent"})
       \/ /\ On("intent_form")
          /\ \E d \in Shown : d.intent # "none" /\
               view' = [view EXCEPT !.form.editing = @ \ {"intent"}, !.form.intent = d.intent]
    /\ view' # view /\ UNCHANGED pair

EditOutcome ==
    /\ \/ On("outcome_form") /\ \E o \in {"met", "not_met"} : Chooses("outcome", o)
       \/ On("outcome_form") /\ view.form.outcome = "not_met" /\ Chooses("reason", {"no_show"})
       \/ On("outcome") /\ ~view.busy /\ Chooses("editing", view.form.editing \cup {"outcome"})
       \/ /\ On("outcome_form")
          /\ \E d \in Shown : d.outcome # "none" /\
               view' = [view EXCEPT !.form.editing = @ \ {"outcome"}, !.form.outcome = d.outcome, !.form.reason = d.reason]
    /\ view' # view /\ UNCHANGED pair

Sends(kind, choice, extra) ==
    /\ ~view.busy /\ view.save.kind = "none" /\ pair.saves < MaxMeetupSaves /\ MayHappen
    /\ view' = [view EXCEPT !.busy = TRUE,
                  !.save = [kind |-> kind, choice |-> choice, extra |-> extra, answer |-> "none"]]
    /\ pair' = [pair EXCEPT !.saves = @ + 1]

\* Dates go with a yes only.
SaveIntent ==
    /\ On("intent_form") /\ view.form.intent # "none"
    /\ Sends("intent", view.form.intent, IF view.form.intent = "yes" THEN view.form.dates ELSE {})

\* A plausible slip: the reason that was chosen goes with either answer.
SaveOutcomeAsChosen ==
    /\ On("outcome_form") /\ view.form.outcome # "none"
    /\ Sends("outcome", view.form.outcome, view.form.reason)

\* "Not met" needs a reason, and a reason goes with it only.
SaveOutcome ==
    /\ On("outcome_form") /\ view.form.outcome # "none"
    /\ view.form.outcome = "not_met" => view.form.reason # {}
    /\ Sends("outcome", view.form.outcome, IF view.form.outcome = "not_met" THEN view.form.reason ELSE {})

\* The feedback page asks for the outcome first.
FeedbackForm == view.page = "feedback" /\ \E d \in Shown : d.outcome = "met"

EditFeedback ==
    /\ FeedbackForm /\ view' = [view EXCEPT !.form.feedback = {"answer"}]
    /\ view' # view /\ UNCHANGED pair

SaveFeedback == FeedbackForm /\ view.form.feedback # {} /\ Sends("feedback", "given", view.form.feedback)

\* From one page to the other: the form of the new one is filled anew.
OtherPage ==
    /\ \/ On("outcome") /\ (\E d \in Shown : d.outcome = "met")
          /\ view' = Hydrated([view EXCEPT !.page = "feedback", !.form = EmptyForm, !.busy = FALSE])
       \/ view.page = "feedback" /\ ~FeedbackForm /\ Shown # {}
          /\ view' = Hydrated([view EXCEPT !.page = "meetup", !.form = EmptyForm, !.busy = FALSE])
    /\ UNCHANGED pair

-----------------------------------------------------------------------------
\* The three calls at the server.
Store ==
    LET s == view.save
        Accepts(new) == pair' = new /\ view' = [view EXCEPT !.save.answer = "saved"]
        Refuses == view' = [view EXCEPT !.save.answer = "failed"]
    IN /\ s.kind # "none" /\ s.answer = "none"
       /\ \/ /\ s.kind = "intent" /\ pair.open
             /\ Accepts(AfterIntent([pair EXCEPT !.mine = [intent |-> s.choice, dates |-> s.extra]]))
          \/ s.kind = "intent" /\ ~pair.open /\ Refuses /\ UNCHANGED pair
          \/ /\ s.kind = "outcome" /\ Reportable(pair) /\ ((s.choice = "not_met") <=> (s.extra # {}))
             /\ Accepts(AfterOutcome([pair EXCEPT !.outcome = s.choice, !.reason = s.extra]))
          \/ /\ s.kind = "outcome" /\ ~(Reportable(pair) /\ ((s.choice = "not_met") <=> (s.extra # {})))
             /\ Refuses /\ pair' = [pair EXCEPT !.refused = TRUE]
          \/ /\ s.kind = "feedback" /\ pair.outcome = "met"
             /\ Accepts([pair EXCEPT !.feedback = s.extra])
          \/ s.kind = "feedback" /\ pair.outcome # "met" /\ Refuses /\ UNCHANGED pair

\* The call or its answer is lost, or the account may not act at the moment.
SaveFails ==
    /\ view.save.kind # "none" /\ view.save.answer \in {"none", "saved"}
    /\ LoseOne /\ view' = [view EXCEPT !.save.answer = "failed"]

\* After a success what is shown is read anew, and only then the next can be
\* sent; after a failure everything stays as it was.
Saved ==
    /\ \/ /\ view.save.answer = "saved" /\ view.page # "away"
          /\ view' = ReadAnew([view EXCEPT !.save.answer = "reading", !.form.editing = @ \ {view.save.kind}])
       \/ /\ \/ view.save.answer = "saved" /\ view.page = "away"
             \/ view.save.answer = "reading" /\ ~view.fetch.asking
             \/ view.save.answer = "failed"
          /\ view' = [view EXCEPT !.save = NoSave, !.busy = FALSE]
    /\ UNCHANGED pair

MeetupScreenNext ==
    \/ OtherMoves \/ ReadMatch \/ ReadIntents \/ ReadOwn \/ StatusArrives \/ StatusFails
    \/ OpenPage \/ RetryStatus \/ LeavePage \/ OtherPage \/ EditIntent \/ EditOutcome \/ EditFeedback
    \/ SaveIntent \/ SaveOutcome \/ SaveFeedback \/ Store \/ SaveFails \/ Saved

MeetupScreenSpec == MeetupScreenInit /\ [][MeetupScreenNext]_meetupScreen

-----------------------------------------------------------------------------
\* However the three reads fell between the moves of both, the page never says
\* "you both want to meet" beside an own answer that is not yes or beside
\* "withdrawn", and shows dates of the other only then (lib/meetup.ts:106).
MutualIsBoth ==
    \A d \in view.data :
        /\ d.mutual => d.intent = "yes" /\ d.state # "interest_withdrawn"
        /\ d.otherDates # {} => d.mutual

\* Who took the yes back has no dates left at the server (lib/meetup.ts:119).
DatesOfTheWilling == pair.mine.dates # {} => pair.mine.intent = "yes"

\* What the page offers to report is accepted, however old what it shows, and
\* whatever was chosen before: a reason comes with "not met" and only then
\* (meetup/[matchId].tsx:86-93).
OffersAreAccepted == ~pair.refused /\ (pair.outcome = "not_met" <=> pair.reason # {})

\* "You both confirmed" and "you may report" stay true once shown.
ShownLasts ==
    \A d \in view.data : /\ d.confirmed => pair.state = "met_confirmed"
                         /\ d.canReport => Reportable(pair)

MeetupScreenInv == MutualIsBoth /\ DatesOfTheWilling /\ OffersAreAccepted /\ ShownLasts
================================================================================
