------------------------------- MODULE Onboarding -------------------------------
(***************************************************************************)
(* From the login to the home screen: the entry gate of the app, the       *)
(* resumption of an unfinished registration, the beta screen and the       *)
(* screens that save one section each, against a server that refuses some  *)
(* of it, with reads and writes that fail and restarts in between.         *)
(***************************************************************************)
EXTENDS Naturals, Sequences

CONSTANTS
    Nothing,     \* no row was read
    MaxFaults    \* bound: failed reads and writes, restarts, acts of operators

ASSUME EntryAssumption == MaxFaults \in Nat

VARIABLES
    row,     \* the users row, with the sections that are stored; old: it was
             \* filled before there was an introduction
    gate,    \* app_settings.beta_gate
    session, \* a stored login
    seen,    \* appUser: the row as it was last read
    screen,
    busy,    \* a save that threw: the button never comes back
    refused, \* what the server has refused for want of an admission
    faults

entry == <<row, gate, session, seen, screen, busy, refused, faults>>

Sections == <<"profile", "intro", "questionnaire", "values", "preferences">>
EntryForms == {Sections[k] : k \in 1..Len(Sections)}
Screens == EntryForms \cup {"welcome", "suspended", "resume", "failed", "beta", "identity", "face", "home"}

Following(form) == Sections[1 + CHOOSE k \in 1..Len(Sections) : Sections[k] = form]

\* The sections in the order of the app before the introduction, which had
\* another last step.
Before == [step \in {"questionnaire", "values", "preferences", "appearance", "done"} |->
    CASE step = "questionnaire" -> {"profile"}
      [] step = "values" -> {"profile", "questionnaire"}
      [] step = "preferences" -> {"profile", "questionnaire", "values"}
      [] OTHER -> EntryForms \ {"intro"}]

NewRow == [st |-> "active", admitted |-> FALSE, identity |-> FALSE, face |-> FALSE,
           done |-> FALSE, step |-> "welcome", filled |-> {}, old |-> FALSE]
OldRow(step) == [NewRow EXCEPT !.identity = TRUE, !.face = TRUE, !.done = (step = "done"),
                               !.step = step, !.filled = Before[step], !.old = TRUE]

EntryInit ==
    /\ row \in {NewRow} \cup {OldRow(step) : step \in DOMAIN Before}
    /\ gate \in BOOLEAN
    /\ session = FALSE /\ seen = Nothing
    /\ screen = "welcome" /\ busy = FALSE /\ refused = "no"
    /\ faults = 0

Fault == faults < MaxFaults /\ faults' = faults + 1
Fine == faults' = faults

GateAllows == ~gate \/ row.admitted
Verified(s) == s.identity /\ s.face
-----------------------------------------------------------------------------
(* Where somebody is sent.                                                 *)

Snapshot(r) == [st |-> r.st, identity |-> r.identity, face |-> r.face, done |-> r.done, step |-> r.step]

\* fetchAppUser: an error looks like no row.
Refresh(r) == \/ Fine /\ seen' = Snapshot(r)
              \/ Fault /\ seen' = Nothing

CanEnterHome(s) == s.done /\ Verified(s)

Route(s) ==
    CASE s = Nothing -> "identity"
      [] s # Nothing /\ s.st # "active" -> "suspended"
      [] OTHER -> IF CanEnterHome(s) THEN "home" ELSE "resume"

MissingSection == {k \in 1..Len(Sections) : Sections[k] \notin row.filled}

\* Slip: the choice that came last is not asked for.
StepOfSix(access, s) ==
    CASE access = "closed" /\ ~s.identity -> "beta"
      [] ~s.identity /\ access # "closed" -> "identity"
      [] s.identity /\ ~s.face -> "face"
      [] OTHER -> IF MissingSection \subseteq {Len(Sections)} THEN "done"
                  ELSE Sections[CHOOSE k \in MissingSection : \A j \in MissingSection : k <= j]

\* resolveOnboardingStep: the first thing that is missing.
StepOf(access, s) ==
    CASE access = "closed" /\ ~s.identity -> "beta"
      [] ~s.identity /\ access # "closed" -> "identity"
      [] s.identity /\ ~s.face -> "face"
      [] OTHER -> IF MissingSection = {} THEN "done"
                  ELSE Sections[CHOOSE k \in MissingSection : \A j \in MissingSection : k <= j]

\* nextOnboardingRoute, and what goes before it where no progress could be read
Fallback(s) ==
    IF ~s.identity \/ s.step \notin EntryForms \cup {"face", "appearance"} THEN "identity"
    ELSE IF ~s.face THEN "face"
    ELSE IF s.step = "appearance" THEN "preferences" ELSE s.step
-----------------------------------------------------------------------------
(* The entry.                                                              *)

LogIn ==
    /\ screen = "welcome"
    /\ session' = TRUE
    /\ Refresh(row) /\ screen' = Route(seen')
    /\ UNCHANGED <<row, gate, busy, refused>>

\* The app is closed and opened again, by chance or because nothing else is left.
Restart ==
    /\ IF session THEN seen' \in {Snapshot(row), Nothing} /\ screen' = Route(seen')
       ELSE seen' = Nothing /\ screen' = "welcome"
    /\ busy' = FALSE /\ refused' = "no"
    /\ UNCHANGED <<row, gate, session>>
RestartByChance == screen # "welcome" /\ ~busy /\ Fault /\ Restart
RestartStuck == busy /\ Restart /\ IF seen' = Nothing THEN Fault ELSE Fine

\* users_guard_onboarding_completion
MayComplete == row.done \/ (Verified(row) /\ GateAllows)

\* advanceOnboarding
Advanced(r, next) == [r EXCEPT !.step = next, !.done = (next = "done")]

\* Slip: that everything is there is not noted.
ResumeOnly(access) ==
    LET step == StepOf(access, seen) IN
    /\ refused' = "no"
    /\ IF step # "done" THEN screen' = step /\ UNCHANGED <<row, seen, faults>>
       ELSE Refresh(row) /\ screen' = Route(seen') /\ UNCHANGED row

\* resolveResume and what OnboardingResume does with the step. The beta state
\* that could not be read counts as open; without the rest the attempt fails.
ResumeAs(access) ==
    LET step == StepOf(access, seen) IN
    IF step # "done"
    THEN screen' = step /\ refused' = "no" /\ UNCHANGED <<row, seen, faults>>
    ELSE IF seen.done \/ MayComplete
    THEN /\ row' = IF seen.done THEN row ELSE Advanced(row, "done")
         /\ Refresh(row')
         /\ screen' = Route(seen')
         /\ refused' = "no"
    ELSE screen' = "failed" /\ refused' = "completion" /\ UNCHANGED <<row, seen, faults>>

Resume ==
    /\ screen = "resume"
    /\ \/ Fault /\ screen' = "failed" /\ UNCHANGED <<row, seen, refused>>
       \/ ResumeAs(IF GateAllows THEN "open" ELSE "closed")
       \/ faults < MaxFaults /\ ResumeAs("open")
    /\ UNCHANGED <<gate, session, busy>>

TryAgain ==
    /\ screen = "failed"
    /\ screen' = "resume"
    /\ Fine
    /\ UNCHANGED <<row, gate, session, seen, busy, refused>>

GoOn ==
    /\ screen = "failed"
    /\ screen' = Fallback(seen)
    /\ Fine
    /\ UNCHANGED <<row, gate, session, seen, busy, refused>>

\* The beta screen: a code that is taken, or an admission that has come, leads
\* back to the gate with the row that was read before.
LeaveBeta ==
    /\ screen = "beta" /\ GateAllows
    /\ screen' = Route(seen)
    /\ Fine
    /\ UNCHANGED <<row, gate, session, seen, busy, refused>>

Redeem ==
    /\ screen = "beta"
    /\ row' = [row EXCEPT !.admitted = TRUE]
    /\ screen' = Route(seen)
    /\ Fine
    /\ UNCHANGED <<gate, session, seen, busy, refused>>

LogOut ==
    /\ screen \in {"beta", "suspended"} /\ Fault
    /\ session' = FALSE /\ seen' = Nothing
    /\ screen' = IF screen = "beta" THEN "welcome" ELSE screen
    /\ UNCHANGED <<row, gate, busy, refused>>

\* The owner of a deleted account takes it back.
Reactivate ==
    /\ screen = "suspended" /\ session /\ seen # Nothing /\ seen.st = "deleted"
    /\ row.st # "suspended"
    /\ row' = [row EXCEPT !.st = "active"]
    /\ Refresh(row') /\ screen' = Route(seen')
    /\ UNCHANGED <<gate, session, busy, refused>>
-----------------------------------------------------------------------------
(* The steps.                                                              *)

\* What a screen does after it has saved: note the step, read the row, go on.
\* Where the note fails the button stays busy if stuck says so.
NoteAndGo(r, next, stuck) ==
    \/ row' = Advanced(r, next) /\ Refresh(row') /\ screen' = next /\ busy' = FALSE
    \/ Fault /\ row' = r /\ busy' = stuck /\ UNCHANGED <<seen, screen>>

\* verify-identity, which asks for the admission first
Identify ==
    /\ screen = "identity"
    /\ IF GateAllows
       THEN NoteAndGo([row EXCEPT !.identity = TRUE], "face", FALSE) /\ refused' = "no"
       ELSE screen' = "beta" /\ refused' = "identity" /\ Fine /\ UNCHANGED <<row, seen, busy>>
    /\ UNCHANGED <<gate, session>>

\* start-face-liveness asks again, unless the check has been passed already.
ProveFace ==
    /\ screen = "face"
    /\ IF row.face \/ GateAllows
       THEN /\ NoteAndGo([row EXCEPT !.face = TRUE], "profile", FALSE) /\ refused' = "no"
       ELSE refused' = "face" /\ Fine /\ UNCHANGED <<row, seen, screen, busy>>
    /\ UNCHANGED <<gate, session>>

\* What the screens of the sections have in common: what is stored, the note of
\* the next section, and the button that is busy meanwhile.
Stored(form, kept) ==
    /\ screen = form /\ ~busy
    /\ NoteAndGo([row EXCEPT !.filled = @ \cup kept], Following(form), TRUE)
    /\ refused' = "no"
    /\ UNCHANGED <<gate, session>>

\* An upsert: the insert policy of profiles also holds where the row is there.
SaveProfile == GateAllows /\ Stored("profile", {"profile"})
ProfileRefused ==
    /\ screen = "profile" /\ ~busy /\ ~GateAllows
    /\ refused' = "profile" /\ Fine
    /\ UNCHANGED <<row, gate, session, seen, screen, busy>>

\* An update: without the profile it changes nothing, and is no error.
SaveIntro == Stored("intro", IF "profile" \in row.filled THEN {"intro"} ELSE {})

\* The answers of all pages go in one upsert after the last page.
SaveQuestionnaire == Stored("questionnaire", {"questionnaire"})

SaveValues == Stored("values", {"values"})

\* The last section; only here is a failure of the note caught.
Finish ==
    /\ screen = "preferences" /\ ~busy
    /\ LET saved == [row EXCEPT !.filled = @ \cup {"preferences"}] IN
       IF MayComplete
       THEN /\ \/ row' = Advanced(saved, "done") /\ Refresh(row') /\ screen' = "home"
               \/ Fault /\ row' = saved /\ UNCHANGED <<seen, screen>>
            /\ refused' = "no"
       ELSE row' = saved /\ refused' = "completion" /\ Fine /\ UNCHANGED <<seen, screen>>
    /\ UNCHANGED <<gate, session, busy>>
-----------------------------------------------------------------------------
(* Others.                                                                 *)

SwitchGate == Fault /\ gate' = ~gate /\ UNCHANGED <<row, session, seen, screen, busy, refused>>
Admit ==
    /\ Fault /\ ~row.admitted /\ row' = [row EXCEPT !.admitted = TRUE]
    /\ UNCHANGED <<gate, session, seen, screen, busy, refused>>
Sanction ==
    /\ Fault
    /\ row' = [row EXCEPT !.st = IF @ = "active" THEN "suspended" ELSE "active"]
    /\ UNCHANGED <<gate, session, seen, screen, busy, refused>>
\* From the settings: the deletion signs out.
Withdraw ==
    /\ Fault /\ screen = "home" /\ row.st = "active"
    /\ row' = [row EXCEPT !.st = "deleted"]
    /\ session' = FALSE /\ seen' = Nothing /\ screen' = "welcome"
    /\ UNCHANGED <<gate, busy, refused>>

Forward ==
    \/ LogIn \/ Resume \/ TryAgain \/ LeaveBeta \/ Redeem \/ RestartStuck
    \/ Identify \/ ProveFace \/ Finish
    \/ SaveProfile \/ ProfileRefused \/ SaveIntro \/ SaveQuestionnaire \/ SaveValues

EntryNext ==
    \/ Forward
    \/ GoOn \/ RestartByChance \/ LogOut \/ Reactivate
    \/ SwitchGate \/ Admit \/ Sanction \/ Withdraw

EntrySpec == EntryInit /\ [][EntryNext]_entry /\ WF_entry(Forward)
-----------------------------------------------------------------------------
OnboardingTypeOK ==
    /\ row.filled \subseteq EntryForms /\ row.st \in {"active", "suspended", "deleted"}
    /\ screen \in Screens
    /\ faults \in 0..MaxFaults

\* 1. The home screen is open only to somebody whose identity and face were
\* verified and whose entry was completed, whatever was read when, failed or was
\* saved twice; and an account is never complete without every section that was
\* there when it was begun: only one that is older than the introduction may be
\* without it.
HomeInv ==
    /\ OnboardingTypeOK
    /\ screen = "home" => Verified(row) /\ row.done
    /\ row.done => Verified(row) /\ EntryForms \ row.filled \subseteq {x \in {"intro"} : row.old}

\* 2. Somebody who stays logged in and is not kept out comes to the home screen.
ReachesHome ==
    <>[](session /\ GateAllows /\ row.st = "active") => <>(screen = "home" \/ screen = "suspended")

\* 3. What docs/beta-cohorts.md:40 says: who has a verified identity is not kept
\* back by a gate that is switched on later, but for the completion.
OnlyCompletionRefused == row.identity => refused \in {"no", "completion"}
=============================================================================
