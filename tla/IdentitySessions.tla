--------------------------- MODULE IdentitySessions ---------------------------
(***************************************************************************)
(* One account per person.  verify-identity as the sequence of awaits of   *)
(* each call (request, confirm, recover), several calls at a time, each of *)
(* which may be cut short, and the identity screens that make them.        *)
(***************************************************************************)
EXTENDS Naturals, FiniteSets

CONSTANTS
    Users,      \* account ids; one that is erased never comes back
    Persons,    \* hashes of identity keys
    Phones,
    Screens,    \* installations of the app
    Sids,       \* bound: identity_verification_sessions rows
    Slots,      \* bound: verify-identity calls running at once
    Nobody,
    Owners,     \* accounts that are verified at the start: [owner -> person]
    MaxAttempts,
    Ttl, RecoveryTtl, Lease, MaxNow,
    MaxRare     \* bound: failures, crashes, lost answers, bans, erasures, ways back while a call runs

ASSUME IdentityAssumption ==
    /\ Nobody \notin Users \cup Persons \cup Phones \cup Sids \cup Slots
    /\ DOMAIN Owners \subseteq Users
    /\ Owners \in [DOMAIN Owners -> Persons]
    /\ \A u, v \in DOMAIN Owners : Owners[u] = Owners[v] => u = v
    /\ {MaxAttempts, Ttl, RecoveryTtl, Lease, MaxNow, MaxRare} \subseteq Nat

VARIABLES
    acct,    \* users and auth.users
    ident,   \* user_identities by identity_key_hash
    ses,     \* identity_verification_sessions
    running, \* verify-identity calls running
    screens, \* the identity screens
    now, rare

identity == <<acct, ident, ses, running, screens, now, rare>>

SessionStatuses == {"pending", "checking", "completed", "existing_account", "failed", "expired"}
Positive == {"created", "already_verified", "relinked"}
Outcomes == Positive \cup {"existing_account", "blocked", "underage"}
NoCall == [pc |-> "idle", user |-> Nobody, sid |-> Nobody, person |-> Nobody, found |-> Nobody,
           round |-> 0, tries |-> 0, at |-> 0, res |-> "none"]
Errors == {"error", "expired", "too_many", "invalid", "busy", "mismatch"}
EndsScreen == {"expired", "too_many", "invalid"}

Live(u) == acct[u].st \notin {"new", "gone"}
\* findIdentityByUser
Mine(u) == {p \in Persons : ident[p].stored /\ ident[p].user = u}
Verified(u) == Live(u) /\ acct[u].verified
-----------------------------------------------------------------------------
IdentityInit ==
    /\ acct = [u \in Users |->
                 IF u \in DOMAIN Owners
                 THEN [st |-> "active", verified |-> TRUE, phone |-> Nobody]
                 ELSE [st |-> "new", verified |-> FALSE, phone |-> Nobody]]
    /\ ident = [p \in Persons |->
                 IF \E u \in DOMAIN Owners : Owners[u] = p
                 THEN [stored |-> TRUE, user |-> CHOOSE u \in DOMAIN Owners : Owners[u] = p,
                       banned |-> FALSE]
                 ELSE [stored |-> FALSE, user |-> Nobody, banned |-> FALSE]]
    /\ ses = [i \in Sids |-> Nobody]
    /\ running = [c \in Slots |-> NoCall]
    /\ screens = [s \in Screens |-> [user |-> Nobody, stage |-> "login", sid |-> Nobody,
                                     wait |-> Nobody]]
    /\ now = 0 /\ rare = 0

Rare == rare < MaxRare /\ rare' = rare + 1
Calm == rare' = rare
\* An awaited write either happens or fails.
MayFail(ok, failed) == \/ Calm /\ ok
                       \/ Rare /\ failed
-----------------------------------------------------------------------------
(* The rows.                                                               *)

\* createSession
NewSession(u) == [user |-> u, st |-> "pending", outcome |-> "none", person |-> Nobody,
                  owner |-> Nobody, tries |-> 0, exp |-> now + Ttl, since |-> 0]

\* Slip: the row is written whatever its status has become.
UpdateAnyway(i, expect, row) ==
    ses' = IF ses[i] = Nobody THEN ses ELSE [ses EXCEPT ![i] = row]

\* updateSession: only a row that still has the expected status is written, and
\* the caller does not look whether one was.
UpdateSession(i, expect, row) ==
    ses' = IF ses[i] # Nobody /\ ses[i].st = expect THEN [ses EXCEPT ![i] = row] ELSE ses

Owns(u, i) == ses[i] # Nobody /\ ses[i].user = u

\* claimSession
ClaimableNow(i, u) ==
    /\ ses[i] # Nobody /\ ses[i].user = u
    /\ ses[i].exp > now
    /\ \/ ses[i].st = "pending"
       \/ ses[i].st = "checking" /\ ses[i].since + Lease < now

\* The row disappears with everything that refers to it.
EraseAccount(u) ==
    /\ acct' = [acct EXCEPT ![u] = [st |-> "gone", verified |-> FALSE, phone |-> Nobody]]
    /\ ident' = [p \in Persons |-> IF ident[p].user = u THEN [ident[p] EXCEPT !.user = Nobody]
                                   ELSE ident[p]]
    /\ ses' = [i \in Sids |-> IF ses[i] # Nobody /\ ses[i].user = u THEN Nobody ELSE ses[i]]
-----------------------------------------------------------------------------
(* The steps of a call.                                                    *)

Step(c, pc) == running' = [running EXCEPT ![c].pc = pc]

\* The answer, with the session it opened if any; nobody may be waiting for it
\* any more.
Answer(c, res, i) ==
    running' = [running EXCEPT ![c] =
                IF \E s \in Screens : screens[s].wait = c
                THEN [NoCall EXCEPT !.pc = "done", !.user = running[c].user, !.sid = i, !.res = res]
                ELSE NoCall]
Respond(c, res) == Answer(c, res, Nobody)

At(c, pc) == running[c].pc = pc

OpenSession(c) ==
    /\ At(c, "request")
    /\ IF ~Live(running[c].user) THEN Calm /\ Respond(c, "error") /\ UNCHANGED ses
       ELSE MayFail(\E i \in Sids :
                      /\ ses[i] = Nobody
                      /\ \A k \in Slots : running[k].sid # i
                      /\ \A s \in Screens : screens[s].sid # i
                      /\ ses' = [ses EXCEPT ![i] = NewSession(running[c].user)]
                      /\ Answer(c, "session", i),
                    Respond(c, "error") /\ UNCHANGED ses)
    /\ UNCHANGED <<acct, ident, screens, now>>

\* A claim that fails looks like a session that is not to be had; the clock
\* read before it goes on being used.
Claim(c) ==
    LET i == running[c].sid IN
    /\ At(c, "claim")
    /\ \/ Calm /\ ~Live(running[c].user) /\ Respond(c, "error") /\ UNCHANGED ses
       \/ /\ Calm /\ Live(running[c].user) /\ ClaimableNow(i, running[c].user)
          /\ ses' = [ses EXCEPT ![i].st = "checking", ![i].since = now]
          /\ running' = [running EXCEPT ![c].pc = "provider", ![c].tries = ses[i].tries + 1]
       \/ /\ Live(running[c].user)
          /\ IF ClaimableNow(i, running[c].user) THEN Rare ELSE Calm
          /\ running' = [running EXCEPT ![c].pc = "explain", ![c].at = now]
          /\ UNCHANGED ses
    /\ UNCHANGED <<acct, ident, screens, now>>

\* explainUnclaimable and replayOutcome, on the row as it is by then; a read
\* that fails looks like no session.
Explain(c) ==
    LET i == running[c].sid IN
    /\ At(c, "explain")
    /\ \/ Rare /\ Respond(c, "invalid") /\ UNCHANGED ses
       \/ Calm /\ ~Owns(running[c].user, i) /\ Respond(c, "invalid") /\ UNCHANGED ses
       \/ /\ Calm /\ Owns(running[c].user, i)
          /\ CASE ses[i].st = "checking" -> Respond(c, "busy") /\ UNCHANGED ses
               [] ses[i].st \in {"completed", "existing_account"} ->
                    Respond(c, ses[i].outcome) /\ UNCHANGED ses
               [] ses[i].st = "failed" -> Respond(c, "too_many") /\ UNCHANGED ses
               [] OTHER ->
                    /\ Respond(c, "expired")
                    /\ IF ses[i].exp <= running[c].at
                       THEN UpdateSession(i, "pending", [ses[i] EXCEPT !.st = "expired"])
                       ELSE UNCHANGED ses
    /\ UNCHANGED <<acct, ident, screens, now>>

\* The row the call goes on writing: what it claimed, with a new status and
\* claimed no more.
Now(c, st) == [ses[running[c].sid] EXCEPT !.st = st, !.since = 0]
Leave(c, st, res) ==
    /\ IF ses[running[c].sid] = Nobody THEN UNCHANGED ses
       ELSE UpdateSession(running[c].sid, "checking", Now(c, st))
    /\ Respond(c, res)

\* The provider's answer to the code. A wrong code is counted, an ended or
\* cancelled verification ends the session, a minor's result is final.
ProviderAnswers(c) ==
    LET i == running[c].sid
        tries == running[c].tries
        Count(st) == IF ses[i] = Nobody THEN UNCHANGED ses
                     ELSE UpdateSession(i, "checking", [Now(c, st) EXCEPT !.tries = tries])
    IN
    /\ At(c, "provider")
    /\ \/ Rare /\ Leave(c, "pending", "error")
       \/ /\ Calm
          /\ IF tries >= MaxAttempts THEN Count("failed") /\ Respond(c, "too_many")
             ELSE Count("pending") /\ Respond(c, "failed")
       \/ Rare /\ Count("expired") /\ Respond(c, "expired")
       \/ Rare /\ Count("failed") /\ Respond(c, "cancelled")
       \/ Rare /\ Leave(c, "failed", "error")
       \/ /\ Rare
          /\ IF ses[i] = Nobody THEN UNCHANGED ses
             ELSE UpdateSession(i, "checking", [Now(c, "completed") EXCEPT !.outcome = "underage"])
          /\ Respond(c, "underage")
       \/ \E p \in Persons :
            /\ Calm
            /\ running' = [running EXCEPT ![c].pc = "mine", ![c].person = p]
            /\ UNCHANGED ses
    /\ UNCHANGED <<acct, ident, screens, now>>

\* An account that has an identity is not linked to another one. A read that
\* fails looks like no identity.
CheckMine(c) ==
    LET mine == Mine(running[c].user) same == mine \subseteq {running[c].person} IN
    /\ At(c, "mine")
    /\ \/ /\ IF same THEN Calm ELSE Rare
          /\ running' = [running EXCEPT ![c].pc = "find", ![c].round = 1]
          /\ UNCHANGED ses
       \/ /\ mine # {}
          /\ IF same THEN Rare ELSE Calm
          /\ Leave(c, "failed", "mismatch")
    /\ UNCHANGED <<acct, ident, screens, now>>

\* findIdentityByHash; an error of the read looks like no identity.
Find(c, next) ==
    MayFail(running' = [running EXCEPT ![c].pc = next, ![c].found = ident[running[c].person]],
            running' = [running EXCEPT ![c].pc = next,
                       ![c].found = [stored |-> FALSE, user |-> Nobody, banned |-> FALSE]])

FindIdentity(c) == At(c, "find") /\ Find(c, "judge") /\ UNCHANGED <<acct, ident, ses, screens, now>>

\* decideIdentityOutcome, with the owner's status read after the identity.
DecideOutcome(f, u) ==
    IF ~f.stored THEN "created"
    ELSE IF f.banned THEN "blocked"
    ELSE IF f.user = u THEN "already_verified"
    ELSE IF f.user = Nobody THEN "relinked"
    ELSE IF acct[f.user].st = "banned" THEN "blocked"
    ELSE "existing_account"

Judge(c) ==
    LET i == running[c].sid
        outcome == DecideOutcome(running[c].found, running[c].user)
        Keep(row) == IF ses[i] = Nobody THEN UNCHANGED ses ELSE UpdateSession(i, "checking", row)
    IN
    /\ At(c, "judge")
    /\ Calm
    /\ CASE outcome = "blocked" ->
              /\ Keep([Now(c, "completed") EXCEPT !.outcome = "blocked"])
              /\ Respond(c, "blocked")
         [] outcome = "existing_account" ->
              /\ Keep([Now(c, "existing_account") EXCEPT
                         !.outcome = "existing_account", !.person = running[c].person,
                         !.owner = running[c].found.user, !.exp = now + RecoveryTtl])
              /\ Respond(c, "existing_account")
         [] outcome = "already_verified" ->
              running' = [running EXCEPT ![c].pc = "mark", ![c].res = outcome] /\ UNCHANGED ses
         [] OTHER -> running' = [running EXCEPT ![c].pc = "link", ![c].res = outcome] /\ UNCHANGED ses
    /\ UNCHANGED <<acct, ident, screens, now>>

\* Slip: the row found without an account is taken whatever it is by now.
CanTake(c) ==
    /\ Live(running[c].user) /\ Mine(running[c].user) = {}
    /\ ident[running[c].person].stored = (running[c].res = "relinked")

\* insertIdentity and relinkIdentity: user_id and identity_key_hash are unique,
\* and only a row without an account is taken.
CanLink(c) ==
    /\ Live(running[c].user) /\ Mine(running[c].user) = {}
    /\ ident[running[c].person].stored = (running[c].res = "relinked")
    /\ ident[running[c].person].user = Nobody

\* A lost race is looked at once more; an insert that fails otherwise is an error.
Again(c) ==
    /\ running[c].round = 1
    /\ running[c].res = "created" => Live(running[c].user) /\ ~CanLink(c)

\* Slip: losing the race is taken for having linked.
LinkEither(c) ==
    /\ At(c, "link")
    /\ Calm
    /\ ident' = IF CanLink(c)
                THEN [ident EXCEPT ![running[c].person] =
                        [stored |-> TRUE, user |-> running[c].user, banned |-> @.banned]] ELSE ident
    /\ Step(c, "mark")
    /\ UNCHANGED <<acct, ses, screens, now>>

LinkIdentity(c) ==
    /\ At(c, "link")
    /\ \/ /\ Calm /\ CanLink(c)
          /\ ident' = [ident EXCEPT ![running[c].person] =
                         [stored |-> TRUE, user |-> running[c].user, banned |-> @.banned]]
          /\ Step(c, "mark")
          /\ UNCHANGED ses
       \/ /\ IF CanLink(c) THEN Rare ELSE Calm
          /\ IF Again(c)
             THEN running' = [running EXCEPT ![c].pc = "find", ![c].round = 2] /\ UNCHANGED ses
             ELSE Leave(c, "pending", "error")
          /\ UNCHANGED ident
    /\ UNCHANGED <<acct, screens, now>>

\* markUserVerified: no row of an erased account is changed, without an error.
Mark(c) ==
    LET u == running[c].user IN
    /\ At(c, "mark")
    /\ MayFail(/\ acct' = IF Live(u) THEN [acct EXCEPT ![u].verified = TRUE] ELSE acct
               /\ Step(c, "profile")
               /\ UNCHANGED ses,
               Leave(c, "pending", "error") /\ UNCHANGED acct)
    /\ UNCHANGED <<ident, screens, now>>

\* upsertPrivateProfile and the session's last update
Complete(c) ==
    LET i == running[c].sid IN
    /\ At(c, "profile")
    /\ IF ~Live(running[c].user) THEN Calm /\ Leave(c, "pending", "error")
       ELSE MayFail(/\ IF ses[i] = Nobody THEN UNCHANGED ses
                       ELSE UpdateSession(i, "checking",
                              [Now(c, "completed") EXCEPT !.outcome = running[c].res])
                    /\ Respond(c, running[c].res),
                    Leave(c, "pending", "error"))
    /\ UNCHANGED <<acct, ident, screens, now>>

CheckRecover(c) ==
    LET i == running[c].sid IN
    /\ At(c, "check")
    /\ Calm
    /\ CASE ~Live(running[c].user) -> Respond(c, "error") /\ UNCHANGED ses
         [] Live(running[c].user) /\ (ses[i] = Nobody \/ ses[i].user # running[c].user) ->
              Respond(c, "invalid") /\ UNCHANGED ses
         [] OTHER ->
              CASE ses[i].st = "checking" -> Respond(c, "busy") /\ UNCHANGED ses
                [] ses[i].st \notin {"checking", "existing_account"} ->
                     Respond(c, "error") /\ UNCHANGED ses
                [] ses[i].st = "existing_account" /\ ses[i].exp <= now ->
                     /\ UpdateSession(i, "existing_account", [ses[i] EXCEPT !.st = "expired"])
                     /\ Respond(c, "expired")
                [] OTHER ->
                     /\ UNCHANGED ses
                     /\ IF acct[running[c].user].phone = Nobody THEN Respond(c, "error")
                        ELSE running' = [running EXCEPT ![c].pc = "empty", ![c].person = ses[i].person]
    /\ UNCHANGED <<acct, ident, screens, now>>

\* Only an account without an identity may be given up.
CheckEmpty(c) ==
    LET u == running[c].user IN
    /\ At(c, "empty")
    /\ \/ /\ Calm
          /\ IF Verified(u) \/ Mine(u) # {} \/ ~Live(u) THEN Respond(c, "error") ELSE Step(c, "again")
       \/ /\ Rare /\ Live(u)
          /\ IF Verified(u) THEN Respond(c, "error") ELSE Step(c, "again")
    /\ UNCHANGED <<acct, ident, ses, screens, now>>

FindAgain(c) == At(c, "again") /\ Find(c, "rejudge") /\ UNCHANGED <<acct, ident, ses, screens, now>>

\* The owner the confirmation has stored must still be the one; then the session
\* is claimed against a second recovery.
ClaimRecovery(c) ==
    LET i == running[c].sid f == running[c].found IN
    /\ At(c, "rejudge")
    /\ Calm
    /\ IF ses[i] = Nobody THEN Respond(c, "error") /\ UNCHANGED ses
       ELSE IF ~f.stored \/ f.user # ses[i].owner
               \/ DecideOutcome(f, running[c].user) # "existing_account"
       THEN /\ UpdateSession(i, "existing_account", [ses[i] EXCEPT !.st = "failed"])
            /\ Respond(c, "error")
       ELSE IF ses[i].st = "existing_account"
       THEN /\ ses' = [ses EXCEPT ![i].st = "checking", ![i].since = now]
            /\ Step(c, "delete")
       ELSE Respond(c, "busy") /\ UNCHANGED ses
    /\ UNCHANGED <<acct, ident, screens, now>>

\* deleteUser: the new account goes first, because auth.users.phone is unique.
DeleteNew(c) ==
    LET u == running[c].user IN
    /\ At(c, "delete")
    /\ IF ~Live(u) THEN Calm /\ Respond(c, "error") /\ UNCHANGED <<acct, ident, ses>>
       ELSE MayFail(/\ EraseAccount(u)
                    /\ running' = [running EXCEPT ![c].pc = "phone", ![c].res = acct[u].phone],
                    Leave(c, "existing_account", "error") /\ UNCHANGED <<acct, ident>>)
    /\ UNCHANGED <<screens, now>>

FreePhone(ph) == \A u \in Users : acct[u].phone # ph

\* updateUserPhone: refused when the owner is gone or the number taken again.
MovePhone(c) ==
    LET o == running[c].found.user IN
    /\ At(c, "phone")
    /\ \/ /\ Calm /\ Live(o) /\ FreePhone(running[c].res)
          /\ acct' = [acct EXCEPT ![o].phone = running[c].res]
          /\ Step(c, "reactivate")
       \/ /\ IF Live(o) /\ FreePhone(running[c].res) THEN Rare ELSE Calm
          /\ Respond(c, "error")
          /\ UNCHANGED acct
    /\ UNCHANGED <<ident, ses, screens, now>>

\* reactivateIfDeleted: a failure is not noticed.
Reactivate(c) ==
    LET o == running[c].found.user IN
    /\ At(c, "reactivate")
    /\ MayFail(acct' = IF acct[o].st = "deleted" THEN [acct EXCEPT ![o].st = "active"] ELSE acct,
               acct[o].st = "deleted" /\ UNCHANGED acct)
    /\ Respond(c, "recovered")
    /\ UNCHANGED <<ident, ses, screens, now>>

\* The function is killed or times out in the middle.
Crash(c) ==
    /\ Rare
    /\ running[c].pc \notin {"idle", "done"}
    /\ Respond(c, "error")
    /\ UNCHANGED <<acct, ident, ses, screens, now>>

CallNext(c) ==
    \/ OpenSession(c) \/ Claim(c) \/ Explain(c) \/ ProviderAnswers(c) \/ CheckMine(c)
    \/ FindIdentity(c) \/ Judge(c) \/ LinkIdentity(c) \/ Mark(c) \/ Complete(c)
    \/ CheckRecover(c) \/ CheckEmpty(c) \/ FindAgain(c) \/ ClaimRecovery(c) \/ DeleteNew(c)
    \/ MovePhone(c) \/ Reactivate(c) \/ Crash(c)
-----------------------------------------------------------------------------
(* Others: operators, the owners themselves, the erasure, time.            *)

Ban(u) ==
    /\ Rare
    /\ acct[u].st = "active"
    /\ acct' = [acct EXCEPT ![u].st = "banned"]
    /\ ident' = [p \in Persons |-> IF ident[p].user = u THEN [ident[p] EXCEPT !.banned = TRUE]
                                   ELSE ident[p]]
    /\ UNCHANGED <<ses, running, screens, now>>

AskDeletion(u) ==
    /\ Rare
    /\ acct[u].st = "active"
    /\ acct' = [acct EXCEPT ![u].st = "deleted"]
    /\ UNCHANGED <<ident, ses, running, screens, now>>

Erase(u) ==
    /\ Calm
    /\ acct[u].st = "deleted"
    /\ EraseAccount(u)
    /\ UNCHANGED <<running, screens, now>>

Tick ==
    /\ now < MaxNow
    /\ now' = now + 1
    /\ UNCHANGED <<acct, ident, ses, running, screens, rare>>
-----------------------------------------------------------------------------
(* The screens.                                                            *)

Goes(s, stage, i) == screens' = [screens EXCEPT ![s].stage = stage, ![s].sid = i]

\* Where the router sends an account that is signed in: past the identity step
\* once users.identity_verified is set.
Signed(s, u, verified) ==
    screens' = [screens EXCEPT ![s] =
                  [user |-> u, stage |-> IF verified THEN "face" ELSE "form",
                   sid |-> Nobody, wait |-> Nobody]]

\* Signing in with the number: its account, or a new one.
SignIn(s) ==
    /\ screens[s].stage = "login"
    /\ \E ph \in Phones, u \in Users :
         \/ /\ Live(u) /\ acct[u].phone = ph
            /\ Signed(s, u, acct[u].verified)
            /\ UNCHANGED acct
         \/ /\ FreePhone(ph) /\ acct[u].st = "new"
            /\ acct' = [acct EXCEPT ![u] = [st |-> "active", verified |-> FALSE, phone |-> ph]]
            /\ Signed(s, u, FALSE)
    /\ UNCHANGED <<ident, ses, running, now, rare>>

\* invoke('verify-identity'): the button is disabled until the answer.
Invoke(s, pc) ==
    /\ screens[s].wait = Nobody
    /\ \E c \in Slots :
         /\ At(c, "idle")
         /\ running' = [running EXCEPT ![c] = [NoCall EXCEPT !.pc = pc, !.user = screens[s].user,
                        !.sid = screens[s].sid]]
         /\ screens' = [screens EXCEPT ![s].wait = c]
    /\ UNCHANGED <<acct, ident, ses, now, rare>>

PressRequest(s) == screens[s].stage = "form" /\ Invoke(s, "request")
PressConfirm(s) == screens[s].stage = "code" /\ Invoke(s, "claim")
PressRecover(s) == screens[s].stage = "found" /\ Invoke(s, "check")

\* handleConfirmOutcome, routeIfDenied and the end of request and recover.
Shown(s, c) ==
    LET res == running[c].res stage == screens[s].stage IN
    CASE res = "session" -> "code"
      [] res \in Positive -> "face"
      [] res = "existing_account" -> "found"
      [] res = "blocked" -> "blocked"
      [] res = "recovered" -> "recovered"
      [] res \in EndsScreen \cup {"cancelled"} -> "form"
      [] OTHER -> stage

Answered(s) ==
    LET c == screens[s].wait IN
    /\ c # Nobody /\ running[c].pc = "done"
    /\ running' = [running EXCEPT ![c] = NoCall]
    /\ screens' = [screens EXCEPT ![s].wait = Nobody, ![s].stage = Shown(s, c),
                     ![s].sid = IF running[c].res = "session" THEN running[c].sid
                                ELSE IF running[c].res \in EndsScreen \cup {"cancelled"} THEN Nobody ELSE @]
    /\ UNCHANGED <<acct, ident, ses, now, rare>>

\* No answer comes back; the call may still run.
Deaf(s) == running' = [c \in Slots |-> IF screens[s].wait = c /\ running[c].pc = "done"
                                     THEN NoCall ELSE running[c]]
LoseAnswer(s) ==
    /\ Rare /\ screens[s].wait # Nobody
    /\ Deaf(s)
    /\ screens' = [screens EXCEPT ![s].wait = Nobody]
    /\ UNCHANGED <<acct, ident, ses, now>>

\* The app is started again: the session's id is forgotten.
Restart(s) ==
    LET u == screens[s].user IN
    /\ Rare /\ u # Nobody
    /\ Deaf(s)
    /\ IF Live(u) THEN Signed(s, u, acct[u].verified)
       ELSE screens' = [screens EXCEPT ![s] = [user |-> Nobody, stage |-> "login",
                                               sid |-> Nobody, wait |-> Nobody]]
    /\ UNCHANGED <<acct, ident, ses, now>>

\* The two buttons back leave the session as it is, and a call that is still
\* waited for: its answer then moves the screen from wherever it is.
GoBack(s) ==
    /\ screens[s].stage \in {"code", "found"}
    /\ IF screens[s].wait = Nobody THEN Calm ELSE Rare
    /\ Goes(s, "form", screens[s].sid)
    /\ UNCHANGED <<acct, ident, ses, running, now>>

FinishRecovery(s) ==
    /\ screens[s].stage \in {"recovered", "blocked"} /\ screens[s].wait = Nobody
    /\ screens' = [screens EXCEPT ![s] = [user |-> Nobody, stage |-> "login", sid |-> Nobody,
                                          wait |-> Nobody]]
    /\ UNCHANGED <<acct, ident, ses, running, now, rare>>

ScreenNext(s) ==
    \/ SignIn(s) \/ PressRequest(s) \/ PressConfirm(s) \/ PressRecover(s)
    \/ Answered(s) \/ LoseAnswer(s) \/ Restart(s) \/ GoBack(s) \/ FinishRecovery(s)

IdentityNext ==
    \/ \E c \in Slots : CallNext(c)
    \/ \E u \in Users : Ban(u) \/ AskDeletion(u) \/ Erase(u)
    \/ Tick
    \/ \E s \in Screens : ScreenNext(s)

IdentitySpec == IdentityInit /\ [][IdentityNext]_identity
-----------------------------------------------------------------------------
IdentityTypeOK ==
    /\ \A u \in Users : /\ acct[u].st \in {"new", "active", "deleted", "banned", "gone"}
                        /\ acct[u].verified \in BOOLEAN
    /\ \A p \in Persons : /\ ident[p].stored \in BOOLEAN /\ ident[p].banned \in BOOLEAN
                          /\ ident[p].user \in Users \cup {Nobody}
    /\ \A c \in Slots : /\ running[c].user \in Users \cup {Nobody}
                        /\ running[c].person \in Persons \cup {Nobody}

\* 1. An account is marked verified only while a person is linked to it, no two
\* accounts share a person and no account has two: whatever calls overlap or are
\* cut short between linkIdentity and markUserVerified. A screen that went on to
\* the face step has an account that is verified, or that is erased by now.
LinkedOnce ==
    \A p, q \in Persons : ident[p].user = ident[q].user /\ ident[p].user # Nobody => p = q
LinkedIsLive ==
    \A p \in Persons : ident[p].user # Nobody => Live(ident[p].user) /\ ident[p].stored
VerifiedIsLinked == \A u \in Users : acct[u].verified => Mine(u) # {}
PassedIsVerified ==
    \A s \in Screens : screens[s].stage = "face" =>
        Verified(screens[s].user) \/ acct[screens[s].user].st = "gone"
IdentityInv == IdentityTypeOK /\ LinkedOnce /\ LinkedIsLive /\ VerifiedIsLinked /\ PassedIsVerified

\* 2. What a session has ended in stays, also when a call whose lease ran out
\* comes back to it after another one; and a person changes accounts only by
\* way of an erased one: no confirmation, relink or recovery takes the identity
\* of a live account.
FinalSessions ==
    \A i \in Sids :
        ses[i] # Nobody /\ ses[i].st \in {"completed", "failed", "expired"} =>
            ses'[i] \in {ses[i], Nobody}
MovesOnlyWhenErased ==
    \A p \in Persons :
        ident[p].user # Nobody /\ ident'[p].user # ident[p].user =>
            ident'[p].user = Nobody /\ acct'[ident[p].user].st = "gone"
SessionsAndMoves == [][FinalSessions /\ MovesOnlyWhenErased]_identity

\* 3. What the comment at verifyIdentityCore.ts:407 says a recovery checks: the
\* account it gives up is one no person is linked to.
GivesUpEmpty ==
    [][\A u \in Users : Verified(u) /\ ~Live(u)' => acct[u].st = "deleted"]_identity
=============================================================================
