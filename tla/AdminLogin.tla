------------------------------- MODULE AdminLogin -------------------------------
(***************************************************************************)
(* How an operator gets into the admin app: the forms of one account that  *)
(* are in flight at once, the failure counters of admin_login_guard, the   *)
(* authentication service with its sessions and its second factor, and     *)
(* the cookie between the two forms. Every call of a form is a step. The   *)
(* session in the database is AdminMembers' subject.                       *)
(***************************************************************************)
EXTENDS Naturals, FiniteSets, Sequences

CONSTANTS
    Forms,                   \* bound: server actions in flight
    MaxFailures, LockTime,   \* LOGIN_MAX_FAILURES, LOGIN_LOCK_SECONDS
    MaxHours, MaxSignIns, MaxEnrolls, MaxSkips  \* bounds

ASSUME AdminLoginAssumption ==
    /\ IsFiniteSet(Forms) /\ Forms # {}
    /\ MaxFailures \in Nat \ {0} /\ LockTime \in Nat \ {0}

VARIABLES
    hour,
    guard,       \* admin_login_locks; tried: wrong guesses since the window began
    opened,      \* sessions of the service, in order; closing: what became of the
                 \* calls that were to close it
    factor,      \* the second factor: verified, and the last one enrolled
    pending,     \* the cookie of the operator who has given the password
    drawn,       \* the factor in the form of the page that is shown
    admitted,    \* the session cookie
    forms,
    later,       \* the last form was told to try again later
    skips

adminLogin == <<hour, guard, opened, factor, pending, drawn, admitted, forms, later, skips>>

GuardKeys == {"ip", "acct", "mfa"}
PasswordKeys == <<"ip", "acct">>
NoFailures == [failures |-> 0, until |-> 0, tried |-> 0]
NoCookie == [sid |-> 0, fid |-> 0]
\* for: login (the password), code, change (of the password), reset (of the factor)
Blank == [pc |-> "blank", for |-> "login", key |-> 1, sid |-> 0, fid |-> 0]

AdminLoginInit ==
    /\ hour = 1
    /\ guard = [k \in GuardKeys |-> NoFailures]
    /\ opened = <<>>
    /\ factor \in {[verified |-> 0, last |-> 0], [verified |-> 1, last |-> 1]}
    /\ pending = NoCookie /\ drawn = 0
    /\ admitted = (factor.verified # 0)
    /\ forms = [f \in Forms |-> Blank]
    /\ later = FALSE
    /\ skips = 0

Skip == skips < MaxSkips /\ skips' = skips + 1
Well == skips' = skips
At(f, pc) == forms[f].pc = pc
Goes(f, pc) == forms' = [forms EXCEPT ![f].pc = pc]
\* The form is answered.
Tell(f, what) == forms' = [forms EXCEPT ![f] = Blank] /\ later' = (what = "unavailable")
Open(sid) == sid # 0 /\ opened[sid].aal # "closed"
\* Nobody looks at what the call that closes a session answers.
SignOut(sid) == \/ opened' = [opened EXCEPT ![sid].aal = "closed"]
                \/ opened' = [opened EXCEPT ![sid].closing = "failed"]
CloseAsked(session) == session.aal = "closed" \/ session.closing = "failed"
-----------------------------------------------------------------------------
(* admin_login_guard                                                       *)

LockedKey(k) == guard[k].until > hour

\* Slip: the lock begins one failure too late.
CountLate(g) ==
    IF g.failures + 1 > MaxFailures THEN [g EXCEPT !.failures = 0, !.until = hour + LockTime]
    ELSE [g EXCEPT !.failures = @ + 1, !.until = 0]

\* One more failure when the key is not locked; a lock that is over begins a new window.
Count(g) ==
    LET n == 1 + IF g.until # 0 THEN 0 ELSE g.failures IN
    IF n >= MaxFailures THEN [g EXCEPT !.failures = 0, !.until = hour + LockTime]
    ELSE [g EXCEPT !.failures = n, !.until = 0]

Hit(k) == guard' = [guard EXCEPT ![k] = IF LockedKey(k) THEN @ ELSE Count(@)]
Reset(k) == guard' = [guard EXCEPT ![k] = NoFailures]
Try(keys) == guard' = [k \in GuardKeys |-> IF k \in keys THEN [guard[k] EXCEPT !.tried = @ + 1] ELSE guard[k]]

KeyOf(f) == PasswordKeys[forms[f].key]
LastSession(f) == forms[f].key = Len(PasswordKeys)
NextKey(f) == forms' = [forms EXCEPT ![f].key = @ + 1]
-----------------------------------------------------------------------------
(* runPasswordLogin, also as the first half of runReauth                   *)

SubmitPassword(f) ==
    /\ At(f, "blank") /\ Len(opened) < MaxSignIns
    /\ \E for \in {"login", "change", "reset"} :
         /\ (for = "login") = ~admitted
         /\ forms' = [forms EXCEPT ![f] = [Blank EXCEPT !.pc = "check", !.for = for]]
    /\ UNCHANGED <<hour, guard, opened, factor, pending, drawn, admitted, later, skips>>

CheckKey(f) ==
    /\ At(f, "check")
    /\ \/ Well /\ LockedKey(KeyOf(f)) /\ Tell(f, "locked")
       \/ Well /\ ~LockedKey(KeyOf(f)) /\ UNCHANGED later
          /\ IF LastSession(f) THEN Goes(f, "sign_in") ELSE NextKey(f)
       \/ Skip /\ Tell(f, "unavailable")
    /\ UNCHANGED <<hour, guard, opened, factor, pending, drawn, admitted>>

\* A wrong password, the right one of somebody who is no operator (any more)
\* or whose membership cannot be read, the right one of an operator
SignIn(f) ==
    /\ At(f, "sign_in")
    /\ \/ Well /\ UNCHANGED <<opened, later>>
          /\ Try({"ip", "acct"})
          /\ forms' = [forms EXCEPT ![f].pc = "failure", ![f].key = 1]
       \/ Skip /\ Tell(f, "unavailable") /\ UNCHANGED <<guard, opened>>
       \/ Well /\ Len(opened) < MaxSignIns
          /\ opened' = Append(opened, [aal |-> "aal1", for |-> forms[f].for, closing |-> "none"])
          /\ forms' = [forms EXCEPT ![f].pc = "member", ![f].sid = Len(opened) + 1]
          /\ UNCHANGED <<guard, later>>
    /\ UNCHANGED <<hour, factor, pending, drawn, admitted>>

Member(f) ==
    /\ At(f, "member")
    /\ \/ /\ Well /\ forms' = [forms EXCEPT ![f].pc = "success", ![f].key = 1]
          /\ UNCHANGED <<guard, opened, later>>
       \/ /\ Well /\ SignOut(forms[f].sid) /\ Try({"ip", "acct"})
          /\ forms' = [forms EXCEPT ![f].pc = "failure", ![f].key = 1]
          /\ UNCHANGED later
       \/ /\ Well /\ SignOut(forms[f].sid) /\ Tell(f, "disabled") /\ UNCHANGED guard
       \/ /\ Skip /\ SignOut(forms[f].sid) /\ Tell(f, "unavailable") /\ UNCHANGED guard
    /\ UNCHANGED <<hour, factor, pending, drawn, admitted>>

\* recordFailure
Failure(f) ==
    /\ At(f, "failure")
    /\ \/ Well /\ Hit(KeyOf(f))
          /\ IF LastSession(f) THEN Tell(f, "bad_credentials") ELSE NextKey(f) /\ UNCHANGED later
       \/ Skip /\ Tell(f, "unavailable") /\ UNCHANGED guard
    /\ UNCHANGED <<hour, opened, factor, pending, drawn, admitted>>

Success(f) ==
    /\ At(f, "success")
    /\ \/ /\ Well /\ Reset(KeyOf(f)) /\ UNCHANGED <<opened, later>>
          /\ IF LastSession(f) THEN Goes(f, "factors") ELSE NextKey(f)
       \/ /\ Skip /\ SignOut(forms[f].sid) /\ Tell(f, "unavailable") /\ UNCHANGED guard
    /\ UNCHANGED <<hour, factor, pending, drawn, admitted>>

\* The login ends with the cookie, the re-authentication goes on with the code.
Factors(f) ==
    /\ At(f, "factors")
    /\ LET sid == forms[f].sid IN
       \/ /\ Well /\ forms[f].for = "login" /\ Tell(f, "next")
          /\ pending' = [sid |-> sid, fid |-> factor.verified]
          /\ drawn' = 0 /\ UNCHANGED opened
       \/ /\ Well /\ forms[f].for # "login" /\ factor.verified # 0
          /\ forms' = [forms EXCEPT ![f].pc = "check_code", ![f].fid = factor.verified]
          /\ UNCHANGED <<opened, pending, drawn, later>>
       \/ /\ Well /\ forms[f].for # "login" /\ factor.verified = 0
          /\ SignOut(sid) /\ Tell(f, "no_factor") /\ UNCHANGED <<pending, drawn>>
       \/ /\ Skip /\ SignOut(sid) /\ Tell(f, "unavailable") /\ UNCHANGED <<pending, drawn>>
    /\ UNCHANGED <<hour, guard, factor, admitted>>
-----------------------------------------------------------------------------
(* The page of the second factor and runMfaVerify                          *)

\* runMfaEnrollStart, when the page is drawn without a factor in the cookie:
\* a factor that was not verified is thrown away.
Draw ==
    /\ pending.sid # 0 /\ pending.fid = 0 /\ Open(pending.sid) /\ factor.verified = 0
    /\ factor.last < MaxEnrolls
    /\ factor' = [factor EXCEPT !.last = @ + 1]
    /\ drawn' = factor.last + 1
    /\ UNCHANGED <<hour, guard, opened, pending, admitted, forms, later, skips>>

SubmitCode(f) ==
    /\ At(f, "blank") /\ pending.sid # 0 /\ (pending.fid # 0 \/ drawn # 0)
    /\ forms' = [forms EXCEPT ![f] = [Blank EXCEPT !.pc = IF pending.fid = 0 THEN "pick" ELSE "check_code",
                    !.for = "code", !.sid = pending.sid,
                    !.fid = IF pending.fid = 0 THEN drawn ELSE pending.fid]]
    /\ UNCHANGED <<hour, guard, opened, factor, pending, drawn, admitted, later, skips>>

\* The factor of the form has to be the one that waits to be verified.
Pick(f) ==
    /\ At(f, "pick")
    /\ LET waits == factor.verified = 0 /\ factor.last = forms[f].fid IN
       \/ /\ Well /\ Open(forms[f].sid) /\ waits /\ Goes(f, "check_code")
          /\ UNCHANGED <<pending, later>>
       \/ /\ Well /\ Open(forms[f].sid) /\ ~waits /\ Tell(f, "no_pending") /\ pending' = NoCookie
       \/ /\ IF Open(forms[f].sid) THEN Skip ELSE Well
          /\ Tell(f, "unavailable") /\ UNCHANGED pending
    /\ UNCHANGED <<hour, guard, opened, factor, drawn, admitted>>

\* runReauth closes its session when the code does not pass; the form leaves it
\* to the next one.
Refuse(f, why) ==
    /\ Tell(f, why)
    /\ IF forms[f].for = "code" THEN UNCHANGED opened ELSE SignOut(forms[f].sid)

CheckCode(f) ==
    /\ At(f, "check_code")
    /\ \/ Well /\ LockedKey("mfa") /\ Refuse(f, "locked")
       \/ Well /\ ~LockedKey("mfa") /\ Goes(f, "challenge") /\ UNCHANGED <<opened, later>>
       \/ Skip /\ Refuse(f, "unavailable")
    /\ UNCHANGED <<hour, guard, factor, pending, drawn, admitted>>

\* challengeAndVerify. The service knows the session and the factor, or does not.
Challenge(f) ==
    /\ At(f, "challenge")
    /\ LET sid == forms[f].sid
           known == forms[f].fid \in {factor.verified, factor.last} IN
       \/ /\ Well /\ Open(sid) /\ Try({"mfa"}) /\ Goes(f, "wrong")
          /\ UNCHANGED <<opened, factor, later>>
       \/ /\ Well /\ Open(sid) /\ known
          /\ opened' = [opened EXCEPT ![sid].aal = "aal2"]
          /\ factor' = [factor EXCEPT !.verified = forms[f].fid]
          /\ Goes(f, "right") /\ UNCHANGED <<guard, later>>
       \/ /\ IF Open(sid) THEN Skip ELSE Well
          /\ Refuse(f, "unavailable") /\ UNCHANGED <<guard, factor>>
    /\ UNCHANGED <<hour, pending, drawn, admitted>>

WrongCode(f) ==
    /\ At(f, "wrong")
    /\ \/ Well /\ Hit("mfa") /\ Refuse(f, "bad_code")
       \/ Skip /\ Refuse(f, "unavailable") /\ UNCHANGED guard
    /\ UNCHANGED <<hour, factor, pending, drawn, admitted>>

RightCode(f) ==
    /\ At(f, "right")
    /\ \/ Well /\ Reset("mfa") /\ Goes(f, "level") /\ UNCHANGED <<opened, later>>
       \/ Skip /\ Refuse(f, "unavailable") /\ UNCHANGED guard
    /\ UNCHANGED <<hour, factor, pending, drawn, admitted>>

\* assuranceLevel; a session another form has closed has no level.
Level(f) ==
    /\ At(f, "level")
    /\ LET sid == forms[f].sid IN
       \/ /\ Well /\ Open(sid) /\ UNCHANGED <<opened, later>>
          /\ Goes(f, IF forms[f].for = "code" THEN "issue" ELSE "proven")
       \/ /\ IF Open(sid) THEN Skip ELSE Well
          /\ SignOut(sid) /\ Tell(f, "unavailable")
    /\ UNCHANGED <<hour, guard, factor, pending, drawn, admitted>>

\* The membership once more, admin_session_issue, and the session of the service
\* is closed whatever came of it.
Issue(f) ==
    /\ At(f, "issue")
    /\ SignOut(forms[f].sid)
    /\ \/ Well /\ Tell(f, "in") /\ admitted' = TRUE /\ pending' = NoCookie
       \/ Well /\ Tell(f, "not_active") /\ pending' = NoCookie /\ UNCHANGED admitted
       \/ Skip /\ Tell(f, "unavailable") /\ UNCHANGED <<pending, admitted>>
    /\ UNCHANGED <<hour, guard, factor, drawn>>
-----------------------------------------------------------------------------
(* What the re-authentication was for, the cookies that end, time          *)

\* runChangePassword: the new password may be refused.
ChangePassword(f) ==
    /\ At(f, "proven") /\ forms[f].for = "change"
    /\ SignOut(forms[f].sid)
    /\ \/ Well /\ Tell(f, "rejected") /\ UNCHANGED admitted
       \/ Well /\ Tell(f, "changed") /\ admitted' = FALSE
       \/ Skip /\ Tell(f, "unavailable") /\ UNCHANGED admitted
    /\ UNCHANGED <<hour, guard, factor, pending, drawn>>

\* runSelfMfaReset: the proven session is handed to the page.
ResetFactor(f) ==
    /\ At(f, "proven") /\ forms[f].for = "reset"
    /\ \/ /\ Well /\ Tell(f, "next")
          /\ factor' = [factor EXCEPT !.verified = 0]
          /\ pending' = [sid |-> forms[f].sid, fid |-> 0]
          /\ drawn' = 0 /\ admitted' = FALSE /\ UNCHANGED opened
       \/ /\ Skip /\ SignOut(forms[f].sid) /\ Tell(f, "unavailable")
          /\ UNCHANGED <<factor, pending, drawn, admitted>>
    /\ UNCHANGED <<hour, guard>>

\* The pending cookie lives for ten minutes.
PendingEnds ==
    /\ pending # NoCookie
    /\ pending' = NoCookie /\ drawn' = 0
    /\ UNCHANGED <<hour, guard, opened, factor, admitted, forms, later, skips>>

\* logout takes both cookies.
Logout ==
    /\ admitted
    /\ admitted' = FALSE /\ pending' = NoCookie /\ drawn' = 0
    /\ UNCHANGED <<hour, guard, opened, factor, forms, later, skips>>

\* A window ends with its lock.
HourPasses ==
    /\ hour < MaxHours /\ hour' = hour + 1
    /\ guard' = [k \in GuardKeys |->
         IF guard[k].until = hour + 1 THEN [guard[k] EXCEPT !.tried = 0] ELSE guard[k]]
    /\ UNCHANGED <<opened, factor, pending, drawn, admitted, forms, later, skips>>

FormNext(f) ==
    \/ SubmitPassword(f) \/ CheckKey(f) \/ SignIn(f) \/ Member(f) \/ Failure(f) \/ Success(f)
    \/ Factors(f) \/ SubmitCode(f) \/ Pick(f) \/ CheckCode(f) \/ Challenge(f) \/ WrongCode(f)
    \/ RightCode(f) \/ Level(f) \/ Issue(f) \/ ChangePassword(f) \/ ResetFactor(f)

AdminLoginNext == (\E f \in Forms : FormNext(f)) \/ Draw \/ PendingEnds \/ Logout \/ HourPasses

AdminLoginSpec == AdminLoginInit /\ [][AdminLoginNext]_adminLogin
-----------------------------------------------------------------------------
\* 1. Forms that pass the check together before any of them fails examine more
\* guesses than the limit, but never more than one each: in one window at most
\* MaxFailures, one for every other form, and one for every failure that could
\* not be written. And no path of a form forgets the session it opened to change
\* the password, whatever failed on the way: when the form is answered the session
\* is closed, or it is a call to close it that failed, which nobody repeats.
AdminLoginInv ==
    /\ \A k \in GuardKeys : guard[k].tried <= MaxFailures + (Cardinality(Forms) - 1) + skips
    /\ \A sid \in 1..Len(opened) :
         opened[sid].for = "change" /\ ~CloseAsked(opened[sid]) => \E f \in Forms : forms[f].sid = sid

\* 2. An operator who is told that the code could not be checked and to try again
\* later has a cookie with which a later try can succeed.
RetryCanSucceed == pending.sid # 0 /\ later => Open(pending.sid)
=============================================================================
