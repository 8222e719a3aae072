--------------------------------- MODULE SmsOtp ---------------------------------
(***************************************************************************)
(* Sending a login code to one number: the login screen with its timer,    *)
(* the Send SMS hook of the auth service, the row lock under which         *)
(* sms_otp_rate_limit_check decides, and the SMS service. A unit of time   *)
(* is longer than the timeouts of the hook: a decision that comes a unit   *)
(* after it was asked for comes too late.                                  *)
(***************************************************************************)
EXTENDS Naturals, Sequences

CONSTANTS
    Hooks,      \* bound: calls of the hook at once, of the screen or from elsewhere
    Cooldown, Window, MaxPerHour,
    MaxTime, MaxHiccups   \* bounds

\* sms_otp_rate_limit_check raises an exception for a limit below one.
ASSUME SmsAssumption == /\ {Cooldown, Window} \subseteq Nat
                        /\ MaxPerHour \in Nat \ {0}

VARIABLES
    clock,
    log,       \* the number's row of sms_otp_send_log
    hooks,
    sends,     \* when the SMS service was called, in order
    delivered, \* it has accepted a message
    login,     \* the screen
    stored,    \* the saved timer
    hiccups

sms == <<clock, log, hooks, sends, delivered, login, stored, hiccups>>

Never == 0   \* the clock starts later
NoRow == [last |-> Never, start |-> Never, count |-> 0]
Resting == [pc |-> "idle", ts |-> Never, row |-> NoRow]
\* The login screen, with the calls it waits for
Opened == [stage |-> "phone", sentAt |-> Never, loading |-> FALSE, loaded |-> FALSE, waits |-> {}]

SmsInit ==
    /\ clock = 1
    /\ log = NoRow
    /\ hooks = [h \in Hooks |-> Resting]
    /\ sends = <<>> /\ delivered = FALSE
    /\ login = Opened /\ stored = Never
    /\ hiccups = 0

Hiccup == hiccups < MaxHiccups /\ hiccups' = hiccups + 1
Smooth == hiccups' = hiccups
Found(row) == row.count > 0
-----------------------------------------------------------------------------
(* The limiter.                                                            *)

\* now() is the time the transaction began.
Begin(h) ==
    /\ hooks[h].pc = "asked"
    /\ hooks' = [hooks EXCEPT ![h] = [pc |-> "begun", ts |-> clock, row |-> NoRow]]
    /\ UNCHANGED <<clock, log, sends, delivered, login, stored, hiccups>>

\* Slip: the row is read without waiting for who has locked it.
ReadUnlocked(h) == hooks[h].pc = "begun"

\* select ... for update; there is nothing to lock when there is no row yet.
CanRead(h) ==
    /\ hooks[h].pc = "begun"
    /\ \A o \in Hooks : hooks[o].pc = "locked" => ~Found(hooks[o].row)

ReadRow(h) ==
    /\ CanRead(h)
    /\ hooks' = [hooks EXCEPT ![h].pc = "locked", ![h].row = log]
    /\ UNCHANGED <<clock, log, sends, delivered, login, stored, hiccups>>

\* What the row becomes if the request is allowed, by the row that was read
Counted(row, ts) ==
    LET fresh == row.start + Window <= ts IN
    [last |-> ts,
     start |-> IF Found(row) /\ ~fresh THEN row.start ELSE ts,
     count |-> IF Found(row) /\ ~fresh THEN row.count + 1 ELSE 1]

Permitted(row, ts) ==
    Found(row) => /\ row.last + Cooldown <= ts
                  /\ row.start + Window <= ts \/ row.count < MaxPerHour

\* Of two first rows the second breaks the primary key.
Clashes(h) == ~Found(hooks[h].row) /\ Found(log)
Granted(h) == ~Clashes(h) /\ Permitted(hooks[h].row, hooks[h].ts)

\* RateLimitDecision, as the hook sees it: it has given up waiting when the unit
\* of time is over.
Decision(h) ==
    IF hooks[h].ts < clock \/ Clashes(h) THEN "unavailable"
    ELSE IF Granted(h) THEN "granted" ELSE "limited"

\* The transaction commits whether or not somebody waits for it.
Decide(h) ==
    /\ hooks[h].pc = "locked"
    /\ log' = IF Granted(h) THEN Counted(hooks[h].row, hooks[h].ts) ELSE log
    /\ hooks' = [hooks EXCEPT ![h].pc = Decision(h), ![h].row = NoRow]
    /\ UNCHANGED <<clock, sends, delivered, login, stored, hiccups>>

\* The call of the limiter fails, and the transaction may or may not have begun.
LimiterFails(h) ==
    /\ hooks[h].pc \in {"asked", "begun"} /\ Hiccup
    /\ hooks' = [hooks EXCEPT ![h].pc = "unavailable"]
    /\ UNCHANGED <<clock, log, sends, delivered, login, stored>>
-----------------------------------------------------------------------------
(* The hook and the SMS service.                                           *)

\* Slip: a check that could not be made does not stop the message.
MaySendOpen(h) == hooks[h].pc \in {"granted", "unavailable"}

\* handleSendSmsRequest: without a permission nothing is sent.
MaySend(h) == hooks[h].pc = "granted"

\* A call that fails may have sent the message.
SendSms(h) ==
    /\ MaySend(h)
    /\ sends' = Append(sends, clock)
    /\ \/ Smooth /\ hooks' = [hooks EXCEPT ![h].pc = "sent"] /\ delivered' = TRUE
       \/ Hiccup /\ hooks' = [hooks EXCEPT ![h].pc = "failed"] /\ delivered' \in {delivered, TRUE}
    /\ UNCHANGED <<clock, log, login, stored>>

Answered(h) == hooks[h].pc \in {"unavailable", "limited", "sent", "failed"}

\* Where nobody waits for the answer
AnswerElsewhere(h) ==
    /\ Answered(h) /\ h \notin login.waits
    /\ hooks' = [hooks EXCEPT ![h] = Resting]
    /\ UNCHANGED <<clock, log, sends, delivered, login, stored, hiccups>>

AskElsewhere(h) ==
    /\ hooks[h] = Resting
    /\ hooks' = [hooks EXCEPT ![h].pc = "asked"]
    /\ UNCHANGED <<clock, log, sends, delivered, login, stored, hiccups>>
-----------------------------------------------------------------------------
(* The login screen.                                                       *)

\* cooldownRemainingSec
Locked(at) == at # Never /\ clock < at + Cooldown

\* The saved timer comes some time after the screen, and replaces what is there.
LoadCooldowns ==
    /\ ~login.loaded
    /\ login' = [login EXCEPT !.loaded = TRUE, !.sentAt = IF Locked(stored) THEN stored ELSE Never]
    /\ UNCHANGED <<clock, log, hooks, sends, delivered, stored, hiccups>>

\* Only the first of the two buttons is disabled until the answer; the one that
\* asks for a code again can be pressed while the timer does not run.
RequestCode(h) ==
    /\ \/ login.stage = "phone" /\ ~login.loading
       \/ login.stage = "code"
    /\ ~Locked(login.sentAt) /\ hooks[h] = Resting
    /\ login' = [login EXCEPT !.loading = TRUE, !.waits = @ \cup {h}]
    /\ hooks' = [hooks EXCEPT ![h].pc = "asked"]
    /\ UNCHANGED <<clock, log, sends, delivered, stored, hiccups>>

\* A message that was sent or refused for its number starts the timer, also
\* when the screen has been left with a code in the meantime.
CodeAnswer(h) ==
    /\ h \in login.waits /\ Answered(h)
    /\ LET starts == hooks[h].pc \in {"sent", "limited"} IN
       /\ login' = [login EXCEPT !.loading = FALSE, !.waits = @ \ {h},
                                 !.sentAt = IF starts THEN clock ELSE @,
                                 !.stage = IF hooks[h].pc = "sent" /\ @ # "in" THEN "code" ELSE @]
       /\ \/ Smooth /\ stored' = IF starts THEN clock ELSE stored
          \/ starts /\ Hiccup /\ UNCHANGED stored
    /\ hooks' = [hooks EXCEPT ![h] = Resting]
    /\ UNCHANGED <<clock, log, sends, delivered>>

\* No answer: the auth service has given up on the hook, or the phone on it.
CodeUnanswered(h) ==
    /\ h \in login.waits /\ Hiccup
    /\ login' = [login EXCEPT !.loading = FALSE, !.waits = @ \ {h}]
    /\ UNCHANGED <<clock, log, hooks, sends, delivered, stored>>

ChangeNumber ==
    /\ login.stage = "code"
    /\ login' = [login EXCEPT !.stage = "phone"]
    /\ UNCHANGED <<clock, log, hooks, sends, delivered, stored, hiccups>>

\* A code that is not right changes nothing.
Verify ==
    /\ login.stage = "code" /\ ~login.loading
    /\ login' = [login EXCEPT !.stage = "in"]
    /\ UNCHANGED <<clock, log, hooks, sends, delivered, stored, hiccups>>

ReopenLogin ==
    /\ login # Opened /\ Hiccup
    /\ login' = Opened
    /\ UNCHANGED <<clock, log, hooks, sends, delivered, stored>>

Pass ==
    /\ clock < MaxTime /\ clock' = clock + 1
    \* a permission is used within the unit of time it was given in
    /\ \A h \in Hooks : hooks[h].pc # "granted"
    /\ UNCHANGED <<log, hooks, sends, delivered, login, stored, hiccups>>

HookNext(h) ==
    \/ Begin(h) \/ ReadRow(h) \/ Decide(h) \/ LimiterFails(h)
    \/ SendSms(h) \/ AnswerElsewhere(h) \/ AskElsewhere(h)
    \/ RequestCode(h) \/ CodeAnswer(h) \/ CodeUnanswered(h)

SmsNext ==
    \/ \E h \in Hooks : HookNext(h)
    \/ LoadCooldowns \/ ChangeNumber \/ Verify \/ ReopenLogin \/ Pass

SmsSpec == SmsInit /\ [][SmsNext]_sms
-----------------------------------------------------------------------------
\* 1. However many requests there are at once and whatever fails, two messages
\* to a number are a cooldown apart, every message is counted, no window counts
\* more than the limit, and the screen asks for a code only when a message has
\* been accepted.
OtpInv ==
    /\ \A i \in 1..Len(sends), j \in 1..Len(sends) : i < j => sends[i] + Cooldown <= sends[j]
    /\ \A i \in 1..Len(sends) : sends[i] <= log.last
    /\ log.count <= MaxPerHour
    /\ login.stage = "code" => delivered
=============================================================================
