------------------------------- MODULE BetaInvites -------------------------------
(***************************************************************************)
(* The admission to the closed beta: invite codes of two or more cohorts   *)
(* redeemed by several calls at once, the waiting list, and what the       *)
(* operators do.  A redemption and an admission from the list are          *)
(* transactions of several statements; a row they have written is locked   *)
(* until they commit, and seen by nobody else.                             *)
(***************************************************************************)
EXTENDS Naturals, FiniteSets

CONSTANTS
    Users, Codes, Cohorts,
    CohortOf,     \* the cohort of a code
    Calls,        \* bound: redemptions and registrations running at once
    NoOne,
    MaxUses,
    Capacity,     \* of a cohort
    MaxActs       \* bound: what the operators do, and codes that run out

\* A user's admission is a code, the cohort of an operator's admission, or nobody's.
ASSUME InvitesAssumption ==
    /\ NoOne \notin Codes \cup Cohorts /\ Codes \cap Cohorts = {}
    /\ CohortOf \in [Codes -> Cohorts]
    /\ IsFiniteSet(Users) /\ MaxUses \in Nat /\ Capacity \in Nat

VARIABLES
    users,  \* beta_admitted_at and cohort_id, by what they came about
    codes,  \* beta_invite_codes
    open,   \* beta_cohorts.signups_open
    list,   \* beta_waitlist
    tx,     \* the calls
    batch,  \* beta_admit_waitlist, which holds the row of its cohort
    acts

invites == <<users, codes, open, list, tx, batch, acts>>

\* late: the code had run out when the transaction began; won: the account was
\* written; settles: the entry of the list was
NoCall == [pc |-> "idle", user |-> NoOne, code |-> NoOne, late |-> FALSE, won |-> FALSE, settles |-> FALSE]
\* chosen: whose entries are locked; done: whose account is written
NoBatch == [pc |-> "idle", room |-> 0, chosen |-> {}, done |-> {}]

InvitesInit ==
    /\ users = [u \in Users |-> NoOne]
    /\ codes = [c \in Codes |-> [made |-> FALSE, active |-> TRUE, expired |-> FALSE, used |-> 0]]
    /\ open = [h \in Cohorts |-> TRUE]
    /\ list = [u \in Users |-> "none"]
    /\ tx = [k \in Calls |-> NoCall]
    /\ batch = [h \in Cohorts |-> NoBatch]
    /\ acts = 0

Admitted(u) == users[u] # NoOne
InCohort(h) == {u \in Users : users[u] = h \/ (users[u] \in Codes /\ CohortOf[users[u]] = h)}

\* Who has written the row of an account, or locked an entry of the list
AccountHeld(u) ==
    \/ \E k \in Calls : tx[k].won /\ tx[k].user = u
    \/ \E h \in Cohorts : u \in batch[h].done
EntryHeld(u) ==
    \/ \E k \in Calls : tx[k].settles /\ tx[k].user = u
    \/ \E h \in Cohorts : u \in batch[h].chosen
-----------------------------------------------------------------------------
(* beta_redeem_invite and beta_join_waitlist.                              *)

OnlyCalls == UNCHANGED <<users, codes, open, list, batch, acts>>

\* submitInvite and submitWaitlist; an answer that was lost is asked for again.
Ask(k, u, c) ==
    /\ tx[k] = NoCall
    /\ tx' = [tx EXCEPT ![k] = IF Admitted(u) THEN NoCall
                               ELSE [NoCall EXCEPT !.pc = "lock", !.user = u, !.code = c, !.late = codes[c].expired]]
    /\ OnlyCalls

AskWaitlist(k, u) ==
    /\ tx[k] = NoCall /\ ~Admitted(u)
    /\ tx' = [tx EXCEPT ![k] = [NoCall EXCEPT !.pc = "join", !.user = u]]
    /\ OnlyCalls

HasCode(j, c) == tx[j].pc \in {"write", "settle", "commit"} /\ tx[j].code = c

\* Slip: the code's row is read without its lock.
ReadsFree(k) == tx[k].pc = "lock"

\* for update of i: one redemption of a code at a time
Locks(k) == tx[k].pc = "lock" /\ \A j \in Calls : ~HasCode(j, tx[k].code)

Acceptable(k) ==
    LET c == tx[k].code IN
    /\ codes[c].made /\ codes[c].active /\ ~tx[k].late
    /\ codes[c].used < MaxUses
    /\ open[CohortOf[c]]
    /\ Cardinality(InCohort(CohortOf[c])) < Capacity

CheckInvite(k) ==
    /\ Locks(k)
    /\ tx' = [tx EXCEPT ![k] = IF Acceptable(k) THEN [@ EXCEPT !.pc = "write"] ELSE NoCall]
    /\ OnlyCalls

\* The account is written where it is not admitted; who has written it is waited for.
WriteAccount(k) ==
    /\ tx[k].pc = "write" /\ ~AccountHeld(tx[k].user)
    /\ tx' = [tx EXCEPT ![k].pc = "settle", ![k].won = ~Admitted(tx[k].user)]
    /\ OnlyCalls

\* The foreign key of the account waits for an admission to the same cohort; an
\* entry that waits is settled, one that is put on the list later is not.
SettleEntry(k) ==
    LET u == tx[k].user IN
    /\ tx[k].pc = "settle"
    /\ tx[k].won => batch[CohortOf[tx[k].code]] = NoBatch
    /\ list[u] = "waiting" => ~EntryHeld(u)
    /\ tx' = [tx EXCEPT ![k].pc = "commit", ![k].settles = (list[u] = "waiting")]
    /\ OnlyCalls

\* Slip: the account is written without looking whether it is admitted.
CommitOver(k) ==
    LET u == tx[k].user c == tx[k].code IN
    /\ tx[k].pc = "commit"
    /\ users' = [users EXCEPT ![u] = c]
    /\ codes' = [codes EXCEPT ![c].used = @ + 1]
    /\ list' = [list EXCEPT ![u] = IF tx[k].settles THEN "admitted" ELSE @]
    /\ tx' = [tx EXCEPT ![k] = NoCall]
    /\ UNCHANGED <<open, batch, acts>>

\* Who was admitted meanwhile keeps that admission; the use is counted all the same.
Commit(k) ==
    LET u == tx[k].user c == tx[k].code IN
    /\ tx[k].pc = "commit"
    /\ users' = [users EXCEPT ![u] = IF tx[k].won THEN c ELSE @]
    /\ codes' = [codes EXCEPT ![c].used = @ + 1]
    /\ list' = [list EXCEPT ![u] = IF tx[k].settles THEN "admitted" ELSE @]
    /\ tx' = [tx EXCEPT ![k] = NoCall]
    /\ UNCHANGED <<open, batch, acts>>

\* The call is cut off, or gives way to another one that waits for it in turn.
Abort(k) == tx[k].pc # "idle" /\ tx' = [tx EXCEPT ![k] = NoCall] /\ OnlyCalls

\* An entry that exists keeps the time of its admission; its lock is waited for.
Join(k) ==
    LET u == tx[k].user IN
    /\ tx[k].pc = "join" /\ ~EntryHeld(u)
    /\ list' = [list EXCEPT ![u] = IF @ = "none" THEN "waiting" ELSE @]
    /\ tx' = [tx EXCEPT ![k] = NoCall]
    /\ UNCHANGED <<users, codes, open, batch, acts>>

CallNext(k) ==
    \/ \E u \in Users : AskWaitlist(k, u) \/ \E c \in Codes : Ask(k, u, c)
    \/ CheckInvite(k) \/ WriteAccount(k) \/ SettleEntry(k) \/ Commit(k) \/ Abort(k) \/ Join(k)
-----------------------------------------------------------------------------
(* The operators' page.                                                    *)

Act == acts < MaxActs /\ acts' = acts + 1

\* A row that is locked is waited for, by a foreign key as well.
CreateInvite(c) ==
    /\ Act /\ ~codes[c].made /\ batch[CohortOf[c]] = NoBatch
    /\ codes' = [codes EXCEPT ![c].made = TRUE]
    /\ UNCHANGED <<users, open, list, tx, batch>>

DisableInvite(c) ==
    /\ Act /\ codes[c].made /\ codes[c].active
    /\ \A k \in Calls : ~HasCode(k, c)
    /\ codes' = [codes EXCEPT ![c].active = FALSE]
    /\ UNCHANGED <<users, open, list, tx, batch>>

CodeRunsOut(c) ==
    /\ Act /\ codes[c].made /\ ~codes[c].expired
    /\ codes' = [codes EXCEPT ![c].expired = TRUE]
    /\ UNCHANGED <<users, open, list, tx, batch>>

UpdateCohort(h) ==
    /\ Act /\ batch[h] = NoBatch
    /\ open' = [open EXCEPT ![h] = ~@]
    /\ UNCHANGED <<users, codes, list, tx, batch>>

\* beta_admit_waitlist: the cohort's row is locked, and the room in it counted.
AdmitWaitlist(h) ==
    /\ Act /\ batch[h] = NoBatch
    /\ \A k \in Calls : ~(tx[k].pc = "commit" /\ tx[k].won /\ CohortOf[tx[k].code] = h)
    /\ LET n == Cardinality(InCohort(h)) IN
       batch' = [batch EXCEPT ![h] = [NoBatch EXCEPT !.pc = "pick", !.room = IF n < Capacity THEN Capacity - n ELSE 0]]
    /\ UNCHANGED <<users, codes, open, list, tx>>

\* Those who wait and are not admitted, but for entries that somebody has locked.
PickWaiting(h) ==
    /\ batch[h].pc = "pick"
    /\ \E chosen \in SUBSET {u \in Users : list[u] = "waiting" /\ ~Admitted(u) /\ ~EntryHeld(u)} :
         /\ Cardinality(chosen) <= batch[h].room
         /\ batch' = [batch EXCEPT ![h] = [NoBatch EXCEPT !.pc = "write", !.chosen = chosen]]
    /\ UNCHANGED <<users, codes, open, list, tx, acts>>

\* One after the other is written, whatever the account has become meanwhile.
WriteChosen(h) ==
    /\ batch[h].pc = "write"
    /\ \E u \in batch[h].chosen \ batch[h].done :
         /\ ~AccountHeld(u)
         /\ batch' = [batch EXCEPT ![h].done = @ \cup {u}]
    /\ UNCHANGED <<users, codes, open, list, tx, acts>>

AdmitChosen(h) ==
    /\ batch[h].pc = "write" /\ batch[h].done = batch[h].chosen
    /\ users' = [u \in Users |-> IF u \in batch[h].done THEN h ELSE users[u]]
    /\ list' = [u \in Users |-> IF u \in batch[h].done THEN "admitted" ELSE list[u]]
    /\ batch' = [batch EXCEPT ![h] = NoBatch]
    /\ UNCHANGED <<codes, open, tx, acts>>

AdmitAborts(h) ==
    /\ batch[h] # NoBatch
    /\ batch' = [batch EXCEPT ![h] = NoBatch]
    /\ UNCHANGED <<users, codes, open, list, tx, acts>>

OperatorNext ==
    \/ \E c \in Codes : CreateInvite(c) \/ DisableInvite(c) \/ CodeRunsOut(c)
    \/ \E h \in Cohorts : \/ UpdateCohort(h) \/ AdmitWaitlist(h) \/ PickWaiting(h)
                          \/ WriteChosen(h) \/ AdmitChosen(h) \/ AdmitAborts(h)

InvitesNext == (\E k \in Calls : CallNext(k)) \/ OperatorNext

InvitesSpec == InvitesInit /\ [][InvitesNext]_invites
-----------------------------------------------------------------------------
\* 1. A code is used as often as it may be and no oftener, however many calls
\* redeem it at once, and nobody comes in through a use that was not counted.
InvitesInv ==
    \A c \in Codes :
        /\ codes[c].used <= MaxUses
        /\ Cardinality({u \in Users : users[u] = c}) <= codes[c].used
        /\ codes[c].used > 0 => codes[c].made

\* 2. How somebody came in is never changed by a code, and by the operators only
\* where an entry still waits: who has none, or one that was settled, keeps the
\* admission, whatever redemptions and admissions overlap. (An entry put on the
\* list while the redemption was on its way to its commit does still wait.)
AdmissionKept ==
    [][\A u \in Users : Admitted(u) /\ users'[u] # users[u] =>
         users'[u] \in Cohorts /\ list[u] = "waiting"]_invites
=============================================================================
