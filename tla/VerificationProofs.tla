-------------------------- MODULE VerificationProofs --------------------------
(***************************************************************************)
(* What IdentitySessions and FaceVerification promise, for any number of   *)
(* accounts, persons, sessions, handlers and screens at once.              *)
(***************************************************************************)
EXTENDS FaceVerification, IdentitySessions, FiniteSetTheorems, TLAPS

-----------------------------------------------------------------------------
(* Identity: the inductive invariant.                                      *)

AccountRec == [st : {"new", "active", "deleted", "banned", "gone"}, verified : BOOLEAN,
               phone : Phones \cup {Nobody}]
IdentityRec == [stored : BOOLEAN, user : Users \cup {Nobody}, banned : BOOLEAN]
SessionRec == [user : Users, st : SessionStatuses, outcome : Outcomes \cup {"none"},
               person : Persons \cup {Nobody}, owner : Users \cup {Nobody},
               tries : Nat, exp : Nat, since : Nat]
Places == {"idle", "request", "claim", "explain", "provider", "mine", "find", "judge", "link", "mark",
           "profile", "check", "empty", "again", "rejudge", "delete", "phone", "reactivate", "done"}
Answers == Outcomes \cup Errors \cup {"none", "session", "failed", "cancelled", "recovered"}
CallRec == [pc : Places, user : Users \cup {Nobody},
            sid : Sids \cup {Nobody}, person : Persons \cup {Nobody},
            found : IdentityRec \cup {Nobody}, round : 0 .. 2, tries : Nat, at : Nat,
            res : Answers \cup Phones \cup {Nobody}]
Stages == {"login", "form", "code", "found", "blocked", "recovered", "face"}
ScreenRec == [user : Users \cup {Nobody}, stage : Stages, sid : Sids \cup {Nobody},
              wait : Slots \cup {Nobody}]

\* Once somebody, always: verified, or erased; the account of a person, or erased.
Passes(u) == Verified(u) \/ acct[u].st = "gone"
Keeps(u, p) == acct[u].st = "gone" \/ ident[p].user = u

AccountsInv ==
    /\ acct \in [Users -> AccountRec]
    /\ ident \in [Persons -> IdentityRec]
    /\ LinkedOnce /\ LinkedIsLive /\ VerifiedIsLinked

RowsInv ==
    /\ now \in Nat
    /\ ses \in [Sids -> SessionRec \cup {Nobody}]
    /\ \A i \in Sids : ses[i] # Nobody =>
         /\ ses[i].outcome \in Positive => Passes(ses[i].user)
         /\ ses[i].st = "existing_account" => ses[i].person \in Persons

\* Between the claim of a session and the answer.
Confirming == {"provider", "mine", "find", "judge", "link", "mark", "profile"}
KnowsPerson == Places \ {"idle", "request", "claim", "explain", "provider", "check", "done"}
HasRead == {"judge", "rejudge", "delete", "phone", "reactivate"}

CallOK(c) ==
    /\ running[c].pc # "idle" => running[c].user \in Users
    /\ running[c].pc \notin {"idle", "request", "done"} => running[c].sid \in Sids
    /\ running[c].pc \in KnowsPerson => running[c].person \in Persons
    /\ running[c].pc \in Confirming /\ ses[running[c].sid] # Nobody
         => ses[running[c].sid].user = running[c].user
    /\ running[c].pc = "delete" /\ ses[running[c].sid] # Nobody
         => ses[running[c].sid].person \in Persons
    /\ running[c].pc \in HasRead => running[c].found \in IdentityRec
    /\ running[c].pc = "judge" /\ running[c].found.user # Nobody
         => Keeps(running[c].found.user, running[c].person)
    /\ running[c].pc = "link" => running[c].res \in Positive
    /\ running[c].pc \in {"mark", "profile"}
         => running[c].res \in Positive /\ Keeps(running[c].user, running[c].person)
    /\ running[c].pc = "profile" => Passes(running[c].user)
    /\ running[c].pc = "phone" => running[c].res \in Phones \cup {Nobody}
    /\ running[c].pc = "done" /\ running[c].res \in Positive => Passes(running[c].user)
    /\ running[c].pc = "done" /\ running[c].res = "session" => running[c].sid \in Sids
CallsInv == running \in [Slots -> CallRec] /\ \A c \in Slots : CallOK(c)

ScreenOK(s) ==
    /\ screens[s].user \notin Users => screens[s].stage = "login" /\ screens[s].wait = Nobody
    /\ screens[s].stage \in {"code", "found"} => screens[s].sid \in Sids
    /\ screens[s].stage = "face" => Passes(screens[s].user)
    /\ screens[s].wait # Nobody =>
         /\ running[screens[s].wait].pc # "idle"
         /\ running[screens[s].wait].user = screens[s].user
         /\ running[screens[s].wait].pc \notin {"request", "done"} => screens[s].sid \in Sids
         /\ running[screens[s].wait].pc = "done" /\ running[screens[s].wait].res = "existing_account"
              => screens[s].sid \in Sids
    /\ \A t \in Screens : screens[t].wait = screens[s].wait /\ screens[s].wait # Nobody => s = t
ScreensInv == screens \in [Screens -> ScreenRec] /\ \A s \in Screens : ScreenOK(s)

LinksInv == AccountsInv /\ RowsInv /\ CallsInv /\ ScreensInv

LEMMA IdentityStart == IdentityInit => LinksInv
<1> SUFFICES ASSUME IdentityInit PROVE LinksInv
  OBVIOUS
<1> USE IdentityAssumption
<1>1. acct \in [Users -> AccountRec] /\ ident \in [Persons -> IdentityRec]
  BY DEF IdentityInit, AccountRec, IdentityRec
<1>2. \A p \in Persons : ident[p].user # Nobody =>
         /\ ident[p].user \in DOMAIN Owners /\ Owners[ident[p].user] = p /\ ident[p].stored
  BY DEF IdentityInit
<1>3. \A u \in DOMAIN Owners : ident[Owners[u]].stored /\ ident[Owners[u]].user = u
  <2> SUFFICES ASSUME NEW u \in DOMAIN Owners PROVE ident[Owners[u]].stored /\ ident[Owners[u]].user = u
    OBVIOUS
  <2> DEFINE p == Owners[u]
             o == CHOOSE v \in DOMAIN Owners : Owners[v] = p
  <2>1. p \in Persons
    OBVIOUS
  <2>2. o \in DOMAIN Owners /\ Owners[o] = p
    OBVIOUS
  <2>3. o = u
    BY <2>2
  <2>4. ident[p] = [stored |-> TRUE, user |-> o, banned |-> FALSE]
    BY <2>1 DEF IdentityInit
  <2> QED
    BY <2>3, <2>4
<1>4. LinkedOnce /\ LinkedIsLive
  BY <1>2 DEF LinkedOnce, LinkedIsLive, IdentityInit, Live
<1>5. VerifiedIsLinked
  BY <1>3 DEF VerifiedIsLinked, Mine, IdentityInit
<1>6. RowsInv
  BY DEF IdentityInit, RowsInv
<1>7. CallsInv
  BY DEF IdentityInit, CallsInv, CallOK, NoCall, CallRec, Places, Answers, Confirming, KnowsPerson, HasRead
<1>8. ScreensInv
  BY DEF IdentityInit, ScreensInv, ScreenOK, ScreenRec, Stages
<1> QED
  BY <1>1, <1>4, <1>5, <1>6, <1>7, <1>8 DEF LinksInv, AccountsInv

-----------------------------------------------------------------------------
(* Identity: accounts and persons.                                         *)

\* What no step takes back.
Persist ==
    /\ \A u \in Users : Passes(u) => Passes(u)'
    /\ \A u \in Users, p \in Persons : Keeps(u, p) => Keeps(u, p)'

LEMMA ErasedAccount ==
    ASSUME AccountsInv, NEW u \in Users, EraseAccount(u)
    PROVE  AccountsInv' /\ Persist
<1> USE IdentityAssumption
<1>1. acct' \in [Users -> AccountRec] /\ ident' \in [Persons -> IdentityRec]
  BY DEF AccountsInv, EraseAccount, AccountRec, IdentityRec
<1>2. acct'[u].st = "gone" /\ ~acct'[u].verified /\ \A v \in Users \ {u} : acct'[v] = acct[v]
  BY DEF AccountsInv, EraseAccount
<1>3. \A p \in Persons : /\ ident[p].user # u => ident'[p] = ident[p]
                         /\ ident[p].user = u => ident'[p].user = Nobody
  BY DEF AccountsInv, EraseAccount, IdentityRec
<1>4. LinkedOnce' /\ LinkedIsLive'
  BY <1>1, <1>2, <1>3 DEF AccountsInv, LinkedOnce, LinkedIsLive, Live, IdentityRec
<1>5. VerifiedIsLinked'
  BY <1>2, <1>3 DEF AccountsInv, VerifiedIsLinked, Mine
<1>6. Persist
  BY <1>2, <1>3 DEF Persist, Passes, Verified, Live, Keeps
<1> QED
  BY <1>1, <1>4, <1>5, <1>6 DEF AccountsInv

\* A change of one account that keeps it there and keeps what is verified.
LEMMA AccountWritten ==
    ASSUME AccountsInv, NEW u, NEW a, UNCHANGED ident, acct' = [acct EXCEPT ![u] = a],
           u \in Users => /\ a \in AccountRec /\ a.st # "gone" /\ acct[u].st # "gone"
                          /\ a.st = "new" => acct[u].st = "new"
                          /\ a.verified => Mine(u) # {}
                          /\ acct[u].verified => a.verified \/ acct[u].st = "new"
    PROVE  AccountsInv' /\ Persist
<1>1. acct' \in [Users -> AccountRec] /\ ident' \in [Persons -> IdentityRec]
  BY DEF AccountsInv
<1>2. \A v \in Users : v # u => acct'[v] = acct[v]
  BY DEF AccountsInv
<1>3. u \in Users => acct'[u] = a
  BY DEF AccountsInv
<1>4. LinkedOnce' /\ LinkedIsLive'
  BY <1>2, <1>3 DEF AccountsInv, LinkedOnce, LinkedIsLive, Live, IdentityRec
<1>5. VerifiedIsLinked'
  BY <1>2, <1>3 DEF AccountsInv, VerifiedIsLinked, Mine
<1>6. Persist
  BY <1>2, <1>3 DEF Persist, Passes, Verified, Live, Keeps
<1> QED
  BY <1>1, <1>4, <1>5, <1>6 DEF AccountsInv

LEMMA PersonLinked ==
    ASSUME AccountsInv, NEW p \in Persons, NEW u \in Users, UNCHANGED acct,
           Live(u), Mine(u) = {}, ident[p].user = Nobody,
           ident' = [ident EXCEPT ![p] = [stored |-> TRUE, user |-> u, banned |-> @.banned]]
    PROVE  AccountsInv' /\ Persist
<1> USE IdentityAssumption
<1>1. acct' \in [Users -> AccountRec] /\ ident' \in [Persons -> IdentityRec]
  BY DEF AccountsInv, IdentityRec
<1>2. /\ ident'[p].user = u /\ ident'[p].stored
      /\ \A q \in Persons \ {p} : ident'[q] = ident[q]
  BY DEF AccountsInv
<1>3. \A q \in Persons : ident[q].user # u
  BY DEF AccountsInv, Mine, LinkedIsLive
<1>4. LinkedOnce' /\ LinkedIsLive'
  BY <1>2, <1>3 DEF AccountsInv, LinkedOnce, LinkedIsLive, Live
<1>5. VerifiedIsLinked'
  BY <1>2 DEF AccountsInv, VerifiedIsLinked, Mine
<1>6. Persist
  BY <1>2 DEF Persist, Passes, Verified, Live, Keeps
<1> QED
  BY <1>1, <1>4, <1>5, <1>6 DEF AccountsInv

LEMMA AccountsSame ==
    ASSUME AccountsInv, UNCHANGED <<acct, ident>>
    PROVE  AccountsInv' /\ Persist
<1>1. AccountsInv'
  BY DEF AccountsInv, LinkedOnce, LinkedIsLive, VerifiedIsLinked, Live, Mine
<1>2. Persist
  BY DEF Persist, Passes, Verified, Live, Keeps
<1> QED
  BY <1>1, <1>2

LEMMA CallsAccounts ==
    ASSUME LinksInv, NEW c \in Slots, CallNext(c)
    PROVE  AccountsInv' /\ Persist
<1> USE IdentityAssumption
<1>0. AccountsInv /\ RowsInv /\ CallOK(c) /\ running[c] \in CallRec
  BY DEF LinksInv, CallsInv
<1> DEFINE k == running[c]
<1>1. CASE OpenSession(c) \/ Claim(c) \/ Explain(c) \/ ProviderAnswers(c) \/ CheckMine(c) \/ FindIdentity(c)
           \/ Judge(c) \/ Complete(c) \/ CheckRecover(c) \/ CheckEmpty(c) \/ FindAgain(c)
           \/ ClaimRecovery(c) \/ Crash(c)
  <2>1. UNCHANGED <<acct, ident>>
    BY <1>1 DEF OpenSession, Claim, Explain, ProviderAnswers, CheckMine, FindIdentity, Judge, Complete,
                CheckRecover, CheckEmpty, FindAgain, ClaimRecovery, Crash
  <2> QED
    BY <1>0, <2>1, AccountsSame
<1>2. CASE LinkIdentity(c)
  <2>1. k.user \in Users /\ k.person \in Persons
    BY <1>0, <1>2 DEF LinkIdentity, At, CallOK, KnowsPerson, Places
  <2>2. UNCHANGED acct
    BY <1>2 DEF LinkIdentity
  <2>3. CASE UNCHANGED ident
    BY <1>0, <2>2, <2>3, AccountsSame
  <2>4. CASE CanLink(c) /\ ident' = [ident EXCEPT ![k.person] =
                              [stored |-> TRUE, user |-> k.user, banned |-> @.banned]]
    BY <1>0, <2>1, <2>2, <2>4, PersonLinked DEF CanLink
  <2> QED
    BY <1>2, <2>3, <2>4 DEF LinkIdentity
<1>3. CASE Mark(c)
  <2>1. k.user \in Users /\ k.person \in Persons /\ Keeps(k.user, k.person)
    BY <1>0, <1>3 DEF Mark, At, CallOK, KnowsPerson, Places
  <2>2. UNCHANGED ident /\ (\/ UNCHANGED acct
                              \/ (Live(k.user) /\ acct' = [acct EXCEPT ![k.user].verified = TRUE]))
    BY <1>3 DEF Mark, MayFail
  <2>3. CASE UNCHANGED acct
    BY <1>0, <2>2, <2>3, AccountsSame
  <2>4. CASE Live(k.user) /\ acct' = [acct EXCEPT ![k.user].verified = TRUE]
    <3> DEFINE a == [acct[k.user] EXCEPT !.verified = TRUE]
    <3>1. acct' = [acct EXCEPT ![k.user] = a]
      BY <2>4
    <3>2. Mine(k.user) # {}
      BY <1>0, <2>1, <2>4 DEF Keeps, Live, Mine, AccountsInv, LinkedIsLive
    <3>3. a \in AccountRec /\ a.st = acct[k.user].st /\ a.verified
      <4>1. acct[k.user] \in AccountRec
        BY <1>0, <2>1 DEF AccountsInv
      <4> QED
        BY <4>1 DEF AccountRec
    <3>4. acct[k.user].st \notin {"new", "gone"}
      BY <2>4 DEF Live
    <3> HIDE DEF a
    <3> QED
      BY <1>0, <2>1, <2>2, <3>1, <3>2, <3>3, <3>4, AccountWritten
  <2> QED
    BY <2>2, <2>3, <2>4
<1>4. CASE DeleteNew(c)
  <2>1. EraseAccount(k.user) \/ UNCHANGED <<acct, ident>>
    BY <1>4 DEF DeleteNew, MayFail
  <2>2. k.user \in Users
    BY <1>0, <1>4 DEF DeleteNew, At, CallOK
  <2> QED
    BY <1>0, <2>1, <2>2, ErasedAccount, AccountsSame
<1>5. CASE MovePhone(c)
  <2> DEFINE o == k.found.user
             a == [acct[o] EXCEPT !.phone = k.res]
  <2>1. UNCHANGED ident /\ (\/ UNCHANGED acct
                              \/ (Live(o) /\ acct' = [acct EXCEPT ![o].phone = k.res]))
    BY <1>5 DEF MovePhone
  <2>2. k.res \in Phones \cup {Nobody}
    BY <1>0, <1>5 DEF MovePhone, At, CallOK
  <2>3. CASE Live(o) /\ acct' = [acct EXCEPT ![o].phone = k.res]
    <3>1. acct' = [acct EXCEPT ![o] = a]
      BY <2>3
    <3>2. o \in Users => /\ a \in AccountRec /\ a.st = acct[o].st /\ a.verified = acct[o].verified
                         /\ a.verified => Mine(o) # {}
      BY ZenonT(30), <1>0, <2>2 DEF AccountsInv, AccountRec, VerifiedIsLinked
    <3>3. acct[o].st \notin {"new", "gone"}
      BY <2>3 DEF Live
    <3> HIDE DEF a, o
    <3> QED
      BY <1>0, <2>1, <3>1, <3>2, <3>3, AccountWritten
  <2> QED
    BY <1>0, <2>1, <2>3, AccountsSame
<1>6. CASE Reactivate(c)
  <2> DEFINE o == k.found.user
             a == [acct[o] EXCEPT !.st = "active"]
  <2>1. UNCHANGED ident /\ (\/ UNCHANGED acct
                              \/ (acct[o].st = "deleted" /\ acct' = [acct EXCEPT ![o].st = "active"]))
    BY <1>6 DEF Reactivate, MayFail
  <2>3. CASE acct[o].st = "deleted" /\ acct' = [acct EXCEPT ![o].st = "active"]
    <3>1. acct' = [acct EXCEPT ![o] = a]
      BY <2>3
    <3>2. o \in Users => /\ a \in AccountRec /\ a.st = "active" /\ a.verified = acct[o].verified
                         /\ a.verified => Mine(o) # {}
      <4>1. o \in Users => acct[o] \in AccountRec
        BY <1>0 DEF AccountsInv
      <4>2. o \in Users => a \in AccountRec /\ a.st = "active" /\ a.verified = acct[o].verified
        BY <4>1 DEF AccountRec
      <4> QED
        BY <1>0, <4>2 DEF AccountsInv, VerifiedIsLinked
    <3> HIDE DEF a, o
    <3> QED
      BY <1>0, <2>1, <2>3, <3>1, <3>2, AccountWritten
  <2> QED
    BY <1>0, <2>1, <2>3, AccountsSame
<1> QED
  BY <1>1, <1>2, <1>3, <1>4, <1>5, <1>6 DEF CallNext

LEMMA OthersAccounts ==
    ASSUME LinksInv, NEW u \in Users, Ban(u) \/ AskDeletion(u) \/ Erase(u)
    PROVE  AccountsInv' /\ Persist
<1> USE IdentityAssumption
<1>0. AccountsInv
  BY DEF LinksInv
<1>1. CASE Ban(u)
  <2> DEFINE a == [acct[u] EXCEPT !.st = "banned"]
  <2>1. /\ acct' = [acct EXCEPT ![u] = a] /\ acct[u].st = "active"
        /\ a \in AccountRec /\ a.st = "banned" /\ a.verified = acct[u].verified
    BY <1>0, <1>1 DEF Ban, AccountsInv, AccountRec
  <2> HIDE DEF a
  <2>2. acct' \in [Users -> AccountRec] /\ ident' \in [Persons -> IdentityRec]
    <3>1. \A p \in Persons : [ident[p] EXCEPT !.banned = TRUE] \in IdentityRec
      BY <1>0 DEF AccountsInv, IdentityRec
    <3> QED
      BY <1>0, <1>1, <2>1, <3>1 DEF AccountsInv, Ban
  <2>3. \A p \in Persons : ident'[p].user = ident[p].user /\ ident'[p].stored = ident[p].stored
    BY <1>0, <1>1 DEF Ban, AccountsInv, IdentityRec
  <2>4. acct'[u] = a /\ \A v \in Users \ {u} : acct'[v] = acct[v]
    BY <1>0, <2>1 DEF AccountsInv
  <2>5. LinkedOnce' /\ LinkedIsLive'
    BY <1>0, <2>1, <2>2, <2>3, <2>4 DEF AccountsInv, LinkedOnce, LinkedIsLive, Live, IdentityRec
  <2>6. VerifiedIsLinked'
    BY <1>0, <2>1, <2>3, <2>4 DEF AccountsInv, VerifiedIsLinked, Mine
  <2>7. Persist
    BY <2>1, <2>3, <2>4 DEF Persist, Passes, Verified, Live, Keeps
  <2> QED
    BY <2>2, <2>5, <2>6, <2>7 DEF AccountsInv
<1>2. CASE AskDeletion(u)
  <2> DEFINE a == [acct[u] EXCEPT !.st = "deleted"]
  <2>1. /\ acct' = [acct EXCEPT ![u] = a] /\ acct[u].st = "active" /\ UNCHANGED ident
        /\ a \in AccountRec /\ a.st = "deleted" /\ a.verified = acct[u].verified
        /\ a.verified => Mine(u) # {}
    BY <1>0, <1>2 DEF AskDeletion, AccountsInv, AccountRec, VerifiedIsLinked
  <2> HIDE DEF a
  <2> QED
    BY <1>0, <2>1, AccountWritten
<1>3. CASE Erase(u)
  BY <1>0, <1>3, ErasedAccount DEF Erase
<1> QED
  BY <1>1, <1>2, <1>3

LEMMA ScreensAccounts ==
    ASSUME LinksInv, NEW s \in Screens, ScreenNext(s)
    PROVE  AccountsInv' /\ Persist
<1>0. AccountsInv
  BY DEF LinksInv
<1>1. CASE PressRequest(s) \/ PressConfirm(s) \/ PressRecover(s) \/ Answered(s) \/ LoseAnswer(s)
           \/ Restart(s) \/ GoBack(s) \/ FinishRecovery(s)
  <2>1. UNCHANGED <<acct, ident>>
    BY <1>1 DEF PressRequest, PressConfirm, PressRecover, Invoke, Answered, LoseAnswer, Restart,
                GoBack, FinishRecovery
  <2> QED
    BY <1>0, <2>1, AccountsSame
<1>2. CASE SignIn(s)
  <2>1. PICK ph \in Phones, u \in Users :
          \/ UNCHANGED acct
          \/ acct[u].st = "new" /\ acct' = [acct EXCEPT ![u] = [st |-> "active", verified |-> FALSE, phone |-> ph]]
    BY <1>2 DEF SignIn
  <2>2. UNCHANGED ident
    BY <1>2 DEF SignIn
  <2> DEFINE a == [st |-> "active", verified |-> FALSE, phone |-> ph]
  <2>3. a \in AccountRec /\ a.st = "active" /\ ~a.verified
    BY DEF AccountRec
  <2> HIDE DEF a
  <2>4. UNCHANGED acct \/ (acct[u].st = "new" /\ acct' = [acct EXCEPT ![u] = a])
    BY <2>1 DEF a
  <2> QED
    BY <1>0, <2>2, <2>3, <2>4, AccountsSame, AccountWritten
<1> QED
  BY <1>1, <1>2 DEF ScreenNext

LEMMA AccountsStep == LinksInv /\ [IdentityNext]_identity => AccountsInv' /\ Persist
<1>1. ASSUME LinksInv, UNCHANGED <<acct, ident>> PROVE AccountsInv' /\ Persist
  BY <1>1, AccountsSame DEF LinksInv
<1> QED
  BY <1>1, CallsAccounts, OthersAccounts, ScreensAccounts DEF IdentityNext, Tick, identity

-----------------------------------------------------------------------------
(* Identity: sessions and calls.                                           *)

\* A row keeps its account and a person once known; a new one is at an id that
\* no call refers to.
RowsKept ==
    \A i \in Sids :
        /\ ses[i] # Nobody /\ ses'[i] # Nobody =>
             /\ ses'[i].user = ses[i].user
             /\ ses[i].person \in Persons => ses'[i].person \in Persons
        /\ ses[i] = Nobody /\ ses'[i] # Nobody => \A c \in Slots : running[c].sid # i

\* What the step of a call leaves alone and what it must not do to its screen.
CallShape(c) ==
    /\ running' \in [Slots -> CallRec]
    /\ \A k \in Slots \ {c} : running'[k] = running[k]
    /\ \/ running'[c] = NoCall /\ \A s \in Screens : screens[s].wait # c
       \/ /\ running'[c].user = running[c].user
          /\ running'[c].pc \notin {"idle", "request"}
          /\ running[c].pc = "request" => running'[c].pc = "done" /\ running'[c].res # "existing_account"

CallDone(c) == RowsInv' /\ RowsKept /\ CallShape(c) /\ CallOK(c)'

LEMMA RowsSame ==
    ASSUME RowsInv, Persist, UNCHANGED ses, now' \in Nat
    PROVE  RowsInv' /\ RowsKept
<1>1. \A i \in Sids : ses[i] # Nobody => ses[i].user \in Users
  BY DEF RowsInv, SessionRec
<1> QED
  BY <1>1 DEF RowsInv, RowsKept, Persist

LEMMA RowWritten ==
    ASSUME RowsInv, Persist, UNCHANGED now, NEW i \in Sids, NEW row, NEW st,
           ses[i] # Nobody =>
             /\ row \in SessionRec /\ row.user = ses[i].user
             /\ row.outcome \in Positive => Passes(row.user)'
             /\ row.st = "existing_account" => row.person \in Persons
             /\ ses[i].person \in Persons => row.person \in Persons,
           UNCHANGED ses \/ UpdateSession(i, st, row)
    PROVE  RowsInv' /\ RowsKept
<1>1. CASE UNCHANGED ses
  BY <1>1, RowsSame DEF RowsInv
<1>2. CASE ses[i] # Nobody /\ ses' = [ses EXCEPT ![i] = row]
  <2>1. \A j \in Sids : ses[j] # Nobody => ses[j].user \in Users
    BY DEF RowsInv, SessionRec
  <2>2. ses' \in [Sids -> SessionRec \cup {Nobody}]
    BY <1>2 DEF RowsInv
  <2>3. ses'[i] = row /\ \A j \in Sids \ {i} : ses'[j] = ses[j]
    BY <1>2 DEF RowsInv
  <2>4. \A j \in Sids : ses'[j] # Nobody =>
           /\ ses'[j].outcome \in Positive => Passes(ses[j].user)'
           /\ ses'[j].st = "existing_account" => ses'[j].person \in Persons
    <3>1. \A j \in Sids : ses[j] # Nobody /\ ses[j].outcome \in Positive => Passes(ses[j].user)
      BY DEF RowsInv
    <3>2. \A u \in Users : Passes(u) => Passes(u)'
      BY DEF Persist
    <3>3. ASSUME NEW j \in Sids, ses'[j] # Nobody, ses'[j].outcome \in Positive
          PROVE  \E u \in Users : u = ses'[j].user /\ Passes(u)'
      <4>1. CASE j = i
        <5> DEFINE u == row.user
        <5>1. u \in Users /\ u = ses'[j].user
          BY <1>2, <2>1, <2>3, <4>1
        <5>2. Passes(row.user)'
          BY <1>2, <2>3, <3>3, <4>1
        <5> QED
          BY <5>1, <5>2
      <4>2. CASE j # i
        BY <2>1, <2>3, <3>1, <3>2, <3>3, <4>2
      <4> QED
        BY <4>1, <4>2
    <3>4. \A j \in Sids : ses'[j] # Nobody /\ ses'[j].st = "existing_account" => ses'[j].person \in Persons
      BY <1>2, <2>3 DEF RowsInv
    <3>5. \A j \in Sids : ses'[j] # Nobody /\ ses'[j].outcome \in Positive => Passes(ses[j].user)'
      BY <3>3
    <3> QED
      BY <3>4, <3>5
  <2>5. RowsKept
    BY <1>2, <2>3 DEF RowsKept
  <2>6. now' \in Nat
    BY DEF RowsInv
  <2> QED
    BY <2>2, <2>4, <2>5, <2>6 DEF RowsInv
<1> QED
  BY <1>1, <1>2 DEF UpdateSession

\* Only the status of a row changes, and that it is claimed.
LEMMA StatusWritten ==
    ASSUME RowsInv, Persist, UNCHANGED now, NEW i \in Sids, NEW st, NEW new \in SessionStatuses,
           new = "existing_account" /\ ses[i] # Nobody => ses[i].person \in Persons,
           NEW since, since = ses[i].since \/ since = 0,
           UNCHANGED ses \/ UpdateSession(i, st, [ses[i] EXCEPT !.st = new, !.since = since])
    PROVE  RowsInv' /\ RowsKept
<1> DEFINE row == [ses[i] EXCEPT !.st = new, !.since = since]
<1>1. ses[i] # Nobody => ses[i] \in SessionRec /\ since \in Nat
  <2>1. ses[i] # Nobody => ses[i] \in SessionRec
    BY DEF RowsInv
  <2>2. ses[i] # Nobody => ses[i].since \in Nat
    BY <2>1 DEF SessionRec
  <2> QED
    BY <2>1, <2>2
<1>2. ses[i] # Nobody => /\ row \in SessionRec /\ row.user = ses[i].user /\ row.st = new
                         /\ row.outcome = ses[i].outcome /\ row.person = ses[i].person
                         /\ ses[i].user \in Users
  BY <1>1 DEF SessionRec
<1>3. \A u \in Users : ses[i] # Nobody /\ ses[i].outcome \in Positive /\ u = ses[i].user => Passes(u)'
  BY DEF RowsInv, Persist
<1> HIDE DEF row
<1>4. UNCHANGED ses \/ UpdateSession(i, st, row)
  BY DEF row
<1>5. PICK r : r = row
  OBVIOUS
<1>6. ses[i] # Nobody => /\ r \in SessionRec /\ r.user = ses[i].user
                         /\ r.outcome \in Positive => Passes(r.user)'
                         /\ r.st = "existing_account" => r.person \in Persons
                         /\ ses[i].person \in Persons => r.person \in Persons
  BY <1>2, <1>3, <1>5
<1>7. UNCHANGED ses \/ UpdateSession(i, st, r)
  BY <1>4, <1>5
<1> QED
  BY <1>6, <1>7, RowWritten

\* The other calls are not touched.
LEMMA CallKept ==
    ASSUME Persist, RowsKept, NEW c \in Slots, running[c] \in CallRec, CallOK(c),
           running'[c] = running[c]
    PROVE  CallOK(c)'
<1> USE IdentityAssumption
<1>1. running[c].pc \in Confirming \cup KnowsPerson => running[c].pc \notin {"idle", "request", "done"}
  BY DEF Confirming, KnowsPerson
<1>2. /\ running[c].pc \in Confirming /\ ses'[running[c].sid] # Nobody
           => ses'[running[c].sid].user = running[c].user
      /\ running[c].pc = "delete" /\ ses'[running[c].sid] # Nobody
           => ses'[running[c].sid].person \in Persons
  BY <1>1 DEF CallOK, RowsKept
<1>3. running[c].pc = "judge" /\ running[c].found.user # Nobody
        => Keeps(running[c].found.user, running[c].person)'
  <2> SUFFICES ASSUME running[c].pc = "judge", running[c].found.user # Nobody
               PROVE  Keeps(running[c].found.user, running[c].person)'
    OBVIOUS
  <2>1. running[c].found.user \in Users /\ running[c].person \in Persons
    BY DEF CallOK, HasRead, IdentityRec, KnowsPerson, Places
  <2> QED
    BY <2>1 DEF CallOK, Persist
<1>4. running[c].pc \in {"mark", "profile"} => Keeps(running[c].user, running[c].person)'
  <2> SUFFICES ASSUME running[c].pc \in {"mark", "profile"} PROVE Keeps(running[c].user, running[c].person)'
    OBVIOUS
  <2>1. running[c].user \in Users /\ running[c].person \in Persons
    BY DEF CallOK, KnowsPerson, Places
  <2> QED
    BY <2>1 DEF CallOK, Persist
<1>5. /\ running[c].pc = "profile" => Passes(running[c].user)'
      /\ running[c].pc = "done" /\ running[c].res \in Positive => Passes(running[c].user)'
  BY DEF CallOK, Persist
<1> QED
  BY <1>2, <1>3, <1>4, <1>5 DEF CallOK

\* What an answer leaves of a call.
LEMMA AnswerShape ==
    ASSUME NEW c \in Slots, NEW res \in Answers, NEW i \in Sids \cup {Nobody},
           running \in [Slots -> CallRec], running[c].user \in Users, Answer(c, res, i)
    PROVE  IF \E s \in Screens : screens[s].wait = c
           THEN \E r \in CallRec : /\ r.pc = "done" /\ r.res = res /\ r.user = running[c].user /\ r.sid = i
                                   /\ running' = [running EXCEPT ![c] = r]
           ELSE running' = [running EXCEPT ![c] = NoCall]
<1>1. PICK u \in Users : u = running[c].user
  OBVIOUS
<1>2. PICK r : r = [NoCall EXCEPT !.pc = "done", !.user = u, !.sid = i, !.res = res]
  OBVIOUS
<1>3. r \in CallRec /\ r.pc = "done" /\ r.res = res /\ r.user = u /\ r.sid = i
  <2>1. NoCall \in CallRec
    BY DEF NoCall, CallRec, Places, Answers
  <2> QED
    BY <1>2, <2>1 DEF CallRec, Places
<1> QED
  BY <1>1, <1>2, <1>3 DEF Answer

LEMMA CallAnswered ==
    ASSUME LinksInv, NEW c \in Slots, NEW res \in Answers, Respond(c, res),
           running[c].pc \notin {"idle", "done"}, res # "session",
           running[c].pc = "request" => res # "existing_account",
           \A u \in Users : res \in Positive /\ u = running[c].user => Passes(u)'
    PROVE  CallShape(c) /\ CallOK(c)'
<1>1. running[c] \in CallRec /\ running \in [Slots -> CallRec] /\ CallOK(c)
  BY DEF LinksInv, CallsInv
<1>2. NoCall \in CallRec
  BY DEF NoCall, CallRec, Places, Answers
<1>3. CASE \E s \in Screens : screens[s].wait = c
  <2>3. running[c].user \in Users
    BY <1>1 DEF CallOK
  <2>1. PICK r \in CallRec : /\ r.pc = "done" /\ r.res = res /\ r.user = running[c].user
                             /\ running' = [running EXCEPT ![c] = r]
    BY <1>1, <1>3, <2>3, AnswerShape DEF Respond
  <2>2. r \in CallRec /\ r.pc = "done" /\ r.res = res /\ r.user = running[c].user
    BY <2>1
  <2>4. running'[c] = r /\ running' \in [Slots -> CallRec] /\ \A k \in Slots \ {c} : running'[k] = running[k]
    BY <1>1, <2>1, <2>2
  <2>5. CallShape(c)
    BY <2>2, <2>4 DEF CallShape
  <2>6. CallOK(c)'
    BY <2>2, <2>3, <2>4 DEF CallOK, Confirming, KnowsPerson, HasRead
  <2> QED
    BY <2>5, <2>6
<1>4. CASE \A s \in Screens : screens[s].wait # c
  <2>1. running' = [running EXCEPT ![c] = NoCall]
    BY <1>4 DEF Respond, Answer
  <2>2. running'[c] = NoCall /\ running' \in [Slots -> CallRec] /\ \A k \in Slots \ {c} : running'[k] = running[k]
    BY <1>1, <1>2, <2>1
  <2>3. CallShape(c)
    BY <1>4, <2>2 DEF CallShape
  <2>4. CallOK(c)'
    BY <2>2 DEF CallOK, NoCall, Confirming, KnowsPerson, HasRead
  <2> QED
    BY <2>3, <2>4
<1> QED
  BY <1>3, <1>4

LEMMA CallLeft ==
    ASSUME LinksInv, Persist, UNCHANGED now, NEW c \in Slots, NEW res \in Answers,
           NEW st \in SessionStatuses, Leave(c, st, res),
           running[c].pc \notin {"idle", "request", "done"}, res \notin Positive \cup {"session"},
           st = "existing_account" => running[c].pc = "delete"
    PROVE  CallDone(c)
<1>1. CallOK(c) /\ RowsInv
  BY DEF LinksInv, CallsInv
<1>2. running[c].sid \in Sids
  BY <1>1 DEF CallOK
<1>3. st = "existing_account" /\ ses[running[c].sid] # Nobody => ses[running[c].sid].person \in Persons
  BY <1>1 DEF CallOK
<1>4. UNCHANGED ses \/ UpdateSession(running[c].sid, "checking",
                                      [ses[running[c].sid] EXCEPT !.st = st, !.since = 0])
  BY DEF Leave, Now
<1>5. RowsInv' /\ RowsKept
  BY <1>1, <1>2, <1>3, <1>4, StatusWritten
<1>6. Respond(c, res)
  BY DEF Leave
<1>7. CallShape(c) /\ CallOK(c)'
  BY <1>6, CallAnswered
<1> QED
  BY <1>5, <1>7 DEF CallDone

\* A step of the call itself, to a record that keeps the account.
LEMMA CallMoves ==
    ASSUME LinksInv, NEW c \in Slots, NEW r \in CallRec, running' = [running EXCEPT ![c] = r],
           r.user = running[c].user, r.pc \notin {"idle", "request"},
           running[c].pc = "request" => r.pc = "done" /\ r.res # "existing_account"
    PROVE  CallShape(c) /\ running'[c] = r
<1>1. running'[c] = r /\ running' \in [Slots -> CallRec] /\ \A k \in Slots \ {c} : running'[k] = running[k]
  BY DEF LinksInv, CallsInv
<1> QED
  BY <1>1 DEF CallShape

LEMMA RowsErased ==
    ASSUME LinksInv, Persist, NEW u, EraseAccount(u), now' = now
    PROVE  RowsInv' /\ RowsKept
<1>1. \A i \in Sids : ses'[i] = ses[i] \/ ses'[i] = Nobody
  BY DEF EraseAccount
<1>2. ses' \in [Sids -> SessionRec \cup {Nobody}]
  BY DEF EraseAccount, LinksInv, RowsInv
<1>3. \A i \in Sids : ses'[i] # Nobody => ses'[i] = ses[i] /\ ses[i].user \in Users
  BY <1>1 DEF LinksInv, RowsInv, SessionRec
<1>4. \A i \in Sids : ses'[i] # Nobody =>
         /\ ses'[i].outcome \in Positive => Passes(ses[i].user)'
         /\ ses'[i].st = "existing_account" => ses'[i].person \in Persons
  BY <1>3 DEF LinksInv, RowsInv, Persist
<1>5. RowsInv'
  BY <1>2, <1>4 DEF LinksInv, RowsInv
<1>6. RowsKept
  BY <1>1, <1>3 DEF RowsKept
<1> QED
  BY <1>5, <1>6

LEMMA RequestDone ==
    ASSUME LinksInv, Persist, NEW c \in Slots, OpenSession(c)
    PROVE  CallDone(c)
<1> USE IdentityAssumption
<1>0. running[c] \in CallRec /\ CallOK(c) /\ RowsInv /\ running[c].pc = "request" /\ UNCHANGED now
  BY DEF LinksInv, CallsInv, OpenSession, At
<1>1. CASE Respond(c, "error") /\ UNCHANGED ses
  <2>1. CallShape(c) /\ CallOK(c)'
    BY <1>0, <1>1, CallAnswered DEF Answers, Positive, Errors
  <2>2. RowsInv' /\ RowsKept
    BY <1>0, <1>1, RowsSame DEF RowsInv
  <2> QED
    BY <2>1, <2>2 DEF CallDone
<1>2. CASE \E i \in Sids :
             /\ ses[i] = Nobody
             /\ \A k \in Slots : running[k].sid # i
             /\ ses' = [ses EXCEPT ![i] = NewSession(running[c].user)]
             /\ Answer(c, "session", i)
  <2>1. PICK i \in Sids :
             /\ ses[i] = Nobody
             /\ \A k \in Slots : running[k].sid # i
             /\ ses' = [ses EXCEPT ![i] = NewSession(running[c].user)]
             /\ Answer(c, "session", i)
    BY <1>2
  <2>2. running[c].user \in Users
    BY <1>0 DEF CallOK
  <2>3. PICK row : row = NewSession(running[c].user)
    OBVIOUS
  <2>4. row \in SessionRec /\ row.outcome = "none" /\ row.st = "pending"
    BY <1>0, <2>2, <2>3 DEF NewSession, SessionRec, SessionStatuses, RowsInv
  <2>5. ses' = [ses EXCEPT ![i] = row]
    BY <2>1, <2>3
  <2>6. ses'[i] = row /\ \A j \in Sids \ {i} : ses'[j] = ses[j]
    BY <1>0, <2>5 DEF RowsInv
  <2>7. \A j \in Sids : ses[j] # Nobody => ses[j].user \in Users
    BY <1>0 DEF RowsInv, SessionRec
  <2>8. ses' \in [Sids -> SessionRec \cup {Nobody}] /\ now' \in Nat
    BY <1>0, <2>4, <2>5 DEF RowsInv
  <2>9. \A j \in Sids : ses'[j] # Nobody =>
           /\ ses'[j].outcome \in Positive => Passes(ses[j].user)'
           /\ ses'[j].st = "existing_account" => ses'[j].person \in Persons
    <3>1. "none" \notin Positive
      BY DEF Positive
    <3> QED
      BY <1>0, <2>4, <2>6, <2>7, <3>1 DEF RowsInv, Persist
  <2>10. RowsInv' /\ RowsKept
    BY <2>1, <2>6, <2>8, <2>9 DEF RowsInv, RowsKept
  <2>11. CASE \E s \in Screens : screens[s].wait = c
    <3>1. PICK r \in CallRec : /\ r.pc = "done" /\ r.res = "session" /\ r.user = running[c].user /\ r.sid = i
                               /\ running' = [running EXCEPT ![c] = r]
      <4>1. running \in [Slots -> CallRec] /\ "session" \in Answers
        BY DEF LinksInv, CallsInv, Answers
      <4> QED
        BY <2>1, <2>2, <2>11, <4>1, AnswerShape
    <3>2. r \in CallRec /\ r.pc = "done" /\ r.res = "session" /\ r.user = running[c].user /\ r.sid = i
      BY <3>1
    <3>3. CallShape(c) /\ running'[c] = r
      BY <3>1, <3>2, CallMoves
    <3>4. CallOK(c)'
      BY <2>2, <3>2, <3>3 DEF CallOK, Confirming, KnowsPerson, HasRead, Positive
    <3> QED
      BY <2>10, <3>3, <3>4 DEF CallDone
  <2>12. CASE \A s \in Screens : screens[s].wait # c
    <3>1. running' = [running EXCEPT ![c] = NoCall]
      BY <2>1, <2>12 DEF Answer
    <3>2. NoCall \in CallRec
      BY DEF NoCall, CallRec, Places, Answers
    <3>3. running'[c] = NoCall /\ running' \in [Slots -> CallRec] /\ \A k \in Slots \ {c} : running'[k] = running[k]
      BY <3>1, <3>2 DEF LinksInv, CallsInv
    <3>4. CallShape(c)
      BY <2>12, <3>3 DEF CallShape
    <3>5. CallOK(c)'
      BY <3>3 DEF CallOK, NoCall, Confirming, KnowsPerson, HasRead
    <3> QED
      BY <2>10, <3>4, <3>5 DEF CallDone
  <2> QED
    BY <2>11, <2>12
<1> QED
  BY <1>1, <1>2 DEF OpenSession, MayFail

\* An answer that leaves the rows alone.
LEMMA PlainAnswer ==
    ASSUME LinksInv, Persist, UNCHANGED <<ses, now>>, NEW c \in Slots, NEW res \in Answers,
           Respond(c, res), running[c].pc \notin {"idle", "request", "done"},
           res \notin Positive \cup {"session"}
    PROVE  CallDone(c)
<1>1. CallShape(c) /\ CallOK(c)'
  BY CallAnswered
<1>2. RowsInv' /\ RowsKept
  BY RowsSame DEF LinksInv, RowsInv
<1> QED
  BY <1>1, <1>2 DEF CallDone

\* An answer with a new status of the row.
LEMMA StatusAnswer ==
    ASSUME LinksInv, Persist, UNCHANGED now, NEW c \in Slots, NEW res \in Answers,
           Respond(c, res), running[c].pc \notin {"idle", "request", "done"},
           res \notin Positive \cup {"session"},
           NEW st, NEW new \in SessionStatuses \ {"existing_account"},
           UNCHANGED ses \/ UpdateSession(running[c].sid, st, [ses[running[c].sid] EXCEPT !.st = new])
    PROVE  CallDone(c)
<1>1. running[c].sid \in Sids
  BY DEF LinksInv, CallsInv, CallOK
<1>2. CallShape(c) /\ CallOK(c)'
  BY CallAnswered
<1>3. UNCHANGED ses \/ UpdateSession(running[c].sid, st, [ses[running[c].sid] EXCEPT
                                                          !.st = new, !.since = ses[running[c].sid].since])
  <2>1. ses[running[c].sid] # Nobody => ses[running[c].sid] \in SessionRec
    BY <1>1 DEF LinksInv, RowsInv
  <2>2. ses[running[c].sid] # Nobody =>
          [ses[running[c].sid] EXCEPT !.st = new]
            = [ses[running[c].sid] EXCEPT !.st = new, !.since = ses[running[c].sid].since]
    BY <2>1 DEF SessionRec
  <2> QED
    BY <2>2 DEF UpdateSession
<1>4. RowsInv' /\ RowsKept
  BY <1>1, <1>3, StatusWritten DEF LinksInv
<1> QED
  BY <1>2, <1>4 DEF CallDone

LEMMA ExplainDone ==
    ASSUME LinksInv, Persist, NEW c \in Slots, Explain(c)
    PROVE  CallDone(c)
<1>i. PICK i : i = running[c].sid
  OBVIOUS
<1>0. /\ running[c] \in CallRec /\ CallOK(c) /\ RowsInv /\ i \in Sids /\ UNCHANGED now
      /\ running[c].pc = "explain"
  BY <1>i DEF LinksInv, CallsInv, CallOK, Explain, At
<1>1. CASE Respond(c, "invalid") /\ UNCHANGED ses
  BY <1>0, <1>1, PlainAnswer DEF Answers, Errors, Positive
<1>2. CASE /\ ses[i] # Nobody /\ ses[i].user = running[c].user
           /\ ~(Respond(c, "invalid") /\ UNCHANGED ses)
  <2>0. ses[i] \in SessionRec
    BY <1>0, <1>2 DEF RowsInv
  <2>1. CASE ses[i].st = "checking"
    <3>1. Respond(c, "busy") /\ UNCHANGED ses
      BY <1>i, <1>2, <2>1 DEF Explain
    <3> QED
      BY <1>0, <3>1, PlainAnswer DEF Answers, Errors, Positive
  <2>2. CASE ses[i].st \in {"completed", "existing_account"}
    <3>1. Respond(c, ses[i].outcome) /\ UNCHANGED ses
      BY <1>i, <1>2, <2>2 DEF Explain
    <3>2. ses[i].outcome \in Answers /\ ses[i].outcome # "session"
      BY <2>0 DEF SessionRec, Answers, Outcomes, Positive
    <3>3. \A u \in Users : ses[i].outcome \in Positive /\ u = running[c].user => Passes(u)'
      BY <1>0, <1>2 DEF RowsInv, Persist
    <3>4. CallShape(c) /\ CallOK(c)'
      BY <1>0, <3>1, <3>2, <3>3, CallAnswered
    <3>5. RowsInv' /\ RowsKept
      BY <1>0, <3>1, RowsSame DEF RowsInv
    <3> QED
      BY <3>4, <3>5 DEF CallDone
  <2>3. CASE ses[i].st = "failed"
    <3>1. Respond(c, "too_many") /\ UNCHANGED ses
      BY <1>i, <1>2, <2>3 DEF Explain
    <3> QED
      BY <1>0, <3>1, PlainAnswer DEF Answers, Errors, Positive
  <2>4. CASE ses[i].st \notin {"checking", "completed", "existing_account", "failed"}
    <3>1. /\ Respond(c, "expired")
          /\ UNCHANGED ses \/ UpdateSession(i, "pending", [ses[i] EXCEPT !.st = "expired"])
      BY <1>i, <1>2, <2>4 DEF Explain
    <3> QED
      BY <1>i, <1>0, <3>1, StatusAnswer DEF Answers, Errors, Positive, SessionStatuses
  <2> QED
    BY <2>1, <2>2, <2>3, <2>4
<1> QED
  BY <1>i, <1>1, <1>2 DEF Explain, Owns

\* A session is taken for checking: only its status and its time change.
LEMMA RowTaken ==
    ASSUME LinksInv, Persist, UNCHANGED now, NEW i \in Sids, ses[i] # Nobody,
           ses' = [ses EXCEPT ![i].st = "checking", ![i].since = now]
    PROVE  RowsInv' /\ RowsKept /\ ses'[i].user = ses[i].user /\ ses'[i].person = ses[i].person
<1> USE IdentityAssumption
<1>0. RowsInv /\ ses[i] \in SessionRec /\ ses \in [Sids -> SessionRec \cup {Nobody}] /\ now \in Nat
  BY DEF LinksInv, RowsInv
<1>1. PICK row : row = [ses[i] EXCEPT !.st = "checking", !.since = now]
  OBVIOUS
<1>2. /\ row \in SessionRec /\ row.user = ses[i].user /\ row.st = "checking"
      /\ row.outcome = ses[i].outcome /\ row.person = ses[i].person
  BY <1>0, <1>1 DEF SessionRec, SessionStatuses
<1>3. ses' = [ses EXCEPT ![i] = row]
  BY <1>0, <1>1
<1>4. row.outcome \in Positive => Passes(row.user)'
  <2>1. ses[i].user \in Users
    BY <1>0 DEF SessionRec
  <2> QED
    BY <1>0, <1>2, <2>1 DEF RowsInv, Persist
<1>5. UpdateSession(i, ses[i].st, row)
  BY <1>3 DEF UpdateSession
<1>6. RowsInv' /\ RowsKept
  BY <1>0, <1>2, <1>4, <1>5, RowWritten
<1>7. ses'[i] = row
  BY <1>0, <1>3
<1> QED
  BY <1>2, <1>6, <1>7

LEMMA ClaimDone ==
    ASSUME LinksInv, Persist, NEW c \in Slots, Claim(c)
    PROVE  CallDone(c)
<1>0. /\ running[c] \in CallRec /\ CallOK(c) /\ RowsInv /\ running[c].pc = "claim" /\ UNCHANGED now
      /\ running[c].sid \in Sids /\ running[c].user \in Users
  BY DEF LinksInv, CallsInv, Claim, At, CallOK
<1>1. CASE Respond(c, "error") /\ UNCHANGED ses
  BY <1>0, <1>1, PlainAnswer DEF Answers, Errors, Positive
<1>2. CASE UNCHANGED ses /\ running' = [running EXCEPT ![c].pc = "explain", ![c].at = now]
  <2>1. PICK n \in Nat : n = now
    BY <1>0 DEF RowsInv
  <2> DEFINE r == [running[c] EXCEPT !.pc = "explain", !.at = n]
  <2>2. running' = [running EXCEPT ![c] = r]
    BY <1>2, <2>1 DEF LinksInv, CallsInv
  <2>3. r \in CallRec /\ r.pc = "explain" /\ r.user = running[c].user /\ r.sid = running[c].sid
    BY <1>0 DEF CallRec, Places
  <2> HIDE DEF r
  <2>4. CallShape(c) /\ running'[c] = r
    BY <1>0, <2>2, <2>3, CallMoves
  <2>5. CallOK(c)'
    BY <1>0, <2>3, <2>4 DEF CallOK, Confirming, KnowsPerson, HasRead
  <2>6. RowsInv' /\ RowsKept
    BY <1>0, <1>2, RowsSame DEF RowsInv
  <2> QED
    BY <2>4, <2>5, <2>6 DEF CallDone
<1>3. CASE /\ ClaimableNow(running[c].sid, running[c].user)
           /\ ses' = [ses EXCEPT ![running[c].sid].st = "checking", ![running[c].sid].since = now]
           /\ running' = [running EXCEPT ![c].pc = "provider", ![c].tries = ses[running[c].sid].tries + 1]
  <2>1. ses[running[c].sid] # Nobody /\ ses[running[c].sid].user = running[c].user
    BY <1>3 DEF ClaimableNow
  <2>2. RowsInv' /\ RowsKept /\ ses'[running[c].sid].user = running[c].user
    BY <1>0, <1>3, <2>1, RowTaken
  <2>4. PICK n \in Nat : n = ses[running[c].sid].tries + 1
    <3>1. ses[running[c].sid] \in SessionRec
      BY <1>0, <2>1 DEF RowsInv
    <3>2. ses[running[c].sid].tries \in Nat
      BY <3>1 DEF SessionRec
    <3> QED
      BY <3>2
  <2> DEFINE r == [running[c] EXCEPT !.pc = "provider", !.tries = n]
  <2>3. running' = [running EXCEPT ![c] = r]
    BY <1>3, <2>4 DEF LinksInv, CallsInv
  <2>5. r \in CallRec /\ r.pc = "provider" /\ r.user = running[c].user /\ r.sid = running[c].sid
    BY <1>0 DEF CallRec, Places
  <2> HIDE DEF r
  <2>6. CallShape(c) /\ running'[c] = r
    BY <1>0, <2>3, <2>5, CallMoves
  <2>7. CallOK(c)'
    BY <1>0, <2>2, <2>5, <2>6 DEF CallOK, Confirming, KnowsPerson, HasRead
  <2> QED
    BY <2>2, <2>6, <2>7 DEF CallDone
<1> QED
  BY <1>1, <1>2, <1>3 DEF Claim

\* An answer with a new row: its person is known if one was, its account is kept.
LEMMA RowAnswer ==
    ASSUME LinksInv, Persist, UNCHANGED now, NEW c \in Slots, NEW res \in Answers,
           Respond(c, res), running[c].pc \notin {"idle", "request", "done"},
           res \notin Positive \cup {"session"},
           NEW st, NEW row,
           ses[running[c].sid] # Nobody =>
             /\ row \in SessionRec /\ row.user = ses[running[c].sid].user
             /\ row.outcome \in Positive => row.outcome = ses[running[c].sid].outcome
             /\ row.st = "existing_account" => row.person \in Persons
             /\ row.person \in {ses[running[c].sid].person} \cup Persons,
           UNCHANGED ses \/ UpdateSession(running[c].sid, st, row)
    PROVE  CallDone(c)
<1>1. running[c].sid \in Sids /\ RowsInv
  BY DEF LinksInv, CallsInv, CallOK
<1>2. CallShape(c) /\ CallOK(c)'
  BY CallAnswered
<1>3. ses[running[c].sid] # Nobody =>
             /\ row.outcome \in Positive => Passes(row.user)'
             /\ ses[running[c].sid].person \in Persons => row.person \in Persons
  <2>1. ses[running[c].sid] # Nobody => ses[running[c].sid].user \in Users
    BY <1>1 DEF RowsInv, SessionRec
  <2> QED
    BY <1>1, <2>1 DEF RowsInv, Persist
<1>4. RowsInv' /\ RowsKept
  BY <1>1, <1>3, RowWritten
<1> QED
  BY <1>2, <1>4 DEF CallDone

LEMMA ProviderDone ==
    ASSUME LinksInv, Persist, NEW c \in Slots, ProviderAnswers(c)
    PROVE  CallDone(c)
<1> DEFINE i == running[c].sid
<1>0. /\ running[c] \in CallRec /\ CallOK(c) /\ RowsInv /\ running[c].pc = "provider" /\ UNCHANGED now
      /\ i \in Sids /\ running[c].user \in Users /\ running[c].tries \in Nat
      /\ ses[i] # Nobody => ses[i].user = running[c].user
  BY DEF LinksInv, CallsInv, ProviderAnswers, At, CallOK, CallRec, Confirming
<1>1. ses[i] # Nobody => ses[i] \in SessionRec
  BY <1>0 DEF RowsInv
<1>2. CASE \/ Leave(c, "pending", "error") \/ Leave(c, "failed", "error")
  BY <1>0, <1>2, CallLeft DEF Answers, Errors, Positive, SessionStatuses
<1>3. CASE \E st \in {"failed", "pending", "expired"}, res \in {"too_many", "failed", "expired", "cancelled"} :
             /\ IF ses[i] = Nobody THEN UNCHANGED ses
                ELSE UpdateSession(i, "checking", [Now(c, st) EXCEPT !.tries = running[c].tries])
             /\ Respond(c, res)
  <2>1. PICK st \in {"failed", "pending", "expired"}, res \in {"too_many", "failed", "expired", "cancelled"} :
             /\ IF ses[i] = Nobody THEN UNCHANGED ses
                ELSE UpdateSession(i, "checking", [Now(c, st) EXCEPT !.tries = running[c].tries])
             /\ Respond(c, res)
    BY <1>3
  <2>2. PICK row : row = [ses[i] EXCEPT !.st = st, !.since = 0, !.tries = running[c].tries]
    OBVIOUS
  <2>3. UNCHANGED ses \/ UpdateSession(i, "checking", row)
    BY <2>1, <2>2 DEF Now
  <2>4. ses[i] # Nobody => /\ row \in SessionRec /\ row.user = ses[i].user /\ row.st = st
                           /\ row.outcome = ses[i].outcome /\ row.person = ses[i].person
    BY <1>0, <1>1, <2>2 DEF SessionRec, SessionStatuses
  <2>5. res \in Answers /\ res \notin Positive \cup {"session"}
    BY DEF Answers, Errors, Positive
  <2> HIDE DEF i
  <2> QED
    BY <1>0, <2>1, <2>3, <2>4, <2>5, RowAnswer DEF i
<1>4. CASE /\ IF ses[i] = Nobody THEN UNCHANGED ses
              ELSE UpdateSession(i, "checking", [Now(c, "completed") EXCEPT !.outcome = "underage"])
           /\ Respond(c, "underage")
  <2>2. PICK row : row = [ses[i] EXCEPT !.st = "completed", !.since = 0, !.outcome = "underage"]
    OBVIOUS
  <2>3. UNCHANGED ses \/ UpdateSession(i, "checking", row)
    BY <1>4, <2>2 DEF Now
  <2>4. ses[i] # Nobody => /\ row \in SessionRec /\ row.user = ses[i].user /\ row.st = "completed"
                           /\ row.outcome = "underage" /\ row.person = ses[i].person
    BY <1>0, <1>1, <2>2 DEF SessionRec, SessionStatuses, Outcomes
  <2>5. "underage" \in Answers /\ "underage" \notin Positive \cup {"session"}
    BY DEF Answers, Outcomes, Positive
  <2> HIDE DEF i
  <2> QED
    BY <1>0, <1>4, <2>3, <2>4, <2>5, RowAnswer DEF i
<1>5. CASE \E p \in Persons :
             /\ running' = [running EXCEPT ![c].pc = "mine", ![c].person = p]
             /\ UNCHANGED ses
  <2>1. PICK p \in Persons :
             /\ running' = [running EXCEPT ![c].pc = "mine", ![c].person = p]
             /\ UNCHANGED ses
    BY <1>5
  <2> DEFINE r == [running[c] EXCEPT !.pc = "mine", !.person = p]
  <2>2. running' = [running EXCEPT ![c] = r]
    BY <2>1 DEF LinksInv, CallsInv
  <2>3. /\ r \in CallRec /\ r.pc = "mine" /\ r.user = running[c].user /\ r.sid = running[c].sid
        /\ r.person = p
    BY <1>0 DEF CallRec, Places
  <2> HIDE DEF r
  <2>4. CallShape(c) /\ running'[c] = r
    BY <1>0, <2>2, <2>3, CallMoves
  <2>5. CallOK(c)'
    BY <1>0, <2>1, <2>3, <2>4 DEF CallOK, Confirming, KnowsPerson, HasRead
  <2>6. RowsInv' /\ RowsKept
    BY <1>0, <2>1, RowsSame DEF RowsInv
  <2> QED
    BY <2>4, <2>5, <2>6 DEF CallDone
<1>6. CASE running[c].tries >= MaxAttempts
  BY <1>2, <1>3, <1>4, <1>5, <1>6 DEF ProviderAnswers
<1>7. CASE ~(running[c].tries >= MaxAttempts)
  BY <1>2, <1>3, <1>4, <1>5, <1>7 DEF ProviderAnswers
<1> QED
  BY <1>6, <1>7

\* A call of a confirmation goes on; its session is not written.
LEMMA Confirms ==
    ASSUME LinksInv, Persist, UNCHANGED <<ses, now>>, NEW c \in Slots, NEW r \in CallRec,
           running' = [running EXCEPT ![c] = r],
           running[c].pc \in Confirming, r.pc \in Confirming, r.user = running[c].user,
           r.sid = running[c].sid, r.person \in Persons,
           r.pc = "judge" => /\ r.found \in IdentityRec
                             /\ \A u, p : r.found.user # Nobody /\ u = r.found.user /\ p = r.person => Keeps(u, p)',
           r.pc \in {"link", "mark", "profile"} => r.res \in Positive,
           r.pc \in {"mark", "profile"} => \A u, p : u = r.user /\ p = r.person => Keeps(u, p)',
           r.pc = "profile" => \A u : u = r.user => Passes(u)'
    PROVE  CallDone(c)
<1>0. /\ CallOK(c) /\ RowsInv /\ running[c].pc \notin {"idle", "request", "done"}
      /\ r.pc \notin {"idle", "request", "done"}
  BY DEF LinksInv, CallsInv, Confirming
<1>1. running[c].user \in Users /\ running[c].sid \in Sids
      /\ (ses[running[c].sid] # Nobody => ses[running[c].sid].user = running[c].user)
  BY <1>0 DEF CallOK
<1>2. CallShape(c) /\ running'[c] = r
  BY <1>0, CallMoves
<1>3. RowsInv' /\ RowsKept
  BY <1>0, RowsSame DEF RowsInv
<1>4. CallOK(c)'
  BY <1>0, <1>1, <1>2 DEF CallOK, Confirming, HasRead
<1> QED
  BY <1>2, <1>3, <1>4 DEF CallDone

\* What is known of a call that stands between the claim and the answer.
LEMMA ConfirmingFacts ==
    ASSUME LinksInv, NEW c \in Slots, running[c].pc \in Confirming \ {"provider"}
    PROVE  /\ running[c] \in CallRec /\ running \in [Slots -> CallRec] /\ CallOK(c) /\ RowsInv
           /\ running[c].pc \notin {"idle", "request", "done"}
           /\ running[c].user \in Users /\ running[c].person \in Persons /\ running[c].sid \in Sids
           /\ ses[running[c].sid] # Nobody => ses[running[c].sid] \in SessionRec
<1>1. running[c] \in CallRec /\ running \in [Slots -> CallRec] /\ CallOK(c) /\ RowsInv
  BY DEF LinksInv, CallsInv
<1>2. running[c].pc \in KnowsPerson /\ running[c].pc \notin {"idle", "request", "done"}
  BY DEF Confirming, KnowsPerson, Places
<1> QED
  BY <1>1, <1>2 DEF CallOK, RowsInv

LEMMA MineDone ==
    ASSUME LinksInv, Persist, NEW c \in Slots, CheckMine(c)
    PROVE  CallDone(c)
<1>0. running[c].pc = "mine" /\ running[c].pc \in Confirming /\ UNCHANGED now
  BY DEF CheckMine, At, Confirming
<1>1. /\ running[c] \in CallRec /\ running \in [Slots -> CallRec] /\ running[c].person \in Persons
      /\ running[c].pc \notin {"idle", "request", "done"}
  BY <1>0, ConfirmingFacts
<1>2. CASE Leave(c, "failed", "mismatch")
  BY <1>0, <1>2, CallLeft DEF Answers, Errors, Positive, SessionStatuses
<1>3. CASE running' = [running EXCEPT ![c].pc = "find", ![c].round = 1] /\ UNCHANGED ses
  <2>1. PICK n \in 0 .. 2 : n = 1
    OBVIOUS
  <2> DEFINE r == [running[c] EXCEPT !.pc = "find", !.round = n]
  <2>2. running' = [running EXCEPT ![c] = r]
    BY <1>1, <1>3, <2>1
  <2>3. /\ r \in CallRec /\ r.pc = "find" /\ r.user = running[c].user /\ r.sid = running[c].sid
        /\ r.person = running[c].person
    BY <1>1 DEF CallRec, Places
  <2> HIDE DEF r
  <2>4. r.pc \in Confirming
    BY <2>3 DEF Confirming
  <2> QED
    BY <1>0, <1>1, <1>3, <2>2, <2>3, <2>4, Confirms
<1> QED
  BY <1>2, <1>3 DEF CheckMine

LEMMA FindDone ==
    ASSUME LinksInv, Persist, NEW c \in Slots, FindIdentity(c)
    PROVE  CallDone(c)
<1>0. running[c].pc = "find" /\ running[c].pc \in Confirming /\ UNCHANGED <<acct, ident, ses, now>>
  BY DEF FindIdentity, At, Confirming
<1>1. running[c] \in CallRec /\ running \in [Slots -> CallRec] /\ running[c].person \in Persons
  BY <1>0, ConfirmingFacts
<1>2. PICK f : /\ f = ident[running[c].person] \/ f = [stored |-> FALSE, user |-> Nobody, banned |-> FALSE]
               /\ running' = [running EXCEPT ![c].pc = "judge", ![c].found = f]
  BY DEF FindIdentity, Find, MayFail
<1>3. f \in IdentityRec /\ (f.user # Nobody => f.user = ident[running[c].person].user)
  <2>1. CASE f = ident[running[c].person]
    BY <1>1, <2>1 DEF LinksInv, AccountsInv
  <2>2. CASE f = [stored |-> FALSE, user |-> Nobody, banned |-> FALSE]
    BY <2>2 DEF IdentityRec
  <2> QED
    BY <1>2, <2>1, <2>2
<1> DEFINE r == [running[c] EXCEPT !.pc = "judge", !.found = f]
<1>4. running' = [running EXCEPT ![c] = r]
  BY <1>1, <1>2
<1>5. /\ r \in CallRec /\ r.pc = "judge" /\ r.user = running[c].user /\ r.sid = running[c].sid
      /\ r.person = running[c].person /\ r.found = f
  BY <1>1, <1>3 DEF CallRec, Places
<1> HIDE DEF r
<1>6. \A u, p : r.found.user # Nobody /\ u = r.found.user /\ p = r.person => Keeps(u, p)'
  BY <1>0, <1>3, <1>5 DEF Keeps
<1>7. r.pc \in Confirming
  BY <1>5 DEF Confirming
<1> QED
  BY <1>0, <1>1, <1>3, <1>4, <1>5, <1>6, <1>7, Confirms

LEMMA JudgeDone ==
    ASSUME LinksInv, Persist, NEW c \in Slots, Judge(c)
    PROVE  CallDone(c)
<1> USE IdentityAssumption
<1> DEFINE i == running[c].sid
           f == running[c].found
           outcome == DecideOutcome(f, running[c].user)
<1>0. running[c].pc = "judge" /\ running[c].pc \in Confirming /\ UNCHANGED <<acct, ident, now>>
  BY DEF Judge, At, Confirming
<1>1. /\ running[c] \in CallRec /\ running \in [Slots -> CallRec] /\ CallOK(c) /\ RowsInv
      /\ running[c].user \in Users /\ running[c].person \in Persons /\ i \in Sids
      /\ ses[i] # Nobody => ses[i] \in SessionRec
      /\ running[c].pc \notin {"idle", "request", "done"}
  BY <1>0, ConfirmingFacts
<1>2. f \in IdentityRec /\ (f.user # Nobody => Keeps(f.user, running[c].person)) /\ now \in Nat
  BY <1>0, <1>1 DEF CallOK, HasRead, RowsInv
<1>3. CASE outcome = "blocked"
  <2>1. PICK row : row = [ses[i] EXCEPT !.st = "completed", !.since = 0, !.outcome = "blocked"]
    OBVIOUS
  <2>2. Respond(c, "blocked") /\ (UNCHANGED ses \/ UpdateSession(i, "checking", row))
    BY <1>3, <2>1 DEF Judge, Now
  <2>3. ses[i] # Nobody => /\ row \in SessionRec /\ row.user = ses[i].user /\ row.st = "completed"
                           /\ row.outcome = "blocked" /\ row.person = ses[i].person
    BY <1>1, <2>1 DEF SessionRec, SessionStatuses, Outcomes
  <2>4. "blocked" \in Answers /\ "blocked" \notin Positive \cup {"session"}
    BY DEF Answers, Outcomes, Positive
  <2> HIDE DEF i
  <2> QED
    BY <1>0, <1>1, <2>2, <2>3, <2>4, RowAnswer DEF i
<1>4. CASE outcome = "existing_account"
  <2>1. PICK exp \in Nat : exp = now + RecoveryTtl
    BY <1>2
  <2>2. PICK row : row = [ses[i] EXCEPT !.st = "existing_account", !.since = 0,
                                        !.outcome = "existing_account", !.person = running[c].person, !.owner = f.user, !.exp = exp]
    OBVIOUS
  <2>3. Respond(c, "existing_account") /\ (UNCHANGED ses \/ UpdateSession(i, "checking", row))
    BY <1>4, <2>1, <2>2 DEF Judge, Now
  <2>4. f.user \in Users \cup {Nobody}
    BY <1>2 DEF IdentityRec
  <2>5. ses[i] # Nobody => /\ row \in SessionRec /\ row.user = ses[i].user
                           /\ row.outcome = "existing_account" /\ row.person = running[c].person
    BY <1>1, <2>2, <2>4 DEF SessionRec, SessionStatuses, Outcomes
  <2>6. /\ "existing_account" \in Answers /\ "existing_account" \notin Positive \cup {"session"}
    BY DEF Answers, Outcomes, Positive
  <2> HIDE DEF i, f
  <2> QED
    BY <1>0, <1>1, <2>3, <2>5, <2>6, RowAnswer DEF i
<1>5. CASE outcome \notin {"blocked", "existing_account"}
  <2>1. PICK pc, res : /\ running' = [running EXCEPT ![c].pc = pc, ![c].res = res] /\ UNCHANGED ses
                       /\ res = outcome
                       /\ \/ pc = "mark" /\ outcome = "already_verified"
                          \/ pc = "link" /\ outcome # "already_verified"
    BY <1>5 DEF Judge
  <2>2. outcome \in Positive /\ (outcome = "already_verified" => f.user = running[c].user)
    BY <1>5 DEF DecideOutcome, Positive
  <2> DEFINE r == [running[c] EXCEPT !.pc = pc, !.res = res]
  <2>3. running' = [running EXCEPT ![c] = r]
    BY <1>1, <2>1
  <2>4. /\ r \in CallRec /\ r.pc = pc /\ r.user = running[c].user /\ r.sid = running[c].sid
        /\ r.person = running[c].person /\ r.res = res
    BY <1>1, <2>1, <2>2 DEF CallRec, Places, Answers, Outcomes
  <2> HIDE DEF r
  <2>5. r.pc = "mark" => \A u, p : u = r.user /\ p = r.person => Keeps(u, p)'
    <3>1. r.pc = "mark" => f.user = running[c].user /\ f.user # Nobody
      BY <1>1, <2>1, <2>2, <2>4
    <3> QED
      BY <1>0, <1>2, <2>4, <3>1 DEF Keeps
  <2>6. r.pc \in Confirming /\ r.pc \notin {"judge", "profile"}
    BY <2>1, <2>4 DEF Confirming
  <2>7. r.res \in Positive /\ r.pc # "judge" /\ r.pc # "profile"
    BY <2>1, <2>2, <2>4, <2>6
  <2>8. UNCHANGED <<ses, now>>
    BY <1>0, <2>1
  <2> HIDE DEF outcome, f, i
  <2> QED
    BY <1>0, <1>1, <2>3, <2>4, <2>5, <2>6, <2>7, <2>8, Confirms DEF i
<1> QED
  BY <1>3, <1>4, <1>5

LEMMA LinkDone ==
    ASSUME LinksInv, Persist, NEW c \in Slots, LinkIdentity(c)
    PROVE  CallDone(c)
<1>0. running[c].pc = "link" /\ running[c].pc \in Confirming /\ UNCHANGED <<acct, now>>
  BY DEF LinkIdentity, At, Confirming
<1>1. /\ running[c] \in CallRec /\ running \in [Slots -> CallRec] /\ CallOK(c)
      /\ running[c].user \in Users /\ running[c].person \in Persons
      /\ running[c].pc \notin {"idle", "request", "done"}
  BY <1>0, ConfirmingFacts
<1>2. CASE Leave(c, "pending", "error")
  BY <1>0, <1>1, <1>2, CallLeft DEF Answers, Errors, Positive, SessionStatuses
<1>3. CASE running' = [running EXCEPT ![c].pc = "find", ![c].round = 2] /\ UNCHANGED ses
  <2>1. PICK n \in 0 .. 2 : n = 2
    OBVIOUS
  <2> DEFINE r == [running[c] EXCEPT !.pc = "find", !.round = n]
  <2>2. running' = [running EXCEPT ![c] = r]
    BY <1>1, <1>3, <2>1
  <2>3. /\ r \in CallRec /\ r.pc = "find" /\ r.user = running[c].user /\ r.sid = running[c].sid
        /\ r.person = running[c].person
    BY <1>1 DEF CallRec, Places
  <2> HIDE DEF r
  <2>4. r.pc \in Confirming
    BY <2>3 DEF Confirming
  <2> QED
    BY <1>0, <1>1, <1>3, <2>2, <2>3, <2>4, Confirms
<1>4. CASE /\ ident' = [ident EXCEPT ![running[c].person] =
                          [stored |-> TRUE, user |-> running[c].user, banned |-> @.banned]]
           /\ running' = [running EXCEPT ![c].pc = "mark"] /\ UNCHANGED ses
  <2> DEFINE r == [running[c] EXCEPT !.pc = "mark"]
  <2>2. running' = [running EXCEPT ![c] = r]
    BY <1>1, <1>4
  <2>3. /\ r \in CallRec /\ r.pc = "mark" /\ r.user = running[c].user /\ r.sid = running[c].sid
        /\ r.person = running[c].person /\ r.res = running[c].res
    BY <1>1 DEF CallRec, Places
  <2> HIDE DEF r
  <2>4. r.pc \in Confirming /\ r.res \in Positive
    BY <1>0, <1>1, <2>3 DEF Confirming, CallOK
  <2>5. \A u, p : u = r.user /\ p = r.person => Keeps(u, p)'
    <3>1. ident \in [Persons -> IdentityRec]
      BY DEF LinksInv, AccountsInv
    <3>2. ident'[running[c].person].user = running[c].user
      BY <1>1, <1>4, <3>1
    <3> QED
      BY <2>3, <3>2 DEF Keeps
  <2> QED
    BY <1>0, <1>1, <1>4, <2>2, <2>3, <2>4, <2>5, Confirms
<1> QED
  BY <1>2, <1>3, <1>4 DEF LinkIdentity, Step

LEMMA MarkDone ==
    ASSUME LinksInv, Persist, NEW c \in Slots, Mark(c)
    PROVE  CallDone(c)
<1>0. running[c].pc = "mark" /\ running[c].pc \in Confirming /\ UNCHANGED <<ident, now>>
  BY DEF Mark, At, Confirming
<1>1. /\ running[c] \in CallRec /\ running \in [Slots -> CallRec] /\ CallOK(c)
      /\ running[c].user \in Users /\ running[c].person \in Persons
      /\ running[c].pc \notin {"idle", "request", "done"}
  BY <1>0, ConfirmingFacts
<1>2. CASE Leave(c, "pending", "error")
  BY <1>0, <1>1, <1>2, CallLeft DEF Answers, Errors, Positive, SessionStatuses
<1>3. CASE /\ acct' = IF Live(running[c].user) THEN [acct EXCEPT ![running[c].user].verified = TRUE] ELSE acct
           /\ running' = [running EXCEPT ![c].pc = "profile"] /\ UNCHANGED ses
  <2>0. running[c].res \in Positive /\ Keeps(running[c].user, running[c].person)
    BY <1>0, <1>1 DEF CallOK
  <2> DEFINE r == [running[c] EXCEPT !.pc = "profile"]
  <2>2. running' = [running EXCEPT ![c] = r]
    BY <1>1, <1>3
  <2>3. /\ r \in CallRec /\ r.pc = "profile" /\ r.user = running[c].user /\ r.sid = running[c].sid
        /\ r.person = running[c].person /\ r.res = running[c].res
    BY <1>1 DEF CallRec, Places
  <2> HIDE DEF r
  <2>4. r.pc \in Confirming
    BY <2>3 DEF Confirming
  <2>5. \A u, p : u = r.user /\ p = r.person => Keeps(u, p)'
    BY <1>1, <2>0, <2>3 DEF Persist
  <2>6. \A u : u = r.user => Passes(u)'
    <3>1. acct \in [Users -> AccountRec] /\ LinkedIsLive
      BY DEF LinksInv, AccountsInv
    <3>2. Live(running[c].user) \/ acct[running[c].user].st = "gone"
      BY <1>1, <2>0, <3>1, IdentityAssumption DEF Keeps, LinkedIsLive
    <3>3. acct[running[c].user] \in AccountRec
      BY <1>1, <3>1
    <3>4. CASE Live(running[c].user)
      <4>1. acct' = [acct EXCEPT ![running[c].user] = [@ EXCEPT !.verified = TRUE]]
        BY <1>3, <3>4
      <4>2. acct'[running[c].user] = [acct[running[c].user] EXCEPT !.verified = TRUE]
        BY <1>1, <3>1, <4>1
      <4>3. acct'[running[c].user].verified /\ acct'[running[c].user].st = acct[running[c].user].st
        BY <3>3, <4>2 DEF AccountRec
      <4> QED
        BY <2>3, <3>4, <4>3 DEF Passes, Verified, Live
    <3>5. CASE ~Live(running[c].user)
      BY <1>3, <2>3, <3>2, <3>5 DEF Passes
    <3> QED
      BY <3>4, <3>5
  <2>7. UNCHANGED <<ses, now>>
    BY <1>0, <1>3
  <2>8. r.res \in Positive /\ r.pc # "judge"
    BY <2>0, <2>3
  <2> QED
    BY <1>0, <1>1, <2>2, <2>3, <2>4, <2>5, <2>6, <2>7, <2>8, Confirms
<1> QED
  BY <1>2, <1>3 DEF Mark, MayFail, Step

LEMMA CompleteDone ==
    ASSUME LinksInv, Persist, NEW c \in Slots, Complete(c)
    PROVE  CallDone(c)
<1> DEFINE i == running[c].sid
<1>0. running[c].pc = "profile" /\ running[c].pc \in Confirming /\ UNCHANGED <<acct, ident, now>>
  BY DEF Complete, At, Confirming
<1>1. /\ running[c] \in CallRec /\ CallOK(c) /\ RowsInv /\ i \in Sids /\ running[c].user \in Users
      /\ running[c].pc \notin {"idle", "request", "done"}
      /\ ses[i] # Nobody => ses[i] \in SessionRec
  BY <1>0, ConfirmingFacts
<1>2. CASE Leave(c, "pending", "error")
  BY <1>0, <1>1, <1>2, CallLeft DEF Answers, Errors, Positive, SessionStatuses
<1>3. CASE /\ IF ses[i] = Nobody THEN UNCHANGED ses
              ELSE UpdateSession(i, "checking", [Now(c, "completed") EXCEPT !.outcome = running[c].res])
           /\ Respond(c, running[c].res)
  <2>1. running[c].res \in Positive /\ Passes(running[c].user)
        /\ (ses[i] # Nobody => ses[i].user = running[c].user)
    BY <1>0, <1>1 DEF CallOK
  <2>2. PICK res \in Positive : res = running[c].res
    BY <2>1
  <2>3. PICK row : row = [ses[i] EXCEPT !.st = "completed", !.since = 0, !.outcome = res]
    OBVIOUS
  <2>4. UNCHANGED ses \/ UpdateSession(i, "checking", row)
    BY <1>3, <2>2, <2>3 DEF Now
  <2>5. ses[i] # Nobody => /\ row \in SessionRec /\ row.user = ses[i].user /\ row.st = "completed"
                           /\ row.person = ses[i].person
    BY <1>1, <2>3 DEF SessionRec, SessionStatuses, Outcomes
  <2>6. \A u \in Users : u = running[c].user => Passes(u)'
    BY <2>1 DEF Persist
  <2>7. ses[i] # Nobody => Passes(row.user)'
    BY <1>1, <2>1, <2>5, <2>6
  <2>8. RowsInv' /\ RowsKept
    <3> HIDE DEF i
    <3> QED
      BY <1>0, <1>1, <2>4, <2>5, <2>7, RowWritten
  <2>9. res \in Answers /\ res \notin {"session"} /\ Respond(c, res)
    BY <1>3, <2>2 DEF Answers, Outcomes, Positive
  <2>10. CallShape(c) /\ CallOK(c)'
    BY <1>1, <2>6, <2>9, CallAnswered
  <2> QED
    BY <2>8, <2>10 DEF CallDone
<1> QED
  BY <1>2, <1>3 DEF Complete, MayFail

LEMMA CheckRecoverDone ==
    ASSUME LinksInv, Persist, NEW c \in Slots, CheckRecover(c)
    PROVE  CallDone(c)
<1> DEFINE i == running[c].sid
<1>0. running[c].pc = "check" /\ UNCHANGED <<acct, ident, now>>
  BY DEF CheckRecover, At
<1>1. /\ running[c] \in CallRec /\ running \in [Slots -> CallRec] /\ CallOK(c) /\ RowsInv
      /\ i \in Sids /\ running[c].user \in Users
      /\ running[c].pc \notin {"idle", "request", "done"}
  BY <1>0 DEF LinksInv, CallsInv, CallOK
<1>2. CASE \E res \in Errors : Respond(c, res) /\ UNCHANGED ses
  BY <1>0, <1>1, <1>2, PlainAnswer DEF Answers, Errors, Positive
<1>3. CASE /\ UpdateSession(i, "existing_account", [ses[i] EXCEPT !.st = "expired"])
           /\ Respond(c, "expired")
  BY <1>0, <1>1, <1>3, StatusAnswer DEF Answers, Errors, Positive, SessionStatuses
<1>4. CASE /\ ses[i] # Nobody /\ ses[i].user = running[c].user /\ ses[i].st = "existing_account"
           /\ UNCHANGED ses
           /\ running' = [running EXCEPT ![c].pc = "empty", ![c].person = ses[i].person]
  <2>1. PICK p \in Persons : p = ses[i].person
    BY <1>1, <1>4 DEF RowsInv
  <2> DEFINE r == [running[c] EXCEPT !.pc = "empty", !.person = p]
  <2>2. running' = [running EXCEPT ![c] = r]
    BY <1>1, <1>4, <2>1
  <2>3. /\ r \in CallRec /\ r.pc = "empty" /\ r.user = running[c].user /\ r.sid = running[c].sid
        /\ r.person = p
    BY <1>1 DEF CallRec, Places
  <2> HIDE DEF r
  <2>4. CallShape(c) /\ running'[c] = r
    BY <1>0, <2>2, <2>3, CallMoves
  <2>5. CallOK(c)'
    BY <1>1, <2>1, <2>3, <2>4 DEF CallOK, Confirming, KnowsPerson, HasRead
  <2>6. RowsInv' /\ RowsKept
    BY <1>0, <1>1, <1>4, RowsSame DEF RowsInv
  <2> QED
    BY <2>4, <2>5, <2>6 DEF CallDone
<1>5. CASE ~Live(running[c].user)
  BY <1>2, <1>5 DEF CheckRecover, Errors
<1>6. CASE Live(running[c].user) /\ (ses[i] = Nobody \/ ses[i].user # running[c].user)
  BY <1>2, <1>6 DEF CheckRecover, Errors
<1>7. CASE Live(running[c].user) /\ ses[i] # Nobody /\ ses[i].user = running[c].user
  <2>1. CASE ses[i].st = "checking"
    BY <1>2, <1>7, <2>1 DEF CheckRecover, Errors
  <2>2. CASE ses[i].st \notin {"checking", "existing_account"}
    BY <1>2, <1>7, <2>2 DEF CheckRecover, Errors
  <2>3. CASE ses[i].st = "existing_account" /\ ses[i].exp <= now
    BY <1>3, <1>7, <2>3 DEF CheckRecover, Errors
  <2>4. CASE ses[i].st = "existing_account" /\ ~(ses[i].exp <= now)
    BY <1>2, <1>4, <1>7, <2>4 DEF CheckRecover, Errors
  <2> QED
    BY <2>1, <2>2, <2>3, <2>4
<1> QED
  BY <1>5, <1>6, <1>7

\* A recovery goes on, its session unwritten.
LEMMA Recovers ==
    ASSUME LinksInv, Persist, UNCHANGED <<ses, now>>, NEW c \in Slots, NEW r \in CallRec,
           running' = [running EXCEPT ![c] = r],
           running[c].pc \in {"empty", "again", "phone"}, r.pc \in {"again", "rejudge", "reactivate"},
           r.user = running[c].user, r.sid = running[c].sid, r.person = running[c].person,
           r.pc \in {"rejudge", "reactivate"} => r.found \in IdentityRec
    PROVE  CallDone(c)
<1>0. CallOK(c) /\ RowsInv
  BY DEF LinksInv, CallsInv
<1>1. running[c].user \in Users /\ running[c].sid \in Sids /\ running[c].person \in Persons
  BY <1>0 DEF CallOK, KnowsPerson, Places
<1>2. CallShape(c) /\ running'[c] = r
  BY <1>0, CallMoves
<1>3. RowsInv' /\ RowsKept
  BY <1>0, RowsSame DEF RowsInv
<1>4. CallOK(c)'
  BY <1>0, <1>1, <1>2 DEF CallOK, Confirming, HasRead, KnowsPerson
<1> QED
  BY <1>2, <1>3, <1>4 DEF CallDone

LEMMA CheckEmptyDone ==
    ASSUME LinksInv, Persist, NEW c \in Slots, CheckEmpty(c)
    PROVE  CallDone(c)
<1>0. running[c].pc = "empty" /\ UNCHANGED <<ses, now>>
  BY DEF CheckEmpty, At
<1>1. running[c] \in CallRec /\ running \in [Slots -> CallRec]
  BY DEF LinksInv, CallsInv
<1>2. CASE Respond(c, "error")
  BY <1>0, <1>2, PlainAnswer DEF Answers, Errors, Positive
<1>3. CASE running' = [running EXCEPT ![c].pc = "again"]
  <2> DEFINE r == [running[c] EXCEPT !.pc = "again"]
  <2>2. running' = [running EXCEPT ![c] = r]
    BY <1>1, <1>3
  <2>3. /\ r \in CallRec /\ r.pc = "again" /\ r.user = running[c].user /\ r.sid = running[c].sid
        /\ r.person = running[c].person
    BY <1>1 DEF CallRec, Places
  <2> HIDE DEF r
  <2> QED
    BY <1>0, <2>2, <2>3, Recovers
<1> QED
  BY <1>2, <1>3 DEF CheckEmpty, Step

LEMMA FindAgainDone ==
    ASSUME LinksInv, Persist, NEW c \in Slots, FindAgain(c)
    PROVE  CallDone(c)
<1>0. running[c].pc = "again" /\ UNCHANGED <<acct, ident, ses, now>>
  BY DEF FindAgain, At
<1>1. running[c] \in CallRec /\ running \in [Slots -> CallRec] /\ running[c].person \in Persons
  BY <1>0 DEF LinksInv, CallsInv, CallOK, KnowsPerson, Places
<1>2. PICK f : /\ f = ident[running[c].person] \/ f = [stored |-> FALSE, user |-> Nobody, banned |-> FALSE]
               /\ running' = [running EXCEPT ![c].pc = "rejudge", ![c].found = f]
  BY DEF FindAgain, Find, MayFail
<1>3. f \in IdentityRec
  <2>1. CASE f = ident[running[c].person]
    BY <1>1, <2>1 DEF LinksInv, AccountsInv
  <2>2. CASE f = [stored |-> FALSE, user |-> Nobody, banned |-> FALSE]
    BY <2>2 DEF IdentityRec
  <2> QED
    BY <1>2, <2>1, <2>2
<1> DEFINE r == [running[c] EXCEPT !.pc = "rejudge", !.found = f]
<1>4. running' = [running EXCEPT ![c] = r]
  BY <1>1, <1>2
<1>5. /\ r \in CallRec /\ r.pc = "rejudge" /\ r.user = running[c].user /\ r.sid = running[c].sid
      /\ r.person = running[c].person /\ r.found = f
  BY <1>1, <1>3 DEF CallRec, Places
<1> HIDE DEF r
<1> QED
  BY <1>0, <1>3, <1>4, <1>5, Recovers

LEMMA ClaimRecoveryDone ==
    ASSUME LinksInv, Persist, NEW c \in Slots, ClaimRecovery(c)
    PROVE  CallDone(c)
<1> DEFINE i == running[c].sid
<1>0. running[c].pc = "rejudge" /\ UNCHANGED <<acct, ident, now>>
  BY DEF ClaimRecovery, At
<1>1. /\ running[c] \in CallRec /\ running \in [Slots -> CallRec] /\ CallOK(c) /\ RowsInv
      /\ i \in Sids /\ running[c].user \in Users /\ running[c].person \in Persons
      /\ running[c].found \in IdentityRec
      /\ running[c].pc \notin {"idle", "request", "done"}
  BY <1>0 DEF LinksInv, CallsInv, CallOK, KnowsPerson, HasRead, Places
<1>2. CASE \E res \in Errors : Respond(c, res) /\ UNCHANGED ses
  BY <1>0, <1>1, <1>2, PlainAnswer DEF Answers, Errors, Positive
<1>3. CASE /\ UpdateSession(i, "existing_account", [ses[i] EXCEPT !.st = "failed"])
           /\ Respond(c, "error")
  BY <1>0, <1>1, <1>3, StatusAnswer DEF Answers, Errors, Positive, SessionStatuses
<1>4. CASE /\ ses[i] # Nobody /\ ses[i].st = "existing_account"
           /\ ses' = [ses EXCEPT ![i].st = "checking", ![i].since = now]
           /\ running' = [running EXCEPT ![c].pc = "delete"]
  <2>1. RowsInv' /\ RowsKept /\ ses'[i].person = ses[i].person
    BY <1>0, <1>1, <1>4, RowTaken
  <2>2. ses[i].person \in Persons
    BY <1>1, <1>4 DEF RowsInv
  <2> DEFINE r == [running[c] EXCEPT !.pc = "delete"]
  <2>3. running' = [running EXCEPT ![c] = r]
    BY <1>1, <1>4
  <2>4. /\ r \in CallRec /\ r.pc = "delete" /\ r.user = running[c].user /\ r.sid = running[c].sid
        /\ r.person = running[c].person /\ r.found = running[c].found
    BY <1>1 DEF CallRec, Places
  <2> HIDE DEF r
  <2>5. CallShape(c) /\ running'[c] = r
    BY <1>0, <2>3, <2>4, CallMoves
  <2>6. CallOK(c)'
    BY <1>1, <2>1, <2>2, <2>4, <2>5 DEF CallOK, Confirming, HasRead
  <2> QED
    BY <2>1, <2>5, <2>6 DEF CallDone
<1>5. CASE ses[i] = Nobody
  BY <1>2, <1>5 DEF ClaimRecovery, Errors
<1>6. CASE ses[i] # Nobody
  <2> DEFINE moved == ~running[c].found.stored \/ running[c].found.user # ses[i].owner
                         \/ DecideOutcome(running[c].found, running[c].user) # "existing_account"
  <2>1. CASE moved
    BY <1>3, <1>6, <2>1 DEF ClaimRecovery
  <2>2. CASE ~moved /\ ses[i].st = "existing_account"
    BY <1>4, <1>6, <2>2 DEF ClaimRecovery, Step
  <2>3. CASE ~moved /\ ses[i].st # "existing_account"
    BY <1>2, <1>6, <2>3 DEF ClaimRecovery, Errors
  <2> QED
    BY <2>1, <2>2, <2>3
<1> QED
  BY <1>5, <1>6

LEMMA DeleteDone ==
    ASSUME LinksInv, Persist, NEW c \in Slots, DeleteNew(c)
    PROVE  CallDone(c)
<1>0. running[c].pc = "delete" /\ UNCHANGED now
  BY DEF DeleteNew, At
<1>1. /\ running[c] \in CallRec /\ running \in [Slots -> CallRec] /\ CallOK(c)
      /\ running[c].user \in Users /\ running[c].person \in Persons /\ running[c].sid \in Sids
      /\ running[c].found \in IdentityRec
      /\ running[c].pc \notin {"idle", "request", "done"}
  BY <1>0 DEF LinksInv, CallsInv, CallOK, KnowsPerson, HasRead, Places
<1>2. CASE Respond(c, "error") /\ UNCHANGED ses
  BY <1>0, <1>1, <1>2, PlainAnswer DEF Answers, Errors, Positive
<1>3. CASE Leave(c, "existing_account", "error")
  BY <1>0, <1>1, <1>3, CallLeft DEF Answers, Errors, Positive, SessionStatuses
<1>4. CASE /\ EraseAccount(running[c].user)
           /\ running' = [running EXCEPT ![c].pc = "phone", ![c].res = acct[running[c].user].phone]
  <2>1. RowsInv' /\ RowsKept
    BY <1>0, <1>4, RowsErased
  <2>2. PICK ph \in Phones \cup {Nobody} : ph = acct[running[c].user].phone
    BY <1>1 DEF LinksInv, AccountsInv, AccountRec
  <2> DEFINE r == [running[c] EXCEPT !.pc = "phone", !.res = ph]
  <2>3. running' = [running EXCEPT ![c] = r]
    BY <1>1, <1>4, <2>2
  <2>4. /\ r \in CallRec /\ r.pc = "phone" /\ r.user = running[c].user /\ r.sid = running[c].sid
        /\ r.person = running[c].person /\ r.found = running[c].found /\ r.res = ph
    BY <1>1 DEF CallRec, Places
  <2> HIDE DEF r
  <2>5. CallShape(c) /\ running'[c] = r
    BY <1>0, <2>3, <2>4, CallMoves
  <2>6. CallOK(c)'
    BY <1>1, <2>4, <2>5 DEF CallOK, Confirming, HasRead
  <2> QED
    BY <2>1, <2>5, <2>6 DEF CallDone
<1> QED
  BY <1>2, <1>3, <1>4 DEF DeleteNew, MayFail

LEMMA PhoneDone ==
    ASSUME LinksInv, Persist, NEW c \in Slots, MovePhone(c) \/ Reactivate(c)
    PROVE  CallDone(c)
<1>0. running[c].pc \in {"phone", "reactivate"} /\ UNCHANGED <<ses, now>>
  BY DEF MovePhone, Reactivate, At
<1>1. running[c] \in CallRec /\ running \in [Slots -> CallRec] /\ running[c].found \in IdentityRec
  BY <1>0 DEF LinksInv, CallsInv, CallOK, HasRead
<1>2. CASE \E res \in {"error", "recovered"} : Respond(c, res)
  BY <1>0, <1>2, PlainAnswer DEF Answers, Errors, Positive
<1>3. CASE running[c].pc = "phone" /\ running' = [running EXCEPT ![c].pc = "reactivate"]
  <2> DEFINE r == [running[c] EXCEPT !.pc = "reactivate"]
  <2>2. running' = [running EXCEPT ![c] = r]
    BY <1>1, <1>3
  <2>3. /\ r \in CallRec /\ r.pc = "reactivate" /\ r.user = running[c].user /\ r.sid = running[c].sid
        /\ r.person = running[c].person /\ r.found = running[c].found
    BY <1>1 DEF CallRec, Places
  <2> HIDE DEF r
  <2> QED
    BY <1>0, <1>1, <1>3, <2>2, <2>3, Recovers
<1> QED
  BY <1>2, <1>3 DEF MovePhone, Reactivate, At, Step

LEMMA CrashDone ==
    ASSUME LinksInv, Persist, NEW c \in Slots, Crash(c)
    PROVE  CallDone(c)
<1>1. running[c].pc \notin {"idle", "done"} /\ Respond(c, "error") /\ UNCHANGED <<ses, now>>
  BY DEF Crash
<1>2. CallShape(c) /\ CallOK(c)'
  BY <1>1, CallAnswered DEF Answers, Errors, Positive
<1>3. RowsInv' /\ RowsKept
  BY <1>1, RowsSame DEF LinksInv, RowsInv
<1> QED
  BY <1>2, <1>3 DEF CallDone

LEMMA EveryCallDone ==
    ASSUME LinksInv, Persist, NEW c \in Slots, CallNext(c)
    PROVE  CallDone(c) /\ UNCHANGED screens
<1>1. CallDone(c)
  BY RequestDone, ClaimDone, ExplainDone, ProviderDone, MineDone, FindDone, JudgeDone, LinkDone, MarkDone,
     CompleteDone, CheckRecoverDone, CheckEmptyDone, FindAgainDone, ClaimRecoveryDone, DeleteDone,
     PhoneDone, CrashDone DEF CallNext
<1>2. UNCHANGED screens
  BY DEF CallNext, OpenSession, Claim, Explain, ProviderAnswers, CheckMine, FindIdentity, Judge, LinkIdentity,
         Mark, Complete, CheckRecover, CheckEmpty, FindAgain, ClaimRecovery, DeleteNew, MovePhone,
         Reactivate, Crash
<1> QED
  BY <1>1, <1>2

LEMMA StepOfCall ==
    ASSUME LinksInv, AccountsInv', Persist, NEW c \in Slots, CallNext(c)
    PROVE  LinksInv'
<1> USE IdentityAssumption
<1>0. CallDone(c) /\ UNCHANGED screens /\ running[c].pc \notin {"idle", "done"}
  <2>1. running[c].pc \notin {"idle", "done"}
    BY DEF CallNext, OpenSession, Claim, Explain, ProviderAnswers, CheckMine, FindIdentity, Judge, LinkIdentity,
           Mark, Complete, CheckRecover, CheckEmpty, FindAgain, ClaimRecovery, DeleteNew, MovePhone,
           Reactivate, Crash, At
  <2> QED
    BY <2>1, EveryCallDone
<1>1. RowsInv' /\ RowsKept /\ CallShape(c) /\ CallOK(c)'
  BY <1>0 DEF CallDone
<1>2. CallsInv'
  <2>1. \A k \in Slots \ {c} : running'[k] = running[k]
    BY <1>1 DEF CallShape
  <2>2. \A k \in Slots : running[k] \in CallRec /\ CallOK(k)
    BY DEF LinksInv, CallsInv
  <2>3. ASSUME NEW k \in Slots \ {c} PROVE CallOK(k)'
    BY <1>1, <2>1, <2>2, CallKept
  <2>4. \A k \in Slots : CallOK(k)'
    BY <1>1, <2>3
  <2>5. running' \in [Slots -> CallRec]
    BY <1>1 DEF CallShape
  <2> QED
    BY <2>4, <2>5 DEF CallsInv
<1>3. ASSUME NEW s \in Screens PROVE ScreenOK(s)'
  <2>0. ScreenOK(s) /\ screens'[s] = screens[s] /\ screens[s] \in ScreenRec
    BY <1>0 DEF LinksInv, ScreensInv
  <2>1. screens[s].stage = "face" => Passes(screens[s].user)'
    BY <2>0 DEF ScreenOK, Persist
  <2>2. ASSUME screens[s].wait # Nobody
        PROVE  /\ running'[screens[s].wait].pc # "idle"
               /\ running'[screens[s].wait].user = screens[s].user
               /\ running'[screens[s].wait].pc \notin {"request", "done"} => screens[s].sid \in Sids
               /\ running'[screens[s].wait].pc = "done" /\ running'[screens[s].wait].res = "existing_account"
                    => screens[s].sid \in Sids
    <3>1. screens[s].wait \in Slots
      BY <2>0, <2>2 DEF ScreenRec
    <3>2. CASE screens[s].wait # c
      BY <1>1, <2>0, <2>2, <3>1, <3>2 DEF CallShape, ScreenOK
    <3>3. CASE screens[s].wait = c
      BY <1>0, <1>1, <2>0, <2>2, <3>3 DEF CallShape, ScreenOK
    <3> QED
      BY <3>2, <3>3
  <2>3. \A t \in Screens : screens'[t].wait = screens'[s].wait /\ screens'[s].wait # Nobody => s = t
    BY <1>0, <2>0 DEF ScreenOK
  <2> QED
    BY <2>0, <2>1, <2>2, <2>3 DEF ScreenOK
<1>4. ScreensInv'
  BY <1>0, <1>3 DEF LinksInv, ScreensInv
<1> QED
  BY <1>1, <1>2, <1>4 DEF LinksInv

\* Whatever others do: the calls and the screens stand as they are.
LEMMA CallsStand ==
    ASSUME LinksInv, Persist, RowsKept, UNCHANGED running
    PROVE  CallsInv'
<1>1. \A k \in Slots : running[k] \in CallRec /\ CallOK(k)
  BY DEF LinksInv, CallsInv
<1>2. ASSUME NEW k \in Slots PROVE CallOK(k)'
  BY <1>1, CallKept
<1> QED
  BY <1>2 DEF LinksInv, CallsInv

LEMMA ScreensStand ==
    ASSUME LinksInv, Persist, UNCHANGED <<running, screens>>
    PROVE  ScreensInv'
<1> USE IdentityAssumption
<1>1. ASSUME NEW s \in Screens PROVE ScreenOK(s)'
  <2>0. ScreenOK(s)
    BY DEF LinksInv, ScreensInv
  <2>1. screens[s].stage = "face" => Passes(screens[s].user)'
    BY <2>0 DEF ScreenOK, Persist
  <2> QED
    BY <2>0, <2>1 DEF ScreenOK
<1> QED
  BY <1>1 DEF LinksInv, ScreensInv

LEMMA StepOfOthers ==
    ASSUME LinksInv, AccountsInv', Persist, Tick \/ \E u \in Users : Ban(u) \/ AskDeletion(u) \/ Erase(u)
    PROVE  LinksInv'
<1>1. UNCHANGED <<running, screens>>
  BY DEF Tick, Ban, AskDeletion, Erase
<1>2. CASE UNCHANGED ses /\ now' \in {now, now + 1}
  <2>1. RowsInv' /\ RowsKept
    BY <1>2, RowsSame DEF LinksInv, RowsInv
  <2> QED
    BY <1>1, <2>1, CallsStand, ScreensStand DEF LinksInv
<1>3. CASE \E u \in Users : Erase(u)
  <2>1. RowsInv' /\ RowsKept
    BY <1>3, RowsErased DEF Erase
  <2> QED
    BY <1>1, <2>1, CallsStand, ScreensStand DEF LinksInv
<1> QED
  BY <1>2, <1>3 DEF Tick, Ban, AskDeletion

\* A screen that waits for nothing afterwards; only its own call may be dropped.
LEMMA ScreenWritten ==
    ASSUME LinksInv, AccountsInv', Persist, UNCHANGED <<ses, now>>, NEW s \in Screens, NEW r \in ScreenRec,
           screens' = [screens EXCEPT ![s] = r], r.wait = Nobody,
           r.user \notin Users => r.stage = "login",
           r.stage \in {"code", "found"} => r.sid \in Sids,
           r.stage = "face" => Passes(r.user)',
           running' \in [Slots -> CallRec],
           \A c \in Slots : \/ running'[c] = running[c]
                            \/ running'[c] = NoCall /\ screens[s].wait = c
    PROVE  LinksInv'
<1> USE IdentityAssumption
<1>0. /\ screens' \in [Screens -> ScreenRec] /\ screens'[s] = r
      /\ \A t \in Screens \ {s} : screens'[t] = screens[t]
  BY DEF LinksInv, ScreensInv
<1>1. RowsInv' /\ RowsKept
  BY RowsSame DEF LinksInv, RowsInv
<1>2. CallsInv'
  <2>1. \A c \in Slots : running[c] \in CallRec /\ CallOK(c)
    BY DEF LinksInv, CallsInv
  <2>2. ASSUME NEW c \in Slots, running'[c] = running[c] PROVE CallOK(c)'
    BY <1>1, <2>1, <2>2, CallKept
  <2>3. ASSUME NEW c \in Slots, running'[c] = NoCall PROVE CallOK(c)'
    BY <2>3 DEF CallOK, NoCall, Confirming, KnowsPerson, HasRead
  <2> QED
    BY <2>2, <2>3 DEF CallsInv
<1>3. ASSUME NEW t \in Screens PROVE ScreenOK(t)'
  <2>1. CASE t = s
    <3>1. r.stage = "face" => Passes(screens[t].user)'
      BY <1>0, <2>1
    <3> QED
      BY <1>0, <2>1, <3>1 DEF ScreenOK
  <2>2. CASE t # s
    <3>0. ScreenOK(t) /\ ScreenOK(s) /\ screens'[t] = screens[t] /\ screens[t] \in ScreenRec
      BY <1>0, <2>2 DEF LinksInv, ScreensInv
    <3>1. screens[t].stage = "face" => Passes(screens[t].user)'
      BY <3>0 DEF ScreenOK, Persist
    <3>2. screens[t].wait # Nobody => running'[screens[t].wait] = running[screens[t].wait]
      BY <2>2, <3>0 DEF ScreenOK, ScreenRec
    <3>3. \A v \in Screens : screens'[v].wait = screens'[t].wait /\ screens'[t].wait # Nobody => t = v
      BY <1>0, <2>2, <3>0 DEF ScreenOK
    <3> QED
      BY <3>0, <3>1, <3>2, <3>3 DEF ScreenOK
  <2> QED
    BY <2>1, <2>2
<1> QED
  BY <1>0, <1>1, <1>2, <1>3 DEF LinksInv, ScreensInv

LEMMA SignedIn ==
    ASSUME LinksInv, AccountsInv', Persist, NEW s \in Screens, SignIn(s)
    PROVE  LinksInv'
<1>0. UNCHANGED <<ident, ses, running, now>> /\ AccountsInv
  BY DEF SignIn, LinksInv
<1>1. PICK u \in Users, v \in BOOLEAN :
         /\ Signed(s, u, v)
         /\ v => UNCHANGED acct /\ acct[u].verified /\ Live(u)
  <2>1. \A u \in Users : acct[u].verified \in BOOLEAN
    BY <1>0 DEF AccountsInv, AccountRec
  <2> QED
    BY <2>1 DEF SignIn
<1> DEFINE r == [user |-> u, stage |-> IF v THEN "face" ELSE "form", sid |-> Nobody, wait |-> Nobody]
<1>2. screens' = [screens EXCEPT ![s] = r]
  BY <1>1 DEF Signed
<1>3. /\ r \in ScreenRec /\ r.wait = Nobody /\ r.user = u /\ (r.stage = "face" => v)
      /\ r.stage \in {"face", "form"}
  BY DEF ScreenRec, Stages
<1>4. v => Passes(u)'
  BY <1>1 DEF Passes, Verified, Live
<1>5. running' \in [Slots -> CallRec] /\ \A c \in Slots : running'[c] = running[c]
  BY <1>0 DEF LinksInv, CallsInv
<1> HIDE DEF r
<1> QED
  BY <1>0, <1>2, <1>3, <1>4, <1>5, ScreenWritten

LEMMA Pressed ==
    ASSUME LinksInv, AccountsInv', Persist, NEW s \in Screens,
           PressRequest(s) \/ PressConfirm(s) \/ PressRecover(s)
    PROVE  LinksInv'
<1> USE IdentityAssumption
<1>0. UNCHANGED <<acct, ident, ses, now>>
  BY DEF PressRequest, PressConfirm, PressRecover, Invoke
<1>1. PICK c \in Slots, pc \in {"request", "claim", "check"} :
         /\ screens[s].wait = Nobody
         /\ running[c].pc = "idle"
         /\ running' = [running EXCEPT ![c] = [NoCall EXCEPT !.pc = pc, !.user = screens[s].user,
                        !.sid = screens[s].sid]]
         /\ screens' = [screens EXCEPT ![s].wait = c]
         /\ screens[s].stage \in {"form", "code", "found"}
         /\ pc # "request" => screens[s].stage \in {"code", "found"}
  <2>1. CASE PressRequest(s)
    BY <2>1 DEF PressRequest, Invoke, At
  <2>2. CASE PressConfirm(s)
    BY <2>2 DEF PressConfirm, Invoke, At
  <2>3. CASE PressRecover(s)
    BY <2>3 DEF PressRecover, Invoke, At
  <2> QED
    BY <2>1, <2>2, <2>3
<1>2. /\ ScreenOK(s) /\ screens[s] \in ScreenRec /\ screens \in [Screens -> ScreenRec]
      /\ running \in [Slots -> CallRec]
  BY DEF LinksInv, ScreensInv, CallsInv
<1>3. screens[s].user \in Users /\ (pc # "request" => screens[s].sid \in Sids)
  BY <1>1, <1>2 DEF ScreenOK
<1> DEFINE r == [screens[s] EXCEPT !.wait = c]
           k == [NoCall EXCEPT !.pc = pc, !.user = screens[s].user, !.sid = screens[s].sid]
<1>4. /\ r \in ScreenRec /\ r.user = screens[s].user /\ r.stage = screens[s].stage
      /\ r.sid = screens[s].sid /\ r.wait = c
  BY <1>2 DEF ScreenRec
<1>5. k \in CallRec /\ k.pc = pc /\ k.user = screens[s].user /\ k.sid = screens[s].sid /\ k.res = "none"
  <2>1. NoCall \in CallRec /\ NoCall.res = "none"
    BY DEF NoCall, CallRec, Places, Answers
  <2>2. screens[s].user \in Users \cup {Nobody} /\ screens[s].sid \in Sids \cup {Nobody}
    BY <1>2 DEF ScreenRec
  <2>3. PICK u \in Users \cup {Nobody}, sid \in Sids \cup {Nobody} :
          u = screens[s].user /\ sid = screens[s].sid
    BY <2>2
  <2>4. k = [NoCall EXCEPT !.pc = pc, !.user = u, !.sid = sid]
    BY <2>3
  <2> HIDE DEF k
  <2>5. k \in CallRec /\ k.pc = pc /\ k.user = u /\ k.sid = sid /\ k.res = "none"
    BY <2>1, <2>4 DEF CallRec, Places
  <2> QED
    BY <2>3, <2>5
<1>6. running' = [running EXCEPT ![c] = k] /\ screens' = [screens EXCEPT ![s] = r]
  BY <1>1, <1>2
<1> HIDE DEF r, k
<1>7. /\ running'[c] = k /\ running' \in [Slots -> CallRec] /\ \A d \in Slots \ {c} : running'[d] = running[d]
      /\ screens'[s] = r /\ screens' \in [Screens -> ScreenRec]
      /\ \A t \in Screens \ {s} : screens'[t] = screens[t]
  BY <1>2, <1>4, <1>5, <1>6
<1>8. RowsInv' /\ RowsKept
  BY <1>0, RowsSame DEF LinksInv, RowsInv
<1>9. CallsInv'
  <2>1. \A d \in Slots : running[d] \in CallRec /\ CallOK(d)
    BY DEF LinksInv, CallsInv
  <2>2. ASSUME NEW d \in Slots \ {c} PROVE CallOK(d)'
    BY <1>7, <1>8, <2>1, CallKept
  <2>3. CallOK(c)'
    BY <1>3, <1>5, <1>7 DEF CallOK, Confirming, KnowsPerson, HasRead
  <2> QED
    BY <1>7, <2>2, <2>3 DEF CallsInv
<1>10. ASSUME NEW t \in Screens PROVE ScreenOK(t)'
  <2>0. ScreenOK(t) /\ screens[t] \in ScreenRec
    BY <1>2 DEF LinksInv, ScreensInv
  <2>1. screens[t].wait # c
    BY <1>1, <2>0 DEF ScreenOK
  <2>2. CASE t = s
    <3>1. r.stage # "face"
      BY <1>1, <1>4
    <3>2. \A v \in Screens : screens'[v].wait = c => v = s
      <4>1. \A v \in Screens : screens[v].wait # c
        BY <1>1 DEF LinksInv, ScreensInv, ScreenOK
      <4> QED
        BY <1>7, <4>1
    <3>3. c # Nobody
      OBVIOUS
    <3> QED
      BY <1>1, <1>2, <1>3, <1>4, <1>5, <1>7, <2>2, <3>1, <3>2, <3>3 DEF ScreenOK
  <2>3. CASE t # s
    <3>1. screens'[t] = screens[t]
      BY <1>7, <2>3
    <3>2. screens[t].stage = "face" => Passes(screens[t].user)'
      BY <2>0, <3>1 DEF ScreenOK, Persist
    <3>3. screens[t].wait # Nobody => running'[screens[t].wait] = running[screens[t].wait]
      BY <1>7, <2>0, <2>1 DEF ScreenRec
    <3>4. \A v \in Screens : screens'[v].wait = screens'[t].wait /\ screens'[t].wait # Nobody => t = v
      BY <1>4, <1>7, <2>0, <2>1, <3>1 DEF ScreenOK
    <3> QED
      BY <2>0, <3>1, <3>2, <3>3, <3>4 DEF ScreenOK
  <2> QED
    BY <2>2, <2>3
<1> QED
  BY <1>7, <1>8, <1>9, <1>10 DEF LinksInv, ScreensInv

LEMMA GotAnswer ==
    ASSUME LinksInv, AccountsInv', Persist, NEW s \in Screens, Answered(s)
    PROVE  LinksInv'
<1> USE IdentityAssumption
<1> DEFINE c == screens[s].wait
<1>0. /\ UNCHANGED <<acct, ident, ses, now>> /\ c # Nobody /\ running[c].pc = "done"
      /\ running' = [running EXCEPT ![c] = NoCall]
  BY DEF Answered
<1>1. /\ screens[s] \in ScreenRec /\ running \in [Slots -> CallRec] /\ ScreenOK(s)
  BY DEF LinksInv, ScreensInv, CallsInv
<1>2. c \in Slots /\ running[c] \in CallRec /\ CallOK(c)
  BY <1>0, <1>1 DEF ScreenRec, LinksInv, CallsInv
<1>3. screens[s].user \in Users /\ running[c].user = screens[s].user
  BY <1>0, <1>1 DEF ScreenOK
<1> DEFINE sid == IF running[c].res = "session" THEN running[c].sid
                  ELSE IF running[c].res \in EndsScreen \cup {"cancelled"} THEN Nobody ELSE screens[s].sid
           stage == Shown(s, c)
<1>r. PICK r : r = [screens[s] EXCEPT !.wait = Nobody, !.stage = stage, !.sid = sid]
  OBVIOUS
<1>4. screens' = [screens EXCEPT ![s] = r]
  BY <1>r DEF Answered, LinksInv, ScreensInv
<1>5. stage \in Stages /\ (stage \in {"code", "found"} => sid \in Sids)
      /\ (stage = "face" => Passes(screens[s].user))
  <2>1. CASE running[c].res = "session"
    BY <1>0, <1>2, <2>1 DEF Shown, CallOK, Stages, Positive, EndsScreen
  <2>2. CASE running[c].res \in Positive
    BY <1>0, <1>2, <1>3, <2>2 DEF Shown, CallOK, Stages, Positive
  <2>3. CASE running[c].res = "existing_account"
    BY <1>0, <1>1, <2>3 DEF Shown, ScreenOK, Stages, Positive, EndsScreen
  <2>4. CASE running[c].res \in {"blocked", "recovered"} \cup EndsScreen \cup {"cancelled"}
    BY <2>4 DEF Shown, Stages, Positive, EndsScreen
  <2>5. CASE running[c].res \notin {"session", "existing_account", "blocked", "recovered", "cancelled"}
                                     \cup Positive \cup EndsScreen
    BY <1>1, <2>5 DEF Shown, ScreenOK, ScreenRec
  <2> QED
    BY <2>1, <2>2, <2>3, <2>4, <2>5
<1>6. sid \in Sids \cup {Nobody}
  BY <1>1, <1>2 DEF ScreenRec, CallRec
<1> HIDE DEF stage, sid
<1>7. /\ r \in ScreenRec /\ r.wait = Nobody /\ r.user = screens[s].user /\ r.stage = stage /\ r.sid = sid
  BY <1>1, <1>5, <1>6, <1>r DEF ScreenRec
<1>8. r.stage = "face" => Passes(r.user)'
  BY <1>3, <1>5, <1>7 DEF Persist
<1>9. NoCall \in CallRec
  BY DEF NoCall, CallRec, Places, Answers
<1>10. /\ running' \in [Slots -> CallRec]
       /\ \A d \in Slots : \/ running'[d] = running[d]
                           \/ running'[d] = NoCall /\ screens[s].wait = d
  BY <1>0, <1>1, <1>2, <1>9
<1> QED
  BY <1>0, <1>3, <1>4, <1>5, <1>7, <1>8, <1>10, ScreenWritten

\* Going back while a call runs: what the screen waits for is not touched.
LEMMA WentBack ==
    ASSUME LinksInv, AccountsInv', Persist, NEW s \in Screens, GoBack(s)
    PROVE  LinksInv'
<1> USE IdentityAssumption
<1>0. UNCHANGED <<acct, ident, ses, running, now>>
  BY DEF GoBack
<1>1. screens[s] \in ScreenRec /\ screens \in [Screens -> ScreenRec] /\ ScreenOK(s)
  BY DEF LinksInv, ScreensInv
<1>r. PICK r : r = [screens[s] EXCEPT !.stage = "form", !.sid = screens[s].sid]
  OBVIOUS
<1>2. screens' = [screens EXCEPT ![s] = r]
  BY <1>1, <1>r DEF GoBack, Goes
<1>3. /\ r \in ScreenRec /\ r.stage = "form" /\ r.wait = screens[s].wait
      /\ r.user = screens[s].user /\ r.sid = screens[s].sid
  BY <1>1, <1>r DEF ScreenRec, Stages
<1>4. /\ screens' \in [Screens -> ScreenRec] /\ screens'[s] = r
      /\ \A t \in Screens \ {s} : screens'[t] = screens[t]
  BY <1>1, <1>2, <1>3
<1>5. \A t \in Screens : /\ screens'[t].wait = screens[t].wait /\ screens'[t].user = screens[t].user
                         /\ screens'[t].sid = screens[t].sid
                         /\ screens'[t].stage \in {"form", screens[t].stage}
  BY <1>3, <1>4
<1>6. screens[s].stage # "login"
  BY DEF GoBack
<1>7. ASSUME NEW t \in Screens PROVE ScreenOK(t)'
  <2>0. ScreenOK(t)
    BY DEF LinksInv, ScreensInv
  <2>1. screens'[t].stage = "face" => Passes(screens[t].user)'
    BY <1>5, <2>0 DEF ScreenOK, Persist
  <2>2. screens'[t].user \notin Users => screens'[t].stage = "login" /\ screens'[t].wait = Nobody
    BY <1>1, <1>4, <1>5, <1>6, <2>0 DEF ScreenOK
  <2>3. \A v \in Screens : screens'[v].wait = screens'[t].wait /\ screens'[t].wait # Nobody => t = v
    BY <1>5, <2>0 DEF ScreenOK
  <2> QED
    BY <1>0, <1>5, <2>0, <2>1, <2>2, <2>3 DEF ScreenOK
<1>8. RowsInv' /\ RowsKept
  BY <1>0, RowsSame DEF LinksInv, RowsInv
<1>9. CallsInv'
  BY <1>0, <1>8, CallsStand
<1> QED
  BY <1>4, <1>7, <1>8, <1>9 DEF LinksInv, ScreensInv

\* The steps that leave the calls alone or only drop the screen's own answer.
LEMMA ScreenMoved ==
    ASSUME LinksInv, AccountsInv', Persist, NEW s \in Screens,
           LoseAnswer(s) \/ Restart(s) \/ FinishRecovery(s)
    PROVE  LinksInv'
<1> USE IdentityAssumption
<1>0. UNCHANGED <<acct, ident, ses, now>>
  BY DEF LoseAnswer, Restart, FinishRecovery
<1>1. screens[s] \in ScreenRec /\ screens \in [Screens -> ScreenRec] /\ running \in [Slots -> CallRec] /\ ScreenOK(s)
  BY DEF LinksInv, ScreensInv, CallsInv
<1>2. /\ running' \in [Slots -> CallRec]
      /\ \A d \in Slots : \/ running'[d] = running[d]
                          \/ running'[d] = NoCall /\ screens[s].wait = d
  <2>1. NoCall \in CallRec
    BY DEF NoCall, CallRec, Places, Answers
  <2>2. CASE Deaf(s)
    BY <1>1, <2>1, <2>2 DEF Deaf
  <2>3. CASE UNCHANGED running
    BY <1>1, <2>3
  <2> QED
    BY <2>2, <2>3 DEF LoseAnswer, Restart, FinishRecovery
<1>3. CASE LoseAnswer(s)
  <2>r. PICK r : r = [screens[s] EXCEPT !.wait = Nobody]
    OBVIOUS
  <2>1. screens' = [screens EXCEPT ![s] = r] /\ screens[s].user \in Users
    BY <1>1, <1>3, <2>r DEF LoseAnswer, ScreenOK
  <2>2. /\ r \in ScreenRec /\ r.wait = Nobody /\ r.user = screens[s].user /\ r.stage = screens[s].stage
        /\ r.sid = screens[s].sid
    BY <1>1, <2>r DEF ScreenRec
  <2>3. (r.stage \in {"code", "found"} => r.sid \in Sids) /\ (r.stage = "face" => Passes(r.user)')
    BY <1>1, <2>1, <2>2 DEF ScreenOK, Persist
  <2> QED
    BY <1>0, <1>2, <2>1, <2>2, <2>3, ScreenWritten
<1>4. CASE Restart(s) \/ FinishRecovery(s)
  <2>1. PICK r : /\ screens' = [screens EXCEPT ![s] = r]
                 /\ \/ r = [user |-> Nobody, stage |-> "login", sid |-> Nobody, wait |-> Nobody]
                    \/ /\ screens[s].user # Nobody /\ Live(screens[s].user)
                       /\ r = [user |-> screens[s].user, sid |-> Nobody, wait |-> Nobody,
                               stage |-> IF acct[screens[s].user].verified THEN "face" ELSE "form"]
    BY <1>4 DEF Restart, FinishRecovery, Signed
  <2>2. r \in ScreenRec /\ r.wait = Nobody /\ r.stage \notin {"code", "found"}
    BY <1>1, <2>1 DEF ScreenRec, Stages
  <2>3. r.user \notin Users => r.stage = "login"
    BY <1>1, <2>1 DEF ScreenRec
  <2>4. r.stage = "face" => Passes(r.user)'
    BY <1>0, <2>1 DEF Passes, Verified, Live
  <2> QED
    BY <1>0, <1>2, <2>1, <2>2, <2>3, <2>4, ScreenWritten
<1> QED
  BY <1>3, <1>4

LEMMA LinksStep == LinksInv /\ [IdentityNext]_identity => LinksInv'
<1> SUFFICES ASSUME LinksInv, [IdentityNext]_identity PROVE LinksInv'
  OBVIOUS
<1>0. AccountsInv' /\ Persist
  BY AccountsStep
<1>1. CASE \E c \in Slots : CallNext(c)
  BY <1>0, <1>1, StepOfCall
<1>2. CASE Tick \/ \E u \in Users : Ban(u) \/ AskDeletion(u) \/ Erase(u)
  BY <1>0, <1>2, StepOfOthers
<1>3. CASE \E s \in Screens : ScreenNext(s)
  BY <1>0, <1>3, SignedIn, Pressed, GotAnswer, WentBack, ScreenMoved DEF ScreenNext
<1>4. CASE UNCHANGED identity
  <2>1. RowsInv' /\ RowsKept
    BY <1>0, <1>4, RowsSame DEF identity, LinksInv, RowsInv
  <2>2. UNCHANGED <<running, screens>>
    BY <1>4 DEF identity
  <2> QED
    BY <1>0, <2>1, <2>2, CallsStand, ScreensStand DEF LinksInv
<1> QED
  BY <1>1, <1>2, <1>3, <1>4 DEF IdentityNext

LEMMA IdentityParts == LinksInv => IdentityInv
<1> SUFFICES ASSUME LinksInv PROVE IdentityInv
  OBVIOUS
<1>1. IdentityTypeOK
  <2>1. \A u \in Users : /\ acct[u].st \in {"new", "active", "deleted", "banned", "gone"}
                         /\ acct[u].verified \in BOOLEAN
    BY DEF LinksInv, AccountsInv, AccountRec
  <2>2. \A p \in Persons : /\ ident[p].stored \in BOOLEAN /\ ident[p].banned \in BOOLEAN
                           /\ ident[p].user \in Users \cup {Nobody}
    BY DEF LinksInv, AccountsInv, IdentityRec
  <2>3. \A c \in Slots : running[c] \in CallRec
    BY DEF LinksInv, CallsInv
  <2>4. \A c \in Slots : running[c].user \in Users \cup {Nobody} /\ running[c].person \in Persons \cup {Nobody}
    BY <2>3 DEF CallRec
  <2> QED
    BY <2>1, <2>2, <2>4 DEF IdentityTypeOK
<1>2. PassedIsVerified
  BY DEF LinksInv, ScreensInv, ScreenOK, PassedIsVerified, Passes
<1> QED
  BY <1>1, <1>2 DEF LinksInv, AccountsInv, IdentityInv

\* However many calls of verify-identity overlap, are cut short or come back
\* after their lease: an account that is marked verified has a person, no person
\* has two accounts and no account two persons, and a screen that went on to the
\* face step belongs to an account that is verified or erased.
THEOREM OnePersonOneAccount == IdentitySpec => []IdentityInv
<1>1. IdentitySpec => []LinksInv
  BY IdentityStart, LinksStep, PTL DEF IdentitySpec
<1> QED
  BY <1>1, IdentityParts, PTL

LEMMA RowsEndedStay ==
    ASSUME LinksInv, [IdentityNext]_identity
    PROVE  FinalSessions
<1> SUFFICES ASSUME NEW i \in Sids, ses[i] # Nobody, ses[i].st \in {"completed", "failed", "expired"}
             PROVE  ses'[i] \in {ses[i], Nobody}
  BY DEF FinalSessions
<1>0. ses \in [Sids -> SessionRec \cup {Nobody}]
  BY DEF LinksInv, RowsInv
<1>1. ASSUME NEW j, NEW st \in {"pending", "checking", "existing_account"}, NEW row, UpdateSession(j, st, row)
      PROVE  ses'[i] = ses[i]
  BY <1>0, <1>1 DEF UpdateSession
<1>2. CASE UNCHANGED ses
  BY <1>2
<1>3. CASE \E u \in Users \cup {Nobody} : EraseAccount(u)
  BY <1>0, <1>3 DEF EraseAccount
<1>4. ASSUME NEW c \in Slots, CallNext(c) PROVE ses'[i] \in {ses[i], Nobody}
  <2>1. CASE OpenSession(c)
    <3>1. UNCHANGED ses \/ \E j \in Sids : ses[j] = Nobody /\ ses' = [ses EXCEPT ![j] = NewSession(running[c].user)]
      BY <2>1 DEF OpenSession, MayFail
    <3> QED
      BY <1>0, <3>1
  <2>2. CASE Claim(c)
    <3>1. CASE /\ ClaimableNow(running[c].sid, running[c].user)
               /\ ses' = [ses EXCEPT ![running[c].sid].st = "checking", ![running[c].sid].since = now]
      <4>1. running[c].sid # i
        BY <3>1 DEF ClaimableNow
      <4> QED
        BY <1>0, <3>1, <4>1
    <3> QED
      BY <2>2, <3>1 DEF Claim
  <2>10. CASE Explain(c)
    BY <1>1, <2>10 DEF Explain
  <2>3. ASSUME NEW st, NEW res, Leave(c, st, res) PROVE ses'[i] = ses[i]
    BY <1>1, <2>3 DEF Leave
  <2>4. CASE ProviderAnswers(c) \/ CheckMine(c) \/ Judge(c)
    <3>1. CASE ProviderAnswers(c)
      BY <1>1, <2>3, <3>1 DEF ProviderAnswers
    <3>2. CASE CheckMine(c)
      BY <2>3, <3>2 DEF CheckMine
    <3>3. CASE Judge(c)
      BY <1>1, <3>3 DEF Judge
    <3> QED
      BY <2>4, <3>1, <3>2, <3>3
  <2>5. CASE LinkIdentity(c) \/ Mark(c) \/ Complete(c)
    BY <1>1, <2>3, <2>5 DEF LinkIdentity, Mark, Complete, MayFail
  <2>6. CASE CheckRecover(c)
    BY <1>1, <2>6 DEF CheckRecover
  <2>7. CASE ClaimRecovery(c)
    <3>1. CASE ses[running[c].sid].st = "existing_account"
               /\ ses' = [ses EXCEPT ![running[c].sid].st = "checking", ![running[c].sid].since = now]
      <4>1. running[c].sid # i
        BY <3>1
      <4> QED
        BY <1>0, <3>1, <4>1
    <3> QED
      BY <1>1, <2>7, <3>1 DEF ClaimRecovery
  <2>8. CASE DeleteNew(c)
    <3>1. running[c].user \in Users \cup {Nobody}
      BY DEF LinksInv, CallsInv, CallRec
    <3> QED
      BY <1>3, <2>3, <2>8, <3>1 DEF DeleteNew, MayFail
  <2>9. CASE FindIdentity(c) \/ CheckEmpty(c) \/ FindAgain(c) \/ MovePhone(c) \/ Reactivate(c) \/ Crash(c)
    BY <2>9 DEF FindIdentity, CheckEmpty, FindAgain, MovePhone, Reactivate, Crash
  <2> QED
    BY <1>4, <2>1, <2>2, <2>4, <2>5, <2>6, <2>7, <2>8, <2>9, <2>10 DEF CallNext
<1>5. ASSUME NEW s \in Screens, ScreenNext(s) PROVE UNCHANGED ses
  BY <1>5 DEF ScreenNext, SignIn, PressRequest, PressConfirm, PressRecover, Invoke, Answered, LoseAnswer,
              Restart, GoBack, FinishRecovery
<1>6. ASSUME NEW u \in Users, Ban(u) \/ AskDeletion(u) \/ Erase(u) PROVE ses'[i] \in {ses[i], Nobody}
  BY <1>3, <1>6 DEF Ban, AskDeletion, Erase
<1> QED
  BY <1>4, <1>5, <1>6 DEF IdentityNext, Tick, identity

LEMMA PersonsMoveByErasure ==
    ASSUME LinksInv, [IdentityNext]_identity
    PROVE  MovesOnlyWhenErased
<1> USE IdentityAssumption
<1> SUFFICES ASSUME NEW p \in Persons, ident[p].user # Nobody, ident'[p].user # ident[p].user
             PROVE  ident'[p].user = Nobody /\ acct'[ident[p].user].st = "gone"
  BY DEF MovesOnlyWhenErased
<1>0. acct \in [Users -> AccountRec] /\ ident \in [Persons -> IdentityRec] /\ ident[p].user \in Users
  BY DEF LinksInv, AccountsInv, IdentityRec
<1>1. ASSUME NEW u, EraseAccount(u) PROVE ident'[p].user = Nobody /\ acct'[ident[p].user].st = "gone"
  <2>1. ident[p].user = u /\ ident'[p] = [ident[p] EXCEPT !.user = Nobody]
    BY <1>1 DEF EraseAccount
  <2>2. ident[p] \in IdentityRec
    BY <1>0
  <2>3. ident'[p].user = Nobody
    BY <2>1, <2>2 DEF IdentityRec
  <2>4. acct'[u].st = "gone"
    BY <1>0, <1>1, <2>1 DEF EraseAccount
  <2> QED
    BY <2>1, <2>3, <2>4
<1>2. ASSUME NEW c \in Slots, CallNext(c) PROVE \E u : EraseAccount(u)
  <2>1. CASE LinkIdentity(c)
    <3>1. CanLink(c) /\ ident' = [ident EXCEPT ![running[c].person] =
                          [stored |-> TRUE, user |-> running[c].user, banned |-> @.banned]]
      BY <2>1 DEF LinkIdentity
    <3>2. p # running[c].person
      BY <3>1 DEF CanLink
    <3> QED
      BY <1>0, <3>1, <3>2
  <2>2. CASE DeleteNew(c)
    BY <2>2 DEF DeleteNew, MayFail
  <2>3. CASE ~LinkIdentity(c) /\ ~DeleteNew(c)
    <3>1. UNCHANGED ident
      BY <1>2, <2>3 DEF CallNext, OpenSession, Claim, Explain, ProviderAnswers, CheckMine, FindIdentity, Judge, Mark,
             Complete, CheckRecover, CheckEmpty, FindAgain, ClaimRecovery, MovePhone, Reactivate, Crash
    <3> QED
      BY <3>1
  <2> QED
    BY <2>1, <2>2, <2>3
<1>3. ASSUME NEW s \in Screens, ScreenNext(s) PROVE UNCHANGED ident
  BY <1>3 DEF ScreenNext, SignIn, PressRequest, PressConfirm, PressRecover, Invoke, Answered, LoseAnswer,
              Restart, GoBack, FinishRecovery
<1>4. ASSUME NEW u \in Users, Ban(u) PROVE ident'[p].user = ident[p].user
  BY <1>0, <1>4 DEF Ban, IdentityRec
<1>5. ASSUME NEW u \in Users, AskDeletion(u) \/ Erase(u) PROVE UNCHANGED ident \/ EraseAccount(u)
  BY <1>5 DEF AskDeletion, Erase
<1> QED
  BY <1>1, <1>2, <1>3, <1>4, <1>5 DEF IdentityNext, Tick, identity

\* A session that ended stays as it ended, whoever comes back to it; and a person
\* leaves an account only because that account is erased: no confirmation, relink
\* or recovery takes the identity of a live account.
THEOREM SessionsEndAndPersonsStay == IdentitySpec => SessionsAndMoves
<1>1. LinksInv /\ [IdentityNext]_identity => [FinalSessions /\ MovesOnlyWhenErased]_identity
  BY RowsEndedStay, PersonsMoveByErasure
<1> QED
  BY <1>1, IdentityStart, LinksStep, PTL DEF IdentitySpec, SessionsAndMoves

-----------------------------------------------------------------------------
(* Face verification: the inductive invariant.                             *)

RowRec == [st : Statuses, sess : Sessions \cup {"none"}, at : Nat, said : Said \cup {"none"},
           passed : BOOLEAN, ref : Rows \cup {0}, age : {"new", "margin", "over"}]
ItemRec == [st : {"none", "pending", "failed", "cancelled", "done"}, path : Rows \cup {0},
            sess : Sessions \cup {"none"}, tries : Nat, leased : BOOLEAN]
SaidRec == [said : Said \cup {"none", "Deleted"}, checked : BOOLEAN, live : BOOLEAN, dup : BOOLEAN]
HookRec == [sess : Sessions, said : Said, at : Nat]
HandlerPlaces == {"idle", "begin", "again", "supersede", "create", "lookup", "attach", "giveup",
                  "replace", "reopen", "middle", "mark", "review", "repair", "decision", "check",
                  "close", "image", "patch", "unavailable", "rpc"}
HandlerRec == [pc : HandlerPlaces, kind : {"none", "start", "sync", "hook", "approve", "reject", "repair"},
               r : Rows \cup {0}, snap : RowRec, sess : Sessions \cup {"none"}, ev : Nat, dec : SaidRec,
               at : Nat, path : Rows \cup {0}, mends : BOOLEAN]
CleanerRec == [pc : {"idle", "storage", "provider", "done", "failed"}, r : Rows \cup {0},
               path : Rows \cup {0}, sess : Sessions \cup {"none"}]

\* An image that an approval may name: it is kept, or the row cannot be approved
\* any more because another one is.
Held(r) == r \in images \/ Others(r) # {}

RowOK(r) ==
    /\ rows[r].ref \in {0, r}
    /\ rows[r].st = "approved" => rows[r].sess # "none" /\ (rows[r].ref = r => r \in images)
    /\ rows[r].st # "approved" /\ rows[r].ref = r => Others(r) # {}
FaceRows ==
    /\ rows \in [Rows -> RowRec]
    /\ \A r \in Rows : RowOK(r)
    /\ \A r, q \in Rows : rows[r].st = "approved" /\ rows[q].st = "approved" => r = q
FaceQueue ==
    /\ queue \in [Rows -> ItemRec]
    /\ \A r \in Rows : queue[r].path # 0 => queue[r].path = r /\ Others(r) # {}
FaceFlag ==
    /\ verified \in BOOLEAN
    /\ verified => \E r \in Rows : rows[r].st = "approved" /\ rows[r].passed /\ rows[r].ref = r
FaceTables == FaceRows /\ FaceQueue /\ FaceFlag /\ images \subseteq Rows /\ refused \subseteq Rows

HandlerOK(k) ==
    /\ k.pc \notin {"idle", "begin", "mark"} => k.r \in Rows
    /\ k.pc \in {"replace", "reopen"} => k.path \in Rows
    /\ k.pc \in {"repair", "decision"} => k.sess \in Sessions
    /\ k.pc \in {"lookup", "replace", "reopen", "middle", "check", "close", "image", "patch", "unavailable"}
         => k.dec.said \in Said
    /\ k.pc = "patch" => resolveOutcome(k.dec) # "approved"
    /\ k.pc \in {"begin", "again", "supersede"} => k.snap.ref = 0
    /\ k.snap.ref # 0 => k.snap.ref = k.r /\ Held(k.r)
    /\ k.pc = "rpc" \/ (k.pc = "review" /\ k.kind = "approve") => k.path = k.r /\ Held(k.r)
FaceHandlers == calls \in [Calls -> HandlerRec] /\ \A c \in Calls : HandlerOK(calls[c])

FaceCleaner ==
    /\ cleaner \in CleanerRec
    /\ cleaner.pc # "idle" => cleaner.r \in Rows
    /\ cleaner.path # 0 => cleaner.path = cleaner.r /\ Others(cleaner.r) # {}
FaceWorld ==
    /\ consented \in BOOLEAN /\ clock \in Nat
    /\ hooks \subseteq HookRec
    /\ prov \in [Sessions -> Verdict \cup {NoVerdict}]

FaceInv == FaceTables /\ FaceHandlers /\ FaceCleaner /\ FaceWorld

LEMMA RowsArePositive == 0 \notin Rows /\ 1 \in Rows
  BY FaceBounds

LEMMA FaceStart == Init => FaceInv
<1> SUFFICES ASSUME Init PROVE FaceInv
  OBVIOUS
<1> USE RowsArePositive, FaceBounds
<1>0. Unborn \in RowRec /\ Idle \in HandlerRec /\ NoItem \in ItemRec /\ AtRest \in CleanerRec
  BY DEF Unborn, RowRec, Statuses, Idle, HandlerRec, HandlerPlaces, NoVerdict, Of, SaidRec, NoItem, ItemRec,
         AtRest, CleanerRec
<1>1. FaceQueue
  BY <1>0 DEF Init, FaceQueue, NoItem
<1>2. FaceHandlers
  BY <1>0 DEF Init, FaceHandlers, HandlerOK, Idle, Unborn
<1>3. FaceCleaner
  BY <1>0 DEF Init, FaceCleaner, AtRest
<1>4. FaceWorld
  <2>1. Passed \in Verdict
    BY DEF Passed, Of, Verdict, Said
  <2>2. prov \in [Sessions -> Verdict \cup {NoVerdict}] /\ clock \in Nat
    <3>1. CASE prov = [s \in Sessions |-> NoVerdict] /\ clock = 0
      BY <3>1
    <3>2. CASE \E s \in Sessions : prov = [q \in Sessions |-> IF q = s THEN Passed ELSE NoVerdict] /\ clock = 1
      BY <2>1, <3>2
    <3> QED
      BY <3>1, <3>2 DEF Init
  <2> QED
    BY <2>2 DEF Init, FaceWorld
<1>5. CASE rows = [r \in Rows |-> Unborn] /\ images = {}
  <2>1. FaceRows
    BY <1>0, <1>5 DEF FaceRows, RowOK, Unborn
  <2> QED
    BY <1>1, <1>2, <1>3, <1>4, <1>5, <2>1 DEF Init, FaceInv, FaceTables, FaceFlag
<1>6. CASE \E s \in Sessions, p \in {0, referenceImagePath(1)} :
             /\ rows = [r \in Rows |-> IF r = 1
                                       THEN [Unborn EXCEPT !.st = "approved", !.sess = s, !.passed = TRUE, !.ref = p]
                                       ELSE Unborn]
             /\ images = {p} \ {0}
  <2>1. PICK s \in Sessions, p \in {0, 1} :
             /\ rows = [r \in Rows |-> IF r = 1
                                       THEN [Unborn EXCEPT !.st = "approved", !.sess = s, !.passed = TRUE, !.ref = p]
                                       ELSE Unborn]
             /\ images = {p} \ {0}
    BY <1>6 DEF referenceImagePath
  <2>2. PICK a : a = [Unborn EXCEPT !.st = "approved", !.sess = s, !.passed = TRUE, !.ref = p]
    OBVIOUS
  <2>3. a \in RowRec /\ a.st = "approved" /\ a.sess = s /\ a.ref = p /\ Unborn.st = "none" /\ Unborn.ref = 0
    BY <2>2 DEF Unborn, RowRec, Statuses
  <2>4. rows = [r \in Rows |-> IF r = 1 THEN a ELSE Unborn]
    BY <2>1, <2>2
  <2>5. FaceRows
    BY <1>0, <2>1, <2>3, <2>4 DEF FaceRows, RowOK
  <2> QED
    <3>1. images \subseteq Rows
      BY <2>1
    <3>2. verified = FALSE /\ refused = {}
      BY DEF Init
    <3> QED
      BY <1>1, <1>2, <1>3, <1>4, <2>5, <3>1, <3>2 DEF FaceInv, FaceTables, FaceFlag
<1> QED
  BY ZenonT(30), <1>5, <1>6 DEF Init

-----------------------------------------------------------------------------
(* Face verification: the rows and what hangs on them.                     *)

\* What no step takes back.
Stays ==
    \A r \in Rows : rows[r].st = "approved" =>
        /\ rows'[r].st = "approved" /\ rows'[r].sess = rows[r].sess
        /\ rows[r].passed => rows'[r].passed
        /\ rows[r].ref = r => rows'[r].ref = r
ImagesHeld == \A r \in Rows : r \in images => r \in images' \/ Others(r) # {}

LEMMA OthersStay ==
    ASSUME Stays, NEW r \in Rows, Others(r) # {}
    PROVE  Others(r)' # {}
  BY DEF Stays, Others

LEMMA RowStored ==
    ASSUME FaceTables, NEW r \in Rows, NEW new \in RowRec, Store(r, new), UNCHANGED images,
           new.ref \in {0, r},
           rows[r].st = "approved" =>
             /\ new.st = "approved" /\ new.sess = rows[r].sess
             /\ rows[r].passed => new.passed
             /\ rows[r].ref = r => new.ref = r,
           new.st = "approved" =>
             /\ new.sess # "none" /\ (new.ref = r => r \in images)
             /\ rows[r].st = "approved" \/ Others(r) = {},
           new.st # "approved" /\ new.ref = r => Others(r) # {}
    PROVE  FaceRows' /\ FaceQueue' /\ Stays /\ refused' \subseteq Rows
<1> USE RowsArePositive, FaceBounds
<1>0. rows \in [Rows -> RowRec] /\ queue \in [Rows -> ItemRec] /\ FaceRows /\ FaceQueue
  BY DEF FaceTables, FaceRows, FaceQueue
<1>1. /\ rows' \in [Rows -> RowRec] /\ rows'[r] = new
      /\ \A q \in Rows \ {r} : rows'[q] = rows[q]
  BY <1>0 DEF Store
<1>2. Stays
  BY <1>1 DEF Stays
<1>3. ASSUME NEW q \in Rows PROVE RowOK(q)'
  <2>1. CASE q = r
    <3>1. Others(r) # {} => Others(r)' # {}
      BY <1>2, OthersStay
    <3> QED
      BY <1>1, <2>1, <3>1 DEF RowOK
  <2>2. CASE q # r
    <3>1. RowOK(q) /\ rows'[q] = rows[q]
      BY <1>0, <1>1, <2>2 DEF FaceRows
    <3>2. Others(q) # {} => Others(q)' # {}
      BY <1>2, OthersStay
    <3> QED
      BY <3>1, <3>2 DEF RowOK
  <2> QED
    BY <2>1, <2>2
<1>4. FaceRows'
  <2>1. ASSUME NEW p \in Rows, NEW q \in Rows, rows'[p].st = "approved", rows'[q].st = "approved" PROVE p = q
    BY <1>0, <1>1, <2>1 DEF FaceRows, Others
  <2> QED
    BY <1>1, <1>3, <2>1 DEF FaceRows
<1>5. FaceQueue'
  <2>1. PICK item : item = [NoItem EXCEPT !.st = "pending", !.path = new.ref, !.sess = new.sess]
    OBVIOUS
  <2>2. item \in ItemRec /\ item.path = new.ref
    BY <2>1 DEF NoItem, ItemRec, RowRec
  <2>3. UNCHANGED queue \/ (new.st \in Ended /\ queue' = [queue EXCEPT ![r] = item])
    BY <2>1 DEF Store, Enqueue
  <2>4. queue' \in [Rows -> ItemRec]
    BY <1>0, <2>2, <2>3
  <2>5. ASSUME NEW q \in Rows, queue'[q].path # 0 PROVE queue'[q].path = q /\ Others(q)' # {}
    <3>1. CASE queue'[q] = queue[q]
      BY <1>0, <1>2, <2>5, <3>1, OthersStay DEF FaceQueue
    <3>2. CASE q = r /\ queue'[q] = item /\ new.st \in Ended
      <4>1. new.ref = r /\ new.st # "approved"
        BY <2>2, <2>5, <3>2 DEF Ended
      <4> QED
        BY <1>2, <2>2, <3>2, <4>1, OthersStay
    <3> QED
      BY <1>0, <2>3, <3>1, <3>2
  <2> QED
    BY <2>4, <2>5 DEF FaceQueue
<1>6. refused' \subseteq Rows
  BY DEF Store, FaceTables
<1> QED
  BY <1>2, <1>4, <1>5, <1>6

LEMMA FlagStays ==
    ASSUME FaceFlag, Stays, UNCHANGED verified
    PROVE  FaceFlag'
  BY DEF FaceFlag, Stays

\* A write of a row that neither approves it nor changes its image.
LEMMA UpdateKeeps ==
    ASSUME FaceTables, NEW r \in Rows, NEW new \in RowRec, updateRow(r, new), UNCHANGED <<verified, images>>,
           new.ref = rows[r].ref,
           new.st = "approved" => rows[r].st = "approved"
    PROVE  FaceTables' /\ Stays
<1> USE RowsArePositive, FaceBounds
<1>0. RowOK(r) /\ rows[r] \in RowRec
  BY DEF FaceTables, FaceRows
<1>1. CASE Refused(rows[r], new)
  <2>1. UNCHANGED <<rows, queue, refused>>
    BY <1>1 DEF updateRow
  <2>2. Stays
    BY <2>1 DEF Stays
  <2> QED
    BY <2>1, <2>2 DEF FaceTables, FaceRows, RowOK, FaceQueue, FaceFlag, Others
<1>2. CASE ~Refused(rows[r], new)
  <2>1. Store(r, new)
    BY <1>2 DEF updateRow
  <2>2. /\ rows[r].st = "approved" => new.st = "approved" /\ new.sess = rows[r].sess
        /\ rows[r].passed => new.passed
    BY <1>0, <1>2 DEF Refused, RowOK
  <2>3. FaceRows' /\ FaceQueue' /\ Stays /\ refused' \subseteq Rows
    BY <1>0, <2>1, <2>2, RowStored DEF RowOK
  <2> QED
    BY <2>3, FlagStays DEF FaceTables
<1> QED
  BY <1>1, <1>2

\* face_liveness_approve: the row is approved with an image that is kept, unless
\* another row is.
LEMMA Approves ==
    ASSUME FaceTables, NEW r \in Rows, NEW at \in Nat, Held(r), Approvable(r, r, TRUE),
           face_liveness_approve(r, r, at), UNCHANGED images
    PROVE  FaceTables' /\ Stays /\ (verified => verified')
<1> USE RowsArePositive, FaceBounds
<1>0. RowOK(r) /\ rows[r] \in RowRec /\ FaceRows /\ FaceFlag
  BY DEF FaceTables, FaceRows
<1>1. CASE rows[r].st # "approved" /\ Others(r) # {}
  <2>1. PICK new : new = [rows[r] EXCEPT !.st = "expired", !.at = SqlMax(@, at), !.ref = IF @ = 0 THEN r ELSE @]
    OBVIOUS
  <2>2. Store(r, new) /\ UNCHANGED verified
    BY <1>1, <2>1 DEF face_liveness_approve
  <2>3. new \in RowRec /\ new.st = "expired" /\ new.ref = r
    BY <1>0, <2>1 DEF RowRec, Statuses, SqlMax, RowOK
  <2>4. FaceRows' /\ FaceQueue' /\ Stays /\ refused' \subseteq Rows
    BY <1>1, <2>2, <2>3, RowStored
  <2> QED
    BY <1>0, <2>2, <2>4, FlagStays DEF FaceTables
<1>2. CASE ~(rows[r].st # "approved" /\ Others(r) # {})
  <2>1. PICK new : new = [rows[r] EXCEPT !.st = "approved", !.passed = TRUE, !.ref = r, !.at = SqlMax(@, at),
                                         !.said = "Approved"]
    OBVIOUS
  <2>2. Store(r, new) /\ verified' = TRUE
    BY <1>2, <2>1 DEF face_liveness_approve
  <2>3. new \in RowRec /\ new.st = "approved" /\ new.ref = r /\ new.passed /\ new.sess = rows[r].sess
    BY <1>0, <2>1 DEF RowRec, Statuses, SqlMax, Said
  <2>4. Others(r) = {}
    BY <1>0, <1>2 DEF FaceRows, Others
  <2>5. new.sess # "none" /\ r \in images
    BY <2>3, <2>4 DEF Approvable, Held
  <2>6. FaceRows' /\ FaceQueue' /\ Stays /\ refused' \subseteq Rows
    BY <2>2, <2>3, <2>4, <2>5, RowStored
  <2>7. rows'[r] = new
    BY <2>2 DEF Store, FaceTables, FaceRows
  <2>8. FaceFlag'
    BY <2>2, <2>3, <2>7 DEF FaceFlag
  <2> QED
    BY <2>2, <2>6, <2>8 DEF FaceTables
<1> QED
  BY <1>1, <1>2

-----------------------------------------------------------------------------
(* Face verification: the handlers.                                        *)

LEMMA HeldStays ==
    ASSUME Stays, ImagesHeld, NEW r \in Rows, Held(r)
    PROVE  Held(r)'
  BY OthersStay DEF Held, ImagesHeld

LEMMA HandlerStays ==
    ASSUME Stays, ImagesHeld, NEW k \in HandlerRec, HandlerOK(k)
    PROVE  HandlerOK(k)'
<1> USE RowsArePositive
<1>0. k.r \in Rows \cup {0} /\ k.snap \in RowRec /\ k.snap.ref \in Rows \cup {0}
  <2>1. k.r \in Rows \cup {0} /\ k.snap \in RowRec
    BY DEF HandlerRec
  <2> QED
    BY <2>1 DEF RowRec
<1>1. k.snap.ref # 0 => Held(k.r)'
  BY <1>0, HeldStays DEF HandlerOK
<1>2. k.pc = "rpc" \/ (k.pc = "review" /\ k.kind = "approve") => Held(k.r)'
  BY <1>0, HeldStays DEF HandlerOK
<1> QED
  BY <1>1, <1>2 DEF HandlerOK

LEMMA HandlersStay ==
    ASSUME FaceHandlers, Stays, ImagesHeld, UNCHANGED calls
    PROVE  FaceHandlers'
<1>1. ASSUME NEW c \in Calls PROVE HandlerOK(calls[c])'
  <2>1. calls[c] \in HandlerRec /\ HandlerOK(calls[c])
    BY DEF FaceHandlers
  <2>2. PICK k : k = calls[c]
    OBVIOUS
  <2>3. HandlerOK(k)'
    BY <2>1, <2>2, HandlerStays
  <2>4. k = calls'[c]
    BY <2>2
  <2> QED
    BY <2>3, <2>4
<1> QED
  BY <1>1 DEF FaceHandlers

\* One handler goes on to the record k.
LEMMA HandlerGoes ==
    ASSUME FaceHandlers, Stays, ImagesHeld, NEW c \in Calls, NEW k \in HandlerRec, HandlerOK(k)',
           calls' = [calls EXCEPT ![c] = k]
    PROVE  FaceHandlers'
<1>0. calls' \in [Calls -> HandlerRec] /\ calls'[c] = k /\ \A d \in Calls \ {c} : calls'[d] = calls[d]
  BY DEF FaceHandlers
<1>1. ASSUME NEW d \in Calls PROVE HandlerOK(calls[d])'
  <2>1. CASE d = c
    <3>1. k = calls'[d]
      BY <1>0, <2>1
    <3> QED
      BY <3>1
  <2>2. CASE d # c
    <3>1. calls[d] \in HandlerRec /\ HandlerOK(calls[d])
      BY DEF FaceHandlers
    <3>2. PICK h : h = calls[d]
      OBVIOUS
    <3>3. HandlerOK(h)'
      BY <3>1, <3>2, HandlerStays
    <3>4. h = calls'[d]
      BY <1>0, <2>2, <3>2
    <3> QED
      BY <3>3, <3>4
  <2> QED
    BY <2>1, <2>2
<1> QED
  BY <1>0, <1>1 DEF FaceHandlers

LEMMA CleanerStays ==
    ASSUME FaceCleaner, Stays, UNCHANGED cleaner
    PROVE  FaceCleaner'
<1> USE RowsArePositive
<1>1. cleaner.path # 0 => cleaner.r \in Rows
  BY DEF FaceCleaner, CleanerRec
<1> QED
  BY <1>1, OthersStay DEF FaceCleaner

LEMMA TablesSame ==
    ASSUME FaceTables, UNCHANGED tables
    PROVE  FaceTables' /\ Stays /\ ImagesHeld
<1>1. FaceTables'
  BY DEF FaceTables, FaceRows, RowOK, FaceQueue, FaceFlag, Others, tables
<1> QED
  BY <1>1 DEF Stays, ImagesHeld, tables

LEMMA IdleHandler == Idle \in HandlerRec /\ HandlerOK(Idle) /\ HandlerOK(Idle)'
<1> USE RowsArePositive
<1>1. Idle \in HandlerRec
  BY DEF Idle, Unborn, RowRec, Statuses, HandlerRec, HandlerPlaces, NoVerdict, Of, SaidRec
<1> QED
  BY <1>1 DEF Idle, HandlerOK, Unborn

\* A step of one handler, whatever it did to the rows.
LEMMA FaceGoes ==
    ASSUME FaceInv, FaceTables', Stays, ImagesHeld, FaceWorld', UNCHANGED cleaner,
           NEW c \in Calls, NEW k \in HandlerRec, HandlerOK(k)', calls' = [calls EXCEPT ![c] = k]
    PROVE  FaceInv'
  BY HandlerGoes, CleanerStays DEF FaceInv

LEMMA WorldSame ==
    ASSUME FaceWorld, UNCHANGED <<consented, clock, hooks, prov>>
    PROVE  FaceWorld'
  BY DEF FaceWorld

FaceStep == FaceInv' /\ Stays /\ (verified => verified')

LEMMA PureGoes ==
    ASSUME FaceInv, UNCHANGED <<tables, cleaner>>, FaceWorld',
           NEW c \in Calls, NEW k \in HandlerRec, HandlerOK(k), calls' = [calls EXCEPT ![c] = k]
    PROVE  FaceStep
<1>1. FaceTables' /\ Stays /\ ImagesHeld
  BY TablesSame DEF FaceInv
<1>2. HandlerOK(k)'
  BY <1>1, HandlerStays
<1>3. FaceInv'
  BY <1>1, <1>2, FaceGoes
<1> QED
  BY <1>1, <1>3 DEF FaceStep, tables

\* The records a handler ends with.
LEMMA Rests ==
    ASSUME NEW c \in Calls, calls[c] \in HandlerRec, Done(c) \/ Over(c)
    PROVE  \E k \in HandlerRec : HandlerOK(k) /\ HandlerOK(k)' /\ calls' = [calls EXCEPT ![c] = k]
<1> USE RowsArePositive
<1>1. CASE calls' = [calls EXCEPT ![c] = Idle]
  BY <1>1, IdleHandler
<1>2. CASE calls' = [calls EXCEPT ![c] = Noted(calls[c])]
  <2>1. calls[c].sess \in Sessions \cup {"none"} /\ calls[c].ev \in Nat
    BY DEF HandlerRec
  <2>2. PICK k : k = Noted(calls[c])
    OBVIOUS
  <2>3. k \in HandlerRec /\ k.pc = "mark" /\ k.snap.ref = 0
    <3>1. PICK s \in Sessions \cup {"none"}, ev \in Nat : s = calls[c].sess /\ ev = calls[c].ev
      BY <2>1
    <3>2. k = [Idle EXCEPT !.pc = "mark", !.kind = "hook", !.sess = s, !.ev = ev]
      BY <2>2, <3>1 DEF Noted
    <3>3. Idle.snap.ref = 0
      BY DEF Idle, Unborn
    <3> QED
      BY ZenonT(30), <3>2, <3>3, IdleHandler DEF HandlerRec, HandlerPlaces
  <2>4. HandlerOK(k) /\ HandlerOK(k)'
    BY <2>3 DEF HandlerOK
  <2> QED
    BY <1>2, <2>2, <2>3, <2>4
<1> QED
  BY <1>1, <1>2 DEF Done, Over, Go

LEMMA PureRests ==
    ASSUME FaceInv, UNCHANGED <<tables, cleaner>>, FaceWorld', NEW c \in Calls, Done(c) \/ Over(c)
    PROVE  FaceStep
<1>1. calls[c] \in HandlerRec
  BY DEF FaceInv, FaceHandlers
<1>2. PICK k \in HandlerRec : HandlerOK(k) /\ calls' = [calls EXCEPT ![c] = k]
  BY <1>1, Rests
<1> QED
  BY <1>2, PureGoes

\* What is known of one handler.
LEMMA HandlerFacts ==
    ASSUME FaceInv, NEW c \in Calls
    PROVE  /\ calls[c] \in HandlerRec /\ HandlerOK(calls[c]) /\ calls[c].r \in Rows \cup {0}
           /\ calls[c].snap \in RowRec /\ calls[c].snap.ref \in Rows \cup {0}
           /\ calls[c].dec \in SaidRec /\ calls[c].at \in Nat /\ calls[c].ev \in Nat
<1>1. calls[c] \in HandlerRec /\ HandlerOK(calls[c])
  BY DEF FaceInv, FaceHandlers
<1>2. calls[c].r \in Rows \cup {0} /\ calls[c].snap \in RowRec
  BY <1>1 DEF HandlerRec
<1>3. calls[c].snap.ref \in Rows \cup {0}
  BY <1>2 DEF RowRec
<1>4. calls[c].dec \in SaidRec /\ calls[c].at \in Nat /\ calls[c].ev \in Nat
  BY <1>1 DEF HandlerRec
<1> QED
  BY <1>1, <1>2, <1>3, <1>4

LEMMA StartDone ==
    ASSUME FaceInv, NEW c \in Calls, StartSession(c)
    PROVE  FaceStep
<1> DEFINE k == [Idle EXCEPT !.pc = "begin", !.kind = "start"]
<1>1. k \in HandlerRec /\ k.pc = "begin" /\ k.snap.ref = 0
  <2>1. Idle.snap.ref = 0
    BY DEF Idle, Unborn
  <2> QED
    BY <2>1, IdleHandler DEF HandlerRec, HandlerPlaces
<1>2. calls' = [calls EXCEPT ![c] = k] /\ UNCHANGED <<tables, cleaner>> /\ UNCHANGED <<consented, clock, hooks, prov>>
  BY DEF StartSession, Go
<1> HIDE DEF k
<1>3. HandlerOK(k)
  BY <1>1 DEF HandlerOK
<1>4. FaceWorld'
  BY <1>2, WorldSame DEF FaceInv
<1> QED
  BY <1>1, <1>2, <1>3, <1>4, PureGoes

LEMMA CreateDone ==
    ASSUME FaceInv, NEW c \in Calls, CreateSession(c)
    PROVE  FaceStep
<1>0. /\ calls[c] \in HandlerRec /\ HandlerOK(calls[c]) /\ calls[c].pc = "create" /\ calls[c].r \in Rows
      /\ UNCHANGED <<tables, cleaner>> /\ UNCHANGED <<consented, clock, hooks>>
      /\ calls \in [Calls -> HandlerRec] /\ FaceWorld
  BY HandlerFacts DEF CreateSession, HandlerOK, FaceInv, FaceHandlers
<1>1. CASE calls' = [calls EXCEPT ![c] = [calls[c] EXCEPT !.pc = "giveup"]] /\ UNCHANGED prov
  <2>1. PICK k : k = [calls[c] EXCEPT !.pc = "giveup"]
    OBVIOUS
  <2>2. k \in HandlerRec /\ k.pc = "giveup" /\ k.r = calls[c].r /\ k.snap = calls[c].snap
    BY <1>0, <2>1 DEF HandlerRec, HandlerPlaces
  <2>3. HandlerOK(k)
    BY <1>0, <2>2 DEF HandlerOK
  <2>4. FaceWorld'
    BY <1>0, <1>1, WorldSame
  <2> QED
    BY <1>0, <1>1, <2>1, <2>2, <2>3, <2>4, PureGoes
<1>2. CASE \E s \in Unfinished \cup Fresh :
             /\ prov' = IF s \in Fresh THEN [prov EXCEPT ![s] = Opened] ELSE prov
             /\ calls' = [calls EXCEPT ![c] = [calls[c] EXCEPT !.pc = "lookup", !.sess = s, !.dec = prov'[s]]]
  <2>1. PICK s \in Unfinished \cup Fresh :
             /\ prov' = IF s \in Fresh THEN [prov EXCEPT ![s] = Opened] ELSE prov
             /\ calls' = [calls EXCEPT ![c] = [calls[c] EXCEPT !.pc = "lookup", !.sess = s, !.dec = prov'[s]]]
    BY <1>2
  <2>2. s \in Sessions /\ prov \in [Sessions -> Verdict \cup {NoVerdict}]
    BY <1>0 DEF Unfinished, Fresh, FaceWorld
  <2>3. Opened \in Verdict /\ Verdict \subseteq SaidRec
    BY DEF Opened, Of, Verdict, Said, SaidRec
  <2>4. prov' \in [Sessions -> Verdict \cup {NoVerdict}]
    BY <2>1, <2>2, <2>3
  <2>5. prov'[s] \in SaidRec /\ prov'[s].said \in Said
    <3>1. CASE s \in Fresh
      BY <2>1, <2>2, <2>3, <3>1 DEF Opened, Of, Said
    <3>2. CASE s \notin Fresh
      <4>1. prov[s].said \in {"Not Started", "Resubmitted"} /\ prov'[s] = prov[s]
        BY <2>1, <3>2 DEF Unfinished
      <4>2. NoVerdict.said = "Deleted"
        BY DEF NoVerdict, Of
      <4> QED
        BY <2>2, <2>3, <4>1, <4>2 DEF Said
    <3> QED
      BY <3>1, <3>2
  <2>6. PICK d \in SaidRec : d = prov'[s]
    BY <2>5
  <2>7. PICK k : k = [calls[c] EXCEPT !.pc = "lookup", !.sess = s, !.dec = d]
    OBVIOUS
  <2>8. k \in HandlerRec /\ k.pc = "lookup" /\ k.r = calls[c].r /\ k.snap = calls[c].snap /\ k.dec.said \in Said
    BY <1>0, <2>2, <2>5, <2>6, <2>7 DEF HandlerRec, HandlerPlaces
  <2>9. HandlerOK(k)
    BY <1>0, <2>8 DEF HandlerOK
  <2>10. FaceWorld'
    BY <1>0, <2>4 DEF FaceWorld
  <2>11. calls' = [calls EXCEPT ![c] = k]
    BY <2>1, <2>6, <2>7
  <2> QED
    BY <1>0, <2>8, <2>9, <2>10, <2>11, PureGoes
<1> QED
  BY <1>1, <1>2 DEF CreateSession, To, Go

SaidPlaces == {"lookup", "replace", "reopen", "middle", "check", "close", "image", "patch", "unavailable"}

\* A handler that only moves on.
LEMMA MovesOn ==
    ASSUME FaceInv, NEW c \in Calls, NEW pc \in HandlerPlaces \ {"rpc", "review", "repair", "decision"}, To(c, pc),
           calls[c].pc \notin {"idle", "begin", "mark"},
           pc \in {"replace", "reopen"} => calls[c].path \in Rows,
           pc \in SaidPlaces => calls[c].dec.said \in Said,
           pc = "patch" => resolveOutcome(calls[c].dec) # "approved",
           pc \in {"begin", "again", "supersede"} => calls[c].snap.ref = 0
    PROVE  \E k \in HandlerRec : HandlerOK(k) /\ calls' = [calls EXCEPT ![c] = k]
<1>0. calls[c] \in HandlerRec /\ HandlerOK(calls[c])
  BY HandlerFacts
<1>1. PICK k : k = [calls[c] EXCEPT !.pc = pc]
  OBVIOUS
<1>2. /\ k \in HandlerRec /\ k.pc = pc /\ k.r = calls[c].r /\ k.snap = calls[c].snap /\ k.dec = calls[c].dec
      /\ k.path = calls[c].path
  BY <1>0, <1>1 DEF HandlerRec
<1>3. HandlerOK(k)
  BY <1>0, <1>2 DEF HandlerOK, SaidPlaces
<1> QED
  BY <1>1, <1>2, <1>3 DEF To, Go

LEMMA LookupDone ==
    ASSUME FaceInv, NEW c \in Calls, LookupExisting(c)
    PROVE  FaceStep
<1>0. /\ calls[c] \in HandlerRec /\ HandlerOK(calls[c]) /\ calls[c].pc = "lookup"
      /\ UNCHANGED <<tables, cleaner>> /\ UNCHANGED <<consented, clock, hooks, prov>>
      /\ calls[c].dec.said \in Said /\ calls[c].r \in Rows
  BY HandlerFacts DEF LookupExisting, HandlerOK
<1>1. FaceWorld'
  BY <1>0, WorldSame DEF FaceInv
<1>2. CASE \E pc \in {"attach", "giveup"} : To(c, pc)
  <2>1. PICK pc \in {"attach", "giveup"} : To(c, pc)
    BY <1>2
  <2>2. PICK k \in HandlerRec : HandlerOK(k) /\ calls' = [calls EXCEPT ![c] = k]
    BY <1>0, <2>1, MovesOn DEF HandlerPlaces, SaidPlaces
  <2> QED
    BY <1>0, <1>1, <2>2, PureGoes
<1>3. CASE \E r \in Rows : calls' = [calls EXCEPT ![c] = [calls[c] EXCEPT !.pc = "replace", !.path = r]]
  <2>1. PICK r \in Rows : calls' = [calls EXCEPT ![c] = [calls[c] EXCEPT !.pc = "replace", !.path = r]]
    BY <1>3
  <2>2. PICK k : k = [calls[c] EXCEPT !.pc = "replace", !.path = r]
    OBVIOUS
  <2>3. /\ k \in HandlerRec /\ k.pc = "replace" /\ k.r = calls[c].r /\ k.snap = calls[c].snap
        /\ k.dec = calls[c].dec /\ k.path = r
    BY <1>0, <2>2 DEF HandlerRec, HandlerPlaces
  <2>4. HandlerOK(k)
    BY <1>0, <2>3 DEF HandlerOK
  <2> QED
    BY <1>0, <1>1, <2>1, <2>2, <2>3, <2>4, PureGoes
<1> QED
  BY <1>2, <1>3 DEF LookupExisting, Go

LEMMA MarkHookDone ==
    ASSUME FaceInv, NEW c \in Calls, MarkHook(c)
    PROVE  FaceStep
<1>1. UNCHANGED <<tables, cleaner>> /\ UNCHANGED <<consented, clock, hooks, prov>> /\ Over(c)
  BY DEF MarkHook
<1> QED
  BY <1>1, WorldSame, PureRests DEF FaceInv

\* What a handler reads of a row it may use later.
LEMMA SnapHeld ==
    ASSUME FaceInv, NEW r \in Rows
    PROVE  rows[r] \in RowRec /\ rows[r].sess \in Sessions \cup {"none"} /\ rows[r].at \in Nat
           /\ (rows[r].ref # 0 => rows[r].ref = r /\ Held(r))
<1>1. rows[r] \in RowRec /\ RowOK(r)
  BY DEF FaceInv, FaceTables, FaceRows
<1>2. rows[r].sess \in Sessions \cup {"none"} /\ rows[r].at \in Nat
  BY <1>1 DEF RowRec
<1> QED
  BY <1>1, <1>2 DEF RowOK, Held

LEMMA ReadRecord ==
    ASSUME FaceInv, NEW r \in Rows, NEW kind \in {"sync", "hook", "approve", "repair"},
           NEW pc \in {"repair", "decision", "middle"}, NEW ev \in Nat, NEW d \in SaidRec,
           pc = "middle" => d.said \in Said, rows[r].sess # "none",
           NEW k, k = [pc |-> pc, kind |-> kind, r |-> r, snap |-> rows[r], sess |-> rows[r].sess, ev |-> ev,
                       dec |-> d, at |-> 0, path |-> 0, mends |-> FALSE]
    PROVE  k \in HandlerRec /\ HandlerOK(k)
<1>1. PICK snap, sess : snap = rows[r] /\ sess = rows[r].sess
  OBVIOUS
<1>2. snap \in RowRec /\ sess \in Sessions /\ (snap.ref # 0 => snap.ref = r /\ Held(r))
  BY <1>1, SnapHeld
<1>3. pc \in HandlerPlaces /\ kind \in {"none", "start", "sync", "hook", "approve", "reject", "repair"}
  BY DEF HandlerPlaces
<1>4. k = [pc |-> pc, kind |-> kind, r |-> r, snap |-> snap, sess |-> sess, ev |-> ev, dec |-> d,
           at |-> 0, path |-> 0, mends |-> FALSE]
  BY <1>1
<1>5. k \in HandlerRec
  BY <1>2, <1>3, <1>4 DEF HandlerRec
<1>6. HandlerOK(k)
  BY <1>2, <1>4 DEF HandlerOK
<1> QED
  BY <1>5, <1>6

LEMMA SyncDone ==
    ASSUME FaceInv, NEW c \in Calls, NEW s \in Sessions, SyncSession(c, s)
    PROVE  FaceStep
<1>0. UNCHANGED <<tables, cleaner>> /\ UNCHANGED <<consented, clock, hooks, prov>>
  BY DEF SyncSession
<1>1. PICK r \in Rows, pc \in {"repair", "decision"} :
         /\ calls' = [calls EXCEPT ![c] = [Read("sync", r) EXCEPT !.pc = pc]]
         /\ rows[r].sess # "none"
  BY FaceBounds DEF SyncSession, Go, RowOf
<1>2. PICK k : k = [Read("sync", r) EXCEPT !.pc = pc]
  OBVIOUS
<1>3. k = [pc |-> pc, kind |-> "sync", r |-> r, snap |-> rows[r], sess |-> rows[r].sess, ev |-> 0,
           dec |-> NoVerdict, at |-> 0, path |-> 0, mends |-> FALSE]
  BY <1>2 DEF Read, Idle
<1>n. NoVerdict \in SaidRec
  BY DEF NoVerdict, Of, SaidRec
<1>4. k \in HandlerRec /\ HandlerOK(k)
  BY <1>1, <1>3, <1>n, ReadRecord
<1>5. FaceWorld'
  BY <1>0, WorldSame DEF FaceInv
<1> QED
  BY <1>0, <1>1, <1>2, <1>4, <1>5, PureGoes

LEMMA ReviewRead ==
    ASSUME FaceInv, NEW c \in Calls, NEW r \in Rows, ReadForReview(c, r)
    PROVE  FaceStep
<1> USE RowsArePositive
<1>0. UNCHANGED <<tables, cleaner>> /\ UNCHANGED <<consented, clock, hooks, prov>>
  BY DEF ReadForReview
<1>1. FaceWorld'
  BY <1>0, WorldSame DEF FaceInv
<1>2. CASE calls' = [calls EXCEPT ![c] = [Idle EXCEPT !.kind = "reject", !.r = r, !.pc = "review"]]
  <2>1. PICK k : k = [Idle EXCEPT !.kind = "reject", !.r = r, !.pc = "review"]
    OBVIOUS
  <2>2. k \in HandlerRec /\ k.pc = "review" /\ k.kind = "reject" /\ k.r = r /\ k.snap = Idle.snap
    BY <2>1, IdleHandler DEF HandlerRec, HandlerPlaces
  <2>3. HandlerOK(k)
    BY <2>2 DEF HandlerOK, Idle, Unborn
  <2> QED
    BY <1>0, <1>1, <1>2, <2>1, <2>2, <2>3, PureGoes
<1>3. CASE \E kind \in {"repair", "approve"}, pc \in {"repair", "decision"} :
             calls' = [calls EXCEPT ![c] = [Read(kind, r) EXCEPT !.pc = pc]]
  <2>1. PICK kind \in {"repair", "approve"}, pc \in {"repair", "decision"} :
             calls' = [calls EXCEPT ![c] = [Read(kind, r) EXCEPT !.pc = pc]]
    BY <1>3
  <2>2. PICK k : k = [Read(kind, r) EXCEPT !.pc = pc]
    OBVIOUS
  <2>3. k = [pc |-> pc, kind |-> kind, r |-> r, snap |-> rows[r], sess |-> rows[r].sess, ev |-> 0,
             dec |-> NoVerdict, at |-> 0, path |-> 0, mends |-> FALSE]
    BY <2>2 DEF Read, Idle
  <2>n. NoVerdict \in SaidRec
    BY DEF NoVerdict, Of, SaidRec
  <2>4. k \in HandlerRec /\ HandlerOK(k)
    BY <2>3, <2>n, ReadRecord DEF ReadForReview
  <2> QED
    BY <1>0, <1>1, <2>1, <2>2, <2>4, PureGoes
<1> QED
  BY <1>2, <1>3 DEF ReadForReview, Go

LEMMA HookDone ==
    ASSUME FaceInv, NEW c \in Calls, NEW m \in hooks, ReceiveHook(c, m)
    PROVE  FaceStep
<1> USE RowsArePositive
<1>0. UNCHANGED <<tables, cleaner>> /\ UNCHANGED <<consented, clock, hooks, prov>>
  BY DEF ReceiveHook
<1>1. FaceWorld'
  BY <1>0, WorldSame DEF FaceInv
<1>2. m.at \in Nat /\ m.said \in Said /\ m.sess \in Sessions
  BY DEF FaceInv, FaceWorld, HookRec
<1>3. ASSUME NEW h, h.sess \in Sessions \cup {"none"}, h.ev \in Nat, calls' = [calls EXCEPT ![c] = Noted(h)]
      PROVE  FaceStep
  <2>1. PICK s \in Sessions \cup {"none"}, ev \in Nat : s = h.sess /\ ev = h.ev
    BY <1>3
  <2>2. PICK k : k = [Idle EXCEPT !.pc = "mark", !.kind = "hook", !.sess = s, !.ev = ev]
    OBVIOUS
  <2>3. k \in HandlerRec /\ k.pc = "mark" /\ k.snap = Idle.snap
    BY <2>2, IdleHandler DEF HandlerRec, HandlerPlaces
  <2>4. HandlerOK(k)
    BY <2>3 DEF HandlerOK, Idle, Unborn
  <2>5. calls' = [calls EXCEPT ![c] = k]
    BY <1>3, <2>1, <2>2 DEF Noted
  <2> QED
    BY <1>0, <1>1, <2>3, <2>4, <2>5, PureGoes
<1>4. CASE RowOf(m.sess) = {}
  <2>1. PICK h : h = [sess |-> m.sess, ev |-> m.at]
    OBVIOUS
  <2>2. calls' = [calls EXCEPT ![c] = Noted(h)] /\ h.sess = m.sess /\ h.ev = m.at
    BY <1>4, <2>1 DEF ReceiveHook, Go
  <2> QED
    BY <1>2, <1>3, <2>2
<1>5. CASE RowOf(m.sess) # {}
  <2>a. PICK r \in RowOf(m.sess) :
           LET h == [Read("hook", r) EXCEPT !.pc = HookNext(rows[r], m), !.ev = m.at, !.dec.said = m.said]
           IN  calls' = [calls EXCEPT ![c] = IF h.pc = "mark" THEN Noted(h) ELSE h]
    BY <1>5 DEF ReceiveHook, Go
  <2>b. PICK pc : pc = HookNext(rows[r], m)
    OBVIOUS
  <2>c. r \in Rows /\ pc \in {"mark", "repair", "decision", "middle"}
    BY <2>b DEF RowOf, HookNext
  <2>e. rows[r].sess # "none"
    BY <1>2, FaceBounds DEF RowOf
  <2>d. PICK h : h = [Read("hook", r) EXCEPT !.pc = pc, !.ev = m.at, !.dec.said = m.said]
    OBVIOUS
  <2>1. calls' = [calls EXCEPT ![c] = IF h.pc = "mark" THEN Noted(h) ELSE h]
    BY <2>a, <2>b, <2>d
  <2>2. h.pc = pc /\ h.sess = rows[r].sess /\ h.ev = m.at
    BY <2>d DEF Read, Idle
  <2>3. rows[r].sess \in Sessions \cup {"none"}
    BY <2>c, SnapHeld
  <2>4. CASE pc = "mark"
    BY <1>2, <1>3, <2>1, <2>2, <2>3, <2>4
  <2>5. CASE pc # "mark"
    <3>1. PICK d : d = [NoVerdict EXCEPT !.said = m.said]
      OBVIOUS
    <3>2. d \in SaidRec /\ d.said \in Said
      BY <1>2, <3>1 DEF NoVerdict, Of, SaidRec
    <3>3. h = [pc |-> pc, kind |-> "hook", r |-> r, snap |-> rows[r], sess |-> rows[r].sess, ev |-> m.at,
               dec |-> d, at |-> 0, path |-> 0, mends |-> FALSE]
      BY <2>d, <3>1 DEF Read, Idle
    <3>4. h \in HandlerRec /\ HandlerOK(h)
      BY <1>2, <2>c, <2>5, <2>e, <3>2, <3>3, ReadRecord
    <3> QED
      BY <1>0, <1>1, <2>1, <2>2, <2>5, <3>4, PureGoes
  <2> QED
    BY <2>4, <2>5
<1> QED
  BY <1>4, <1>5

\* From the application of a decision to the approval.
LEMMA RpcRecord ==
    ASSUME FaceInv, NEW k \in HandlerRec, k.r \in Rows, Held(k.r),
           NEW pc \in {"rpc", "review"}, NEW at \in Nat, NEW mends \in BOOLEAN,
           NEW h, h = [ToRpc(k, k.r) EXCEPT !.pc = pc, !.at = at, !.mends = mends]
    PROVE  h \in HandlerRec /\ HandlerOK(h) /\ h.path = k.r /\ h.r = k.r /\ h.pc = pc
<1> USE RowsArePositive
<1>1. Unborn \in RowRec /\ NoVerdict \in SaidRec /\ Unborn.ref = 0
  BY DEF Unborn, RowRec, Statuses, NoVerdict, Of, SaidRec
<1>2. PICK r \in Rows, snap \in RowRec, d \in SaidRec : r = k.r /\ snap = Unborn /\ d = NoVerdict /\ snap.ref = 0
  BY <1>1
<1>3. h = [k EXCEPT !.pc = pc, !.path = r, !.snap = snap, !.dec = d, !.at = at, !.mends = mends]
  <2>1. k.pc \in HandlerPlaces
    BY DEF HandlerRec
  <2> QED
    BY <1>2 DEF ToRpc, HandlerRec
<1>4. pc \in HandlerPlaces
  BY DEF HandlerPlaces
<1>5. h \in HandlerRec /\ h.pc = pc /\ h.path = r /\ h.snap = snap /\ h.r = k.r
  BY <1>3, <1>4 DEF HandlerRec
<1>6. HandlerOK(h)
  BY <1>2, <1>5 DEF HandlerOK
<1> QED
  BY <1>2, <1>5, <1>6

LEMMA RepairDone ==
    ASSUME FaceInv, NEW c \in Calls, repairApprovedRow(c)
    PROVE  FaceStep
<1> USE RowsArePositive
<1>0. /\ calls[c] \in HandlerRec /\ HandlerOK(calls[c]) /\ calls[c].pc = "repair" /\ calls[c].r \in Rows
      /\ UNCHANGED <<tables, cleaner>> /\ UNCHANGED <<consented, clock, hooks, prov>>
      /\ calls[c].snap \in RowRec /\ calls[c].snap.ref \in Rows \cup {0} /\ clock \in Nat
  BY HandlerFacts DEF repairApprovedRow, HandlerOK, FaceInv, FaceWorld
<1>1. FaceWorld'
  BY <1>0, WorldSame DEF FaceInv
<1>2. CASE Done(c)
  BY <1>0, <1>1, <1>2, PureRests
<1>3. CASE /\ calls[c].snap.ref # 0
           /\ Go(c, ToRpc([calls[c] EXCEPT !.mends = TRUE,
                                           !.at = IF calls[c].snap.at > 0 THEN calls[c].snap.at ELSE CallNow],
                          calls[c].snap.ref))
  <2>1. PICK at \in Nat : at = IF calls[c].snap.at > 0 THEN calls[c].snap.at ELSE CallNow
    BY <1>0 DEF RowRec, CallNow
  <2>2. calls[c].snap.ref = calls[c].r /\ Held(calls[c].r)
    BY <1>0, <1>3 DEF HandlerOK
  <2>3. PICK h : h = [ToRpc(calls[c], calls[c].r) EXCEPT !.pc = "rpc", !.at = at, !.mends = TRUE]
    OBVIOUS
  <2>4. h \in HandlerRec /\ HandlerOK(h)
    BY <1>0, <2>2, <2>3, RpcRecord
  <2>5. calls' = [calls EXCEPT ![c] = h]
    <3>1. calls' = [calls EXCEPT ![c] = ToRpc([calls[c] EXCEPT !.mends = TRUE, !.at = at], calls[c].r)]
      BY <1>3, <2>1, <2>2 DEF Go
    <3>2. h = ToRpc([calls[c] EXCEPT !.mends = TRUE, !.at = at], calls[c].r)
      BY <1>0, <2>3 DEF ToRpc, HandlerRec
    <3> QED
      BY <3>1, <3>2
  <2> QED
    BY <1>0, <1>1, <2>4, <2>5, PureGoes
<1>4. CASE Go(c, [calls[c] EXCEPT !.pc = "decision", !.mends = TRUE])
  <2>1. PICK k : k = [calls[c] EXCEPT !.pc = "decision", !.mends = TRUE]
    OBVIOUS
  <2>2. /\ k \in HandlerRec /\ k.pc = "decision" /\ k.r = calls[c].r /\ k.snap = calls[c].snap
        /\ k.sess = calls[c].sess
    BY <1>0, <2>1 DEF HandlerRec, HandlerPlaces
  <2>3. HandlerOK(k)
    BY <1>0, <2>2 DEF HandlerOK
  <2> QED
    BY <1>0, <1>1, <1>4, <2>1, <2>2, <2>3, PureGoes DEF Go
<1> QED
  BY <1>2, <1>3, <1>4 DEF repairApprovedRow

LEMMA DecisionDone ==
    ASSUME FaceInv, NEW c \in Calls, getDecision(c)
    PROVE  FaceStep
<1> USE RowsArePositive
<1>0. /\ calls[c] \in HandlerRec /\ HandlerOK(calls[c]) /\ calls[c].pc = "decision" /\ calls[c].r \in Rows
      /\ UNCHANGED <<tables, cleaner>> /\ UNCHANGED <<consented, clock, hooks, prov>>
      /\ calls[c].snap \in RowRec /\ calls[c].snap.ref \in Rows \cup {0} /\ clock \in Nat
      /\ calls[c].ev \in Nat /\ calls[c].sess \in Sessions
      /\ prov \in [Sessions -> Verdict \cup {NoVerdict}]
  BY HandlerFacts DEF getDecision, HandlerOK, FaceInv, FaceWorld
<1>1. FaceWorld'
  BY <1>0, WorldSame DEF FaceInv
<1>2. CASE Over(c)
  BY <1>0, <1>1, <1>2, PureRests
<1>3. CASE \E d \in parseDiditDecision(prov[calls[c].sess]) :
             Go(c, [calls[c] EXCEPT !.dec = d,
                                    !.at = IF calls[c].kind = "hook" /\ ~calls[c].mends THEN calls[c].ev ELSE CallNow,
                                    !.path = IF calls[c].kind = "approve" THEN calls[c].snap.ref ELSE 0,
                                    !.pc = IF calls[c].kind # "approve" THEN "check"
                                           ELSE IF calls[c].snap.ref # 0 THEN "review" ELSE "image"])
  <2>1. PICK d, at, path, pc :
             /\ d \in parseDiditDecision(prov[calls[c].sess])
             /\ at = IF calls[c].kind = "hook" /\ ~calls[c].mends THEN calls[c].ev ELSE CallNow
             /\ path = IF calls[c].kind = "approve" THEN calls[c].snap.ref ELSE 0
             /\ pc = IF calls[c].kind # "approve" THEN "check"
                     ELSE IF calls[c].snap.ref # 0 THEN "review" ELSE "image"
             /\ Go(c, [calls[c] EXCEPT !.dec = d, !.at = at, !.path = path, !.pc = pc])
    BY <1>3
  <2>2. d \in SaidRec /\ d.said \in Said
    <3>1. d = prov[calls[c].sess] /\ d # NoVerdict
      BY <2>1 DEF parseDiditDecision
    <3>2. d \in Verdict
      BY <1>0, <3>1
    <3> QED
      BY <3>2 DEF Verdict, SaidRec
  <2>3. at \in Nat /\ path \in Rows \cup {0} /\ pc \in {"check", "review", "image"}
    BY <1>0, <2>1 DEF CallNow
  <2>4. PICK k : k = [calls[c] EXCEPT !.dec = d, !.at = at, !.path = path, !.pc = pc]
    OBVIOUS
  <2>5. /\ k \in HandlerRec /\ k.pc = pc /\ k.r = calls[c].r /\ k.snap = calls[c].snap /\ k.dec = d
        /\ k.path = path /\ k.kind = calls[c].kind
    BY <1>0, <2>2, <2>3, <2>4 DEF HandlerRec, HandlerPlaces
  <2>6. HandlerOK(k)
    BY <1>0, <2>1, <2>2, <2>3, <2>5 DEF HandlerOK
  <2> QED
    BY <1>0, <1>1, <2>1, <2>4, <2>5, <2>6, PureGoes DEF Go
<1> QED
  BY <1>2, <1>3 DEF getDecision

\* The record that stands before the approval, automatic or the operator's.
Named(k, pc) == [ToRpc(k, k.r) EXCEPT !.pc = pc]

LEMMA RpcPlain ==
    ASSUME NEW k \in HandlerRec, k.r \in Rows, NEW pc \in {"rpc", "review"},
           NEW h, h = Named(k, pc)
    PROVE  h \in HandlerRec /\ h.path = k.r /\ h.r = k.r /\ h.pc = pc /\ h.kind = k.kind /\ h.snap.ref = 0
<1> USE RowsArePositive
<1>1. Unborn \in RowRec /\ NoVerdict \in SaidRec /\ Unborn.ref = 0
  BY DEF Unborn, RowRec, Statuses, NoVerdict, Of, SaidRec
<1>2. PICK r \in Rows, snap \in RowRec, d \in SaidRec : r = k.r /\ snap = Unborn /\ d = NoVerdict /\ snap.ref = 0
  BY <1>1
<1>3. h = [k EXCEPT !.pc = pc, !.path = r, !.snap = snap, !.dec = d]
  <2>1. k.pc \in HandlerPlaces
    BY DEF HandlerRec
  <2> QED
    BY <1>2 DEF Named, ToRpc, HandlerRec
<1>4. pc \in HandlerPlaces
  BY DEF HandlerPlaces
<1> QED
  BY <1>2, <1>3, <1>4 DEF HandlerRec

LEMMA FinalizeDone ==
    ASSUME FaceInv, NEW c \in Calls, finalizeApproval(c), calls[c].pc = "check",
           UNCHANGED <<tables, cleaner>>, FaceWorld'
    PROVE  FaceStep
<1> USE RowsArePositive
<1>0. /\ calls[c] \in HandlerRec /\ HandlerOK(calls[c]) /\ calls[c].r \in Rows
      /\ calls[c].snap \in RowRec /\ calls[c].snap.ref \in Rows \cup {0} /\ calls[c].dec.said \in Said
      /\ calls[c].at \in Nat /\ calls[c].mends \in BOOLEAN
  BY HandlerFacts DEF HandlerOK, HandlerRec
<1>1. CASE Done(c)
  BY <1>1, PureRests
<1>2. CASE calls[c].snap.ref # 0 /\ Go(c, ToRpc(calls[c], calls[c].snap.ref))
  <2>1. calls[c].snap.ref = calls[c].r /\ Held(calls[c].r)
    BY <1>0, <1>2 DEF HandlerOK
  <2>2. PICK h : h = Named(calls[c], "rpc")
    OBVIOUS
  <2>3. h \in HandlerRec /\ h.path = calls[c].r /\ h.r = calls[c].r /\ h.pc = "rpc" /\ h.snap.ref = 0
    BY <1>0, <2>2, RpcPlain
  <2>4. HandlerOK(h)
    BY <1>0, <2>1, <2>3 DEF HandlerOK
  <2>5. h = ToRpc(calls[c], calls[c].r)
    BY <1>0, <2>2 DEF Named, ToRpc, HandlerRec
  <2> QED
    BY <1>2, <2>1, <2>3, <2>4, <2>5, PureGoes DEF Go
<1>3. CASE To(c, "image")
  <2>1. PICK k \in HandlerRec : HandlerOK(k) /\ calls' = [calls EXCEPT ![c] = k]
    BY <1>0, <1>3, MovesOn DEF HandlerPlaces
  <2> QED
    BY <2>1, PureGoes
<1> QED
  BY <1>1, <1>2, <1>3 DEF finalizeApproval

LEMMA ApplyDone ==
    ASSUME FaceInv, NEW c \in Calls, ApplyDecision(c)
    PROVE  FaceStep
<1> USE RowsArePositive
<1>0. /\ calls[c] \in HandlerRec /\ HandlerOK(calls[c]) /\ calls[c].pc = "check" /\ calls[c].r \in Rows
      /\ UNCHANGED <<tables, cleaner>> /\ UNCHANGED <<consented, clock, hooks, prov>>
      /\ calls[c].dec.said \in Said
  BY HandlerFacts DEF ApplyDecision, HandlerOK
<1>1. FaceWorld'
  BY <1>0, WorldSame DEF FaceInv
<1>2. CASE Done(c)
  BY <1>0, <1>1, <1>2, PureRests
<1>3. CASE finalizeApproval(c)
  BY <1>0, <1>1, <1>3, FinalizeDone
<1>4. CASE Go(c, [calls[c] EXCEPT !.pc = "close", !.snap = Unborn])
  <2>1. PICK k : k = [calls[c] EXCEPT !.pc = "close", !.snap = Unborn]
    OBVIOUS
  <2>2. Unborn \in RowRec /\ Unborn.ref = 0
    BY DEF Unborn, RowRec, Statuses
  <2>3. k \in HandlerRec /\ k.pc = "close" /\ k.r = calls[c].r /\ k.snap = Unborn /\ k.dec = calls[c].dec
    BY <1>0, <2>1, <2>2 DEF HandlerRec, HandlerPlaces
  <2>4. HandlerOK(k)
    BY <1>0, <2>2, <2>3 DEF HandlerOK
  <2> QED
    BY <1>0, <1>1, <1>4, <2>1, <2>3, <2>4, PureGoes DEF Go
<1>5. CASE To(c, "patch") /\ resolveOutcome(calls[c].dec) # "approved"
  <2>1. PICK k \in HandlerRec : HandlerOK(k) /\ calls' = [calls EXCEPT ![c] = k]
    BY <1>0, <1>5, MovesOn DEF HandlerPlaces
  <2> QED
    BY <1>0, <1>1, <2>1, PureGoes
<1> QED
  BY <1>2, <1>3, <1>4, <1>5 DEF ApplyDecision

LEMMA KillDone ==
    ASSUME FaceInv, NEW c \in Calls, Kill(c)
    PROVE  FaceStep
<1>1. UNCHANGED <<tables, cleaner>> /\ UNCHANGED <<consented, clock, hooks, prov>> /\ Over(c)
  BY DEF Kill
<1> QED
  BY <1>1, WorldSame, PureRests DEF FaceInv

\* The steps that write a row: what the handler becomes is as good as before.
LEMMA WriteGoes ==
    ASSUME FaceInv, FaceTables', Stays, ImagesHeld, UNCHANGED <<consented, clock, hooks, prov, cleaner>>,
           verified => verified',
           NEW c \in Calls, \E k \in HandlerRec : HandlerOK(k) /\ calls' = [calls EXCEPT ![c] = k]
    PROVE  FaceStep
<1>1. PICK k \in HandlerRec : HandlerOK(k) /\ calls' = [calls EXCEPT ![c] = k]
  OBVIOUS
<1>2. HandlerOK(k)'
  BY <1>1, HandlerStays
<1>3. FaceWorld'
  BY WorldSame DEF FaceInv
<1> QED
  BY <1>1, <1>2, <1>3, FaceGoes DEF FaceStep

LEMMA ImagesSame == ASSUME UNCHANGED images PROVE ImagesHeld
  BY DEF ImagesHeld

\* A write by updateRow.
LEMMA UpdateGoes ==
    ASSUME FaceInv, UNCHANGED <<consented, clock, hooks, prov, cleaner, verified, images>>,
           NEW c \in Calls, \E k \in HandlerRec : HandlerOK(k) /\ calls' = [calls EXCEPT ![c] = k],
           NEW r \in Rows, NEW new \in RowRec, updateRow(r, new), new.ref = rows[r].ref,
           new.st = "approved" => rows[r].st = "approved"
    PROVE  FaceStep
<1>1. FaceTables' /\ Stays
  BY UpdateKeeps DEF FaceInv
<1> QED
  BY <1>1, ImagesSame, WriteGoes

LEMMA RestsPlain ==
    ASSUME FaceInv, NEW c \in Calls, Done(c) \/ Over(c)
    PROVE  \E k \in HandlerRec : HandlerOK(k) /\ calls' = [calls EXCEPT ![c] = k]
<1>1. calls[c] \in HandlerRec
  BY DEF FaceInv, FaceHandlers
<1> QED
  BY <1>1, Rests

\* The row becomes expired.
LEMMA ExpiredRow ==
    ASSUME FaceInv, NEW r \in Rows, NEW new, new = [rows[r] EXCEPT !.st = "expired"]
    PROVE  new \in RowRec /\ new.ref = rows[r].ref /\ new.st = "expired"
<1>1. rows[r] \in RowRec
  BY SnapHeld
<1> QED
  BY <1>1 DEF RowRec, Statuses

LEMMA SupersedeDone ==
    ASSUME FaceInv, NEW c \in Calls, SupersedePending(c) \/ EndOwnRow(c)
    PROVE  FaceStep
<1>0. /\ calls[c] \in HandlerRec /\ HandlerOK(calls[c]) /\ calls[c].pc \in {"supersede", "giveup", "replace"}
      /\ calls[c].r \in Rows /\ UNCHANGED <<consented, clock, hooks, prov, cleaner, verified, images>>
  BY HandlerFacts DEF SupersedePending, EndOwnRow, HandlerOK
<1>1. PICK r \in Rows : r = calls[c].r
  BY <1>0
<1>2. PICK new : new = [rows[r] EXCEPT !.st = "expired"]
  OBVIOUS
<1>3. updateRow(r, new)
  BY <1>1, <1>2 DEF SupersedePending, EndOwnRow
<1>4. \E k \in HandlerRec : HandlerOK(k) /\ calls' = [calls EXCEPT ![c] = k]
  <2>1. CASE To(c, "again") /\ calls[c].pc = "supersede"
    <3>1. calls[c].snap.ref = 0
      BY <1>0, <2>1 DEF HandlerOK
    <3> QED
      BY <1>0, <2>1, <3>1, MovesOn DEF HandlerPlaces, SaidPlaces
  <2>2. CASE Over(c)
    BY <2>2, RestsPlain
  <2>3. CASE To(c, "reopen") /\ calls[c].pc = "replace"
    BY <1>0, <2>3, MovesOn DEF HandlerPlaces, HandlerOK
  <2> QED
    BY <1>0, <2>1, <2>2, <2>3 DEF SupersedePending, EndOwnRow
<1>5. new \in RowRec /\ new.ref = rows[r].ref /\ new.st = "expired"
  BY <1>2, ExpiredRow
<1> QED
  BY <1>0, <1>3, <1>4, <1>5, UpdateGoes

LEMMA ReopenDone ==
    ASSUME FaceInv, NEW c \in Calls, Reopen(c)
    PROVE  FaceStep
<1>0. /\ calls[c] \in HandlerRec /\ HandlerOK(calls[c]) /\ calls[c].pc = "reopen" /\ calls[c].path \in Rows
      /\ calls[c].dec.said \in Said /\ UNCHANGED <<consented, clock, hooks, prov, cleaner, verified, images>>
  BY HandlerFacts DEF Reopen, HandlerOK
<1>1. PICK r \in Rows, said \in Said : r = calls[c].path /\ said = calls[c].dec.said
  BY <1>0
<1>2. PICK new : new = [rows[r] EXCEPT !.st = "pending", !.age = "new", !.said = said]
  OBVIOUS
<1>3. updateRow(r, new)
  BY <1>1, <1>2 DEF Reopen
<1>4. new \in RowRec /\ new.ref = rows[r].ref /\ new.st = "pending"
  <2>1. rows[r] \in RowRec
    BY SnapHeld
  <2> QED
    BY <1>2, <2>1 DEF RowRec, Statuses
<1>5. \E k \in HandlerRec : HandlerOK(k) /\ calls' = [calls EXCEPT ![c] = k]
  BY RestsPlain DEF Reopen
<1> QED
  BY <1>0, <1>3, <1>4, <1>5, UpdateGoes

LEMMA AttachDone ==
    ASSUME FaceInv, NEW c \in Calls, AttachSession(c)
    PROVE  FaceStep
<1>0. /\ calls[c] \in HandlerRec /\ HandlerOK(calls[c]) /\ calls[c].pc = "attach" /\ calls[c].r \in Rows
      /\ calls[c].sess \in Sessions \cup {"none"}
      /\ UNCHANGED <<consented, clock, hooks, prov, cleaner, verified, images>>
  BY HandlerFacts DEF AttachSession, HandlerOK, HandlerRec
<1>1. PICK r \in Rows, s \in Sessions \cup {"none"} : r = calls[c].r /\ s = calls[c].sess
  BY <1>0
<1>2. PICK new : new = [rows[r] EXCEPT !.sess = s, !.age = "new", !.said = "Not Started"]
  OBVIOUS
<1>3. new \in RowRec /\ new.ref = rows[r].ref /\ new.st = rows[r].st
  <2>1. rows[r] \in RowRec
    BY SnapHeld
  <2> QED
    BY <1>2, <2>1 DEF RowRec, Said
<1>4. \E k \in HandlerRec : HandlerOK(k) /\ calls' = [calls EXCEPT ![c] = k]
  BY RestsPlain DEF AttachSession
<1>5. CASE UNCHANGED <<rows, queue, refused>>
  <2>1. FaceTables' /\ Stays /\ ImagesHeld
    BY <1>0, <1>5, TablesSame DEF FaceInv, tables
  <2> QED
    BY <1>0, <1>4, <2>1, WriteGoes
<1>6. CASE Store(r, new) /\ ~Refused(rows[r], new)
  <2>1. updateRow(r, new)
    BY <1>6 DEF updateRow
  <2> QED
    BY <1>0, <1>3, <1>4, <2>1, UpdateGoes
<1> QED
  BY <1>1, <1>2, <1>5, <1>6 DEF AttachSession

LEMMA MiddleDone ==
    ASSUME FaceInv, NEW c \in Calls, StoreMiddle(c)
    PROVE  FaceStep
<1>0. /\ calls[c] \in HandlerRec /\ HandlerOK(calls[c]) /\ calls[c].pc = "middle" /\ calls[c].r \in Rows
      /\ calls[c].dec.said \in Said /\ calls[c].ev \in Nat
      /\ UNCHANGED <<consented, clock, hooks, prov, cleaner, verified, images>>
  BY HandlerFacts DEF StoreMiddle, HandlerOK
<1>1. PICK r \in Rows, said \in Said, ev \in Nat : r = calls[c].r /\ said = calls[c].dec.said /\ ev = calls[c].ev
  BY <1>0
<1>2. PICK st \in Statuses : st = IF mapDiditStatus(said) = "expired" THEN "expired" ELSE rows[r].st
  <2>1. rows[r].st \in Statuses
    BY SnapHeld DEF RowRec
  <2> QED
    BY <2>1 DEF Statuses
<1>3. PICK new : new = [rows[r] EXCEPT !.said = said, !.at = ev, !.st = st]
  OBVIOUS
<1>4. updateRow(r, new)
  BY <1>1, <1>2, <1>3 DEF StoreMiddle
<1>5. new \in RowRec /\ new.ref = rows[r].ref /\ new.st = st
  <2>1. rows[r] \in RowRec
    BY SnapHeld
  <2> QED
    BY <1>3, <2>1 DEF RowRec
<1>6. \E k \in HandlerRec : HandlerOK(k) /\ calls' = [calls EXCEPT ![c] = k]
  BY RestsPlain DEF StoreMiddle
<1> QED
  BY <1>0, <1>2, <1>4, <1>5, <1>6, UpdateGoes

\* The row a decision leaves.
LEMMA WithRow ==
    ASSUME FaceInv, NEW k \in HandlerRec, k.r \in Rows, k.dec.said \in Said,
           NEW st \in Statuses, NEW passed \in BOOLEAN, NEW new, new = With(k, st, passed)
    PROVE  new \in RowRec /\ new.ref = rows[k.r].ref /\ new.st = st
<1>1. PICK r \in Rows, said \in Said, at \in Nat : r = k.r /\ said = k.dec.said /\ at = k.at
  BY DEF HandlerRec
<1>2. rows[r] \in RowRec
  BY <1>1, SnapHeld
<1>3. new = [rows[r] EXCEPT !.st = st, !.said = said, !.at = at, !.passed = passed]
  BY <1>1 DEF With
<1> QED
  BY <1>1, <1>2, <1>3 DEF RowRec

LEMMA CloseDone ==
    ASSUME FaceInv, NEW c \in Calls, CloseSuperseded(c)
    PROVE  FaceStep
<1>0. /\ calls[c] \in HandlerRec /\ HandlerOK(calls[c]) /\ calls[c].pc = "close" /\ calls[c].r \in Rows
      /\ calls[c].dec.said \in Said
      /\ UNCHANGED <<consented, clock, hooks, prov, cleaner, verified, images>>
  BY HandlerFacts DEF CloseSuperseded, HandlerOK
<1>1. rows[calls[c].r] \in RowRec
  BY <1>0, SnapHeld
<1>2. PICK passed \in BOOLEAN : passed = rows[calls[c].r].passed
  BY <1>1 DEF RowRec
<1>3. PICK new : new = With(calls[c], "expired", passed)
  OBVIOUS
<1>4. new \in RowRec /\ new.ref = rows[calls[c].r].ref /\ new.st = "expired"
  BY <1>0, <1>3, WithRow DEF Statuses
<1>5. updateRow(calls[c].r, new)
  BY <1>2, <1>3 DEF CloseSuperseded
<1>6. \E k \in HandlerRec : HandlerOK(k) /\ calls' = [calls EXCEPT ![c] = k]
  BY RestsPlain DEF CloseSuperseded
<1> QED
  BY <1>0, <1>4, <1>5, <1>6, UpdateGoes

LEMMA OutcomeStatus == \A d \in SaidRec : d.said \in Said => resolveOutcome(d) \in Statuses
  BY DEF SaidRec, Said, resolveOutcome, mapDiditStatus, Statuses

LEMMA StoreOutcomeDone ==
    ASSUME FaceInv, NEW c \in Calls, StoreOutcome(c)
    PROVE  FaceStep
<1>0. /\ calls[c] \in HandlerRec /\ HandlerOK(calls[c]) /\ calls[c].pc \in {"patch", "unavailable"}
      /\ calls[c].r \in Rows /\ calls[c].dec.said \in Said /\ calls[c].dec \in SaidRec
      /\ calls[c].snap \in RowRec
      /\ UNCHANGED <<consented, clock, hooks, prov, cleaner, verified, images>>
  BY HandlerFacts DEF StoreOutcome, HandlerOK
<1>1. PICK live \in BOOLEAN : live = (calls[c].snap.passed
             \/ (calls[c].dec.live /\ mapDiditStatus(calls[c].dec.said) \notin {"pending", "expired"}))
  OBVIOUS
<1>2. PICK st \in Statuses \ {"approved"}, passed \in BOOLEAN :
         updateRow(calls[c].r, With(calls[c], st, passed))
  <2>1. CASE calls[c].pc = "patch"
    <3>1. resolveOutcome(calls[c].dec) \in Statuses \ {"approved"}
      BY <1>0, <2>1, OutcomeStatus DEF HandlerOK
    <3>2. updateRow(calls[c].r, With(calls[c], resolveOutcome(calls[c].dec), live))
      BY <1>1, <2>1 DEF StoreOutcome
    <3> QED
      BY <3>1, <3>2
  <2>2. CASE calls[c].pc = "unavailable"
    <3>1. updateRow(calls[c].r, With(calls[c], "in_review", TRUE))
      BY <2>2 DEF StoreOutcome
    <3> QED
      BY <3>1 DEF Statuses
  <2> QED
    BY <1>0, <2>1, <2>2
<1>3. PICK new : new = With(calls[c], st, passed)
  OBVIOUS
<1>4. new \in RowRec /\ new.ref = rows[calls[c].r].ref /\ new.st = st
  BY <1>0, <1>2, <1>3, WithRow
<1>5. Done(c) \/ Over(c)
  BY DEF StoreOutcome
<1>6. \E k \in HandlerRec : HandlerOK(k) /\ calls' = [calls EXCEPT ![c] = k]
  BY <1>5, RestsPlain
<1> QED
  BY <1>0, <1>2, <1>3, <1>4, <1>6, UpdateGoes

\* An image more, and nothing else of the tables.
LEMMA ImageKept ==
    ASSUME FaceTables, NEW r \in Rows, images' = images \cup {r}, UNCHANGED <<rows, verified, queue, refused>>
    PROVE  FaceTables' /\ Stays /\ ImagesHeld
<1>1. Stays /\ ImagesHeld
  BY DEF Stays, ImagesHeld
<1>2. FaceRows'
  BY DEF FaceTables, FaceRows, RowOK, Others
<1>3. FaceQueue' /\ FaceFlag'
  BY DEF FaceTables, FaceQueue, FaceFlag, Others
<1> QED
  BY <1>1, <1>2, <1>3 DEF FaceTables

LEMMA ImageDone ==
    ASSUME FaceInv, NEW c \in Calls, ensureReferenceImage(c)
    PROVE  FaceStep
<1> USE RowsArePositive
<1>0. /\ calls[c] \in HandlerRec /\ HandlerOK(calls[c]) /\ calls[c].pc = "image" /\ calls[c].r \in Rows
      /\ calls[c].dec.said \in Said /\ UNCHANGED <<consented, clock, hooks, prov, cleaner>>
  BY HandlerFacts DEF ensureReferenceImage, HandlerOK
<1>1. CASE UNCHANGED images
  <2>1. \E k \in HandlerRec : HandlerOK(k) /\ calls' = [calls EXCEPT ![c] = k]
    <3>1. CASE Done(c) \/ Over(c)
      BY <3>1, RestsPlain
    <3>2. CASE To(c, "unavailable")
      BY <1>0, <3>2, MovesOn DEF HandlerPlaces
    <3>3. CASE /\ images' = images \cup {referenceImagePath(calls[c].r)}
               /\ Go(c, [ToRpc(calls[c], referenceImagePath(calls[c].r))
                           EXCEPT !.pc = IF calls[c].kind = "approve" THEN "review" ELSE "rpc"])
      <4>1. PICK pc \in {"rpc", "review"} : pc = IF calls[c].kind = "approve" THEN "review" ELSE "rpc"
        OBVIOUS
      <4>2. PICK h : h = Named(calls[c], pc)
        OBVIOUS
      <4>3. /\ h \in HandlerRec /\ h.path = calls[c].r /\ h.r = calls[c].r /\ h.pc = pc /\ h.snap.ref = 0
        BY <1>0, <4>2, RpcPlain
      <4>4. calls[c].r \in images
        BY <1>1, <3>3 DEF referenceImagePath
      <4>5. HandlerOK(h)
        BY <1>0, <4>1, <4>3, <4>4 DEF HandlerOK, Held
      <4>6. calls' = [calls EXCEPT ![c] = h]
        BY <3>3, <4>1, <4>2 DEF Go, Named, referenceImagePath
      <4> QED
        BY <4>3, <4>5, <4>6
    <3> QED
      BY <3>1, <3>2, <3>3 DEF ensureReferenceImage
  <2>2. UNCHANGED tables
    BY <1>1 DEF ensureReferenceImage, tables
  <2>3. FaceTables' /\ Stays /\ ImagesHeld
    BY <2>2, TablesSame DEF FaceInv
  <2>4. verified => verified'
    BY <2>2 DEF tables
  <2> QED
    BY <1>0, <2>1, <2>3, <2>4, WriteGoes
<1>2. CASE /\ images' = images \cup {referenceImagePath(calls[c].r)}
           /\ Go(c, [ToRpc(calls[c], referenceImagePath(calls[c].r))
                       EXCEPT !.pc = IF calls[c].kind = "approve" THEN "review" ELSE "rpc"])
  <2>1. PICK r \in Rows : r = calls[c].r
    BY <1>0
  <2>2. PICK pc \in {"rpc", "review"} : pc = IF calls[c].kind = "approve" THEN "review" ELSE "rpc"
    OBVIOUS
  <2>3. PICK h : h = Named(calls[c], pc)
    OBVIOUS
  <2>4. h \in HandlerRec /\ h.path = r /\ h.r = r /\ h.pc = pc /\ h.snap.ref = 0
    BY <1>0, <2>1, <2>3, RpcPlain
  <2>5. images' = images \cup {r} /\ UNCHANGED <<rows, verified, queue, refused>>
    BY <1>2, <2>1 DEF ensureReferenceImage, referenceImagePath
  <2>6. FaceTables' /\ Stays /\ ImagesHeld
    BY <2>5, ImageKept DEF FaceInv
  <2>7. HandlerOK(h)'
    BY <2>2, <2>4, <2>5 DEF HandlerOK, Held
  <2>8. calls' = [calls EXCEPT ![c] = h]
    BY <1>2, <2>2, <2>3 DEF Go, Named, referenceImagePath
  <2>9. FaceWorld'
    BY <1>0, WorldSame DEF FaceInv
  <2>10. FaceInv'
    BY <1>0, <2>4, <2>6, <2>7, <2>8, <2>9, FaceGoes
  <2> QED
    BY <2>5, <2>6, <2>10 DEF FaceStep
<1> QED
  BY <1>1, <1>2 DEF ensureReferenceImage

\* A handler whose step left the tables alone, or approved its row.
LEMMA ApproveDone ==
    ASSUME FaceInv, NEW c \in Calls, approveVerification(c)
    PROVE  FaceStep
<1> USE RowsArePositive
<1>0. /\ calls[c] \in HandlerRec /\ HandlerOK(calls[c]) /\ calls[c].pc = "rpc" /\ calls[c].r \in Rows
      /\ calls[c].path = calls[c].r /\ Held(calls[c].r) /\ calls[c].at \in Nat
      /\ UNCHANGED <<consented, clock, hooks, prov, cleaner, images>>
  BY HandlerFacts DEF approveVerification, HandlerOK
<1>1. \E k \in HandlerRec : HandlerOK(k) /\ calls' = [calls EXCEPT ![c] = k]
  BY RestsPlain DEF approveVerification
<1>2. FaceTables' /\ Stays /\ (verified => verified')
  <2>1. CASE UNCHANGED <<rows, queue, refused, verified>>
    BY <1>0, <2>1, TablesSame DEF FaceInv, tables
  <2>2. CASE /\ Approvable(calls[c].r, calls[c].path, TRUE)
             /\ face_liveness_approve(calls[c].r, calls[c].path, calls[c].at)
    <3>1. PICK r \in Rows, at \in Nat : r = calls[c].r /\ r = calls[c].path /\ at = calls[c].at
      BY <1>0
    <3>2. Approvable(r, r, TRUE) /\ face_liveness_approve(r, r, at) /\ Held(r)
      BY <1>0, <2>2, <3>1
    <3> QED
      BY <1>0, <3>2, Approves DEF FaceInv
  <2> QED
    BY <2>1, <2>2 DEF approveVerification
<1> QED
  BY <1>0, <1>1, <1>2, ImagesSame, WriteGoes

\* The operator's rejection: only a row that is not approved, and the flag stands
\* on another one.
LEMMA RejectKeeps ==
    ASSUME FaceTables, clock \in Nat, NEW c \in Calls, NEW r \in Rows, r = calls[c].r,
           rows[r].st \in {"in_review", "pending"}, Reject(c), UNCHANGED images
    PROVE  FaceTables' /\ Stays /\ (verified => verified')
<1> USE RowsArePositive
<1>0. RowOK(r) /\ rows[r] \in RowRec /\ FaceFlag
  BY DEF FaceTables, FaceRows
<1>1. PICK when \in Nat : when = CallNow
  BY DEF CallNow
<1>2. PICK new : new = [rows[r] EXCEPT !.st = "rejected", !.at = SqlMax(@, when)]
  OBVIOUS
<1>3. new \in RowRec /\ new.st = "rejected" /\ new.ref = rows[r].ref
  BY <1>0, <1>1, <1>2 DEF RowRec, Statuses, SqlMax
<1>4. Store(r, new) /\ verified' = (verified /\ Others(r) # {})
  BY <1>1, <1>2 DEF Reject
<1>5. FaceRows' /\ FaceQueue' /\ Stays /\ refused' \subseteq Rows
  BY <1>0, <1>3, <1>4, RowStored DEF RowOK
<1>6. verified => Others(r) # {}
  BY <1>0 DEF FaceFlag, Others
<1>7. UNCHANGED verified
  BY <1>0, <1>4, <1>6 DEF FaceFlag
<1> QED
  BY <1>0, <1>5, <1>7, FlagStays DEF FaceTables

LEMMA ReviewDone ==
    ASSUME FaceInv, NEW c \in Calls, adminReview(c)
    PROVE  FaceStep
<1> USE RowsArePositive
<1>0. /\ calls[c] \in HandlerRec /\ HandlerOK(calls[c]) /\ calls[c].pc = "review" /\ calls[c].r \in Rows
      /\ clock \in Nat /\ UNCHANGED <<consented, clock, hooks, prov, cleaner, images>>
  BY HandlerFacts DEF adminReview, HandlerOK, FaceInv, FaceWorld
<1>1. \E k \in HandlerRec : HandlerOK(k) /\ calls' = [calls EXCEPT ![c] = k]
  BY RestsPlain DEF adminReview
<1>2. FaceTables' /\ Stays /\ (verified => verified')
  <2>1. CASE UNCHANGED <<rows, queue, refused, verified>>
    BY <1>0, <2>1, TablesSame DEF FaceInv, tables
  <2>2. CASE /\ calls[c].kind = "approve" /\ Approvable(calls[c].r, calls[c].path, TRUE)
             /\ face_liveness_approve(calls[c].r, calls[c].path, CallNow)
    <3>1. PICK r \in Rows, at \in Nat : r = calls[c].r /\ r = calls[c].path /\ at = CallNow /\ Held(r)
      BY <1>0, <2>2 DEF HandlerOK, CallNow
    <3>2. Approvable(r, r, TRUE) /\ face_liveness_approve(r, r, at)
      BY <2>2, <3>1
    <3> QED
      BY <1>0, <3>1, <3>2, Approves DEF FaceInv
  <2>3. CASE rows[calls[c].r].st \in {"in_review", "pending"} /\ Reject(c)
    <3>1. PICK r \in Rows : r = calls[c].r
      BY <1>0
    <3> QED
      BY <1>0, <2>3, <3>1, RejectKeeps DEF FaceInv
  <2> QED
    BY <2>1, <2>2, <2>3 DEF adminReview
<1> QED
  BY <1>0, <1>1, <1>2, ImagesSame, WriteGoes

\* A finite set of numbers that is not empty has a least one.
LEMMA MinIsLeast ==
    ASSUME NEW S \in SUBSET Nat, IsFiniteSet(S), S # {}
    PROVE  \E x \in S : \A y \in S : x <= y
<1> DEFINE Least(T) == \E x \in T : \A y \in T : x <= y
           Bad == {T \in SUBSET S : T # {} /\ ~Least(T)}
<1>1. ASSUME Bad # {} PROVE FALSE
  <2>1. IsWellFoundedOn(StrictSubsetOrdering(S), SUBSET S)
    BY FS_StrictSubsetOrderingWellFounded, FS_FiniteSubsetsOfFinite
  <2>2. PICK T \in Bad : \A U \in Bad : <<U, T>> \notin StrictSubsetOrdering(S)
    BY <1>1, <2>1, WFMin, Zenon
  <2>3. PICK x \in T : TRUE
    BY <2>2
  <2> DEFINE U == T \ {x}
  <2>4. U \notin Bad
    BY <2>2, <2>3 DEF StrictSubsetOrdering
  <2>5. U = {} \/ Least(U)
    BY <2>2, <2>4
  <2>6. Least(T)
    BY <2>2, <2>3, <2>5
  <2> QED
    BY <2>2, <2>6
<1> QED
  BY <1>1

LEMMA SweptItems ==
    ASSUME FaceInv
    PROVE  /\ Swept \in [Rows -> RowRec] /\ SweptQueue \in [Rows -> ItemRec]
           /\ \A r \in Rows : /\ Swept[r].ref = rows[r].ref
                              /\ Swept[r] = rows[r] \/ (rows[r].st = "pending" /\ Swept[r].st = "expired")
                              /\ SweptQueue[r].path \in {queue[r].path} \cup (IF rows[r].st = "pending" THEN {rows[r].ref} ELSE {})
<1> USE RowsArePositive
<1>0. rows \in [Rows -> RowRec] /\ queue \in [Rows -> ItemRec]
  BY DEF FaceInv, FaceTables, FaceRows, FaceQueue
<1>1. ASSUME NEW r \in Rows
      PROVE  /\ Swept[r] \in RowRec /\ Swept[r].ref = rows[r].ref
             /\ Swept[r] = rows[r] \/ (rows[r].st = "pending" /\ Swept[r].st = "expired")
  <2>1. CASE r \in Lapsed
    <3>1. PICK new : new = [rows[r] EXCEPT !.st = "expired"]
      OBVIOUS
    <3>2. new \in RowRec /\ new.ref = rows[r].ref /\ new.st = "expired"
      BY <3>1, ExpiredRow
    <3>3. Swept[r] = new /\ rows[r].st = "pending"
      BY <2>1, <3>1 DEF Swept, Lapsed
    <3> QED
      BY <3>2, <3>3
  <2>2. CASE r \notin Lapsed
    BY <1>0, <2>2 DEF Swept
  <2> QED
    BY <2>1, <2>2
<1>2. Swept \in [Rows -> RowRec]
  <2>1. PICK f : f = Swept
    OBVIOUS
  <2>2. DOMAIN f = Rows /\ f = [r \in Rows |-> f[r]]
    BY <2>1 DEF Swept
  <2> QED
    BY <1>1, <2>1, <2>2
<1>3. ASSUME NEW r \in Rows
      PROVE  /\ SweptQueue[r] \in ItemRec
             /\ SweptQueue[r].path \in {queue[r].path} \cup (IF rows[r].st = "pending" THEN {rows[r].ref} ELSE {})
  <2>1. CASE SweptQueue[r] = queue[r]
    BY <1>0, <2>1
  <2>2. CASE SweptQueue[r] # queue[r]
    <3>1. PICK item : item = [NoItem EXCEPT !.st = "pending", !.path = Swept[r].ref, !.sess = Swept[r].sess]
      OBVIOUS
    <3>2. item \in ItemRec /\ item.path = rows[r].ref
      BY <1>1, <3>1 DEF NoItem, ItemRec, RowRec
    <3>3. r \in Lapsed /\ Enqueue(queue, r, rows[r], Swept[r])[r] = SweptQueue[r]
      BY <2>2 DEF SweptQueue
    <3>4. SweptQueue[r] = item
      BY <1>0, <2>2, <3>1, <3>3 DEF Enqueue
    <3>5. rows[r].st = "pending"
      BY <3>3 DEF Lapsed
    <3> QED
      BY <3>2, <3>4, <3>5
  <2> QED
    BY <2>1, <2>2
<1>4. SweptQueue \in [Rows -> ItemRec]
  <2>1. PICK f : f = SweptQueue
    OBVIOUS
  <2>2. DOMAIN f = Rows /\ f = [r \in Rows |-> f[r]]
    BY <2>1 DEF SweptQueue
  <2> QED
    BY <1>3, <2>1, <2>2
<1> QED
  BY <1>1, <1>2, <1>3, <1>4

\* Rows that are not approved end or begin, and their items are queued.
LEMMA SweepKeeps ==
    ASSUME FaceInv, UNCHANGED <<verified, images, refused>>,
           rows' \in [Rows -> RowRec], queue' = SweptQueue,
           \A r \in Rows : \/ rows'[r] = rows[r]
                           \/ /\ rows[r].st # "approved" /\ rows'[r].st # "approved"
                              /\ rows'[r].ref \in {0, rows[r].ref}
    PROVE  FaceTables' /\ Stays
<1> USE RowsArePositive
<1>0. FaceTables /\ FaceRows /\ FaceQueue /\ queue' \in [Rows -> ItemRec]
  BY SweptItems DEF FaceInv, FaceTables
<1>1. Stays
  BY DEF Stays
<1>2. ASSUME NEW r \in Rows PROVE RowOK(r)'
  <2>1. Others(r) # {} => Others(r)' # {}
    BY <1>1, OthersStay
  <2>2. RowOK(r)
    BY <1>0 DEF FaceRows
  <2> QED
    BY <2>1, <2>2 DEF RowOK
<1>3. FaceRows'
  <2>1. ASSUME NEW r \in Rows, NEW q \in Rows, rows'[r].st = "approved", rows'[q].st = "approved" PROVE r = q
    BY <1>0, <2>1 DEF FaceRows
  <2> QED
    BY <1>2, <2>1 DEF FaceRows
<1>4. FaceQueue'
  <2>1. ASSUME NEW r \in Rows, queue'[r].path # 0 PROVE queue'[r].path = r /\ Others(r)' # {}
    <3>1. Others(r) # {} => Others(r)' # {}
      BY <1>1, OthersStay
    <3>2. queue'[r].path = queue[r].path \/ (rows[r].st = "pending" /\ queue'[r].path = rows[r].ref)
      BY SweptItems
    <3>3. RowOK(r)
      BY <1>0 DEF FaceRows
    <3> QED
      BY <1>0, <2>1, <3>1, <3>2, <3>3 DEF FaceQueue, RowOK
  <2> QED
    BY <1>0, <2>1 DEF FaceQueue
<1> QED
  BY <1>0, <1>1, <1>3, <1>4, FlagStays DEF FaceTables

LEMMA BeginDone ==
    ASSUME FaceInv, NEW c \in Calls, BeginSession(c)
    PROVE  FaceStep
<1> USE RowsArePositive
<1>0. /\ calls[c] \in HandlerRec /\ HandlerOK(calls[c]) /\ calls[c].pc \in {"begin", "again"}
      /\ calls[c].snap.ref = 0
      /\ UNCHANGED <<consented, clock, hooks, prov, cleaner, images, verified, refused>>
  BY HandlerFacts DEF BeginSession, HandlerOK
<1>1. ASSUME NEW r \in Rows, NEW pc \in {"supersede", "create"}, Go(c, [calls[c] EXCEPT !.pc = pc, !.r = r])
      PROVE  \E k \in HandlerRec : HandlerOK(k) /\ calls' = [calls EXCEPT ![c] = k]
  <2>1. PICK k : k = [calls[c] EXCEPT !.pc = pc, !.r = r]
    OBVIOUS
  <2>2. k \in HandlerRec /\ k.pc = pc /\ k.r = r /\ k.snap = calls[c].snap
    BY <1>0, <2>1 DEF HandlerRec, HandlerPlaces
  <2>3. HandlerOK(k)
    BY <1>0, <2>2 DEF HandlerOK
  <2> QED
    BY <1>1, <2>1, <2>2, <2>3 DEF Go
<1>2. CASE UNCHANGED <<rows, queue>> /\ Over(c)
  <2>1. FaceTables' /\ Stays /\ ImagesHeld
    BY <1>0, <1>2, TablesSame DEF FaceInv, tables
  <2> QED
    BY <1>0, <1>2, <2>1, RestsPlain, WriteGoes
<1>3. CASE /\ rows' = Swept /\ queue' = SweptQueue
           /\ Over(c) \/ \E r \in Rows : Go(c, [calls[c] EXCEPT !.pc = "supersede", !.r = r])
  <2>1. /\ rows' \in [Rows -> RowRec]
        /\ \A r \in Rows : \/ rows'[r] = rows[r]
                           \/ /\ rows[r].st # "approved" /\ rows'[r].st # "approved"
                              /\ rows'[r].ref \in {0, rows[r].ref}
    BY <1>3, SweptItems
  <2>2. FaceTables' /\ Stays
    BY <1>0, <1>3, <2>1, SweepKeeps
  <2>3. \E k \in HandlerRec : HandlerOK(k) /\ calls' = [calls EXCEPT ![c] = k]
    <3>1. CASE Over(c)
      BY <3>1, RestsPlain
    <3>2. CASE \E r \in Rows : Go(c, [calls[c] EXCEPT !.pc = "supersede", !.r = r])
      BY <1>1, <3>2
    <3> QED
      BY <1>3, <3>1, <3>2
  <2> QED
    BY <1>0, <2>2, <2>3, ImagesSame, WriteGoes
<1>4. CASE /\ Free # {} /\ queue' = SweptQueue
           /\ LET r == CHOOSE x \in Free : \A y \in Free : x <= y
              IN  /\ rows' = [Swept EXCEPT ![r] = [Unborn EXCEPT !.st = "pending"]]
                  /\ Go(c, [calls[c] EXCEPT !.pc = "create", !.r = r])
  <2>1. \E x \in Free : \A y \in Free : x <= y
    <3>1. Free \in SUBSET Nat /\ Free \subseteq Rows
      BY FaceBounds DEF Free
    <3>2. IsFiniteSet(Rows)
      BY FaceBounds, FS_Interval
    <3>3. IsFiniteSet(Free)
      BY <3>1, <3>2, FS_Subset
    <3> QED
      BY <1>4, <3>1, <3>3, MinIsLeast
  <2>2. PICK r \in Free : /\ rows' = [Swept EXCEPT ![r] = [Unborn EXCEPT !.st = "pending"]]
                          /\ Go(c, [calls[c] EXCEPT !.pc = "create", !.r = r])
    BY <1>4, <2>1
  <2>3. PICK born : born = [Unborn EXCEPT !.st = "pending"]
    OBVIOUS
  <2>4. born \in RowRec /\ born.ref = 0 /\ born.st = "pending"
    BY <2>3 DEF Unborn, RowRec, Statuses
  <2>5. r \in Rows /\ rows[r].st = "none" /\ rows' = [Swept EXCEPT ![r] = born]
    BY <2>2, <2>3 DEF Free
  <2>6. Swept \in [Rows -> RowRec]
    BY SweptItems
  <2>7. rows' \in [Rows -> RowRec] /\ rows'[r] = born /\ \A q \in Rows \ {r} : rows'[q] = Swept[q]
    BY <2>4, <2>5, <2>6
  <2>8. \A q \in Rows : \/ rows'[q] = rows[q]
                        \/ /\ rows[q].st # "approved" /\ rows'[q].st # "approved"
                           /\ rows'[q].ref \in {0, rows[q].ref}
    <3>1. ASSUME NEW q \in Rows
          PROVE  Swept[q].ref = rows[q].ref
                 /\ (Swept[q] = rows[q] \/ (rows[q].st = "pending" /\ Swept[q].st = "expired"))
      BY SweptItems
    <3> QED
      BY <2>4, <2>5, <2>7, <3>1
  <2>9. FaceTables' /\ Stays
    BY <1>0, <1>4, <2>7, <2>8, SweepKeeps
  <2>10. \E k \in HandlerRec : HandlerOK(k) /\ calls' = [calls EXCEPT ![c] = k]
    BY <1>1, <2>2, <2>5
  <2> QED
    BY <1>0, <2>9, <2>10, ImagesSame, WriteGoes
<1> QED
  BY <1>2, <1>3, <1>4 DEF BeginSession, Reusable

-----------------------------------------------------------------------------
(* Face verification: time, the provider and the clean-up.                 *)

\* A step that moves no handler.
LEMMA AsideGoes ==
    ASSUME FaceInv, FaceTables', Stays, ImagesHeld, FaceCleaner', FaceWorld', UNCHANGED calls,
           verified => verified'
    PROVE  FaceStep
  BY HandlersStay DEF FaceInv, FaceStep

LEMMA AgeDone ==
    ASSUME FaceInv, NEW r \in Rows, Age(r)
    PROVE  FaceStep
<1> USE RowsArePositive
<1>0. /\ UNCHANGED <<verified, images, queue, refused>> /\ UNCHANGED <<consented, clock, hooks, prov>>
      /\ UNCHANGED cleaner /\ UNCHANGED calls
      /\ FaceTables /\ FaceRows /\ rows \in [Rows -> RowRec]
  BY DEF Age, FaceInv, FaceTables, FaceRows
<1>1. PICK a \in {"margin", "over"} : rows' = [rows EXCEPT ![r].age = a] /\ rows[r].st = "pending"
  BY DEF Age
<1>2. PICK new : new = [rows[r] EXCEPT !.age = a]
  OBVIOUS
<1>3. new \in RowRec /\ new.ref = rows[r].ref /\ new.st = "pending"
  <2>1. rows[r] \in RowRec
    BY SnapHeld
  <2> QED
    BY <1>1, <1>2, <2>1 DEF RowRec
<1>4. rows' = [rows EXCEPT ![r] = new]
  BY <1>1, <1>2
<1>5. Store(r, new)
  BY <1>0, <1>1, <1>3, <1>4 DEF Store, Enqueue, Ended
<1>6. RowOK(r)
  BY <1>0 DEF FaceRows
<1>7. FaceRows' /\ FaceQueue' /\ Stays /\ refused' \subseteq Rows
  BY <1>0, <1>1, <1>3, <1>5, <1>6, RowStored DEF RowOK
<1>8. FaceTables'
  BY <1>0, <1>7, FlagStays DEF FaceTables
<1>9. FaceWorld' /\ FaceCleaner'
  BY <1>0, <1>7, WorldSame, CleanerStays DEF FaceInv
<1> QED
  BY <1>0, <1>7, <1>8, <1>9, ImagesSame, AsideGoes

LEMMA QueueKept ==
    ASSUME FaceTables, UNCHANGED <<rows, verified, images, refused>>, queue' \in [Rows -> ItemRec],
           \A r \in Rows : queue'[r].path \in {0, queue[r].path}
    PROVE  FaceTables' /\ Stays /\ ImagesHeld
<1>1. Stays /\ ImagesHeld
  BY DEF Stays, ImagesHeld
<1>2. FaceRows' /\ FaceFlag'
  BY DEF FaceTables, FaceRows, RowOK, FaceFlag, Others
<1>3. FaceQueue'
  BY DEF FaceTables, FaceQueue, Others
<1> QED
  BY <1>1, <1>2, <1>3 DEF FaceTables

LEMMA ItemFacts ==
    ASSUME FaceInv, NEW r \in Rows
    PROVE  /\ queue[r] \in ItemRec /\ queue[r].path \in Rows \cup {0} /\ queue[r].sess \in Sessions \cup {"none"}
           /\ queue \in [Rows -> ItemRec] /\ (queue[r].path # 0 => queue[r].path = r /\ Others(r) # {})
<1>1. queue \in [Rows -> ItemRec] /\ queue[r] \in ItemRec
  BY DEF FaceInv, FaceTables, FaceQueue
<1>2. queue[r].path \in Rows \cup {0} /\ queue[r].sess \in Sessions \cup {"none"}
  BY <1>1 DEF ItemRec
<1> QED
  BY <1>1, <1>2 DEF FaceInv, FaceTables, FaceQueue

LEMMA QueueClaimed ==
    ASSUME FaceInv, NEW r \in Rows, ClaimCleanup(r)
    PROVE  FaceStep
<1> USE RowsArePositive
<1>0. /\ UNCHANGED <<rows, verified, images, refused>> /\ UNCHANGED <<consented, clock, hooks, prov>> /\ UNCHANGED calls
      /\ FaceTables /\ FaceWorld /\ FaceCleaner
  BY DEF ClaimCleanup, FaceInv
<1>1. CASE queue' = [queue EXCEPT ![r].st = "cancelled"] /\ UNCHANGED cleaner
  <2>1. PICK item : item = [queue[r] EXCEPT !.st = "cancelled"]
    OBVIOUS
  <2>2. item \in ItemRec /\ item.path = queue[r].path
    BY <2>1, ItemFacts DEF ItemRec
  <2>3. queue' = [queue EXCEPT ![r] = item]
    BY <1>1, <2>1
  <2>4. queue' \in [Rows -> ItemRec] /\ \A q \in Rows : queue'[q].path \in {0, queue[q].path}
    BY <2>2, <2>3, ItemFacts
  <2>5. FaceTables' /\ Stays /\ ImagesHeld
    BY <1>0, <2>4, QueueKept
  <2>6. FaceWorld' /\ FaceCleaner'
    BY <1>0, <1>1, <2>5, WorldSame, CleanerStays
  <2> QED
    BY <1>0, <2>5, <2>6, AsideGoes
<1>2. CASE \E path \in {0, queue[r].path} :
             /\ queue' = [queue EXCEPT ![r].leased = TRUE, ![r].path = path]
             /\ cleaner' = [pc |-> "storage", r |-> r, path |-> path, sess |-> queue[r].sess]
  <2>1. PICK path \in {0, queue[r].path} :
             /\ queue' = [queue EXCEPT ![r].leased = TRUE, ![r].path = path]
             /\ cleaner' = [pc |-> "storage", r |-> r, path |-> path, sess |-> queue[r].sess]
    BY <1>2
  <2>2. PICK q \in ItemRec : q = queue[r]
    BY ItemFacts
  <2>3. path \in Rows \cup {0}
    BY ItemFacts
  <2>4. PICK item : item = [q EXCEPT !.leased = TRUE, !.path = path]
    OBVIOUS
  <2>5. item \in ItemRec /\ item.path = path /\ queue' = [queue EXCEPT ![r] = item]
    <3>1. item \in ItemRec /\ item.path = path
      BY <2>2, <2>3, <2>4 DEF ItemRec
    <3> QED
      BY <2>1, <2>2, <2>4, <3>1, ItemFacts
  <2>6. queue' \in [Rows -> ItemRec] /\ \A x \in Rows : queue'[x].path \in {0, queue[x].path}
    BY <2>5, ItemFacts
  <2>7. FaceTables' /\ Stays /\ ImagesHeld
    BY <1>0, <2>6, QueueKept
  <2>8. path # 0 => path = r /\ Others(r)' # {}
    <3>1. path # 0 => path = r /\ Others(r) # {}
      BY ItemFacts
    <3> QED
      BY <2>7, <3>1, OthersStay
  <2>9. cleaner' \in CleanerRec /\ cleaner'.r = r /\ cleaner'.path = path
    BY <2>1, <2>3, ItemFacts DEF CleanerRec
  <2>10. FaceCleaner'
    BY <2>8, <2>9 DEF FaceCleaner
  <2>11. FaceWorld'
    BY <1>0, WorldSame
  <2> QED
    BY <1>0, <2>7, <2>10, <2>11, AsideGoes
<1>3. \/ queue' = [queue EXCEPT ![r].st = "cancelled"] /\ UNCHANGED cleaner
      \/ \E path \in {0, queue[r].path} :
             /\ queue' = [queue EXCEPT ![r].leased = TRUE, ![r].path = path]
             /\ cleaner' = [pc |-> "storage", r |-> r, path |-> path, sess |-> queue[r].sess]
  BY DEF ClaimCleanup
<1> QED
  BY <1>1, <1>2, <1>3

LEMMA LapseDone ==
    ASSUME FaceInv, NEW r \in Rows, LeaseLapses(r)
    PROVE  FaceStep
<1>0. /\ UNCHANGED <<rows, verified, images, refused>> /\ UNCHANGED <<consented, clock, hooks, prov>>
      /\ UNCHANGED calls /\ UNCHANGED cleaner
      /\ FaceTables /\ FaceWorld /\ FaceCleaner
  BY DEF LeaseLapses, FaceInv
<1>1. PICK q \in ItemRec : q = queue[r]
  BY ItemFacts
<1>2. PICK item : item = [q EXCEPT !.leased = FALSE]
  OBVIOUS
<1>3. item \in ItemRec /\ item.path = queue[r].path
  BY <1>1, <1>2 DEF ItemRec
<1>4. queue' = [queue EXCEPT ![r] = item]
  BY <1>1, <1>2 DEF LeaseLapses
<1>5. queue' \in [Rows -> ItemRec] /\ \A x \in Rows : queue'[x].path \in {0, queue[x].path}
  BY <1>3, <1>4, ItemFacts
<1>6. FaceTables' /\ Stays /\ ImagesHeld
  BY <1>0, <1>5, QueueKept
<1>7. FaceWorld' /\ FaceCleaner'
  BY <1>0, <1>6, WorldSame, CleanerStays
<1> QED
  BY <1>0, <1>6, <1>7, AsideGoes

\* Only the image of a row that can no more be approved is deleted.
LEMMA ImageGone ==
    ASSUME FaceTables, FaceCleaner, images' = images \ {cleaner.path}, UNCHANGED <<rows, verified, queue, refused>>
    PROVE  FaceTables' /\ Stays /\ ImagesHeld
<1> USE RowsArePositive
<1>1. Stays
  BY DEF Stays
<1>2. ImagesHeld
  BY DEF ImagesHeld, FaceCleaner
<1>3. ASSUME NEW r \in Rows PROVE RowOK(r)'
  <2>1. RowOK(r)
    BY DEF FaceTables, FaceRows
  <2>2. rows[r].st = "approved" => Others(r) = {}
    BY DEF FaceTables, FaceRows, Others
  <2>3. rows[r].st = "approved" /\ r \in images => r \in images'
    BY <2>2 DEF FaceCleaner
  <2> QED
    BY <2>1, <2>3 DEF RowOK, Others
<1>4. FaceRows'
  BY <1>3 DEF FaceTables, FaceRows
<1>5. FaceQueue' /\ FaceFlag'
  BY DEF FaceTables, FaceQueue, FaceFlag, Others
<1> QED
  BY <1>1, <1>2, <1>4, <1>5 DEF FaceTables

LEMMA CleanerMoves ==
    ASSUME FaceCleaner, Stays, NEW pc \in {"provider", "done", "failed"}, cleaner.pc # "idle",
           cleaner' = [cleaner EXCEPT !.pc = pc]
    PROVE  FaceCleaner'
<1> USE RowsArePositive
<1>1. cleaner' \in CleanerRec /\ cleaner'.r = cleaner.r /\ cleaner'.path = cleaner.path
  BY DEF FaceCleaner, CleanerRec
<1>2. cleaner.r \in Rows /\ (cleaner.path # 0 => cleaner.path = cleaner.r /\ Others(cleaner.r) # {})
  BY DEF FaceCleaner
<1>3. PICK r \in Rows : r = cleaner.r
  BY <1>2
<1>4. cleaner.path # 0 => Others(r)' # {}
  BY <1>2, <1>3, OthersStay
<1> QED
  BY <1>1, <1>2, <1>3, <1>4 DEF FaceCleaner

LEMMA RestingCleaner == AtRest \in CleanerRec /\ AtRest.pc = "idle" /\ AtRest.path = 0
  BY DEF AtRest, CleanerRec

LEMMA CleanDone ==
    ASSUME FaceInv, CleanerStep \/ KillCleaner
    PROVE  FaceStep
<1> USE RowsArePositive
<1>0. FaceTables /\ FaceWorld /\ FaceCleaner /\ UNCHANGED calls
  BY DEF FaceInv, CleanerStep, KillCleaner, DeleteImage, DeleteSession, FinishCleanup
<1>1. CASE DeleteImage
  <2>1. PICK pc \in {"provider", "done", "failed"} : cleaner' = [cleaner EXCEPT !.pc = pc] /\ cleaner.pc # "idle"
    BY <1>1 DEF DeleteImage
  <2>2. FaceTables' /\ Stays /\ ImagesHeld
    <3>1. CASE UNCHANGED images
      BY <1>0, <1>1, <3>1, TablesSame DEF DeleteImage, tables
    <3>2. CASE images' = images \ {cleaner.path}
      BY <1>0, <1>1, <3>2, ImageGone DEF DeleteImage
    <3> QED
      BY <1>1, <3>1, <3>2 DEF DeleteImage
  <2>3. FaceCleaner'
    BY <1>0, <2>1, <2>2, CleanerMoves
  <2>4. FaceWorld' /\ UNCHANGED verified
    BY <1>0, <1>1, WorldSame DEF DeleteImage
  <2> QED
    BY <1>0, <2>2, <2>3, <2>4, AsideGoes
<1>2. CASE DeleteSession
  <2>1. PICK pc \in {"done", "failed"} : cleaner' = [cleaner EXCEPT !.pc = pc] /\ cleaner.pc # "idle"
    BY <1>2 DEF DeleteSession
  <2>2. FaceTables' /\ Stays /\ ImagesHeld
    BY <1>0, <1>2, TablesSame DEF DeleteSession
  <2>3. FaceCleaner'
    BY <1>0, <2>1, <2>2, CleanerMoves
  <2>4. FaceWorld'
    BY <1>0, <1>2 DEF DeleteSession, FaceWorld
  <2>5. UNCHANGED verified
    BY <1>2 DEF DeleteSession, tables
  <2> QED
    BY <1>0, <2>2, <2>3, <2>4, <2>5, AsideGoes
<1>3. CASE FinishCleanup
  <2>1. /\ cleaner.pc \in {"done", "failed"} /\ cleaner' = AtRest
        /\ UNCHANGED <<rows, verified, images, refused>> /\ UNCHANGED <<consented, clock, hooks, prov>>
    BY <1>3 DEF FinishCleanup
  <2>2. PICK r \in Rows, st \in {"done", "failed"} : r = cleaner.r /\ st = cleaner.pc
    BY <1>0, <2>1 DEF FaceCleaner
  <2>3. PICK n \in Nat : n = queue[r].tries + 1
    BY ItemFacts DEF ItemRec
  <2>4. PICK q \in ItemRec : q = queue[r]
    BY ItemFacts
  <2>5. PICK item : item = [q EXCEPT !.st = st, !.tries = n, !.leased = FALSE]
    OBVIOUS
  <2>6. item \in ItemRec /\ item.path = queue[r].path /\ queue' = [queue EXCEPT ![r] = item]
    <3>1. item \in ItemRec /\ item.path = queue[r].path
      BY <2>2, <2>3, <2>4, <2>5 DEF ItemRec
    <3> QED
      BY <1>3, <2>2, <2>3, <2>4, <2>5, <3>1, ItemFacts DEF FinishCleanup
  <2>7. queue' \in [Rows -> ItemRec] /\ \A x \in Rows : queue'[x].path \in {0, queue[x].path}
    BY <2>6, ItemFacts
  <2>8. FaceTables' /\ Stays /\ ImagesHeld
    BY <1>0, <2>1, <2>7, QueueKept
  <2>9. FaceWorld' /\ FaceCleaner'
    BY <1>0, <2>1, WorldSame, RestingCleaner DEF FaceCleaner
  <2> QED
    BY <1>0, <2>1, <2>8, <2>9, AsideGoes
<1>4. CASE KillCleaner
  <2>1. UNCHANGED tables /\ UNCHANGED <<consented, clock, hooks, prov>> /\ cleaner' = AtRest
    BY <1>4 DEF KillCleaner
  <2>2. FaceTables' /\ Stays /\ ImagesHeld
    BY <1>0, <2>1, TablesSame
  <2>3. FaceWorld' /\ FaceCleaner'
    BY <1>0, <2>1, WorldSame, RestingCleaner DEF FaceCleaner
  <2>4. UNCHANGED verified
    BY <2>1 DEF tables
  <2> QED
    BY <1>0, <2>2, <2>3, <2>4, AsideGoes
<1> QED
  BY <1>1, <1>2, <1>3, <1>4 DEF CleanerStep

\* What only the provider, the user's consent or nobody changes.
LEMMA WorldDone ==
    ASSUME FaceInv, recordConsent \/ (\E s \in Sessions : Decide(s)) \/ UNCHANGED vars
    PROVE  FaceStep
<1>0. FaceTables /\ FaceWorld /\ FaceCleaner /\ UNCHANGED tables /\ UNCHANGED calls /\ UNCHANGED cleaner
  BY DEF FaceInv, recordConsent, Decide, vars
<1>1. FaceTables' /\ Stays /\ ImagesHeld
  BY <1>0, TablesSame
<1>2. FaceCleaner'
  BY <1>0, <1>1, CleanerStays
<1>3. FaceWorld'
  <2>1. CASE recordConsent \/ UNCHANGED vars
    BY <1>0, <2>1 DEF recordConsent, vars, FaceWorld
  <2>2. CASE \E s \in Sessions : Decide(s)
    <3>1. PICK s \in Sessions, v \in Verdicts :
             /\ prov' = [prov EXCEPT ![s] = v]
             /\ hooks' = hooks \cup {[sess |-> s, said |-> v.said, at |-> EventAt(clock + 1)]}
             /\ clock' = clock + 1 /\ UNCHANGED consented
      BY <2>2 DEF Decide
    <3>2. v \in Verdict
      BY FaceBounds
    <3>3. PICK said \in Said, at \in Nat : said = v.said /\ at = EventAt(clock + 1)
      BY <1>0, <3>2 DEF Verdict, EventAt, FaceWorld
    <3>4. hooks' \subseteq HookRec
      BY <1>0, <3>1, <3>3 DEF HookRec, FaceWorld
    <3> QED
      BY <1>0, <3>1, <3>2, <3>4 DEF FaceWorld
  <2> QED
    BY <2>1, <2>2
<1>4. UNCHANGED verified
  BY <1>0 DEF tables
<1> QED
  BY <1>0, <1>1, <1>2, <1>3, <1>4, AsideGoes

LEMMA FaceStepAll == FaceInv /\ [Next]_vars => FaceStep
<1> SUFFICES ASSUME FaceInv, [Next]_vars PROVE FaceStep
  OBVIOUS
<1>1. ASSUME NEW c \in Calls, Request(c) PROVE FaceStep
  BY <1>1, StartDone, SyncDone, HookDone, ReviewRead DEF Request
<1>2. ASSUME NEW c \in Calls, HandlerStep(c) PROVE FaceStep
  BY <1>2, BeginDone, SupersedeDone, CreateDone, LookupDone, ReopenDone, AttachDone, MiddleDone, MarkHookDone,
     RepairDone, DecisionDone, ApplyDone, CloseDone, ImageDone, StoreOutcomeDone, ApproveDone, ReviewDone
  DEF HandlerStep
<1>3. ASSUME NEW r \in Rows, Age(r) \/ ClaimCleanup(r) \/ LeaseLapses(r) PROVE FaceStep
  <2>1. CASE Age(r)
    BY <2>1, AgeDone
  <2>2. CASE ClaimCleanup(r)
    BY <2>2, QueueClaimed
  <2>3. CASE LeaseLapses(r)
    BY <2>3, LapseDone
  <2> QED
    BY <1>3, <2>1, <2>2, <2>3
<1> QED
  BY <1>1, <1>2, <1>3, KillDone, CleanDone, WorldDone DEF Next

LEMMA FaceInductive == Spec => []FaceInv
<1>1. FaceInv /\ [Next]_vars => FaceInv'
  BY FaceStepAll DEF FaceStep
<1> QED
  BY <1>1, FaceStart, PTL DEF Spec

\* The user's flag stands on an approved row whose liveness passed and whose image is
\* kept, and one row at most is approved: face_liveness_approve, the repair, the
\* operator's review and the clean-up of images keep that in every interleaving.
THEOREM FlagHasItsRow == Spec => []FlagIsBacked
<1>1. FaceInv => FlagIsBacked
  BY RowsArePositive DEF FaceInv, FaceTables, FaceRows, FaceFlag, RowOK, FlagIsBacked
<1> QED
  BY <1>1, FaceInductive, PTL

\* An approval and the user's flag are taken back by no event, review or clean-up.
THEOREM ApprovalsStand == Spec => ApprovalKept
<1>1. FaceInv /\ [Next]_vars
      => [ /\ verified => verified'
           /\ \A r \in Rows : rows[r].st = "approved" =>
                rows'[r].st = "approved" /\ rows'[r].sess = rows[r].sess ]_vars
  BY FaceStepAll DEF FaceStep, Stays
<1>2. Spec => []FaceInv
  BY FaceInductive, PTL
<1> QED
  BY <1>1, <1>2, PTL DEF Spec, ApprovalKept
=============================================================================
