------------------------------- MODULE GateProofs -------------------------------
(***************************************************************************)
(* What BetaInvites, AdminMembers, SmsOtp and AdminLogin promise, for any  *)
(* number of users, codes, operators, sessions, requests, forms and        *)
(* transactions at once.                                                   *)
(***************************************************************************)
EXTENDS BetaInvites, AdminMembers, SmsOtp, AdminLogin, FiniteSetTheorems, TLAPS

(***************************************************************************)
(* Invitations.  A redemption that was accepted under the lock of its code *)
(* still has a use of the code left when it commits, because no other one  *)
(* of that code gets so far before it.  An account that was written, and   *)
(* an entry of the list that was locked, belong to one transaction; so an  *)
(* account that was won is still free, and an entry that is held waits.    *)
(***************************************************************************)
CodeRec == [made : BOOLEAN, active : BOOLEAN, expired : BOOLEAN, used : Nat]
RedeemRec == [pc : {"idle", "lock", "write", "settle", "commit", "join"}, user : Users \cup {NoOne},
              code : Codes \cup {NoOne}, late : BOOLEAN, won : BOOLEAN, settles : BOOLEAN]
BatchRec == [pc : {"idle", "pick", "write"}, room : Nat, chosen : SUBSET Users, done : SUBSET Users]

InvitesTypeOK ==
    /\ users \in [Users -> Codes \cup Cohorts \cup {NoOne}]
    /\ codes \in [Codes -> CodeRec]
    /\ list \in [Users -> {"none", "waiting", "admitted"}]
    /\ tx \in [Calls -> RedeemRec]
    /\ batch \in [Cohorts -> BatchRec]

Holders(c) == {u \in Users : users[u] = c}

\* What a call at a step has at hand.
CallFits(w) ==
    /\ w.pc # "idle" => w.user \in Users
    /\ w.pc \in {"lock", "write", "settle", "commit"} => w.code \in Codes
    /\ w.won => w.pc \in {"settle", "commit"}
    /\ w.settles => w.pc = "commit"
CallsFit == \A k \in Calls : CallFits(tx[k])

Took(w) == w.pc \in {"write", "settle", "commit"}
UseLeft == \A k \in Calls : Took(tx[k]) => codes[tx[k].code].made /\ codes[tx[k].code].used < MaxUses
OneOfACode ==
    \A j, k \in Calls : Took(tx[j]) /\ Took(tx[k]) /\ tx[j].code = tx[k].code => j = k

\* The accounts: who won one, or has written it for the list, is alone with it.
WonIsFree == \A k \in Calls : tx[k].won => users[tx[k].user] = NoOne
WonAlone ==
    \A k \in Calls : tx[k].won =>
        /\ \A j \in Calls : tx[j].won /\ tx[j].user = tx[k].user => j = k
        /\ \A h \in Cohorts : tx[k].user \notin batch[h].done

\* The entries of the list: who holds one is alone with it, and it waits.
SettlesAlone ==
    \A k \in Calls : tx[k].settles =>
        /\ list[tx[k].user] = "waiting"
        /\ \A j \in Calls : tx[j].settles /\ tx[j].user = tx[k].user => j = k
        /\ \A h \in Cohorts : tx[k].user \notin batch[h].chosen
ChosenAlone ==
    \A h \in Cohorts :
        /\ batch[h].done \subseteq batch[h].chosen
        /\ \A u \in batch[h].chosen : list[u] = "waiting"
        /\ \A g \in Cohorts \ {h} : batch[g].chosen \cap batch[h].chosen = {}

RowsTaken == WonIsFree /\ WonAlone /\ SettlesAlone /\ ChosenAlone
Redemption == InvitesTypeOK /\ CallsFit /\ UseLeft /\ OneOfACode /\ RowsTaken /\ InvitesInv

\* The set of those who came in by a code is finite, and one more is at most one more.
LEMMA HoldersFinite == \A c : IsFiniteSet(Holders(c)) /\ Cardinality(Holders(c)) \in Nat
<1> TAKE c
<1>1. Holders(c) \subseteq Users
  BY DEF Holders
<1> QED
  BY <1>1, InvitesAssumption, FS_Subset, FS_CardinalityType DEF InvitesAssumption

LEMMA OneMore ==
    ASSUME NEW S, IsFiniteSet(S), NEW x, NEW T, T \subseteq S \cup {x}
    PROVE  Cardinality(T) <= Cardinality(S) + 1
<1>1. /\ IsFiniteSet(S \cup {x})
      /\ x \in S => Cardinality(S \cup {x}) = Cardinality(S)
      /\ x \notin S => Cardinality(S \cup {x}) = Cardinality(S) + 1
  BY FS_AddElement
<1>2. Cardinality(S) \in Nat /\ Cardinality(S \cup {x}) <= Cardinality(S) + 1
  BY <1>1, FS_CardinalityType
<1>3. Cardinality(T) <= Cardinality(S \cup {x}) /\ Cardinality(T) \in Nat /\ Cardinality(S \cup {x}) \in Nat
  BY <1>1, FS_Subset, FS_CardinalityType
<1> QED
  BY <1>2, <1>3

LEMMA RedemptionInit == InvitesInit => Redemption
<1> SUFFICES ASSUME InvitesInit PROVE Redemption
  OBVIOUS
<1>1. \A c \in Codes : Holders(c) = {}
  BY InvitesAssumption DEF InvitesInit, Holders, InvitesAssumption
<1>2. \A c \in Codes : Cardinality(Holders(c)) = 0
  BY <1>1, FS_EmptySet
<1>3. InvitesInv
  BY <1>2, InvitesAssumption DEF InvitesInit, InvitesInv, Holders, InvitesAssumption
<1>4. InvitesTypeOK
  BY DEF InvitesInit, InvitesTypeOK, NoCall, NoBatch, CodeRec, RedeemRec, BatchRec
<1>5. CallsFit /\ UseLeft /\ OneOfACode
  BY DEF InvitesInit, CallsFit, CallFits, UseLeft, OneOfACode, Took, NoCall
<1>6. RowsTaken
  BY DEF InvitesInit, RowsTaken, WonIsFree, WonAlone, SettlesAlone, ChosenAlone, NoCall, NoBatch
<1> QED
  BY <1>3, <1>4, <1>5, <1>6 DEF Redemption

\* A call goes on: it takes a code that nobody has and that has a use left, an
\* account that is free and nobody's, or an entry that waits and nobody holds.
LEMMA CallGoesOn ==
    ASSUME Redemption, NEW k \in Calls, NEW w \in RedeemRec, CallFits(w),
           tx' = [tx EXCEPT ![k] = w], UNCHANGED <<users, codes, list, batch>>,
           Took(w) => \/ Took(tx[k]) /\ tx[k].code = w.code
                      \/ /\ \A j \in Calls : ~(Took(tx[j]) /\ tx[j].code = w.code)
                         /\ codes[w.code].made /\ codes[w.code].used < MaxUses,
           w.won => \/ tx[k].won /\ tx[k].user = w.user
                    \/ users[w.user] = NoOne /\ ~AccountHeld(w.user),
           w.settles => list[w.user] = "waiting" /\ ~EntryHeld(w.user)
    PROVE  Redemption'
<1>1. /\ InvitesTypeOK /\ tx \in [Calls -> RedeemRec]
      /\ tx'[k] = w /\ \A j \in Calls \ {k} : tx'[j] = tx[j]
  BY DEF Redemption, InvitesTypeOK
<1>2. InvitesTypeOK' /\ InvitesInv'
  BY <1>1 DEF Redemption, InvitesTypeOK, InvitesInv
<1>3. CallsFit'
  BY <1>1 DEF Redemption, CallsFit, CallFits
<1>4. UseLeft' /\ OneOfACode'
  BY <1>1 DEF Redemption, UseLeft, OneOfACode, Took
<1>5. WonIsFree' /\ WonAlone'
  BY <1>1 DEF Redemption, RowsTaken, WonIsFree, WonAlone, AccountHeld
<1>6. SettlesAlone' /\ ChosenAlone'
  BY <1>1 DEF Redemption, RowsTaken, SettlesAlone, ChosenAlone, EntryHeld
<1> QED
  BY <1>2, <1>3, <1>4, <1>5, <1>6 DEF Redemption, RowsTaken

\* The steps of a call that write nothing others see
LEMMA CallsKeepRedemption ==
    ASSUME Redemption, NEW k \in Calls,
           \/ \E u \in Users : AskWaitlist(k, u) \/ \E c \in Codes : Ask(k, u, c)
           \/ CheckInvite(k) \/ WriteAccount(k) \/ SettleEntry(k) \/ Abort(k)
    PROVE  Redemption'
<1>1. /\ InvitesTypeOK /\ tx[k] \in RedeemRec /\ CallFits(tx[k]) /\ NoCall \in RedeemRec
      /\ CallFits(NoCall) /\ ~Took(NoCall) /\ ~NoCall.won /\ ~NoCall.settles
  BY DEF Redemption, InvitesTypeOK, CallsFit, CallFits, NoCall, RedeemRec, Took
<1>2. CASE \E u \in Users : AskWaitlist(k, u)
  <2> PICK u \in Users : AskWaitlist(k, u)
    BY <1>2
  <2> DEFINE w == [NoCall EXCEPT !.pc = "join", !.user = u]
  <2>1. w \in RedeemRec /\ CallFits(w) /\ ~Took(w) /\ ~w.won /\ ~w.settles
    BY DEF NoCall, RedeemRec, CallFits, Took
  <2>2. tx' = [tx EXCEPT ![k] = w] /\ UNCHANGED <<users, codes, list, batch>>
    BY DEF AskWaitlist, OnlyCalls
  <2> HIDE DEF w
  <2> QED
    BY <2>1, <2>2, CallGoesOn
<1>3. CASE \E u \in Users : \E c \in Codes : Ask(k, u, c)
  <2> PICK u \in Users, c \in Codes : Ask(k, u, c)
    BY <1>3
  <2> DEFINE w == IF Admitted(u) THEN NoCall
                  ELSE [NoCall EXCEPT !.pc = "lock", !.user = u, !.code = c, !.late = codes[c].expired]
  <2>1. codes[c].expired \in BOOLEAN
    BY <1>1 DEF InvitesTypeOK, CodeRec
  <2>2. w \in RedeemRec /\ CallFits(w) /\ ~Took(w) /\ ~w.won /\ ~w.settles
    BY <1>1, <2>1 DEF NoCall, RedeemRec, CallFits, Took
  <2>3. tx' = [tx EXCEPT ![k] = w] /\ UNCHANGED <<users, codes, list, batch>>
    BY DEF Ask, OnlyCalls
  <2> HIDE DEF w
  <2> QED
    BY <2>2, <2>3, CallGoesOn
<1>4. CASE CheckInvite(k)
  <2> DEFINE w == IF Acceptable(k) THEN [tx[k] EXCEPT !.pc = "write"] ELSE NoCall
  <2>1. tx[k].pc = "lock" /\ tx' = [tx EXCEPT ![k] = w] /\ UNCHANGED <<users, codes, list, batch>>
    BY <1>1, <1>4 DEF CheckInvite, OnlyCalls, Locks, InvitesTypeOK
  <2>2. w \in RedeemRec /\ CallFits(w) /\ ~w.won /\ ~w.settles
    BY <1>1, <2>1 DEF RedeemRec, CallFits
  <2>3. Took(w) => /\ Acceptable(k) /\ w.code = tx[k].code
                   /\ \A j \in Calls : ~(Took(tx[j]) /\ tx[j].code = w.code)
    BY <1>1, <1>4 DEF CheckInvite, Locks, HasCode, Took, RedeemRec
  <2>4. Took(w) => codes[w.code].made /\ codes[w.code].used < MaxUses
    BY <2>3 DEF Acceptable
  <2> HIDE DEF w
  <2> QED
    BY <2>1, <2>2, <2>3, <2>4, CallGoesOn
<1>5. CASE WriteAccount(k)
  <2> DEFINE w == [tx[k] EXCEPT !.pc = "settle", !.won = ~Admitted(tx[k].user)]
  <2>1. tx[k].pc = "write" /\ tx' = [tx EXCEPT ![k] = w] /\ UNCHANGED <<users, codes, list, batch>>
    BY <1>1, <1>5 DEF WriteAccount, OnlyCalls, InvitesTypeOK
  <2>2. Admitted(tx[k].user) \in BOOLEAN
    BY DEF Admitted
  <2>3. w \in RedeemRec /\ CallFits(w) /\ ~w.settles /\ Took(tx[k]) /\ tx[k].code = w.code
    BY <1>1, <2>1, <2>2 DEF RedeemRec, CallFits, Took
  <2>4. w.won => users[w.user] = NoOne /\ ~AccountHeld(w.user)
    BY <1>1, <1>5 DEF WriteAccount, Admitted, RedeemRec
  <2> HIDE DEF w
  <2> QED
    BY <2>1, <2>3, <2>4, CallGoesOn
<1>6. CASE SettleEntry(k)
  <2> DEFINE w == [tx[k] EXCEPT !.pc = "commit", !.settles = (list[tx[k].user] = "waiting")]
  <2>1. tx[k].pc = "settle" /\ tx' = [tx EXCEPT ![k] = w] /\ UNCHANGED <<users, codes, list, batch>>
    BY <1>1, <1>6 DEF SettleEntry, OnlyCalls, InvitesTypeOK
  <2>2. w \in RedeemRec /\ CallFits(w) /\ Took(tx[k]) /\ tx[k].code = w.code
    BY <1>1, <2>1 DEF RedeemRec, CallFits, Took
  <2>3. w.user = tx[k].user /\ w.won = tx[k].won
    BY <1>1 DEF RedeemRec
  <2>4. w.settles => list[w.user] = "waiting" /\ ~EntryHeld(w.user)
    BY <1>1, <1>6 DEF SettleEntry, RedeemRec
  <2> HIDE DEF w
  <2> QED
    BY <2>1, <2>2, <2>3, <2>4, CallGoesOn
<1>7. CASE Abort(k)
  <2>1. tx' = [tx EXCEPT ![k] = NoCall] /\ UNCHANGED <<users, codes, list, batch>>
    BY <1>7 DEF Abort, OnlyCalls
  <2> QED
    BY <1>1, <2>1, CallGoesOn
<1> QED
  BY <1>2, <1>3, <1>4, <1>5, <1>6, <1>7

\* Who joins the list waits unless there is an entry; what is held is left alone.
LEMMA JoinKeepsRedemption ==
    ASSUME Redemption, NEW k \in Calls, Join(k)
    PROVE  Redemption'
<1> DEFINE u == tx[k].user
<1>1. /\ InvitesTypeOK /\ tx[k].pc = "join" /\ u \in Users /\ NoCall \in RedeemRec
      /\ tx' = [tx EXCEPT ![k] = NoCall] /\ UNCHANGED <<users, codes, batch>>
      /\ list' = [list EXCEPT ![u] = IF @ = "none" THEN "waiting" ELSE @]
  BY DEF Redemption, InvitesTypeOK, CallsFit, CallFits, Join, NoCall, RedeemRec
<1>2. /\ tx'[k] = NoCall /\ \A j \in Calls \ {k} : tx'[j] = tx[j]
      /\ \A v \in Users : list[v] = "waiting" => list'[v] = "waiting"
  BY <1>1 DEF InvitesTypeOK
<1>3. InvitesTypeOK'
  BY <1>1 DEF InvitesTypeOK
<1>4. InvitesInv'
  BY <1>1 DEF Redemption, InvitesInv
<1>5. CallsFit' /\ UseLeft' /\ OneOfACode' /\ WonIsFree' /\ WonAlone'
  BY <1>1, <1>2 DEF Redemption, CallsFit, CallFits, UseLeft, OneOfACode, RowsTaken, WonIsFree, WonAlone, Took, NoCall
<1>6. SettlesAlone'
  <2> SUFFICES ASSUME NEW j \in Calls, tx'[j].settles
               PROVE  /\ list'[tx'[j].user] = "waiting"
                      /\ \A i \in Calls : tx'[i].settles /\ tx'[i].user = tx'[j].user => i = j
                      /\ \A h \in Cohorts : tx'[j].user \notin batch'[h].chosen
    BY DEF SettlesAlone
  <2>1. j # k /\ tx'[j] = tx[j] /\ tx[j].user \in Users
    BY <1>2 DEF Redemption, CallsFit, CallFits, NoCall
  <2> QED
    BY <1>1, <1>2, <2>1 DEF Redemption, RowsTaken, SettlesAlone, NoCall
<1>7. ChosenAlone'
  BY <1>1, <1>2 DEF Redemption, RowsTaken, ChosenAlone, InvitesTypeOK, BatchRec
<1> QED
  BY <1>3, <1>4, <1>5, <1>6, <1>7 DEF Redemption, RowsTaken

\* The commit counts the use it had checked, and lets in one user by its code.
LEMMA CommitKeepsRedemption ==
    ASSUME Redemption, NEW k \in Calls, Commit(k)
    PROVE  Redemption'
<1> DEFINE u == tx[k].user
           c == tx[k].code
<1>1. /\ u \in Users /\ c \in Codes /\ codes[c].made /\ codes[c].used < MaxUses
      /\ InvitesTypeOK /\ tx[k] \in RedeemRec /\ NoCall \in RedeemRec
  BY DEF Redemption, CallsFit, CallFits, UseLeft, Commit, Took, InvitesTypeOK, NoCall, RedeemRec
<1>2. /\ users' = [users EXCEPT ![u] = IF tx[k].won THEN c ELSE @]
      /\ codes' = [codes EXCEPT ![c].used = @ + 1]
      /\ tx' = [tx EXCEPT ![k] = NoCall]
      /\ list' = [list EXCEPT ![u] = IF tx[k].settles THEN "admitted" ELSE @]
      /\ tx[k].pc = "commit" /\ batch' = batch
  BY DEF Commit
<1>3. /\ tx'[k] = NoCall /\ \A j \in Calls \ {k} : tx'[j] = tx[j]
      /\ \A v \in Users : v # u => users'[v] = users[v] /\ list'[v] = list[v]
      /\ ~tx[k].won => users'[u] = users[u]
      /\ ~tx[k].settles => list'[u] = list[u]
  BY <1>1, <1>2 DEF InvitesTypeOK
<1>4. InvitesTypeOK'
  <2>1. users' \in [Users -> Codes \cup Cohorts \cup {NoOne}]
    BY <1>1, <1>2 DEF InvitesTypeOK
  <2>2. codes' \in [Codes -> CodeRec]
    <3>1. \A r \in CodeRec : [r EXCEPT !.used = @ + 1] \in CodeRec
      BY DEF CodeRec
    <3> QED
      BY <1>1, <1>2, <3>1 DEF InvitesTypeOK
  <2>3. list' \in [Users -> {"none", "waiting", "admitted"}]
    BY <1>1, <1>2 DEF InvitesTypeOK
  <2> QED
    BY <1>1, <1>2, <2>1, <2>2, <2>3 DEF InvitesTypeOK
<1>5. CallsFit' /\ OneOfACode'
  BY <1>3 DEF Redemption, CallsFit, CallFits, OneOfACode, NoCall, Took
<1>6. UseLeft'
  <2> SUFFICES ASSUME NEW j \in Calls, Took(tx'[j])
               PROVE  codes'[tx'[j].code].made /\ codes'[tx'[j].code].used < MaxUses
    BY DEF UseLeft
  <2>1. j # k /\ tx'[j] = tx[j] /\ Took(tx[j])
    BY <1>3 DEF NoCall, Took
  <2>2. Took(tx[k])
    BY <1>2 DEF Took
  <2>3. tx[j].code # c /\ tx[j].code \in Codes
    BY <2>1, <2>2 DEF Redemption, OneOfACode, CallsFit, CallFits, Took
  <2>4. codes'[tx[j].code] = codes[tx[j].code]
    BY <1>1, <1>2, <2>3 DEF InvitesTypeOK
  <2> QED
    BY <2>1, <2>4 DEF Redemption, UseLeft
<1>7. WonIsFree' /\ WonAlone'
  BY <1>2, <1>3 DEF Redemption, RowsTaken, WonIsFree, WonAlone, CallsFit, CallFits, NoCall
<1>8. SettlesAlone' /\ ChosenAlone'
  BY <1>2, <1>3 DEF Redemption, RowsTaken, SettlesAlone, ChosenAlone, CallsFit, CallFits, NoCall, InvitesTypeOK, BatchRec
<1>9. ASSUME NEW d \in Codes
      PROVE  /\ codes'[d].used <= MaxUses
             /\ Cardinality(Holders(d)') <= codes'[d].used
             /\ codes'[d].used > 0 => codes'[d].made
  <2>1. /\ codes[d].used \in Nat /\ MaxUses \in Nat
        /\ codes[d].used <= MaxUses /\ Cardinality(Holders(d)) <= codes[d].used
        /\ codes[d].used > 0 => codes[d].made
    BY InvitesAssumption DEF Redemption, InvitesTypeOK, CodeRec, InvitesInv, Holders, InvitesAssumption
  <2>2. CASE d = c
    <3>1. Holders(d)' \subseteq Holders(d) \cup {u}
      BY <1>1, <1>2 DEF Redemption, InvitesTypeOK, Holders
    <3>2. Cardinality(Holders(d)') <= Cardinality(Holders(d)) + 1
      BY <3>1, OneMore, HoldersFinite
    <3>3. codes'[d].used = codes[d].used + 1 /\ codes'[d].made = codes[d].made
      BY <1>1, <1>2, <2>2 DEF Redemption, InvitesTypeOK, CodeRec
    <3>4. Cardinality(Holders(d)) \in Nat /\ Cardinality(Holders(d)') \in Nat
      <4>1. IsFiniteSet(Holders(d)')
        BY <3>1, HoldersFinite, FS_AddElement, FS_Subset
      <4> QED
        BY <4>1, HoldersFinite, FS_CardinalityType
    <3> QED
      BY <1>1, <2>1, <2>2, <3>2, <3>3, <3>4
  <2>3. CASE d # c
    <3>1. Holders(d)' \subseteq Holders(d)
      BY <1>1, <1>2, <2>3 DEF InvitesTypeOK, Holders
    <3>2. codes'[d] = codes[d]
      BY <1>1, <1>2, <2>3 DEF InvitesTypeOK
    <3>3. Cardinality(Holders(d)') <= Cardinality(Holders(d)) /\ Cardinality(Holders(d)') \in Nat
      BY <3>1, HoldersFinite, FS_Subset, FS_CardinalityType
    <3> QED
      BY <2>1, <3>2, <3>3, HoldersFinite
  <2> QED
    BY <2>2, <2>3
<1>10. InvitesInv'
  BY <1>9 DEF InvitesInv, Holders
<1> QED
  BY <1>4, <1>5, <1>6, <1>7, <1>8, <1>10 DEF Redemption, RowsTaken

\* A batch goes on: it takes entries that wait and are nobody's, and writes accounts
\* that nobody has written.
LEMMA BatchGoesOn ==
    ASSUME Redemption, NEW h \in Cohorts, NEW b \in BatchRec,
           batch' = [batch EXCEPT ![h] = b], UNCHANGED <<users, codes, list, tx>>,
           b.done \subseteq b.chosen,
           \A u \in b.chosen : u \in batch[h].chosen \/ (list[u] = "waiting" /\ ~EntryHeld(u)),
           \A u \in b.done : u \in batch[h].done \/ ~AccountHeld(u)
    PROVE  Redemption'
<1>1. /\ InvitesTypeOK /\ batch'[h] = b /\ \A g \in Cohorts \ {h} : batch'[g] = batch[g]
  BY DEF Redemption, InvitesTypeOK
<1>2. InvitesTypeOK' /\ InvitesInv' /\ CallsFit' /\ UseLeft' /\ OneOfACode'
  BY <1>1 DEF Redemption, InvitesTypeOK, InvitesInv, CallsFit, CallFits, UseLeft, OneOfACode, Took
<1>3. WonIsFree' /\ WonAlone'
  BY <1>1 DEF Redemption, RowsTaken, WonIsFree, WonAlone, AccountHeld
<1>4. SettlesAlone'
  BY <1>1 DEF Redemption, RowsTaken, SettlesAlone, EntryHeld
<1>5. ChosenAlone'
  BY <1>1 DEF Redemption, RowsTaken, ChosenAlone, EntryHeld
<1> QED
  BY <1>2, <1>3, <1>4, <1>5 DEF Redemption, RowsTaken

\* What a batch admits held its entries, which nobody else did.
LEMMA AdmitKeepsRedemption ==
    ASSUME Redemption, NEW h \in Cohorts, AdmitChosen(h)
    PROVE  Redemption'
<1> DEFINE D == batch[h].done
<1>1. /\ InvitesTypeOK /\ NoBatch \in BatchRec /\ D \subseteq batch[h].chosen /\ D \subseteq Users
      /\ users' = [u \in Users |-> IF u \in D THEN h ELSE users[u]]
      /\ list' = [u \in Users |-> IF u \in D THEN "admitted" ELSE list[u]]
      /\ batch' = [batch EXCEPT ![h] = NoBatch] /\ UNCHANGED <<codes, tx>>
  BY DEF Redemption, RowsTaken, ChosenAlone, InvitesTypeOK, AdmitChosen, NoBatch, BatchRec
<1>2. batch'[h] = NoBatch /\ \A g \in Cohorts \ {h} : batch'[g] = batch[g]
  BY <1>1 DEF InvitesTypeOK
<1> HIDE DEF D
<1>3. InvitesTypeOK'
  BY <1>1 DEF InvitesTypeOK
<1>4. CallsFit' /\ UseLeft' /\ OneOfACode'
  BY <1>1 DEF Redemption, CallsFit, CallFits, UseLeft, OneOfACode, Took
<1>5. WonIsFree'
  BY <1>1 DEF Redemption, RowsTaken, WonIsFree, WonAlone, CallsFit, CallFits, D
<1>6. WonAlone'
  BY <1>1, <1>2 DEF Redemption, RowsTaken, WonAlone, NoBatch
<1>7. SettlesAlone'
  BY <1>1, <1>2 DEF Redemption, RowsTaken, SettlesAlone, NoBatch, CallsFit, CallFits
<1>8. ChosenAlone'
  BY <1>1, <1>2 DEF Redemption, RowsTaken, ChosenAlone, NoBatch, InvitesTypeOK, BatchRec
<1>9. InvitesInv'
  <2> SUFFICES ASSUME NEW c \in Codes PROVE Cardinality(Holders(c)') <= codes[c].used
    BY <1>1 DEF Redemption, InvitesInv, Holders
  <2>1. Holders(c)' \subseteq Holders(c)
    BY <1>1, InvitesAssumption DEF Holders, InvitesAssumption, InvitesTypeOK
  <2>2. Cardinality(Holders(c)') <= Cardinality(Holders(c)) /\ Cardinality(Holders(c)') \in Nat
    BY <2>1, HoldersFinite, FS_Subset, FS_CardinalityType
  <2>3. codes[c].used \in Nat /\ Cardinality(Holders(c)) <= codes[c].used
    BY <1>1 DEF Redemption, InvitesTypeOK, CodeRec, InvitesInv, Holders
  <2> QED
    BY <2>2, <2>3, HoldersFinite
<1> QED
  BY <1>3, <1>4, <1>5, <1>6, <1>7, <1>8, <1>9 DEF Redemption, RowsTaken

\* What the operators do waits for a code they disable, and admits by no code.
LEMMA OperatorsKeepRedemption ==
    ASSUME Redemption, OperatorNext
    PROVE  Redemption'
<1>1. InvitesTypeOK /\ NoBatch \in BatchRec /\ NoBatch.done = {} /\ NoBatch.chosen = {}
  BY DEF Redemption, InvitesTypeOK, NoBatch, BatchRec
<1>2. CASE \E c \in Codes : CreateInvite(c) \/ DisableInvite(c) \/ CodeRunsOut(c)
  <2> PICK c \in Codes : CreateInvite(c) \/ DisableInvite(c) \/ CodeRunsOut(c)
    BY <1>2
  <2>1. /\ InvitesTypeOK' /\ UNCHANGED <<users, list, tx, batch>>
        /\ \A d \in Codes : codes'[d].used = codes[d].used /\ (codes[d].made => codes'[d].made)
    <3>1. CASE CreateInvite(c)
      BY <1>1, <3>1 DEF InvitesTypeOK, CreateInvite, CodeRec
    <3>2. CASE DisableInvite(c)
      BY <1>1, <3>2 DEF InvitesTypeOK, DisableInvite, CodeRec
    <3>3. CASE CodeRunsOut(c)
      BY <1>1, <3>3 DEF InvitesTypeOK, CodeRunsOut, CodeRec
    <3> QED
      BY <3>1, <3>2, <3>3
  <2>2. UseLeft'
    BY <2>1 DEF Redemption, UseLeft, CallsFit, CallFits, Took
  <2>3. RowsTaken' /\ CallsFit' /\ OneOfACode'
    BY <2>1 DEF Redemption, RowsTaken, WonIsFree, WonAlone, SettlesAlone, ChosenAlone, CallsFit, CallFits, OneOfACode, Took
  <2> QED
    BY <2>1, <2>2, <2>3 DEF Redemption, InvitesInv
<1>3. ASSUME NEW h \in Cohorts,
             \/ UpdateCohort(h) \/ AdmitWaitlist(h) \/ PickWaiting(h)
             \/ WriteChosen(h) \/ AdmitChosen(h) \/ AdmitAborts(h)
      PROVE  Redemption'
  <2>1. batch[h] \in BatchRec
    BY <1>1 DEF InvitesTypeOK
  <2>2. CASE UpdateCohort(h)
    BY <2>2 DEF UpdateCohort, Redemption, InvitesTypeOK, InvitesInv, CallsFit, CallFits, UseLeft, OneOfACode,
                Took, RowsTaken, WonIsFree, WonAlone, SettlesAlone, ChosenAlone
  <2>3. CASE AdmitWaitlist(h)
    <3> DEFINE n == Cardinality(InCohort(h))
               b == [NoBatch EXCEPT !.pc = "pick", !.room = IF n < Capacity THEN Capacity - n ELSE 0]
    <3>1. IsFiniteSet(InCohort(h)) /\ n \in Nat
      <4>1. InCohort(h) \subseteq Users
        BY DEF InCohort
      <4> QED
        BY <4>1, InvitesAssumption, FS_Subset, FS_CardinalityType DEF InvitesAssumption
    <3>2. batch' = [batch EXCEPT ![h] = b] /\ UNCHANGED <<users, codes, list, tx>>
      BY <2>3 DEF AdmitWaitlist
    <3> HIDE DEF n
    <3>3. (IF n < Capacity THEN Capacity - n ELSE 0) \in Nat
      BY <3>1, InvitesAssumption DEF InvitesAssumption
    <3>4. b \in BatchRec /\ b.chosen = {} /\ b.done = {}
      BY <3>3 DEF NoBatch, BatchRec
    <3> HIDE DEF b
    <3> QED
      BY <3>2, <3>4, BatchGoesOn
  <2>4. CASE PickWaiting(h)
    <3> PICK chosen \in SUBSET {u \in Users : list[u] = "waiting" /\ ~Admitted(u) /\ ~EntryHeld(u)} :
          batch' = [batch EXCEPT ![h] = [NoBatch EXCEPT !.pc = "write", !.chosen = chosen]]
      BY <2>4 DEF PickWaiting
    <3> DEFINE b == [NoBatch EXCEPT !.pc = "write", !.chosen = chosen]
    <3>1. b \in BatchRec /\ b.chosen = chosen /\ b.done = {}
      BY DEF NoBatch, BatchRec
    <3>2. batch' = [batch EXCEPT ![h] = b] /\ UNCHANGED <<users, codes, list, tx>>
      BY <2>4 DEF PickWaiting
    <3> HIDE DEF b
    <3> QED
      BY <3>1, <3>2, BatchGoesOn
  <2>5. CASE WriteChosen(h)
    <3> PICK u \in batch[h].chosen \ batch[h].done :
          ~AccountHeld(u) /\ batch' = [batch EXCEPT ![h].done = @ \cup {u}]
      BY <2>5 DEF WriteChosen
    <3> DEFINE b == [batch[h] EXCEPT !.done = @ \cup {u}]
    <3>1. /\ b \in BatchRec /\ b.chosen = batch[h].chosen /\ b.done = batch[h].done \cup {u}
          /\ batch[h].done \subseteq batch[h].chosen
      BY <2>1 DEF BatchRec, Redemption, RowsTaken, ChosenAlone
    <3>2. batch' = [batch EXCEPT ![h] = b] /\ UNCHANGED <<users, codes, list, tx>>
      BY <1>1, <2>5 DEF WriteChosen, InvitesTypeOK
    <3> HIDE DEF b
    <3> QED
      BY <3>1, <3>2, BatchGoesOn
  <2>6. CASE AdmitChosen(h)
    BY <2>6, AdmitKeepsRedemption
  <2>7. CASE AdmitAborts(h)
    BY <1>1, <2>7, BatchGoesOn DEF AdmitAborts
  <2> QED
    BY <1>3, <2>2, <2>3, <2>4, <2>5, <2>6, <2>7
<1> QED
  BY <1>2, <1>3 DEF OperatorNext

LEMMA RedemptionStep == Redemption /\ [InvitesNext]_invites => Redemption'
<1> SUFFICES ASSUME Redemption, [InvitesNext]_invites PROVE Redemption'
  OBVIOUS
<1>1. CASE UNCHANGED invites
  BY <1>1 DEF Redemption, invites, InvitesTypeOK, InvitesInv, CallsFit, CallFits, UseLeft, OneOfACode,
              Took, RowsTaken, WonIsFree, WonAlone, SettlesAlone, ChosenAlone
<1>2. ASSUME NEW k \in Calls, CallNext(k) PROVE Redemption'
  BY <1>2, CallsKeepRedemption, JoinKeepsRedemption, CommitKeepsRedemption DEF CallNext
<1> QED
  BY <1>1, <1>2, OperatorsKeepRedemption DEF InvitesNext

\* A code is used no oftener than it may be, and everybody who came in by it was
\* counted, for any number of redemptions at once (beta_redeem_invite of 0025).
THEOREM CodesAreCounted == InvitesSpec => []InvitesInv
<1>1. InvitesSpec => []Redemption
  BY RedemptionInit, RedemptionStep, PTL DEF InvitesSpec
<1>2. Redemption => InvitesInv
  BY DEF Redemption
<1> QED
  BY <1>1, <1>2, PTL

\* How somebody was admitted is never changed by a code, and by an admission from the
\* waiting list only where the entry still waits (beta_redeem_invite and
\* beta_admit_waitlist of 0025), for any number of codes, cohorts and calls at once.
THEOREM AdmissionsStand == InvitesSpec => AdmissionKept
<1> DEFINE Stands == \A u \in Users : Admitted(u) /\ users'[u] # users[u] =>
                       users'[u] \in Cohorts /\ list[u] = "waiting"
<1>1. InvitesSpec => []Redemption
  BY RedemptionInit, RedemptionStep, PTL DEF InvitesSpec
<1>2. Redemption /\ [InvitesNext]_invites => [Stands]_invites
  <2> SUFFICES ASSUME Redemption, InvitesNext PROVE Stands
    BY DEF invites
  <2>1. ASSUME NEW k \in Calls, CallNext(k) PROVE Stands
    <3>1. CASE Commit(k)
      BY <3>1 DEF Redemption, InvitesTypeOK, RowsTaken, WonIsFree, Commit, Admitted
    <3>2. CASE ~Commit(k)
      BY <2>1, <3>2 DEF CallNext, AskWaitlist, Ask, CheckInvite, WriteAccount, SettleEntry, Abort, Join, OnlyCalls
    <3> QED
      BY <3>1, <3>2
  <2>2. ASSUME NEW h \in Cohorts, AdmitChosen(h) PROVE Stands
    BY <2>2 DEF Redemption, RowsTaken, ChosenAlone, InvitesTypeOK, AdmitChosen
  <2>3. CASE OperatorNext /\ ~\E h \in Cohorts : AdmitChosen(h)
    BY <2>3 DEF OperatorNext, CreateInvite, DisableInvite, CodeRunsOut, UpdateCohort, AdmitWaitlist,
                PickWaiting, WriteChosen, AdmitAborts
  <2> QED
    BY <2>1, <2>2, <2>3 DEF InvitesNext
<1> HIDE DEF Stands
<1>3. InvitesSpec => [][Stands]_invites
  BY <1>1, <1>2, PTL DEF InvitesSpec
<1> QED
  BY <1>3 DEF AdmissionKept, Stands
-----------------------------------------------------------------------------
(***************************************************************************)
(* The operators.  Whoever is about to write a seat holds its row, so that *)
(* the seat is as it was read; the owners a transaction counted and locked *)
(* are still there when it commits; and what a session's operator had cut  *)
(* off is not later than the cut that is kept with the seat.               *)
(***************************************************************************)
OrderRec ==
    [pc : {"none", "owners", "lock", "seat", "write", "commit", "insert", "refer", "mark"},
     op : {"none", "bootstrap", "add", "role", "status", "revoke", "issue"},
     who : Operators \cup {Nobody},
     to : {"none", "owner", "viewer", "active", "disabled"},
     sid : Cookies \cup {Nobody},
     want : SUBSET Operators, seen : SUBSET Operators, cut : Nat,
     found : SUBSET Cookies, hit : SUBSET Cookies]

MembersTypeOK ==
    /\ now \in Nat
    /\ seats \in [Operators -> [role : {"none", "owner", "viewer"}, status : {"active", "disabled"}, cut : Nat]]
    /\ sessions \in [Cookies -> [of : Operators \cup {Nobody}, at : Nat, kept : BOOLEAN, revoked : BOOLEAN]]
    /\ orders \in [Orders -> OrderRec]
    /\ rowLocks \subseteq [s : Orders, row : Operators, mode : LockModes]
    /\ ended \subseteq Cookies

\* What an order is about; only the issue of a session has one at hand.
OrdersKnown ==
    \A t \in Orders :
        /\ orders[t].pc # "none" => orders[t].who \in Operators
        /\ orders[t].to = "disabled" => orders[t].op = "status"
        /\ orders[t].pc \in {"owners", "lock", "seat", "write", "commit"} => orders[t].op \notin {"none", "issue"}
        /\ orders[t].op \in {"add", "role"} => orders[t].to \in {"owner", "viewer"}
        /\ orders[t].op = "status" => orders[t].to \in {"active", "disabled"}
        /\ orders[t].sid # Nobody => orders[t].pc \in {"refer", "mark"} /\ sessions[orders[t].sid].of \in Operators
        /\ orders[t].pc \in {"refer", "mark"} => orders[t].sid # Nobody

\* Which step of which order holds a lock of a mode
LocksKnown ==
    \A l \in rowLocks :
        /\ orders[l.s].pc \in {"lock", "seat", "write", "commit", "mark"}
        /\ l.mode = "KeyShare" <=> orders[l.s].pc = "mark"
        /\ l.mode = "KeyShare" => l.row = orders[l.s].who
        /\ l.mode = "NoKeyUpdate" => orders[l.s].pc \in {"write", "commit"}

SeatMode(t) == IF orders[t].op = "revoke" THEN "NoKeyUpdate" ELSE "Update"

RowsHeld ==
    \A t \in Orders :
        /\ orders[t].pc \in {"write", "commit"} => Holds(rowLocks, t, orders[t].who, SeatMode(t))
        /\ orders[t].pc \in {"seat", "write", "commit"} =>
             \A o \in orders[t].want : Holds(rowLocks, t, o, "Update")

\* Cuts are of the past, and the one an order brings is not older than its seat's.
CutsOrdered ==
    /\ \A o \in Operators : seats[o].cut <= now
    /\ \A s \in Cookies : sessions[s].at <= now
    /\ \A t \in Orders : orders[t].pc \in {"write", "commit"} =>
         /\ seats[orders[t].who].cut <= orders[t].cut /\ orders[t].cut <= now
         /\ \A s \in orders[t].found :
              sessions[s].of = orders[t].who /\ sessions[s].at <= orders[t].cut

EndedAreCut ==
    /\ \A s \in Cookies : sessions[s].kept => sessions[s].of \in Operators
    /\ \A s \in ended :
         /\ sessions[s].of \in Operators
         /\ sessions[s].revoked \/ sessions[s].at <= seats[sessions[s].of].cut

\* The owner who leaves had counted another one.
OwnersStay ==
    \A t \in Orders :
        /\ orders[t].pc \in {"seat", "write", "commit"} /\ CountedLocked(t) =>
             orders[t].seen \subseteq ActiveOwners
        /\ orders[t].pc \in {"write", "commit"} /\ orders[t].op = "add" => seats[orders[t].who] = NoSeat
        /\ orders[t].pc \in {"write", "commit"} /\ orders[t].op \in {"role", "status"} => ~LastOwnerLeaves(t)

MembersInv ==
    /\ MembersTypeOK /\ Exclusive(rowLocks) /\ OrdersKnown /\ LocksKnown /\ RowsHeld
    /\ CutsOrdered /\ EndedAreCut /\ OwnersStay
LEMMA NoOrderTyped == NoOrder \in OrderRec /\ NoOrder.pc = "none"
BY DEF NoOrder, OrderRec

LEMMA MembersStart == AdminMembersInit => MembersInv
<1> SUFFICES ASSUME AdminMembersInit PROVE MembersInv
  OBVIOUS
<1>1. MembersTypeOK
  BY NoOrderTyped DEF AdminMembersInit, MembersTypeOK, NoSeat, Unused
<1>2. OrdersKnown /\ RowsHeld /\ OwnersStay
  BY DEF AdminMembersInit, OrdersKnown, RowsHeld, OwnersStay, NoOrder
<1>3. Exclusive(rowLocks) /\ LocksKnown
  BY DEF AdminMembersInit, Exclusive, LocksKnown
<1>4. CutsOrdered /\ EndedAreCut
  BY DEF AdminMembersInit, CutsOrdered, EndedAreCut, NoSeat, Unused, NoOrder
<1> QED
  BY <1>1, <1>2, <1>3, <1>4 DEF MembersInv

\* A lock that is granted conflicts with none; one that is given back, with none either.
LEMMA LocksExclude ==
    ASSUME NEW locks, NEW t, NEW o, NEW mode,
           locks \subseteq [s : Orders, row : Operators, mode : LockModes],
           Exclusive(locks)
    PROVE  /\ Grantable(locks, t, o, mode) => Exclusive(Grant(locks, t, o, mode))
           /\ Exclusive(ReleaseAll(locks, t))
<1>1. \A m, n : Conflict(m, n) <=> Conflict(n, m)
  BY DEF Conflict
<1>2. ASSUME Grantable(locks, t, o, mode),
             NEW k \in Grant(locks, t, o, mode), NEW l \in Grant(locks, t, o, mode),
             k.row = l.row, k.s # l.s
      PROVE  ~Conflict(k.mode, l.mode)
  BY <1>1, <1>2 DEF Grantable, Grant, Exclusive
<1>3. Exclusive(ReleaseAll(locks, t))
  BY DEF Exclusive, ReleaseAll
<1> QED
  BY <1>2, <1>3 DEF Exclusive

\* A transaction that ends takes nothing from the others.
LEMMA EndKeepsOthers ==
    ASSUME MembersInv, NEW t \in Orders, Done(t)
    PROVE  /\ orders' \in [Orders -> OrderRec]
           /\ rowLocks' \subseteq rowLocks
           /\ orders'[t] = NoOrder /\ \A u \in Orders \ {t} : orders'[u] = orders[u]
           /\ Exclusive(rowLocks)' /\ LocksKnown' /\ RowsHeld'
<1>1. /\ orders' \in [Orders -> OrderRec]
      /\ orders'[t] = NoOrder /\ \A u \in Orders \ {t} : orders'[u] = orders[u]
  BY NoOrderTyped DEF MembersInv, MembersTypeOK, Done
<1>2. rowLocks' = {l \in rowLocks : l.s # t}
  BY DEF Done, ReleaseAll
<1>3. Exclusive(rowLocks)'
  BY LocksExclude DEF MembersInv, MembersTypeOK, Done
<1>4. LocksKnown'
  BY <1>1, <1>2 DEF MembersInv, MembersTypeOK, LocksKnown
<1>5. RowsHeld'
  BY <1>1, <1>2 DEF MembersInv, RowsHeld, Holds, NoOrder, SeatMode
<1> QED
  BY <1>1, <1>2, <1>3, <1>4, <1>5

\* ... and what it leaves as it was stays right.
LEMMA EndKeepsMembers ==
    ASSUME MembersInv, NEW t \in Orders, Done(t), UNCHANGED <<now, seats, sessions, ended>>
    PROVE  MembersInv'
<1>1. MembersTypeOK'
  BY EndKeepsOthers DEF MembersInv, MembersTypeOK
<1>2. OrdersKnown'
  BY EndKeepsOthers DEF MembersInv, OrdersKnown, NoOrder
<1>3. CutsOrdered' /\ EndedAreCut'
  BY EndKeepsOthers DEF MembersInv, CutsOrdered, EndedAreCut, NoOrder
<1>4. OwnersStay'
  <2>1. ActiveOwners' = ActiveOwners
    BY DEF ActiveOwners, ActiveOwner
  <2> QED
    BY <2>1, EndKeepsOthers DEF MembersInv, OwnersStay, NoOrder, CountedLocked, LastOwnerLeaves, ActiveOwner
<1> QED
  BY <1>1, <1>2, <1>3, <1>4, EndKeepsOthers DEF MembersInv

\* A transaction that goes on without a lock, a seat or a session: what it must keep.
LEMMA GoesOnKeepsMembers ==
    ASSUME MembersInv, NEW t \in Orders, NEW order \in OrderRec,
           orders' = [orders EXCEPT ![t] = order],
           UNCHANGED <<now, seats, sessions, rowLocks, ended>>,
           order.pc # "none" => order.who \in Operators,
           order.to = "disabled" => order.op = "status",
           order.pc \in {"owners", "lock", "seat", "write", "commit"} => order.op \notin {"none", "issue"},
           order.op \in {"add", "role"} => order.to \in {"owner", "viewer"},
           order.op = "status" => order.to \in {"active", "disabled"},
           order.sid = Nobody, order.pc \notin {"refer", "mark"},
           orders[t].pc # "mark",
           orders[t].pc \in {"lock", "seat", "write", "commit"} => order.pc \in {"lock", "seat", "write", "commit"},
           orders[t].pc \in {"write", "commit"} => order.pc \in {"write", "commit"},
           order.pc \in {"write", "commit"} =>
               /\ orders[t].pc \in {"write", "commit"} /\ order.op = orders[t].op
               /\ order.who = orders[t].who /\ order.to = orders[t].to /\ order.cut = orders[t].cut
               /\ order.found = orders[t].found /\ order.seen = orders[t].seen
               /\ order.want = orders[t].want,
           order.pc \in {"seat", "write", "commit"} =>
               /\ \A o \in order.want : Holds(rowLocks, t, o, "Update")
               /\ order.seen \subseteq order.want => order.seen \subseteq ActiveOwners
    PROVE  MembersInv'
<1>1. orders'[t] = order /\ \A u \in Orders \ {t} : orders'[u] = orders[u]
  BY DEF MembersInv, MembersTypeOK
<1>2. MembersTypeOK'
  BY DEF MembersInv, MembersTypeOK
<1>3. OrdersKnown'
  BY <1>1 DEF MembersInv, OrdersKnown
<1>4. LocksKnown'
  BY <1>1 DEF MembersInv, MembersTypeOK, OrderRec, LocksKnown
<1>5. RowsHeld'
  BY <1>1 DEF MembersInv, RowsHeld, SeatMode, Holds
<1>6. CutsOrdered' /\ EndedAreCut'
  BY <1>1 DEF MembersInv, CutsOrdered, EndedAreCut
<1>7. OwnersStay'
  <2>1. ActiveOwners' = ActiveOwners
    BY DEF ActiveOwners, ActiveOwner
  <2> QED
    BY <1>1, <2>1 DEF MembersInv, OwnersStay, CountedLocked, LastOwnerLeaves, ActiveOwner
<1> QED
  BY <1>2, <1>3, <1>4, <1>5, <1>6, <1>7 DEF MembersInv

LEMMA AskKeepsMembers ==
    ASSUME MembersInv, NEW t \in Orders, NEW o \in Operators, Ask0033(t, o)
    PROVE  MembersInv'
<1>1. PICK op \in {"bootstrap", "add", "role", "status", "revoke", "issue"}, pc \in {"owners", "seat", "insert"},
           to \in {"none", "owner", "viewer", "active", "disabled"} :
        /\ Give(t, Order(op, pc, o, to))
        /\ to = "disabled" => op = "status"
        /\ op \in {"add", "role"} => to \in {"owner", "viewer"}
        /\ op = "status" => to \in {"active", "disabled"}
        /\ op = "issue" => pc = "insert"
  <2>1. CASE Bootstrap(t, o) \/ RevokeSessions(t, o) \/ IssueSession(t, o)
    BY <2>1 DEF Bootstrap, RevokeSessions, IssueSession
  <2>2. CASE \E role \in {"owner", "viewer"} : AddMember(t, o, role) \/ SetRole(t, o, role)
    BY <2>2 DEF AddMember, SetRole
  <2>3. CASE \E status \in {"active", "disabled"} : SetMemberStatus(t, o, status)
    BY <2>3 DEF SetMemberStatus
  <2> QED
    BY <2>1, <2>2, <2>3 DEF Ask0033
<1> DEFINE order == Order(op, pc, o, to)
<1>2. /\ order \in OrderRec /\ order.pc = pc /\ order.op = op /\ order.who = o /\ order.to = to
      /\ order.sid = Nobody /\ order.want = {} /\ order.seen = {}
  <2>1. order = [pc |-> pc, op |-> op, who |-> o, to |-> to, sid |-> Nobody,
                 want |-> {}, seen |-> {}, cut |-> 0, found |-> {}, hit |-> {}]
    BY DEF Order
  <2> HIDE DEF order
  <2> QED
    BY <2>1 DEF OrderRec
<1>3. /\ orders' = [orders EXCEPT ![t] = order] /\ orders[t].pc = "none"
      /\ UNCHANGED <<now, seats, sessions, rowLocks, ended>>
  BY <1>1 DEF Give, NoOrder
<1> HIDE DEF order
<1> QED
  BY <1>1, <1>2, <1>3, GoesOnKeepsMembers

\* FindOwners, CountOwners and HitSessions write nothing but their own order.
LEMMA CountKeepsMembers ==
    ASSUME MembersInv, NEW t \in Orders, FindOwners(t) \/ CountOwners(t) \/ HitSessions(t)
    PROVE  MembersInv'
<1> DEFINE old == orders[t]
<1>1. /\ old \in OrderRec /\ (old.pc \notin {"refer", "mark"} => old.sid = Nobody)
      /\ old.pc # "none" => old.who \in Operators
      /\ old.to = "disabled" => old.op = "status"
      /\ old.pc \in {"owners", "lock", "seat", "write", "commit"} => old.op \notin {"none", "issue"}
      /\ old.op \in {"add", "role"} => old.to \in {"owner", "viewer"}
      /\ old.op = "status" => old.to \in {"active", "disabled"}
  BY DEF MembersInv, MembersTypeOK, OrdersKnown
<1>2. ActiveOwners \subseteq Operators
  BY DEF ActiveOwners
<1>3. CASE FindOwners(t)
  <2> DEFINE order == [old EXCEPT !.pc = "lock", !.want = ActiveOwners]
  <2>1. /\ order \in OrderRec /\ order.pc = "lock" /\ order.op = old.op /\ order.who = old.who
        /\ order.to = old.to /\ order.sid = old.sid /\ old.pc = "owners"
    BY <1>1, <1>2, <1>3 DEF OrderRec, FindOwners
  <2>2. orders' = [orders EXCEPT ![t] = order] /\ UNCHANGED <<now, seats, sessions, rowLocks, ended>>
    BY <1>3 DEF FindOwners, MembersInv, MembersTypeOK
  <2> HIDE DEF order
  <2> QED
    BY <1>1, <2>1, <2>2, GoesOnKeepsMembers
<1>4. CASE CountOwners(t) /\ ~Done(t)
  <2> DEFINE order == [old EXCEPT !.pc = "seat", !.seen = ActiveOwners]
  <2>1. /\ order \in OrderRec /\ order.pc = "seat" /\ order.op = old.op /\ order.who = old.who
        /\ order.to = old.to /\ order.sid = old.sid /\ order.want = old.want
        /\ order.seen = ActiveOwners /\ old.pc = "lock"
    BY <1>1, <1>2, <1>4 DEF OrderRec, CountOwners
  <2>2. orders' = [orders EXCEPT ![t] = order] /\ UNCHANGED <<now, seats, sessions, rowLocks, ended>>
    BY <1>4 DEF CountOwners, MembersInv, MembersTypeOK
  <2>3. \A o \in old.want : Holds(rowLocks, t, o, "Update")
    BY <1>4 DEF CountOwners, Missing
  <2> HIDE DEF order
  <2> QED
    BY <1>1, <2>1, <2>2, <2>3, GoesOnKeepsMembers
<1>5. CASE CountOwners(t) /\ Done(t)
  BY <1>5, EndKeepsMembers DEF CountOwners
<1>6. CASE HitSessions(t)
  <2> PICK hit \in SUBSET Cookies : orders' = [orders EXCEPT ![t].pc = "commit", ![t].hit = hit]
    BY <1>6 DEF HitSessions
  <2> DEFINE order == [old EXCEPT !.pc = "commit", !.hit = hit]
  <2>1. /\ order \in OrderRec /\ order.pc = "commit" /\ order.op = old.op /\ order.who = old.who
        /\ order.to = old.to /\ order.sid = old.sid /\ order.want = old.want /\ order.seen = old.seen
        /\ order.cut = old.cut /\ order.found = old.found /\ old.pc = "write"
    BY <1>1, <1>6 DEF OrderRec, HitSessions
  <2>2. orders' = [orders EXCEPT ![t] = order] /\ UNCHANGED <<now, seats, sessions, rowLocks, ended>>
    BY <1>6 DEF HitSessions, MembersInv, MembersTypeOK
  <2>3. /\ \A o \in old.want : Holds(rowLocks, t, o, "Update")
        /\ old.seen \subseteq old.want => old.seen \subseteq ActiveOwners
    BY <2>1 DEF MembersInv, RowsHeld, OwnersStay, CountedLocked
  <2>4. order.sid = Nobody /\ (order.op \in {"add", "role"} => order.to \in {"owner", "viewer"})
        /\ (order.op = "status" => order.to \in {"active", "disabled"})
        /\ (order.to = "disabled" => order.op = "status") /\ order.op \notin {"none", "issue"}
        /\ order.who \in Operators
    BY <1>1, <2>1
  <2> HIDE DEF order
  <2> QED
    BY <2>1, <2>2, <2>3, <2>4, GoesOnKeepsMembers
<1> QED
  BY <1>3, <1>4, <1>5, <1>6

LEMMA LockKeepsMembers ==
    ASSUME MembersInv, NEW t \in Orders, NEW o \in Operators, LockOwner(t, o)
    PROVE  MembersInv'
<1>1. /\ rowLocks' = rowLocks \cup {[s |-> t, row |-> o, mode |-> "Update"]}
      /\ orders[t].pc = "lock" /\ UNCHANGED <<now, seats, sessions, orders, ended>>
  BY DEF LockOwner, Takes, Grant
<1>2. Exclusive(rowLocks)'
  BY LocksExclude DEF LockOwner, Takes, Free, MembersInv, MembersTypeOK
<1>3. MembersTypeOK'
  BY <1>1 DEF MembersInv, MembersTypeOK, LockModes
<1>4. OrdersKnown' /\ CutsOrdered' /\ EndedAreCut'
  BY <1>1 DEF MembersInv, OrdersKnown, CutsOrdered, EndedAreCut
<1>5. LocksKnown'
  BY <1>1 DEF MembersInv, LocksKnown
<1>6. RowsHeld'
  BY <1>1 DEF MembersInv, RowsHeld, SeatMode, Holds
<1>7. OwnersStay'
  BY <1>1 DEF MembersInv, OwnersStay, CountedLocked, LastOwnerLeaves, ActiveOwners, ActiveOwner
<1> QED
  BY <1>2, <1>3, <1>4, <1>5, <1>6, <1>7 DEF MembersInv

LEMMA TakeKeepsMembers ==
    ASSUME MembersInv, NEW t \in Orders, TakeSeat(t)
    PROVE  MembersInv'
<1> DEFINE old == orders[t]
           order == [old EXCEPT !.pc = "write", !.cut = now, !.found = {s \in Cookies : sessions[s].of = old.who}]
<1>1. CASE Done(t)
  BY <1>1, EndKeepsMembers DEF TakeSeat
<1>2. CASE ~Done(t)
  <2>1. /\ old.pc = "seat" /\ ~NothingToDo(t) /\ UNCHANGED <<now, seats, sessions, ended>>
        /\ Free(t, old.who, SeatMode(t)) /\ rowLocks' = Grant(rowLocks, t, old.who, SeatMode(t))
    BY <1>2 DEF TakeSeat, SeatMode
  <2>2. /\ orders' \in [Orders -> OrderRec] /\ orders'[t] = order
        /\ \A u \in Orders \ {t} : orders'[u] = orders[u]
    <3>1. orders' = [orders EXCEPT ![t] = order]
      BY <1>2 DEF TakeSeat, MembersInv, MembersTypeOK
    <3>2. order \in OrderRec
      <4>1. ASSUME NEW F \in SUBSET Cookies PROVE [old EXCEPT !.pc = "write", !.cut = now, !.found = F] \in OrderRec
        <5>1. old \in OrderRec /\ now \in Nat
          BY DEF MembersInv, MembersTypeOK
        <5> HIDE DEF old
        <5> QED
          BY <5>1 DEF OrderRec
      <4> QED
        BY <4>1
    <3> HIDE DEF order
    <3> QED
      BY <3>1, <3>2 DEF MembersInv, MembersTypeOK
  <2>3. /\ order.pc = "write" /\ order.cut = now
        /\ order.found = {s \in Cookies : sessions[s].of = old.who}
        /\ order.op = old.op /\ order.who = old.who /\ order.to = old.to /\ order.sid = old.sid
        /\ order.want = old.want /\ order.seen = old.seen
    BY DEF MembersInv, MembersTypeOK, OrderRec
  <2> HIDE DEF order
  <2>4. old.who \in Operators /\ old.sid = Nobody /\ SeatMode(t) \in {"NoKeyUpdate", "Update"}
    BY <2>1 DEF MembersInv, OrdersKnown, SeatMode
  <2>5. Exclusive(rowLocks)'
    BY <2>1, LocksExclude DEF Free, MembersInv, MembersTypeOK
  <2>6. MembersTypeOK'
    BY <2>1, <2>2, <2>4 DEF MembersInv, MembersTypeOK, Grant, LockModes
  <2>7. old.op \notin {"none", "issue"}
    BY <2>1 DEF MembersInv, OrdersKnown
  <2>8. OrdersKnown'
    BY <2>1, <2>2, <2>3, <2>4, <2>7 DEF MembersInv, OrdersKnown
  <2>9. LocksKnown'
    BY <2>1, <2>2, <2>3, <2>4 DEF MembersInv, MembersTypeOK, LocksKnown, Grant
  <2>10. RowsHeld'
    BY <2>1, <2>2, <2>3 DEF MembersInv, RowsHeld, Holds, Grant, SeatMode
  <2>11. CutsOrdered' /\ EndedAreCut'
    BY <2>1, <2>2, <2>3, <2>4 DEF MembersInv, MembersTypeOK, CutsOrdered, EndedAreCut
  <2>12. OwnersStay'
    BY <2>1, <2>2, <2>3 DEF MembersInv, OwnersStay, CountedLocked, LastOwnerLeaves, ActiveOwners, ActiveOwner, NothingToDo
  <2> QED
    BY <2>5, <2>6, <2>8, <2>9, <2>10, <2>11, <2>12 DEF MembersInv
<1> QED
  BY <1>1, <1>2

\* Who writes a seat is the only one who does, and no other transaction has locked the
\* seat among its owners.
LEMMA SeatIsMine ==
    ASSUME MembersInv, NEW t \in Orders, orders[t].pc \in {"write", "commit"}, NEW u \in Orders \ {t}
    PROVE  /\ orders[u].pc \in {"write", "commit"} => orders[u].who # orders[t].who
           /\ orders[u].pc \in {"seat", "write", "commit"} => orders[t].who \notin orders[u].want
<1>1. Holds(rowLocks, t, orders[t].who, SeatMode(t)) /\ SeatMode(t) \in {"NoKeyUpdate", "Update"}
  BY DEF MembersInv, RowsHeld, SeatMode
<1>2. orders[u].pc \in {"write", "commit"} =>
        Holds(rowLocks, u, orders[u].who, SeatMode(u)) /\ SeatMode(u) \in {"NoKeyUpdate", "Update"}
  BY DEF MembersInv, RowsHeld, SeatMode
<1>3. ASSUME NEW o, NEW m \in {"NoKeyUpdate", "Update"}, NEW n \in {"NoKeyUpdate", "Update"},
             Holds(rowLocks, t, o, m)
      PROVE  ~Holds(rowLocks, u, o, n)
  BY <1>3 DEF MembersInv, Exclusive, Holds, Conflict
<1>4. orders[u].pc \in {"seat", "write", "commit"} =>
        \A o \in orders[u].want : Holds(rowLocks, u, o, "Update")
  BY DEF MembersInv, RowsHeld
<1>5. orders[u].pc \in {"write", "commit"} => orders[u].who # orders[t].who
  BY <1>1, <1>2, <1>3
<1>6. orders[u].pc \in {"seat", "write", "commit"} => orders[t].who \notin orders[u].want
  BY <1>1, <1>3, <1>4
<1> QED
  BY <1>5, <1>6

\* What is written: the new cut of an order that ends sessions, and no owner is lost
\* but one who leaves beside another.
LEMMA WhatIsWritten ==
    ASSUME MembersInv, NEW t \in Orders, CommitSeat(t)
    PROVE  /\ orders[t].who \in Operators
           /\ Written(t) \in [role : {"none", "owner", "viewer"}, status : {"active", "disabled"}, cut : Nat]
           /\ seats' = [seats EXCEPT ![orders[t].who] = Written(t)]
           /\ Written(t).cut = IF Revokes(t) THEN orders[t].cut ELSE seats[orders[t].who].cut
<1> DEFINE o == orders[t].who
           Seat == [role : {"none", "owner", "viewer"}, status : {"active", "disabled"}, cut : Nat]
<1>1. o \in Operators /\ seats' = [seats EXCEPT ![o] = Written(t)]
  BY DEF CommitSeat, MembersInv, OrdersKnown
<1>2. /\ seats[o] \in Seat /\ orders[t].cut \in Nat
      /\ orders[t].op \in {"bootstrap", "add", "role", "status", "revoke"}
      /\ orders[t].to \in {"none", "owner", "viewer", "active", "disabled"}
      /\ orders[t].op = "role" => orders[t].to \in {"owner", "viewer"}
      /\ orders[t].op = "status" => orders[t].to \in {"active", "disabled"}
      /\ orders[t].to = "disabled" => orders[t].op = "status"
  BY <1>1 DEF CommitSeat, MembersInv, MembersTypeOK, OrdersKnown, OrderRec
<1>3. orders[t].op = "add" => orders[t].to \in {"owner", "viewer"}
  BY DEF CommitSeat, MembersInv, OrdersKnown
<1>4. Written(t) \in Seat /\ Written(t).cut = IF Revokes(t) THEN orders[t].cut ELSE seats[o].cut
  BY <1>2, <1>3 DEF Written, Revokes
<1> QED
  BY <1>1, <1>4

\* The commit of a seat.
LEMMA SeatKeepsMembers ==
    ASSUME MembersInv, NEW t \in Orders, CommitSeat(t)
    PROVE  MembersInv'
<1> DEFINE o == orders[t].who
<1>1. /\ orders[t].pc = "commit" /\ Done(t) /\ now' = now /\ o \in Operators
      /\ ended' = IF Revokes(t) THEN ended \cup orders[t].found ELSE ended
  BY WhatIsWritten DEF CommitSeat
<1>2. /\ orders' \in [Orders -> OrderRec] /\ rowLocks' \subseteq rowLocks
      /\ orders'[t] = NoOrder /\ \A u \in Orders \ {t} : orders'[u] = orders[u]
      /\ Exclusive(rowLocks)' /\ LocksKnown' /\ RowsHeld'
  BY <1>1, EndKeepsOthers
<1>3. /\ seats' \in [Operators -> [role : {"none", "owner", "viewer"}, status : {"active", "disabled"}, cut : Nat]]
      /\ seats'[o] = Written(t) /\ \A p \in Operators \ {o} : seats'[p] = seats[p]
  BY <1>1, WhatIsWritten DEF MembersInv, MembersTypeOK
<1>4. /\ sessions' \in [Cookies -> [of : Operators \cup {Nobody}, at : Nat, kept : BOOLEAN, revoked : BOOLEAN]]
      /\ \A s \in Cookies : /\ sessions'[s].of = sessions[s].of /\ sessions'[s].at = sessions[s].at
                            /\ sessions'[s].kept = sessions[s].kept
                            /\ sessions[s].revoked => sessions'[s].revoked
  BY DEF CommitSeat, MembersInv, MembersTypeOK
<1>5. MembersTypeOK'
  BY <1>1, <1>2, <1>3, <1>4 DEF MembersInv, MembersTypeOK, OrderRec
<1>6. OrdersKnown'
  BY <1>2, <1>4 DEF MembersInv, MembersTypeOK, OrderRec, OrdersKnown, NoOrder
<1>7. /\ seats[o].cut <= orders[t].cut /\ orders[t].cut <= now
      /\ seats[o].cut <= seats'[o].cut /\ seats'[o].cut <= now
      /\ Revokes(t) => seats'[o].cut = orders[t].cut
      /\ \A s \in orders[t].found : sessions[s].of = o /\ sessions[s].at <= orders[t].cut
  <2>1. /\ seats[o].cut <= orders[t].cut /\ orders[t].cut <= now /\ seats[o].cut <= now
        /\ \A s \in orders[t].found : sessions[s].of = o /\ sessions[s].at <= orders[t].cut
    BY <1>1 DEF MembersInv, CutsOrdered
  <2>2. seats[o].cut \in Nat /\ orders[t].cut \in Nat /\ now \in Nat
    BY <1>1 DEF MembersInv, MembersTypeOK, OrderRec
  <2> QED
    BY <2>1, <2>2, <1>3, WhatIsWritten
<1>8. CutsOrdered'
  BY <1>1, <1>2, <1>3, <1>4, <1>7, SeatIsMine DEF MembersInv, MembersTypeOK, OrderRec, OrdersKnown, CutsOrdered, NoOrder
<1>9. EndedAreCut'
  <2>1. \A s \in Cookies : sessions'[s].kept => sessions'[s].of \in Operators
    BY <1>4 DEF MembersInv, EndedAreCut
  <2>2. ASSUME NEW s \in ended'
        PROVE  sessions'[s].of \in Operators /\ (sessions'[s].revoked \/ sessions'[s].at <= seats'[sessions'[s].of].cut)
    <3>1. CASE s \in ended
      <4>1. /\ s \in Cookies /\ sessions[s].of \in Operators /\ sessions[s].at \in Nat
            /\ sessions[s].revoked \/ sessions[s].at <= seats[sessions[s].of].cut
        BY <3>1 DEF MembersInv, MembersTypeOK, EndedAreCut
      <4>2. /\ seats[sessions[s].of].cut <= seats'[sessions[s].of].cut
            /\ seats[sessions[s].of].cut \in Nat /\ seats'[sessions[s].of].cut \in Nat
        BY <4>1, <1>1, <1>3, <1>7 DEF MembersInv, MembersTypeOK
      <4> QED
        BY <4>1, <4>2, <1>4
    <3>2. CASE s \notin ended
      <4>1. Revokes(t) /\ s \in orders[t].found /\ s \in Cookies
        BY <2>2, <3>2, <1>1 DEF MembersInv, MembersTypeOK, OrderRec
      <4> QED
        BY <4>1, <1>1, <1>4, <1>7
    <3> QED
      BY <3>1, <3>2
  <2> QED
    BY <2>1, <2>2 DEF EndedAreCut
<1>10. OwnersStay'
  <2> SUFFICES ASSUME NEW u \in Orders \ {t}
               PROVE  /\ orders[u].pc \in {"seat", "write", "commit"} /\ CountedLocked(u) =>
                           orders[u].seen \subseteq ActiveOwners'
                      /\ orders[u].pc \in {"write", "commit"} => seats'[orders[u].who] = seats[orders[u].who]
    BY <1>2 DEF MembersInv, OwnersStay, CountedLocked, LastOwnerLeaves, ActiveOwner, NoOrder
  <2>1. orders[u].pc \in {"write", "commit"} => orders[u].who \in Operators \ {o}
    BY <1>1, SeatIsMine DEF MembersInv, OrdersKnown
  <2>2. orders[u].pc \in {"seat", "write", "commit"} => o \notin orders[u].want
    BY <1>1, SeatIsMine
  <2>3. \A p \in ActiveOwners \ {o} : p \in ActiveOwners'
    BY <1>3 DEF ActiveOwners, ActiveOwner
  <2>4. orders[u].pc \in {"seat", "write", "commit"} /\ CountedLocked(u) => orders[u].seen \subseteq ActiveOwners
    BY DEF MembersInv, OwnersStay
  <2> QED
    BY <1>3, <2>1, <2>2, <2>3, <2>4 DEF CountedLocked
<1> QED
  BY <1>2, <1>5, <1>6, <1>8, <1>9, <1>10 DEF MembersInv

\* A session is made for an operator, of the present.
LEMMA InsertKeepsMembers ==
    ASSUME MembersInv, NEW t \in Orders, NEW s \in Cookies, InsertSession(t, s)
    PROVE  MembersInv'
<1> DEFINE order == [orders[t] EXCEPT !.pc = "refer", !.sid = s]
<1>1. /\ orders[t].pc = "insert" /\ sessions[s] = Unused
      /\ UNCHANGED <<now, seats, rowLocks, ended>>
  BY DEF InsertSession
<1>2. orders[t] \in OrderRec /\ orders[t].who \in Operators /\ now \in Nat
  BY <1>1 DEF MembersInv, MembersTypeOK, OrdersKnown
<1>3. /\ order \in OrderRec /\ order.pc = "refer" /\ order.sid = s /\ order.who = orders[t].who
      /\ order.to = orders[t].to /\ order.op = orders[t].op
  BY <1>2 DEF OrderRec
<1>4. orders' = [orders EXCEPT ![t] = order]
  BY DEF InsertSession, MembersInv, MembersTypeOK
<1> HIDE DEF order
<1>5. orders' \in [Orders -> OrderRec] /\ orders'[t] = order /\ \A u \in Orders \ {t} : orders'[u] = orders[u]
  BY <1>3, <1>4 DEF MembersInv, MembersTypeOK
<1>6. /\ sessions' \in [Cookies -> [of : Operators \cup {Nobody}, at : Nat, kept : BOOLEAN, revoked : BOOLEAN]]
      /\ sessions'[s].of = orders[t].who /\ sessions'[s].at = now /\ ~sessions'[s].kept
      /\ \A r \in Cookies \ {s} : sessions'[r] = sessions[r]
  BY <1>2 DEF InsertSession, Unused, MembersInv, MembersTypeOK
<1>7. sessions[s].of \notin Operators
  BY <1>1, MembersAssumption DEF Unused, MembersAssumption
<1>8. MembersTypeOK'
  BY <1>1, <1>5, <1>6 DEF MembersInv, MembersTypeOK
<1>9. OrdersKnown'
  <2>1. \A u \in Orders : orders[u].sid # Nobody => orders[u].sid \in Cookies \ {s}
    BY <1>7 DEF MembersInv, MembersTypeOK, OrderRec, OrdersKnown
  <2>2. s # Nobody
    BY MembersAssumption DEF MembersAssumption
  <2> QED
    BY <1>1, <1>2, <1>3, <1>5, <1>6, <2>1, <2>2 DEF MembersInv, OrdersKnown
<1>10. Exclusive(rowLocks)' /\ LocksKnown' /\ RowsHeld'
  BY SMTT(30), <1>1, <1>3, <1>5 DEF MembersInv, MembersTypeOK, Exclusive, LocksKnown, RowsHeld, Holds, SeatMode
<1>11. CutsOrdered'
  <2>1. ASSUME NEW u \in Orders, orders'[u].pc \in {"write", "commit"}
        PROVE  /\ seats'[orders'[u].who].cut <= orders'[u].cut /\ orders'[u].cut <= now'
               /\ \A r \in orders'[u].found : sessions'[r].of = orders'[u].who /\ sessions'[r].at <= orders'[u].cut
    <3>1. orders'[u] = orders[u] /\ orders[u].who \in Operators /\ orders[u].found \subseteq Cookies
      BY <2>1, <1>3, <1>5 DEF MembersInv, MembersTypeOK, OrderRec, OrdersKnown
    <3>2. /\ seats[orders[u].who].cut <= orders[u].cut /\ orders[u].cut <= now
          /\ \A r \in orders[u].found : sessions[r].of = orders[u].who /\ sessions[r].at <= orders[u].cut
      BY <2>1, <3>1 DEF MembersInv, CutsOrdered
    <3>3. s \notin orders[u].found
      BY <3>1, <3>2, <1>7
    <3> QED
      BY <1>1, <1>6, <3>1, <3>2, <3>3
  <2>2. (\A o \in Operators : seats'[o].cut <= now') /\ (\A r \in Cookies : sessions'[r].at <= now')
    BY <1>1, <1>2, <1>6 DEF MembersInv, CutsOrdered
  <2> QED
    BY <2>1, <2>2 DEF CutsOrdered
<1>12. EndedAreCut'
  <2>1. s \notin ended
    BY <1>7 DEF MembersInv, EndedAreCut
  <2> QED
    BY <1>1, <1>2, <1>6, <2>1 DEF MembersInv, MembersTypeOK, EndedAreCut
<1>13. OwnersStay'
  BY <1>1, <1>3, <1>5 DEF MembersInv, OwnersStay, CountedLocked, LastOwnerLeaves, ActiveOwners, ActiveOwner
<1> QED
  BY <1>8, <1>9, <1>10, <1>11, <1>12, <1>13 DEF MembersInv

\* The foreign key's lock
LEMMA ReferKeepsMembers ==
    ASSUME MembersInv, NEW t \in Orders, ReferSeat(t)
    PROVE  MembersInv'
<1> DEFINE order == [orders[t] EXCEPT !.pc = "mark"]
           lock == [s |-> t, row |-> orders[t].who, mode |-> "KeyShare"]
<1>1. /\ orders[t].pc = "refer" /\ rowLocks' = rowLocks \cup {lock}
      /\ UNCHANGED <<now, seats, sessions, ended>>
  BY DEF ReferSeat, Takes, Grant
<1>2. orders[t] \in OrderRec /\ orders[t].who \in Operators
  BY <1>1 DEF MembersInv, MembersTypeOK, OrdersKnown
<1>3. /\ order \in OrderRec /\ order.pc = "mark" /\ order.sid = orders[t].sid /\ order.who = orders[t].who
      /\ order.to = orders[t].to /\ order.op = orders[t].op
  BY <1>2 DEF OrderRec
<1>4. orders' = [orders EXCEPT ![t] = order]
  BY DEF ReferSeat, Step
<1> HIDE DEF order
<1>5. orders' \in [Orders -> OrderRec] /\ orders'[t] = order /\ \A u \in Orders \ {t} : orders'[u] = orders[u]
  BY <1>3, <1>4 DEF MembersInv, MembersTypeOK
<1>6. MembersTypeOK'
  BY <1>1, <1>2, <1>5 DEF MembersInv, MembersTypeOK, LockModes
<1>7. Exclusive(rowLocks)'
  BY LocksExclude DEF ReferSeat, Takes, Free, MembersInv, MembersTypeOK
<1>8. OrdersKnown'
  BY <1>1, <1>2, <1>3, <1>5 DEF MembersInv, OrdersKnown
<1>9. LocksKnown'
  BY <1>1, <1>3, <1>5 DEF MembersInv, MembersTypeOK, LocksKnown
<1>10. RowsHeld'
  BY <1>1, <1>3, <1>5 DEF MembersInv, RowsHeld, Holds, SeatMode
<1>11. CutsOrdered' /\ EndedAreCut'
  BY <1>1, <1>3, <1>5 DEF MembersInv, CutsOrdered, EndedAreCut
<1>12. OwnersStay'
  BY <1>1, <1>3, <1>5 DEF MembersInv, OwnersStay, CountedLocked, LastOwnerLeaves, ActiveOwners, ActiveOwner
<1> QED
  BY <1>6, <1>7, <1>8, <1>9, <1>10, <1>11, <1>12 DEF MembersInv

\* A session that commits, and one that is logged out, keep its operator and its time.
LEMMA SessionsKeepMembers ==
    ASSUME MembersInv,
           \/ \E t \in Orders : CommitSession(t)
           \/ \E s \in Cookies : LogoutSession(s)
    PROVE  MembersInv'
<1>1. ASSUME NEW t \in Orders, CommitSession(t) PROVE MembersInv'
  <2> DEFINE i == orders[t].sid
  <2>1. /\ orders[t].pc = "mark" /\ i \in Cookies /\ sessions[i].of \in Operators
        /\ Done(t) /\ UNCHANGED <<now, seats, ended>>
    BY <1>1 DEF CommitSession, MembersInv, MembersTypeOK, OrderRec, OrdersKnown
  <2>2. /\ orders' \in [Orders -> OrderRec] /\ rowLocks' \subseteq rowLocks
        /\ orders'[t] = NoOrder /\ \A u \in Orders \ {t} : orders'[u] = orders[u]
        /\ Exclusive(rowLocks)' /\ LocksKnown' /\ RowsHeld'
    BY <2>1, EndKeepsOthers
  <2>3. /\ sessions' \in [Cookies -> [of : Operators \cup {Nobody}, at : Nat, kept : BOOLEAN, revoked : BOOLEAN]]
        /\ \A s \in Cookies : /\ sessions'[s].of = sessions[s].of /\ sessions'[s].at = sessions[s].at
                              /\ sessions'[s].revoked = sessions[s].revoked
                              /\ s # i => sessions'[s].kept = sessions[s].kept
    <3>1. /\ sessions \in [Cookies -> [of : Operators \cup {Nobody}, at : Nat, kept : BOOLEAN, revoked : BOOLEAN]]
          /\ sessions' = [sessions EXCEPT ![i].kept = TRUE]
      BY <1>1 DEF CommitSession, MembersInv, MembersTypeOK
    <3>2. \A r \in [of : Operators \cup {Nobody}, at : Nat, kept : BOOLEAN, revoked : BOOLEAN] :
            [r EXCEPT !.kept = TRUE] \in [of : Operators \cup {Nobody}, at : Nat, kept : BOOLEAN, revoked : BOOLEAN]
      OBVIOUS
    <3> HIDE DEF i
    <3> QED
      BY <2>1, <3>1, <3>2
  <2>4. MembersTypeOK'
    BY <2>1, <2>2, <2>3 DEF MembersInv, MembersTypeOK
  <2>5. OrdersKnown'
    BY <2>2, <2>3 DEF MembersInv, MembersTypeOK, OrderRec, OrdersKnown, NoOrder
  <2>6. CutsOrdered'
    BY <2>1, <2>2, <2>3 DEF MembersInv, MembersTypeOK, OrderRec, CutsOrdered, NoOrder
  <2>7. EndedAreCut'
    BY <2>1, <2>3 DEF MembersInv, MembersTypeOK, EndedAreCut
  <2>8. OwnersStay'
    BY <2>1, <2>2 DEF MembersInv, OwnersStay, CountedLocked, LastOwnerLeaves, ActiveOwners, ActiveOwner, NoOrder
  <2> QED
    BY <2>2, <2>4, <2>5, <2>6, <2>7, <2>8 DEF MembersInv
<1>2. ASSUME NEW i \in Cookies, LogoutSession(i) PROVE MembersInv'
  <2>1. /\ sessions[i].kept /\ ended' = ended \cup {i} /\ UNCHANGED <<now, seats, orders, rowLocks>>
        /\ sessions' \in [Cookies -> [of : Operators \cup {Nobody}, at : Nat, kept : BOOLEAN, revoked : BOOLEAN]]
        /\ \A s \in Cookies : /\ sessions'[s].of = sessions[s].of /\ sessions'[s].at = sessions[s].at
                              /\ sessions'[s].kept = sessions[s].kept
                              /\ sessions'[s].revoked = (sessions[s].revoked \/ s = i)
    BY <1>2 DEF LogoutSession, MembersInv, MembersTypeOK
  <2>2. MembersTypeOK' /\ Exclusive(rowLocks)' /\ LocksKnown' /\ RowsHeld'
    BY <2>1 DEF MembersInv, MembersTypeOK, Exclusive, LocksKnown, RowsHeld, Holds, SeatMode
  <2>3. OrdersKnown'
    BY <2>1 DEF MembersInv, MembersTypeOK, OrderRec, OrdersKnown
  <2>4. CutsOrdered' /\ EndedAreCut'
    BY <2>1 DEF MembersInv, MembersTypeOK, OrderRec, CutsOrdered, EndedAreCut
  <2>5. OwnersStay'
    BY <2>1 DEF MembersInv, OwnersStay, CountedLocked, LastOwnerLeaves, ActiveOwners, ActiveOwner
  <2> QED
    BY <2>2, <2>3, <2>4, <2>5 DEF MembersInv
<1> QED
  BY <1>1, <1>2

\* The transaction that is rolled back is never one that issues a session: who waits
\* for its key lock also keeps others waiting, or writes already.
LEMMA VictimHasNoSession ==
    ASSUME MembersInv, NEW t \in Orders, Victim(t)
    PROVE  orders[t].sid = Nobody
<1> SUFFICES ASSUME orders[t].pc \in {"refer", "mark"} PROVE FALSE
  BY DEF MembersInv, OrdersKnown
<1>1. PICK u \in Orders \ {t} : WaitsFor(t, u) /\ WaitsFor(u, t)
  BY DEF Victim
<1>2. PICK need \in Needs(u), l \in rowLocks : l.s = t /\ l.row = need[1] /\ Conflict(l.mode, need[2])
  BY <1>1 DEF WaitsFor, Blockers
<1>3. l.mode = "KeyShare" /\ l.row = orders[t].who /\ orders[t].pc = "mark" /\ l.mode \in LockModes
  BY <1>2 DEF MembersInv, MembersTypeOK, LocksKnown, LockModes
<1>4. PICK k \in rowLocks : k.s = u /\ k.row = orders[t].who /\ Conflict(k.mode, "NoKeyUpdate")
  BY <1>1, <1>3 DEF WaitsFor, Blockers, Needs
<1>5. k.mode \in {"NoKeyUpdate", "Update"}
  BY <1>4 DEF MembersInv, MembersTypeOK, LockModes, Conflict
<1>6. k.mode # "Update"
  BY <1>2, <1>3, <1>4 DEF MembersInv, Exclusive, Conflict
<1>7. orders[u].pc \in {"write", "commit"}
  BY <1>4, <1>5, <1>6 DEF MembersInv, LocksKnown
<1>8. Needs(u) = {}
  BY <1>7 DEF Needs
<1> QED
  BY <1>2, <1>8

LEMMA MembersStep == MembersInv /\ [AdminMembersNext]_adminMembers => MembersInv'
<1> SUFFICES ASSUME MembersInv, [AdminMembersNext]_adminMembers PROVE MembersInv'
  OBVIOUS
<1>1. ASSUME NEW t \in Orders, Run0033(t) PROVE MembersInv'
  <2>1. ASSUME Victim(t) PROVE MembersInv'
    <3>1. Done(t) /\ UNCHANGED <<now, seats, ended>>
      BY <2>1 DEF Victim
    <3>2. sessions' = sessions
      <4>1. orders[t].sid \notin Cookies
        BY <2>1, VictimHasNoSession, MembersAssumption DEF MembersAssumption
      <4> QED
        BY <2>1, <4>1 DEF Victim, MembersInv, MembersTypeOK
    <3> QED
      BY <3>1, <3>2, EndKeepsMembers
  <2> QED
    BY <1>1, <2>1, CountKeepsMembers, TakeKeepsMembers, SeatKeepsMembers, ReferKeepsMembers,
       SessionsKeepMembers, LockKeepsMembers, InsertKeepsMembers DEF Run0033
<1>2. CASE ClockGoes
  <2>1. now' = now + 1 /\ now \in Nat /\ UNCHANGED <<seats, sessions, orders, rowLocks, ended>>
    BY <1>2 DEF ClockGoes, MembersInv, MembersTypeOK
  <2>2. MembersTypeOK' /\ Exclusive(rowLocks)' /\ OrdersKnown' /\ LocksKnown' /\ RowsHeld' /\ EndedAreCut'
    BY <2>1 DEF MembersInv, MembersTypeOK, Exclusive, OrdersKnown, LocksKnown, RowsHeld, EndedAreCut, Holds, SeatMode
  <2>3. CutsOrdered'
    BY <2>1 DEF MembersInv, MembersTypeOK, OrderRec, OrdersKnown, CutsOrdered
  <2>4. OwnersStay'
    BY <2>1 DEF MembersInv, OwnersStay, CountedLocked, LastOwnerLeaves, ActiveOwners, ActiveOwner
  <2> QED
    BY <2>2, <2>3, <2>4 DEF MembersInv
<1>3. CASE UNCHANGED adminMembers
  <2>1. UNCHANGED <<now, seats, sessions, orders, rowLocks, ended>>
    BY <1>3 DEF adminMembers
  <2>2. MembersTypeOK' /\ Exclusive(rowLocks)' /\ OrdersKnown' /\ LocksKnown' /\ RowsHeld' /\ EndedAreCut'
    BY <2>1 DEF MembersInv, MembersTypeOK, Exclusive, OrdersKnown, LocksKnown, RowsHeld, EndedAreCut, Holds, SeatMode
  <2>3. CutsOrdered'
    BY <2>1 DEF MembersInv, CutsOrdered
  <2>4. OwnersStay'
    BY <2>1 DEF MembersInv, OwnersStay, CountedLocked, LastOwnerLeaves, ActiveOwners, ActiveOwner
  <2> QED
    BY <2>2, <2>3, <2>4 DEF MembersInv
<1> QED
  BY <1>1, <1>2, <1>3, AskKeepsMembers, SessionsKeepMembers DEF AdminMembersNext

\* What operators, orders and their sessions always are: the strengthening the next two
\* theorems need (admin_member_set_role, admin_member_set_status and the sessions of 0033).
THEOREM MembersInductive == AdminMembersSpec => []MembersInv
BY MembersStart, MembersStep, PTL DEF AdminMembersSpec

\* Sessions that were there when the sessions of their operator were ended, by a
\* disabling, a revocation or a logout, are never accepted again, for any number of
\* transactions at once (0033).
THEOREM EndedSessionsStayOut == AdminMembersSpec => []EndedStayOut
<1>1. MembersInv => EndedStayOut
  <2> SUFFICES ASSUME MembersInv, NEW s \in ended PROVE ~Accepted(s)
    BY DEF EndedStayOut
  <2>1. /\ s \in Cookies /\ sessions[s].of \in Operators
        /\ sessions[s].revoked \/ sessions[s].at <= seats[sessions[s].of].cut
    BY DEF MembersInv, MembersTypeOK, EndedAreCut
  <2>2. sessions[s].at \in Nat /\ seats[sessions[s].of].cut \in Nat
    BY <2>1 DEF MembersInv, MembersTypeOK
  <2> QED
    BY <2>1, <2>2 DEF Accepted
<1> QED
  BY <1>1, MembersInductive, PTL

\* The commit that removes the last active owner is one whose count had found an owner
\* it had not locked; whatever else runs at once, no other step removes the last one.
THEOREM OwnersRemain == AdminMembersSpec => CountedOwnersRemain
<1> DEFINE Remains == ActiveOwners # {} /\ ActiveOwners' = {} => \E t \in Orders : Commits(t) /\ ~CountedLocked(t)
<1>1. ASSUME MembersInv, NEW t \in Orders, CommitSeat(t), ActiveOwners # {}, ActiveOwners' = {}
      PROVE  Commits(t) /\ ~CountedLocked(t)
  <2> DEFINE o == orders[t].who
  <2>1. /\ orders[t].pc = "commit" /\ o \in Operators
        /\ seats'[o] = Written(t) /\ \A p \in Operators \ {o} : seats'[p] = seats[p]
    BY <1>1, WhatIsWritten DEF CommitSeat, MembersInv, MembersTypeOK
  <2>2. Commits(t)
    BY <1>1, <2>1 DEF Commits, CommitSeat, Done, NoOrder, MembersInv, MembersTypeOK
  <2>3. ActiveOwners = {o} /\ ActiveOwner(o) /\ seats[o] # NoSeat
    BY <1>1, <2>1 DEF ActiveOwners, ActiveOwner, NoSeat
  <2>4. ~(Written(t).role = "owner" /\ Written(t).status = "active")
    BY <1>1, <2>1 DEF ActiveOwners, ActiveOwner
  <2>5. /\ orders[t].op \in {"role", "status"} /\ orders[t].to \in {"viewer", "disabled"}
    <3>1. /\ seats[o] \in [role : {"none", "owner", "viewer"}, status : {"active", "disabled"}, cut : Nat]
          /\ orders[t].op \in {"bootstrap", "add", "role", "status", "revoke"}
          /\ orders[t].op \in {"add", "role"} => orders[t].to \in {"owner", "viewer"}
          /\ orders[t].op = "status" => orders[t].to \in {"active", "disabled"}
          /\ orders[t].op # "add"
      BY <1>1, <2>1, <2>3 DEF MembersInv, MembersTypeOK, OrderRec, OrdersKnown, OwnersStay
    <3> QED
      BY <2>3, <2>4, <3>1 DEF Written, ActiveOwner
  <2>6. ~(Cardinality(orders[t].seen) <= 1)
    BY <1>1, <2>1, <2>3, <2>5 DEF MembersInv, OwnersStay, LastOwnerLeaves
  <2>7. ASSUME CountedLocked(t) PROVE FALSE
    <3>1. orders[t].seen \subseteq {o}
      BY <1>1, <2>1, <2>3, <2>7 DEF MembersInv, OwnersStay
    <3>2. orders[t].seen = {} \/ orders[t].seen = {o}
      BY <3>1
    <3> QED
      <4>1. Cardinality({}) = 0 /\ Cardinality({o}) = 1
        BY FS_EmptySet, FS_Singleton
      <4> QED
        BY <2>6, <3>2, <4>1
  <2> QED
    BY <2>2, <2>7
<1>2. MembersInv /\ [AdminMembersNext]_adminMembers => [Remains]_adminMembers
  <2> SUFFICES ASSUME MembersInv, AdminMembersNext PROVE Remains
    BY DEF adminMembers
  <2>1. CASE \E t \in Orders : CommitSeat(t)
    BY <1>1, <2>1
  <2>2. CASE ~\E t \in Orders : CommitSeat(t)
    <3>1. seats' = seats
      BY <2>2 DEF AdminMembersNext, Run0033, Ask0033, Bootstrap, AddMember, SetRole, SetMemberStatus, RevokeSessions,
           IssueSession, Give, FindOwners, LockOwner, CountOwners, TakeSeat, HitSessions, InsertSession, ReferSeat,
           CommitSession, LogoutSession, Victim, ClockGoes
    <3> QED
      BY <3>1 DEF ActiveOwners, ActiveOwner
  <2> QED
    BY <2>1, <2>2
<1> HIDE DEF Remains
<1>3. AdminMembersSpec => [][Remains]_adminMembers
  BY <1>2, MembersInductive, PTL DEF AdminMembersSpec
<1> QED
  BY <1>3 DEF CountedOwnersRemain, Remains
-----------------------------------------------------------------------------
(***************************************************************************)
(* Code messages.  Between the decision about a number and its message no  *)
(* time passes, and while one transaction holds the number's row no other  *)
(* one can have read it; a first row is written by one of them only.       *)
(***************************************************************************)
LogRow == [last : Nat, start : Nat, count : Nat]
HookPcs == {"idle", "asked", "begun", "locked", "granted", "limited", "unavailable", "sent", "failed"}
HookRec == [pc : HookPcs, ts : Nat, row : LogRow]
LoginRec == [stage : {"phone", "code", "in"}, sentAt : Nat, loading : BOOLEAN, loaded : BOOLEAN,
             waits : SUBSET Hooks]

SmsTypeOK ==
    /\ clock \in Nat /\ log \in LogRow
    /\ hooks \in [Hooks -> HookRec]
    /\ sends \in Seq(Nat) /\ delivered \in BOOLEAN
    /\ login \in LoginRec /\ stored \in Nat

HoldsRow(h) == hooks[h].pc = "locked" /\ Found(hooks[h].row)

\* A row that was found is the row as it is, and one transaction alone has it.
RowsCurrent ==
    /\ \A h \in Hooks : hooks[h].ts <= clock
    /\ \A h \in Hooks : HoldsRow(h) => hooks[h].row = log
    /\ \A g, h \in Hooks : HoldsRow(g) /\ HoldsRow(h) => g = h

\* A permission that was not used yet was given now, and a cool-down after the last message.
GrantsFresh ==
    /\ \A h \in Hooks : hooks[h].pc = "granted" =>
         /\ Found(log) /\ log.last = clock
         /\ \A i \in 1 .. Len(sends) : sends[i] + Cooldown <= clock
    /\ \A g, h \in Hooks : hooks[g].pc = "granted" /\ hooks[h].pc = "granted" /\ g # h => Cooldown = 0

SendsCounted ==
    /\ log.last <= clock /\ log.count <= MaxPerHour
    /\ Found(log) \/ Len(sends) = 0
    /\ \A i \in 1 .. Len(sends) : sends[i] <= log.last
    /\ \A i, j \in 1 .. Len(sends) : i < j => sends[i] + Cooldown <= sends[j]

\* A message that was accepted has been noted before the screen for the code is shown.
ScreenTold ==
    /\ \A h \in Hooks : hooks[h].pc = "sent" => delivered
    /\ login.stage = "code" => delivered

SendingInv == SmsTypeOK /\ RowsCurrent /\ GrantsFresh /\ SendsCounted /\ ScreenTold

LEMMA HookMoves ==
    ASSUME SmsTypeOK, NEW h \in Hooks, NEW pc \in HookPcs, NEW row \in LogRow
    PROVE  /\ [hooks[h] EXCEPT !.pc = pc] \in HookRec
           /\ [hooks[h] EXCEPT !.pc = pc, !.row = row] \in HookRec
           /\ [hooks EXCEPT ![h].pc = pc] = [hooks EXCEPT ![h] = [hooks[h] EXCEPT !.pc = pc]]
           /\ [hooks EXCEPT ![h].pc = pc] \in [Hooks -> HookRec]
           /\ [hooks EXCEPT ![h].pc = pc, ![h].row = row] \in [Hooks -> HookRec]
<1>1. hooks \in [Hooks -> HookRec] /\ hooks[h] \in HookRec
  BY DEF SmsTypeOK
<1>2. /\ [hooks[h] EXCEPT !.pc = pc] \in HookRec
      /\ [hooks[h] EXCEPT !.pc = pc, !.row = row] \in HookRec
  BY <1>1 DEF HookRec
<1>3. /\ [hooks EXCEPT ![h].pc = pc] = [hooks EXCEPT ![h] = [hooks[h] EXCEPT !.pc = pc]]
      /\ [hooks EXCEPT ![h].pc = pc, ![h].row = row]
           = [hooks EXCEPT ![h] = [hooks[h] EXCEPT !.pc = pc, !.row = row]]
  BY <1>1
<1> QED
  BY <1>1, <1>2, <1>3

LEMMA OtpInit == SmsInit => SendingInv
<1> SUFFICES ASSUME SmsInit PROVE SendingInv
  OBVIOUS
<1> USE SmsAssumption
<1>1. Len(sends) = 0 /\ sends \in Seq(Nat)
  BY DEF SmsInit
<1>2. SmsTypeOK
  BY <1>1 DEF SmsInit, SmsTypeOK, LogRow, HookRec, HookPcs, LoginRec, NoRow, Resting, Opened, Never
<1>3. RowsCurrent /\ ScreenTold
  BY DEF SmsInit, RowsCurrent, HoldsRow, ScreenTold, NoRow, Resting, Opened, Never
<1>4. GrantsFresh /\ SendsCounted
  BY <1>1 DEF SmsInit, GrantsFresh, SendsCounted, Found, NoRow, Resting, Never
<1> QED
  BY <1>2, <1>3, <1>4 DEF SendingInv

\* A step that leaves the clock, the row of the number and the messages alone,
\* and gives nobody a permission or the row.
LEMMA QuietKeeps ==
    ASSUME SendingInv, SmsTypeOK', ScreenTold', UNCHANGED <<clock, log, sends>>,
           \A h \in Hooks : \/ hooks'[h] = hooks[h]
                            \/ hooks'[h].pc \notin {"locked", "granted"} /\ hooks'[h].ts <= clock
    PROVE  SendingInv'
<1>1. \A h \in Hooks : HoldsRow(h)' => HoldsRow(h) /\ hooks'[h] = hooks[h]
  BY DEF HoldsRow
<1>2. RowsCurrent'
  BY <1>1 DEF SendingInv, RowsCurrent, SmsTypeOK
<1>3. GrantsFresh'
  BY DEF SendingInv, GrantsFresh, Found
<1>4. SendsCounted'
  BY DEF SendingInv, SendsCounted, Found
<1> QED
  BY <1>2, <1>3, <1>4 DEF SendingInv

LEMMA OtpReadRow ==
    ASSUME SendingInv, NEW h \in Hooks, ReadRow(h)
    PROVE  SendingInv'
<1>1. /\ SmsTypeOK /\ hooks' = [hooks EXCEPT ![h].pc = "locked", ![h].row = log]
      /\ UNCHANGED <<clock, log, sends, delivered, login, stored>>
      /\ \A g \in Hooks : ~HoldsRow(g)
  BY DEF SendingInv, ReadRow, CanRead, HoldsRow
<1>2. /\ hooks'[h] = [hooks[h] EXCEPT !.pc = "locked", !.row = log]
      /\ \A g \in Hooks \ {h} : hooks'[g] = hooks[g]
  BY <1>1 DEF SmsTypeOK
<1>3. SmsTypeOK'
  <2>1. hooks' \in [Hooks -> HookRec]
    BY <1>1, HookMoves DEF HookPcs, SmsTypeOK
  <2> QED
    BY <1>1, <2>1 DEF SmsTypeOK
<1>4. RowsCurrent'
  <2>1. \A g \in Hooks : hooks'[g].ts = hooks[g].ts
    BY <1>1, <1>2 DEF SmsTypeOK
  <2>2. \A g \in Hooks : HoldsRow(g)' => g = h
    BY <1>1, <1>2 DEF HoldsRow
  <2>3. hooks'[h].row = log
    BY <1>1, <1>2 DEF SmsTypeOK
  <2> QED
    BY <1>1, <2>1, <2>2, <2>3 DEF SendingInv, RowsCurrent
<1>5. \A g \in Hooks : hooks'[g].pc \in {"granted", "sent"} => hooks[g].pc = hooks'[g].pc
  BY <1>1, <1>2 DEF SmsTypeOK
<1>6. GrantsFresh' /\ ScreenTold'
  BY <1>1, <1>5 DEF SendingInv, GrantsFresh, ScreenTold, Found
<1>7. SendsCounted'
  BY <1>1 DEF SendingInv, SendsCounted, Found
<1> QED
  BY <1>3, <1>4, <1>6, <1>7 DEF SendingInv

\* The row a request leaves is in order if the one it has read was.
LEMMA CountedInOrder ==
    ASSUME NEW row \in LogRow, NEW ts \in Nat, row.count <= MaxPerHour, Permitted(row, ts)
    PROVE  /\ Counted(row, ts) \in LogRow /\ Counted(row, ts).last = ts
           /\ Counted(row, ts).count \in 1 .. MaxPerHour
<1> DEFINE fresh == row.start + Window <= ts
<1>1. PICK start \in Nat, count \in Nat :
        /\ start = (IF Found(row) /\ ~fresh THEN row.start ELSE ts)
        /\ count = (IF Found(row) /\ ~fresh THEN row.count + 1 ELSE 1)
  BY DEF LogRow
<1>2. Counted(row, ts) = [last |-> ts, start |-> start, count |-> count]
  BY <1>1 DEF Counted
<1>3. count \in 1 .. MaxPerHour
  BY <1>1, SmsAssumption DEF Permitted, Found, LogRow
<1> QED
  BY <1>2, <1>3 DEF LogRow

\* The decision: a permission that changes the row is the only one there is, but
\* for a cool-down of nothing.
LEMMA OtpDecide ==
    ASSUME SendingInv, NEW h \in Hooks, Decide(h)
    PROVE  SendingInv'
<1> USE SmsAssumption
<1> DEFINE row == hooks[h].row
           ts == hooks[h].ts
<1>1. /\ SmsTypeOK /\ hooks[h].pc = "locked" /\ row \in LogRow /\ ts \in Nat /\ ts <= clock
      /\ log \in LogRow /\ clock \in Nat /\ log.last \in Nat /\ log.count \in Nat
      /\ UNCHANGED <<clock, sends, delivered, login, stored>>
  BY DEF SendingInv, Decide, SmsTypeOK, HookRec, RowsCurrent, LogRow
<1>2. PICK said \in {"unavailable", "granted", "limited"} :
        /\ said = Decision(h)
        /\ said = "granted" => ts = clock /\ Granted(h)
  BY <1>1 DEF Decision
<1>3. hooks' = [hooks EXCEPT ![h].pc = said, ![h].row = NoRow]
  BY <1>2 DEF Decide
<1>4. /\ hooks'[h].pc = said /\ hooks'[h].row = NoRow /\ hooks'[h].ts = ts
      /\ \A g \in Hooks \ {h} : hooks'[g] = hooks[g]
      /\ hooks' \in [Hooks -> HookRec]
  <2>1. NoRow \in LogRow /\ said \in HookPcs
    BY DEF NoRow, LogRow, Never, HookPcs
  <2>2. hooks' \in [Hooks -> HookRec]
    BY <1>1, <1>3, <2>1, HookMoves
  <2> QED
    BY <1>1, <1>3, <2>2 DEF SmsTypeOK, HookRec
<1>5. log' = IF Granted(h) THEN Counted(row, ts) ELSE log
  BY DEF Decide
<1>6. CASE ~Granted(h)
  <2>1. log' = log /\ said # "granted"
    BY <1>2, <1>5, <1>6
  <2>2. hooks'[h].pc \notin {"locked", "granted"} /\ hooks'[h].ts <= clock
    BY <1>1, <1>4, <2>1
  <2>3. SmsTypeOK'
    BY <1>1, <1>4, <2>1 DEF SmsTypeOK
  <2>4. ScreenTold'
    BY <1>1, <1>4 DEF SendingInv, ScreenTold
  <2> QED
    BY <1>1, <1>4, <2>1, <2>2, <2>3, <2>4, QuietKeeps
<1>7. CASE Granted(h)
  <2>1. /\ ~Clashes(h) /\ Permitted(row, ts) /\ log' = Counted(row, ts)
    BY <1>5, <1>7 DEF Granted
  \* What was read is what is there, or nothing was there and nothing is.
  <2>2. \/ Found(row) /\ row = log /\ HoldsRow(h)
        \/ ~Found(row) /\ ~Found(log)
    BY <1>1, <2>1 DEF Clashes, SendingInv, RowsCurrent, HoldsRow
  <2>3. row.count <= MaxPerHour
    BY <1>1, <2>2 DEF SendingInv, SendsCounted, Found, LogRow
  <2>4. log' \in LogRow /\ log'.last = ts /\ log'.count \in 1 .. MaxPerHour
    BY <1>1, <2>1, <2>3, CountedInOrder
  <2>5. SmsTypeOK'
    BY <1>1, <1>4, <2>4 DEF SmsTypeOK
  <2>6. \A g \in Hooks : ~HoldsRow(g)'
    <3>1. ~HoldsRow(h)'
      BY <1>4 DEF HoldsRow, Found, NoRow
    <3>2. ASSUME NEW g \in Hooks \ {h} PROVE ~HoldsRow(g)
      BY <2>2 DEF SendingInv, RowsCurrent, HoldsRow
    <3> QED
      BY <1>4, <3>1, <3>2 DEF HoldsRow
  <2>7. RowsCurrent'
    BY <1>1, <1>4, <2>6 DEF SendingInv, RowsCurrent
  <2>8. ScreenTold'
    BY <1>1, <1>4 DEF SendingInv, ScreenTold
  <2>9. Found(log) => log.last + Cooldown <= ts
    BY <2>1, <2>2 DEF Permitted
  <2>10. \A i \in 1 .. Len(sends) : sends[i] \in Nat /\ sends[i] + Cooldown <= ts
    <3> TAKE i \in 1 .. Len(sends)
    <3>1. sends[i] \in Nat /\ sends[i] <= log.last /\ Len(sends) # 0
      BY DEF SendingInv, SmsTypeOK, SendsCounted
    <3>2. log.last + Cooldown <= ts
      BY <2>9, <3>1 DEF SendingInv, SendsCounted
    <3> QED
      BY <1>1, <3>1, <3>2
  <2>11. SendsCounted'
    <3>1. \A i \in 1 .. Len(sends) : sends[i] <= ts
      BY <2>10, <1>1
    <3>2. Found(log')
      BY <2>4 DEF Found
    <3>3. log'.last <= clock' /\ log'.count <= MaxPerHour
      BY <1>1, <2>4 DEF SendingInv, SmsTypeOK
    <3>4. \A i \in 1 .. Len(sends') : sends'[i] <= log'.last
      BY <1>1, <2>4, <3>1
    <3>5. \A i, j \in 1 .. Len(sends') : i < j => sends'[i] + Cooldown <= sends'[j]
      BY <1>1 DEF SendingInv, SendsCounted
    <3> QED
      BY <3>2, <3>3, <3>4, <3>5 DEF SendsCounted
  <2>12. ASSUME NEW g \in Hooks \ {h}, hooks[g].pc = "granted" PROVE ts = clock /\ Cooldown = 0
    BY <1>1, <2>9, <2>12 DEF SendingInv, GrantsFresh
  <2>13. GrantsFresh'
    <3>1. ASSUME NEW g \in Hooks, hooks'[g].pc = "granted" PROVE ts = clock
      BY <1>2, <1>4, <2>12, <3>1
    <3>2. ASSUME NEW g \in Hooks, NEW f \in Hooks, hooks'[g].pc = "granted", hooks'[f].pc = "granted", g # f
          PROVE  Cooldown = 0
      BY <1>4, <2>12, <3>2
    <3>3. Found(log')
      BY <2>4 DEF Found
    <3> QED
      BY <1>1, <2>4, <2>10, <3>1, <3>2, <3>3 DEF GrantsFresh
  <2> QED
    BY <2>5, <2>7, <2>8, <2>11, <2>13 DEF SendingInv
<1> QED
  BY <1>6, <1>7

LEMMA OtpSend ==
    ASSUME SendingInv, NEW h \in Hooks, SendSms(h)
    PROVE  SendingInv'
<1> USE SmsAssumption
<1>1. /\ SmsTypeOK /\ hooks[h].pc = "granted" /\ sends' = Append(sends, clock)
      /\ UNCHANGED <<clock, log, login, stored>> /\ sends \in Seq(Nat) /\ clock \in Nat /\ log \in LogRow
  BY DEF SendingInv, SendSms, MaySend, SmsTypeOK
<1>2. PICK pc \in {"sent", "failed"} :
        /\ hooks' = [hooks EXCEPT ![h].pc = pc]
        /\ pc = "sent" => delivered'
        /\ delivered' \in BOOLEAN /\ (delivered => delivered')
  BY <1>1 DEF SendSms, SmsTypeOK
<1>3. hooks'[h] = [hooks[h] EXCEPT !.pc = pc] /\ \A g \in Hooks \ {h} : hooks'[g] = hooks[g]
  BY <1>1, <1>2 DEF SmsTypeOK
<1>4. hooks'[h].pc = pc /\ hooks'[h].ts = hooks[h].ts /\ hooks'[h].row = hooks[h].row
  BY <1>1, <1>3 DEF SmsTypeOK, HookRec
<1>5. /\ sends' \in Seq(Nat) /\ Len(sends') = Len(sends) + 1 /\ Len(sends) \in Nat
      /\ sends'[Len(sends) + 1] = clock
      /\ \A i \in 1 .. Len(sends) : sends'[i] = sends[i] /\ sends[i] \in Nat
  BY <1>1
<1>6. SmsTypeOK'
  <2>1. pc \in HookPcs
    BY DEF HookPcs
  <2>2. hooks' \in [Hooks -> HookRec]
    BY <1>1, <1>2, <2>1, HookMoves DEF SmsTypeOK, HookRec
  <2> QED
    BY <1>1, <1>2, <1>5, <2>2 DEF SmsTypeOK
<1>7. RowsCurrent'
  <2>1. \A g \in Hooks : HoldsRow(g)' => HoldsRow(g) /\ hooks'[g] = hooks[g]
    BY <1>2, <1>3, <1>4 DEF HoldsRow
  <2>2. \A g \in Hooks : hooks'[g].ts <= clock
    BY <1>3, <1>4 DEF SendingInv, RowsCurrent
  <2> QED
    BY <1>1, <2>1, <2>2 DEF SendingInv, RowsCurrent
<1>8. ScreenTold'
  BY <1>1, <1>2, <1>3, <1>4 DEF SendingInv, ScreenTold
<1>9. Found(log) /\ log.last = clock /\ \A i \in 1 .. Len(sends) : sends[i] + Cooldown <= clock
  BY <1>1 DEF SendingInv, GrantsFresh
<1>10. SendsCounted'
  <2>1. \A i \in 1 .. Len(sends') : sends'[i] <= log.last
    <3> SUFFICES ASSUME NEW i \in 1 .. Len(sends') PROVE sends'[i] <= log.last
      OBVIOUS
    <3>1. i = Len(sends) + 1 \/ i \in 1 .. Len(sends)
      BY <1>5
    <3> QED
      BY <1>1, <1>5, <1>9, <3>1 DEF SendingInv, SendsCounted
  <2>2. \A i, j \in 1 .. Len(sends') : i < j => sends'[i] + Cooldown <= sends'[j]
    <3> SUFFICES ASSUME NEW i \in 1 .. Len(sends'), NEW j \in 1 .. Len(sends'), i < j
                 PROVE  sends'[i] + Cooldown <= sends'[j]
      OBVIOUS
    <3>1. i \in 1 .. Len(sends) /\ (j = Len(sends) + 1 \/ j \in 1 .. Len(sends))
      <4>1. PICK n \in Nat : n = Len(sends) /\ Len(sends') = n + 1
        BY <1>5
      <4>2. i \in 1 .. n + 1 /\ j \in 1 .. n + 1 /\ i < j
        BY <4>1
      <4>3. i \in 1 .. n /\ (j = n + 1 \/ j \in 1 .. n)
        BY <4>2
      <4> QED
        BY <4>1, <4>3
    <3> QED
      BY <1>5, <1>9, <3>1 DEF SendingInv, SendsCounted
  <2> QED
    BY <1>1, <1>9, <2>1, <2>2 DEF SendingInv, SendsCounted, Found
\* Where another permission is left there is no cool-down.
<1>11. GrantsFresh'
  <2>1. ASSUME NEW g \in Hooks, hooks'[g].pc = "granted" PROVE hooks[g].pc = "granted" /\ g # h
    BY <1>2, <1>3, <1>4, <2>1
  <2>2. ASSUME NEW g \in Hooks, hooks'[g].pc = "granted", NEW i \in 1 .. Len(sends')
        PROVE  sends'[i] + Cooldown <= clock
    <3>1. Cooldown = 0
      BY <1>1, <2>1, <2>2 DEF SendingInv, GrantsFresh
    <3>2. i = Len(sends) + 1 \/ i \in 1 .. Len(sends)
      BY <1>5
    <3> QED
      BY <1>1, <1>5, <1>9, <3>1, <3>2
  <2> QED
    BY <1>1, <1>9, <2>1, <2>2 DEF SendingInv, GrantsFresh, Found
<1> QED
  BY <1>6, <1>7, <1>8, <1>10, <1>11 DEF SendingInv

LEMMA OtpQuiet ==
    ASSUME SendingInv, NEW h \in Hooks,
           Begin(h) \/ LimiterFails(h) \/ AnswerElsewhere(h) \/ AskElsewhere(h)
    PROVE  SendingInv'
<1>1. /\ SmsTypeOK /\ clock \in Nat /\ UNCHANGED <<clock, log, sends, delivered, login, stored>>
      /\ hooks[h] \in HookRec /\ hooks[h].ts \in Nat /\ hooks[h].ts <= clock
  BY DEF SendingInv, SmsTypeOK, HookRec, RowsCurrent, Begin, LimiterFails, AnswerElsewhere, AskElsewhere
<1>2. PICK call \in HookRec :
        /\ hooks' = [hooks EXCEPT ![h] = call]
        /\ call.pc \in {"begun", "unavailable", "idle", "asked"} /\ call.ts <= clock
  <2>1. [pc |-> "begun", ts |-> clock, row |-> NoRow] \in HookRec
        /\ Resting \in HookRec /\ Resting.pc = "idle" /\ Resting.ts <= clock
    BY <1>1 DEF HookPcs, HookRec, LogRow, NoRow, Never, Resting
  <2>2. CASE Begin(h)
    <3>1. PICK call \in HookRec : call = [pc |-> "begun", ts |-> clock, row |-> NoRow]
      BY <2>1
    <3>2. call.pc = "begun" /\ call.ts <= clock
      BY <1>1, <3>1
    <3> QED
      BY <2>2, <3>1, <3>2 DEF Begin
  <2>3. CASE LimiterFails(h)
    <3>1. hooks' = [hooks EXCEPT ![h] = [hooks[h] EXCEPT !.pc = "unavailable"]]
      BY <1>1, <2>3 DEF LimiterFails, SmsTypeOK
    <3>2. PICK call \in HookRec : call = [hooks[h] EXCEPT !.pc = "unavailable"]
      BY <1>1 DEF HookRec, HookPcs
    <3>3. call.pc = "unavailable" /\ call.ts = hooks[h].ts
      BY <1>1, <3>2 DEF HookRec
    <3> QED
      BY <1>1, <3>1, <3>2, <3>3
  <2>4. CASE AnswerElsewhere(h)
    BY <2>1, <2>4 DEF AnswerElsewhere
  <2>5. CASE AskElsewhere(h)
    <3>1. hooks' = [hooks EXCEPT ![h] = [hooks[h] EXCEPT !.pc = "asked"]]
      BY <1>1, <2>5 DEF AskElsewhere, SmsTypeOK
    <3>2. PICK call \in HookRec : call = [hooks[h] EXCEPT !.pc = "asked"]
      BY <1>1 DEF HookRec, HookPcs
    <3>3. call.pc = "asked" /\ call.ts = hooks[h].ts
      BY <1>1, <3>2 DEF HookRec
    <3> QED
      BY <1>1, <3>1, <3>2, <3>3
  <2> QED
    BY <2>2, <2>3, <2>4, <2>5
<1>3. SmsTypeOK'
  BY <1>1, <1>2 DEF SmsTypeOK
<1>4. hooks'[h] = call /\ \A g \in Hooks \ {h} : hooks'[g] = hooks[g]
  BY <1>1, <1>2 DEF SmsTypeOK
<1>5. ScreenTold'
  BY <1>1, <1>2, <1>4 DEF SendingInv, ScreenTold
<1> QED
  BY <1>1, <1>2, <1>3, <1>4, <1>5, QuietKeeps

LEMMA OtpScreen ==
    ASSUME SendingInv, NEW h \in Hooks, RequestCode(h) \/ CodeAnswer(h) \/ CodeUnanswered(h)
    PROVE  SendingInv'
<1> USE SmsAssumption
<1>1. /\ SmsTypeOK /\ clock \in Nat /\ UNCHANGED <<clock, log, sends, delivered>>
      /\ hooks[h] \in HookRec /\ hooks[h].ts \in Nat /\ hooks[h].ts <= clock
  BY DEF SendingInv, SmsTypeOK, HookRec, RowsCurrent, RequestCode, CodeAnswer, CodeUnanswered
<1>2. PICK call \in HookRec :
        /\ hooks' = [hooks EXCEPT ![h] = call]
        /\ call = hooks[h] \/ (call.pc \in {"idle", "asked"} /\ call.ts <= clock)
  <2>1. Resting \in HookRec /\ Resting.pc = "idle" /\ Resting.ts <= clock
    BY <1>1 DEF HookPcs, HookRec, LogRow, NoRow, Never, Resting
  <2>2. CASE RequestCode(h)
    <3>1. hooks' = [hooks EXCEPT ![h] = [hooks[h] EXCEPT !.pc = "asked"]]
      BY <1>1, <2>2 DEF RequestCode, SmsTypeOK
    <3>2. PICK call \in HookRec : call = [hooks[h] EXCEPT !.pc = "asked"]
      BY <1>1 DEF HookRec, HookPcs
    <3>3. call.pc = "asked" /\ call.ts = hooks[h].ts
      BY <1>1, <3>2 DEF HookRec
    <3> QED
      BY <1>1, <3>1, <3>2, <3>3
  <2>3. CASE CodeAnswer(h)
    BY <2>1, <2>3 DEF CodeAnswer
  <2>4. CASE UNCHANGED hooks
    BY <1>1, <2>4 DEF SmsTypeOK
  <2> QED
    BY <2>2, <2>3, <2>4 DEF CodeUnanswered
<1>3. hooks'[h] = call /\ \A g \in Hooks \ {h} : hooks'[g] = hooks[g]
  BY <1>1, <1>2 DEF SmsTypeOK
<1>4. login' \in LoginRec /\ (login'.stage = "code" => delivered) /\ stored' \in Nat
  <2>0. login \in LoginRec /\ stored \in Nat /\ (login.stage = "code" => delivered)
        /\ (hooks[h].pc = "sent" => delivered)
    BY <1>1 DEF SendingInv, SmsTypeOK, ScreenTold
  <2>1. CASE CodeAnswer(h)
    <3>1. PICK sentAt \in Nat, stage \in {"phone", "code", "in"} :
            /\ login' = [login EXCEPT !.loading = FALSE, !.waits = @ \ {h}, !.sentAt = sentAt, !.stage = stage]
            /\ stage = login.stage \/ hooks[h].pc = "sent"
      BY <1>1, <2>0, <2>1 DEF CodeAnswer, LoginRec
    <3>2. stored' \in {clock, stored}
      BY <2>1 DEF CodeAnswer
    <3> QED
      BY <1>1, <2>0, <3>1, <3>2 DEF LoginRec
  <2>2. CASE RequestCode(h) \/ CodeUnanswered(h)
    <3>1. PICK loading \in BOOLEAN, waits \in SUBSET Hooks :
            login' = [login EXCEPT !.loading = loading, !.waits = waits]
      BY <2>0, <2>2 DEF RequestCode, CodeUnanswered, LoginRec
    <3>2. stored' = stored
      BY <2>2 DEF RequestCode, CodeUnanswered
    <3> QED
      BY <2>0, <3>1, <3>2 DEF LoginRec
  <2> QED
    BY <2>1, <2>2
<1>5. SmsTypeOK'
  BY <1>1, <1>2, <1>4 DEF SmsTypeOK
<1>6. ScreenTold'
  BY <1>1, <1>2, <1>3, <1>4 DEF SendingInv, ScreenTold
<1> QED
  BY <1>1, <1>2, <1>3, <1>5, <1>6, QuietKeeps

\* Those that touch no call
LEMMA OtpScreenAlone ==
    ASSUME SendingInv, LoadCooldowns \/ ChangeNumber \/ Verify \/ ReopenLogin
    PROVE  SendingInv'
<1> USE SmsAssumption
<1>1. SmsTypeOK /\ UNCHANGED <<clock, log, hooks, sends, delivered, stored>>
  BY DEF SendingInv, LoadCooldowns, ChangeNumber, Verify, ReopenLogin
<1>2. login \in LoginRec /\ stored \in Nat /\ (login.stage = "code" => delivered)
  BY <1>1 DEF SendingInv, SmsTypeOK, ScreenTold
<1>3. login' \in LoginRec /\ (login'.stage = "code" => delivered)
  <2>1. CASE LoadCooldowns
    <3>1. PICK sentAt \in {stored, Never} : login' = [login EXCEPT !.loaded = TRUE, !.sentAt = sentAt]
      BY <2>1 DEF LoadCooldowns
    <3>2. sentAt \in Nat
      BY <1>2 DEF Never
    <3> QED
      BY <1>2, <3>1, <3>2 DEF LoginRec
  <2>2. CASE ChangeNumber \/ Verify
    BY <1>2, <2>2 DEF ChangeNumber, Verify, LoginRec
  <2>3. CASE ReopenLogin
    BY <1>2, <2>3 DEF ReopenLogin, LoginRec, Opened, Never
  <2> QED
    BY <2>1, <2>2, <2>3
<1>4. SmsTypeOK' /\ ScreenTold'
  BY <1>1, <1>3 DEF SendingInv, SmsTypeOK, ScreenTold
<1> QED
  BY <1>1, <1>4, QuietKeeps

LEMMA OtpPass ==
    ASSUME SendingInv, Pass
    PROVE  SendingInv'
<1>1. /\ SmsTypeOK /\ clock \in Nat /\ clock' = clock + 1 /\ log \in LogRow
      /\ UNCHANGED <<log, hooks, sends, delivered, login, stored>>
      /\ \A h \in Hooks : hooks[h].pc # "granted" /\ hooks[h].ts \in Nat
  BY DEF SendingInv, SmsTypeOK, HookRec, Pass
<1>2. SmsTypeOK' /\ ScreenTold'
  BY <1>1 DEF SendingInv, SmsTypeOK, ScreenTold
<1>3. RowsCurrent' /\ GrantsFresh'
  BY <1>1 DEF SendingInv, RowsCurrent, GrantsFresh, HoldsRow
<1>4. SendsCounted'
  BY <1>1 DEF SendingInv, SendsCounted, Found, LogRow
<1> QED
  BY <1>2, <1>3, <1>4 DEF SendingInv

\* The messages to a number are a cool-down apart and counted, whatever runs at once
\* and whichever calls fail (sms_otp_rate_limit_check with handleSendSmsRequest), and
\* the login screen asks for a code only when a message has been accepted.
THEOREM MessagesAreCounted == SmsSpec => []OtpInv
<1>1. SmsInit => SendingInv
  BY OtpInit
<1>2. SendingInv /\ [SmsNext]_sms => SendingInv'
  <2> SUFFICES ASSUME SendingInv, [SmsNext]_sms PROVE SendingInv'
    OBVIOUS
  <2>1. ASSUME NEW h \in Hooks, HookNext(h) PROVE SendingInv'
    BY <2>1, OtpReadRow, OtpDecide, OtpSend, OtpQuiet, OtpScreen DEF HookNext
  <2>2. CASE UNCHANGED sms
    BY <2>2 DEF sms, SendingInv, SmsTypeOK, RowsCurrent, HoldsRow, GrantsFresh, SendsCounted, ScreenTold, Found
  <2> QED
    BY <2>1, <2>2, OtpScreenAlone, OtpPass DEF SmsNext
<1>3. SendingInv => OtpInv
  BY DEF SendingInv, SendsCounted, ScreenTold, OtpInv
<1> QED
  BY <1>1, <1>2, <1>3, PTL DEF SmsSpec
-----------------------------------------------------------------------------
(***************************************************************************)
(* The operators' login.  A guess is counted by its own form, a step after *)
(* it was tried; until then the form stands for it.  When the limit is     *)
(* reached the key is locked, and of the forms that had passed the check   *)
(* before each can try once.                                               *)
(***************************************************************************)
SessionRec == [aal : {"aal1", "aal2", "closed"}, for : {"login", "change", "reset"}, closing : {"none", "failed"}]
GuardRec == [failures : Nat, until : Nat, tried : Nat]
FormRec == [pc : {"blank", "check", "sign_in", "member", "failure", "success", "factors", "pick",
                  "check_code", "challenge", "wrong", "right", "level", "issue", "proven"},
            for : {"login", "code", "change", "reset"}, key : {1, 2}, sid : Nat, fid : Nat]

AdminTypeOK ==
    /\ hour \in Nat /\ skips \in Nat
    /\ guard \in [GuardKeys -> GuardRec]
    /\ opened \in Seq(SessionRec)
    /\ factor \in [verified : Nat, last : Nat]
    /\ pending \in [sid : Nat, fid : Nat] /\ drawn \in Nat
    /\ forms \in [Forms -> FormRec]

\* A form that may still try, and one whose guess is not counted yet, by the key.
MayTry(k, x) ==
    CASE k = "ip" -> (x.pc = "check" /\ x.key = 2) \/ x.pc \in {"sign_in", "member"}
      [] k = "acct" -> x.pc \in {"sign_in", "member"}
      [] k = "mfa" -> x.pc = "challenge"
Uncounted(k, x) ==
    CASE k = "ip" -> x.pc = "failure" /\ x.key = 1
      [] k = "acct" -> x.pc = "failure"
      [] k = "mfa" -> x.pc = "wrong"
Trying(k) == {f \in Forms : MayTry(k, forms[f])}
Owing(k) == {f \in Forms : Uncounted(k, forms[f])}

KeyWindow(k) ==
    /\ guard[k].failures < MaxFailures
    /\ guard[k].until # 0 => guard[k].failures = 0
    /\ ~LockedKey(k) => guard[k].tried <= guard[k].failures + Cardinality(Owing(k)) + skips
    /\ LockedKey(k) =>
         guard[k].tried + Cardinality(Trying(k)) <= MaxFailures + (Cardinality(Forms) - 1) + skips

\* Which session of the service a form works with.
Paired(x, svc) ==
    /\ x.sid \in 0 .. Len(svc)
    /\ x.pc \in {"blank", "check", "sign_in"} => x.sid = 0
    /\ x.pc \notin {"blank", "check", "sign_in", "failure"} => x.sid # 0
    /\ x.pc = "failure" => x.sid = 0 \/ CloseAsked(svc[x.sid])
    /\ x.pc \in {"pick", "issue"} => x.for = "code"
    /\ x.pc \in {"check", "sign_in", "member", "failure", "success", "factors", "proven"} => x.for # "code"
    /\ x.sid # 0 => IF x.for = "code" THEN svc[x.sid].for # "change"
                    ELSE svc[x.sid].for = x.for
SessionsPaired ==
    /\ \A f \in Forms : Paired(forms[f], opened)
    /\ pending.sid \in 0 .. Len(opened)
    /\ pending.sid # 0 => opened[pending.sid].for # "change"

ChangesClosed ==
    \A sid \in 1 .. Len(opened) :
        opened[sid].for = "change" /\ ~CloseAsked(opened[sid]) => \E f \in Forms : forms[f].sid = sid

LoginInv == AdminTypeOK /\ (\A k \in GuardKeys : KeyWindow(k)) /\ SessionsPaired /\ ChangesClosed

\* How the step of one form, which was w and is x, concerns a key: it leaves the
\* count alone, tries a guess, counts the one it tried, or clears the count.
QuietFor(k, w, x) ==
    /\ guard'[k] = guard[k]
    /\ Uncounted(k, w) => Uncounted(k, x) \/ skips' = skips + 1
    /\ MayTry(k, x) => MayTry(k, w) \/ ~LockedKey(k)
TriesFor(k, w, x) ==
    /\ guard'[k] = [guard[k] EXCEPT !.tried = @ + 1]
    /\ MayTry(k, w) /\ Uncounted(k, x)
CountsFor(k, w, x) ==
    /\ guard'[k] = IF LockedKey(k) THEN guard[k] ELSE Count(guard[k])
    /\ Uncounted(k, w) /\ ~Uncounted(k, x) /\ ~MayTry(k, x)
ClearsFor(k) == guard'[k] = NoFailures
KeyMove(k, w, x) ==
    QuietFor(k, w, x) \/ TriesFor(k, w, x) \/ CountsFor(k, w, x) \/ ClearsFor(k)

\* A session keeps what it was opened for, and that it was to be closed.
SessionsStay ==
    /\ opened' \in Seq(SessionRec) /\ Len(opened) <= Len(opened')
    /\ \A s \in 1 .. Len(opened) :
         /\ opened'[s].for = opened[s].for
         /\ CloseAsked(opened[s]) => CloseAsked(opened'[s])

\* A form asks to close its session or hands it on, and takes the one it opens.
SessionMove(w, x) ==
    /\ SessionsStay /\ Paired(x, opened')
    /\ w.sid # 0 /\ x.sid # w.sid => CloseAsked(opened'[w.sid]) \/ opened[w.sid].for # "change"
    /\ \A s \in Len(opened) + 1 .. Len(opened') : x.sid = s
    /\ pending' \in [sid : Nat, fid : Nat] /\ pending'.sid \in 0 .. Len(opened')
    /\ pending'.sid # 0 => opened'[pending'.sid].for # "change"

FormStep(f) ==
    \E x \in FormRec :
        /\ forms' = [forms EXCEPT ![f] = x]
        /\ hour' = hour /\ skips' \in {skips, skips + 1}
        /\ guard' \in [GuardKeys -> GuardRec]
        /\ factor' \in [verified : Nat, last : Nat] /\ drawn' \in Nat
        /\ \A k \in GuardKeys : KeyMove(k, forms[f], x)
        /\ SessionMove(forms[f], x)

LEMMA NotBoth == \A k \in GuardKeys : \A x : ~(MayTry(k, x) /\ Uncounted(k, x))
BY DEF GuardKeys, MayTry, Uncounted

\* At most all forms are trying or owing, and none is both.
LEMMA FormsCounted ==
    \A k \in GuardKeys :
        /\ IsFiniteSet(Trying(k)) /\ IsFiniteSet(Owing(k))
        /\ Cardinality(Trying(k)) \in Nat /\ Cardinality(Owing(k)) \in Nat
        /\ Cardinality(Forms) \in Nat \ {0}
        /\ Cardinality(Trying(k)) + Cardinality(Owing(k)) <= Cardinality(Forms)
<1> TAKE k \in GuardKeys
<1>1. /\ IsFiniteSet(Trying(k)) /\ IsFiniteSet(Owing(k)) /\ IsFiniteSet(Forms)
      /\ Trying(k) \cup Owing(k) \subseteq Forms
  BY AdminLoginAssumption, FS_Subset DEF Trying, Owing, AdminLoginAssumption
<1>2. /\ Cardinality(Trying(k)) \in Nat /\ Cardinality(Owing(k)) \in Nat
      /\ Cardinality(Forms) \in Nat
  BY <1>1, FS_CardinalityType
<1>3. Cardinality(Forms) # 0
  BY <1>1, AdminLoginAssumption, FS_EmptySet DEF AdminLoginAssumption
<1>4. Trying(k) \cap Owing(k) = {}
  BY NotBoth DEF Trying, Owing
<1>5. Cardinality(Trying(k) \cup Owing(k)) = Cardinality(Trying(k)) + Cardinality(Owing(k))
  <2>1. Cardinality(Trying(k) \cup Owing(k))
          = Cardinality(Trying(k)) + Cardinality(Owing(k)) - Cardinality(Trying(k) \cap Owing(k))
    BY <1>1, FS_Union
  <2>2. Cardinality(Trying(k) \cap Owing(k)) = 0
    BY <1>4, FS_EmptySet
  <2> QED
    BY <1>2, <2>1, <2>2
<1>6. Cardinality(Trying(k) \cup Owing(k)) <= Cardinality(Forms)
  BY <1>1, FS_Subset
<1> QED
  BY <1>1, <1>2, <1>3, <1>5, <1>6

\* A set that one element joins or leaves.
LEMMA OneChange ==
    ASSUME NEW S, IsFiniteSet(S), NEW f
    PROVE  /\ Cardinality(S) \in Nat /\ Cardinality(S \cup {f}) \in Nat /\ Cardinality(S \ {f}) \in Nat
           /\ f \in S => S \cup {f} = S /\ Cardinality(S \ {f}) = Cardinality(S) - 1
           /\ f \notin S => S \ {f} = S /\ Cardinality(S \cup {f}) = Cardinality(S) + 1
<1>1. Cardinality(S) \in Nat /\ Cardinality(S \cup {f}) \in Nat /\ Cardinality(S \ {f}) \in Nat
  <2>1. IsFiniteSet(S \cup {f}) /\ IsFiniteSet(S \ {f})
    BY FS_AddElement, FS_RemoveElement
  <2> QED
    BY <2>1, FS_CardinalityType
<1>2. f \in S => S \cup {f} = S /\ Cardinality(S \ {f}) = Cardinality(S) - 1
  BY FS_RemoveElement
<1>3. f \notin S => S \ {f} = S /\ Cardinality(S \cup {f}) = Cardinality(S) + 1
  BY FS_AddElement
<1> QED
  BY <1>1, <1>2, <1>3

LEMMA FormsMoved ==
    ASSUME AdminTypeOK, NEW f \in Forms, NEW x, forms' = [forms EXCEPT ![f] = x], NEW k \in GuardKeys
    PROVE  /\ Trying(k)' = IF MayTry(k, x) THEN Trying(k) \cup {f} ELSE Trying(k) \ {f}
           /\ Owing(k)' = IF Uncounted(k, x) THEN Owing(k) \cup {f} ELSE Owing(k) \ {f}
           /\ f \in Trying(k) <=> MayTry(k, forms[f])
           /\ f \in Owing(k) <=> Uncounted(k, forms[f])
<1>1. forms'[f] = x /\ \A g \in Forms \ {f} : forms'[g] = forms[g]
  BY DEF AdminTypeOK
<1>2. \A g \in Forms : g \in Trying(k)' <=> MayTry(k, forms'[g])
  BY DEF Trying, MayTry
<1>3. \A g \in Forms : g \in Owing(k)' <=> Uncounted(k, forms'[g])
  BY DEF Owing, Uncounted
<1>4. Trying(k)' \subseteq Forms /\ Owing(k)' \subseteq Forms
  BY DEF Trying, Owing
<1> QED
  BY <1>1, <1>2, <1>3, <1>4 DEF Trying, Owing

LEMMA KeyMoves ==
    ASSUME AdminTypeOK, AdminTypeOK', NEW f \in Forms, NEW x, forms' = [forms EXCEPT ![f] = x],
           hour' = hour, skips' \in {skips, skips + 1},
           NEW k \in GuardKeys, KeyWindow(k), KeyMove(k, forms[f], x)
    PROVE  KeyWindow(k)'
<1> USE AdminLoginAssumption DEF AdminLoginAssumption
<1> DEFINE T == Cardinality(Trying(k))
           O == Cardinality(Owing(k))
           n == Cardinality(Forms)
           g == guard[k]
           h == guard'[k]
<1>1. /\ g \in GuardRec /\ h \in GuardRec /\ hour \in Nat /\ skips \in Nat /\ skips' \in Nat
      /\ skips <= skips' /\ (LockedKey(k)' <=> h.until > hour) /\ (LockedKey(k) <=> g.until > hour)
  BY DEF AdminTypeOK, LockedKey
<1>2. T \in Nat /\ O \in Nat /\ n \in Nat \ {0} /\ T + O <= n
  BY FormsCounted
<1>3. /\ MayTry(k, forms[f]) /\ ~MayTry(k, x) => T' = T - 1
      /\ ~MayTry(k, forms[f]) /\ MayTry(k, x) => T' = T + 1
      /\ (MayTry(k, forms[f]) <=> MayTry(k, x)) => T' = T
      /\ T' \in Nat
  <2>1. /\ Trying(k)' = IF MayTry(k, x) THEN Trying(k) \cup {f} ELSE Trying(k) \ {f}
        /\ f \in Trying(k) <=> MayTry(k, forms[f])
    BY FormsMoved
  <2>2. IsFiniteSet(Trying(k))
    BY FormsCounted
  <2>3. /\ Cardinality(Trying(k)) \in Nat /\ Cardinality(Trying(k) \cup {f}) \in Nat
        /\ Cardinality(Trying(k) \ {f}) \in Nat
        /\ f \in Trying(k) => /\ Trying(k) \cup {f} = Trying(k)
                            /\ Cardinality(Trying(k) \ {f}) = Cardinality(Trying(k)) - 1
        /\ f \notin Trying(k) => /\ Trying(k) \ {f} = Trying(k)
                               /\ Cardinality(Trying(k) \cup {f}) = Cardinality(Trying(k)) + 1
    BY <2>2, OneChange
  <2> QED
    BY <2>1, <2>3
<1>4. /\ Uncounted(k, forms[f]) /\ ~Uncounted(k, x) => O' = O - 1
      /\ ~Uncounted(k, forms[f]) /\ Uncounted(k, x) => O' = O + 1
      /\ (Uncounted(k, forms[f]) <=> Uncounted(k, x)) => O' = O
      /\ O' \in Nat
  <2>1. /\ Owing(k)' = IF Uncounted(k, x) THEN Owing(k) \cup {f} ELSE Owing(k) \ {f}
        /\ f \in Owing(k) <=> Uncounted(k, forms[f])
    BY FormsMoved
  <2>2. IsFiniteSet(Owing(k))
    BY FormsCounted
  <2>3. /\ Cardinality(Owing(k)) \in Nat /\ Cardinality(Owing(k) \cup {f}) \in Nat
        /\ Cardinality(Owing(k) \ {f}) \in Nat
        /\ f \in Owing(k) => /\ Owing(k) \cup {f} = Owing(k)
                            /\ Cardinality(Owing(k) \ {f}) = Cardinality(Owing(k)) - 1
        /\ f \notin Owing(k) => /\ Owing(k) \ {f} = Owing(k)
                               /\ Cardinality(Owing(k) \cup {f}) = Cardinality(Owing(k)) + 1
    BY <2>2, OneChange
  <2> QED
    BY <2>1, <2>3
<1>5. /\ g.failures < MaxFailures /\ (g.until # 0 => g.failures = 0)
      /\ ~LockedKey(k) => g.tried <= g.failures + O + skips
      /\ LockedKey(k) => g.tried + T <= MaxFailures + (n - 1) + skips
  BY DEF KeyWindow
<1>6. SUFFICES /\ h.failures < MaxFailures
               /\ h.until # 0 => h.failures = 0
               /\ ~LockedKey(k)' => h.tried <= h.failures + O' + skips'
               /\ LockedKey(k)' => h.tried + T' <= MaxFailures + (n - 1) + skips'
  BY DEF KeyWindow
<1>7. g.failures \in Nat /\ g.until \in Nat /\ g.tried \in Nat
  BY <1>1 DEF GuardRec
<1> HIDE DEF T, O, n
<1>8. CASE QuietFor(k, forms[f], x)
  <2>1. h = g /\ (LockedKey(k)' <=> LockedKey(k))
    BY <1>1, <1>8 DEF QuietFor
  <2>2. O' + skips' >= O + skips
    <3>1. CASE Uncounted(k, forms[f]) /\ ~Uncounted(k, x)
      <4>1. O' = O - 1 /\ skips' = skips + 1
        BY <1>4, <1>8, <3>1 DEF QuietFor
      <4> QED
        BY <1>1, <1>2, <4>1
    <3>2. CASE ~(Uncounted(k, forms[f]) /\ ~Uncounted(k, x))
      <4>1. O' = O \/ O' = O + 1
        BY <1>4, <3>2
      <4> QED
        BY <1>1, <1>2, <4>1
    <3> QED
      BY <3>1, <3>2
  <2>3. LockedKey(k) => T' <= T /\ T' \in Int
    BY <1>2, <1>3, <1>8 DEF QuietFor
  <2>4. O' \in Int
    BY <1>2, <1>4
  <2>5. /\ h.failures = g.failures /\ h.until = g.until /\ h.tried = g.tried
    BY <2>1
  <2>6. ~LockedKey(k)' => h.tried <= h.failures + O' + skips'
    BY <1>1, <1>2, <1>5, <1>7, <2>1, <2>2, <2>4, <2>5
  <2>7. LockedKey(k)' => h.tried + T' <= MaxFailures + (n - 1) + skips'
    BY <1>1, <1>2, <1>5, <1>7, <2>1, <2>3, <2>5
  <2> QED
    BY <1>5, <2>5, <2>6, <2>7
<1>9. CASE TriesFor(k, forms[f], x)
  <2>1. /\ h.failures = g.failures /\ h.until = g.until /\ h.tried = g.tried + 1
    BY <1>1, <1>9 DEF TriesFor, GuardRec
  <2>2. O' = O + 1 /\ T' = T - 1
    BY <1>3, <1>4, <1>9, NotBoth DEF TriesFor
  <2> QED
    BY <1>1, <1>2, <1>5, <1>7, <2>1, <2>2
<1>10. CASE CountsFor(k, forms[f], x)
  <2>1. O' = O - 1 /\ T' = T
    BY <1>3, <1>4, <1>10, NotBoth DEF CountsFor
  <2>2. CASE LockedKey(k)
    <3>1. h = g
      BY <1>10, <2>2 DEF CountsFor
    <3> QED
      BY <1>1, <1>2, <1>5, <1>7, <2>1, <2>2, <3>1
  <2>3. CASE ~LockedKey(k)
    <3>1. h = Count(g)
      BY <1>10, <2>3 DEF CountsFor
    <3>2. 1 + (IF g.until # 0 THEN 0 ELSE g.failures) = g.failures + 1
      BY <1>5, <1>7
    <3>3. CASE g.failures + 1 >= MaxFailures
      <4>1. h.failures = 0 /\ h.until = hour + LockTime /\ h.tried = g.tried
        BY <1>1, <3>1, <3>2, <3>3 DEF Count, GuardRec
      <4>2. LockedKey(k)'
        BY <1>1, <4>1
      <4> QED
        BY <1>1, <1>2, <1>5, <1>7, <2>1, <2>3, <3>3, <4>1, <4>2
    <3>4. CASE ~(g.failures + 1 >= MaxFailures)
      <4>1. h.failures = g.failures + 1 /\ h.until = 0 /\ h.tried = g.tried
        BY <1>1, <3>1, <3>2, <3>4 DEF Count, GuardRec
      <4> QED
        BY <1>1, <1>2, <1>5, <1>7, <2>1, <2>3, <3>4, <4>1
    <3> QED
      BY <3>3, <3>4
  <2> QED
    BY <2>2, <2>3
<1>11. CASE ClearsFor(k)
  <2>1. h.failures = 0 /\ h.until = 0 /\ h.tried = 0
    BY <1>11 DEF ClearsFor, NoFailures
  <2>2. O' \in Nat /\ ~LockedKey(k)'
    BY <1>1, <1>4, <2>1
  <2>3. h.tried <= h.failures + O' + skips'
    BY <1>1, <2>1, <2>2
  <2>4. h.failures < MaxFailures
    BY <2>1
  <2> QED
    BY <2>1, <2>2, <2>3, <2>4
<1> QED
  BY <1>8, <1>9, <1>10, <1>11 DEF KeyMove

LEMMA FormStepKeeps ==
    ASSUME LoginInv, NEW f \in Forms, FormStep(f)
    PROVE  LoginInv'
<1>1. PICK x \in FormRec :
        /\ forms' = [forms EXCEPT ![f] = x]
        /\ hour' = hour /\ skips' \in {skips, skips + 1}
        /\ guard' \in [GuardKeys -> GuardRec]
        /\ factor' \in [verified : Nat, last : Nat] /\ drawn' \in Nat
        /\ \A k \in GuardKeys : KeyMove(k, forms[f], x)
        /\ SessionMove(forms[f], x)
  BY DEF FormStep
<1>2. AdminTypeOK /\ SessionsPaired /\ ChangesClosed /\ \A k \in GuardKeys : KeyWindow(k)
  BY DEF LoginInv
<1>3. /\ forms'[f] = x /\ \A g \in Forms \ {f} : forms'[g] = forms[g]
      /\ forms' \in [Forms -> FormRec] /\ forms[f] \in FormRec
  BY <1>1, <1>2 DEF AdminTypeOK
<1>4. AdminTypeOK'
  BY <1>1, <1>2, <1>3 DEF AdminTypeOK, SessionMove, SessionsStay
<1>5. \A k \in GuardKeys : KeyWindow(k)'
  BY <1>1, <1>2, <1>4, KeyMoves
<1>6. /\ opened \in Seq(SessionRec) /\ opened' \in Seq(SessionRec) /\ Len(opened) <= Len(opened')
      /\ Len(opened) \in Nat /\ Len(opened') \in Nat
      /\ \A s \in 1 .. Len(opened) : s \in 1 .. Len(opened')
      /\ \A s \in 1 .. Len(opened) : /\ opened'[s].for = opened[s].for
                                     /\ CloseAsked(opened[s]) => CloseAsked(opened'[s])
  <2>1. /\ opened \in Seq(SessionRec) /\ opened' \in Seq(SessionRec) /\ Len(opened) <= Len(opened')
        /\ \A s \in 1 .. Len(opened) : /\ opened'[s].for = opened[s].for
                                       /\ CloseAsked(opened[s]) => CloseAsked(opened'[s])
    BY <1>1, <1>2 DEF AdminTypeOK, SessionMove, SessionsStay
  <2>2. Len(opened) \in Nat /\ Len(opened') \in Nat
    BY <2>1
  <2>3. \A s \in 1 .. Len(opened) : s \in 1 .. Len(opened')
    BY <2>1, <2>2
  <2> QED
    BY <2>1, <2>2, <2>3
<1>7. ASSUME NEW y \in FormRec, Paired(y, opened) PROVE Paired(y, opened')
  <2>1. y.sid \in 0 .. Len(opened) /\ y.sid \in 0 .. Len(opened')
    BY <1>6, <1>7 DEF Paired
  <2>2. y.sid # 0 => y.sid \in 1 .. Len(opened)
    BY <1>6, <2>1
  <2> QED
    BY <1>6, <1>7, <2>1, <2>2 DEF Paired
<1>8. SessionsPaired'
  <2>1. \A g \in Forms : Paired(forms'[g], opened')
    <3> TAKE g \in Forms
    <3>1. CASE g = f
      BY <1>1, <1>3, <3>1 DEF SessionMove
    <3>2. CASE g # f
      <4>1. forms'[g] = forms[g] /\ forms[g] \in FormRec /\ Paired(forms[g], opened)
        BY <1>2, <1>3, <3>2 DEF SessionsPaired, AdminTypeOK
      <4>2. Paired(forms[g], opened')
        BY <4>1, <1>7
      <4> QED
        BY <4>1, <4>2
    <3> QED
      BY <3>1, <3>2
  <2> QED
    BY <1>1, <2>1 DEF SessionMove, SessionsPaired
<1>9. ChangesClosed'
  <2> SUFFICES ASSUME NEW s \in 1 .. Len(opened'), opened'[s].for = "change", ~CloseAsked(opened'[s])
               PROVE  \E g \in Forms : forms'[g].sid = s
    BY DEF ChangesClosed
  <2>1. CASE s \in 1 .. Len(opened)
    <3>1. opened[s].for = "change" /\ ~CloseAsked(opened[s]) /\ s # 0
      BY <1>6, <2>1
    <3>2. PICK g \in Forms : forms[g].sid = s
      BY <1>2, <2>1, <3>1 DEF ChangesClosed
    <3>3. g = f => x.sid = s
      BY <1>1, <3>1, <3>2 DEF SessionMove
    <3> QED
      BY <1>3, <3>2, <3>3
  <2>2. CASE s \notin 1 .. Len(opened)
    <3>1. s \in Len(opened) + 1 .. Len(opened')
      BY <1>6, <2>2
    <3> QED
      BY <1>1, <1>3, <3>1 DEF SessionMove
  <2> QED
    BY <2>1, <2>2
<1> QED
  BY <1>4, <1>5, <1>8, <1>9 DEF LoginInv

\* What every step of a form does to the rest, and where the cookie of the page points.
RestTyped ==
    /\ hour' = hour /\ skips' \in {skips, skips + 1}
    /\ guard' \in [GuardKeys -> GuardRec]
    /\ factor' \in [verified : Nat, last : Nat] /\ drawn' \in Nat
PendingFine ==
    /\ pending' \in [sid : Nat, fid : Nat] /\ pending'.sid \in 0 .. Len(opened')
    /\ pending'.sid # 0 => opened'[pending'.sid].for # "change"

LEMMA BlankFacts ==
    /\ Blank \in FormRec /\ Blank.sid = 0
    /\ \A k \in GuardKeys : ~MayTry(k, Blank) /\ ~Uncounted(k, Blank)
    /\ \A svc : Len(svc) \in Nat => Paired(Blank, svc)
BY DEF Blank, FormRec, GuardKeys, MayTry, Uncounted, Paired

LEMMA FormFacts ==
    ASSUME LoginInv, NEW f \in Forms
    PROVE  /\ forms \in [Forms -> FormRec] /\ forms[f] \in FormRec /\ Paired(forms[f], opened)
           /\ opened \in Seq(SessionRec) /\ Len(opened) \in Nat
           /\ pending \in [sid : Nat, fid : Nat] /\ pending.sid \in 0 .. Len(opened)
           /\ pending.sid # 0 => opened[pending.sid].for # "change"
           /\ factor \in [verified : Nat, last : Nat] /\ drawn \in Nat
           /\ guard \in [GuardKeys -> GuardRec] /\ skips \in Nat /\ hour \in Nat
BY DEF LoginInv, AdminTypeOK, SessionsPaired

LEMMA KeyFacts ==
    ASSUME NEW f \in Forms
    PROVE  /\ forms[f].key = 1 => KeyOf(f) = "ip" /\ ~LastSession(f)
           /\ forms[f].key = 2 => KeyOf(f) = "acct" /\ LastSession(f)
BY DEF KeyOf, LastSession, PasswordKeys

\* What the guard writes.
LEMMA GuardWrites ==
    ASSUME guard \in [GuardKeys -> GuardRec], hour \in Nat, NEW k \in GuardKeys, NEW keys
    PROVE  /\ Hit(k) => /\ guard' \in [GuardKeys -> GuardRec]
                        /\ guard'[k] = IF LockedKey(k) THEN guard[k] ELSE Count(guard[k])
                        /\ \A j \in GuardKeys \ {k} : guard'[j] = guard[j]
           /\ Reset(k) => /\ guard' \in [GuardKeys -> GuardRec]
                          /\ guard'[k] = NoFailures
                          /\ \A j \in GuardKeys \ {k} : guard'[j] = guard[j]
           /\ Try(keys) => /\ guard' \in [GuardKeys -> GuardRec]
                           /\ \A j \in GuardKeys : guard'[j] = IF j \in keys THEN [guard[j] EXCEPT !.tried = @ + 1]
                                                               ELSE guard[j]
<1>1. \A j \in GuardKeys : guard[j] \in GuardRec
  OBVIOUS
<1>2. \A g \in GuardRec : Count(g) \in GuardRec /\ [g EXCEPT !.tried = @ + 1] \in GuardRec
  <2> TAKE g \in GuardRec
  <2>1. g.failures \in Nat /\ g.until \in Nat /\ g.tried \in Nat
    BY DEF GuardRec
  <2>2. 1 + (IF g.until # 0 THEN 0 ELSE g.failures) \in Nat /\ hour + LockTime \in Nat
    BY <2>1, AdminLoginAssumption DEF AdminLoginAssumption
  <2>3. \A n, u \in Nat : [g EXCEPT !.failures = n, !.until = u] \in GuardRec
    BY DEF GuardRec
  <2>4. Count(g) \in GuardRec
    BY <2>2, <2>3 DEF Count
  <2>5. [g EXCEPT !.tried = @ + 1] \in GuardRec
    BY <2>1 DEF GuardRec
  <2> QED
    BY <2>4, <2>5
<1>3. NoFailures \in GuardRec
  BY DEF NoFailures, GuardRec
<1>4. Hit(k) => /\ guard' \in [GuardKeys -> GuardRec]
                /\ guard'[k] = IF LockedKey(k) THEN guard[k] ELSE Count(guard[k])
                /\ \A j \in GuardKeys \ {k} : guard'[j] = guard[j]
  BY <1>1, <1>2 DEF Hit
<1>5. Reset(k) => /\ guard' \in [GuardKeys -> GuardRec]
                  /\ guard'[k] = NoFailures
                  /\ \A j \in GuardKeys \ {k} : guard'[j] = guard[j]
  BY <1>1, <1>3 DEF Reset
<1>6. Try(keys) => /\ guard' \in [GuardKeys -> GuardRec]
                   /\ \A j \in GuardKeys : guard'[j] = IF j \in keys THEN [guard[j] EXCEPT !.tried = @ + 1]
                                                       ELSE guard[j]
  BY <1>1, <1>2 DEF Try
<1> QED
  BY <1>4, <1>5, <1>6

LEMMA SessionsAlone ==
    ASSUME opened \in Seq(SessionRec), UNCHANGED opened
    PROVE  SessionsStay /\ Len(opened') = Len(opened) /\ Len(opened) \in Nat
BY DEF SessionsStay

LEMMA SignsOut ==
    ASSUME opened \in Seq(SessionRec), NEW s \in 1 .. Len(opened), SignOut(s)
    PROVE  /\ SessionsStay /\ Len(opened') = Len(opened) /\ Len(opened) \in Nat
           /\ CloseAsked(opened'[s])
<1>1. PICK r \in SessionRec :
        /\ opened' = [opened EXCEPT ![s] = r]
        /\ CloseAsked(r) /\ r.for = opened[s].for
  <2>1. opened[s] \in SessionRec
    OBVIOUS
  <2>2. \A o \in SessionRec :
          /\ [o EXCEPT !.aal = "closed"] \in SessionRec /\ [o EXCEPT !.aal = "closed"].for = o.for
          /\ [o EXCEPT !.aal = "closed"].aal = "closed"
          /\ [o EXCEPT !.closing = "failed"] \in SessionRec /\ [o EXCEPT !.closing = "failed"].for = o.for
          /\ [o EXCEPT !.closing = "failed"].closing = "failed"
    BY DEF SessionRec
  <2>3. CASE opened' = [opened EXCEPT ![s] = [opened[s] EXCEPT !.aal = "closed"]]
    BY <2>1, <2>2, <2>3 DEF CloseAsked
  <2>4. CASE opened' = [opened EXCEPT ![s] = [opened[s] EXCEPT !.closing = "failed"]]
    BY <2>1, <2>2, <2>4 DEF CloseAsked
  <2> QED
    BY <2>3, <2>4 DEF SignOut
<1>2. /\ opened' \in Seq(SessionRec) /\ Len(opened') = Len(opened) /\ Len(opened) \in Nat
      /\ \A i \in 1 .. Len(opened) : opened'[i] = IF i = s THEN r ELSE opened[i]
  BY <1>1
<1> QED
  BY <1>1, <1>2 DEF SessionsStay

LEMMA PendingStays ==
    ASSUME LoginInv, UNCHANGED pending, SessionsStay, Len(opened') \in Nat
    PROVE  PendingFine
<1>1. /\ pending \in [sid : Nat, fid : Nat] /\ pending.sid \in 0 .. Len(opened) /\ Len(opened) \in Nat
      /\ pending.sid # 0 => opened[pending.sid].for # "change"
  BY DEF LoginInv, AdminTypeOK, SessionsPaired
<1>2. Len(opened) <= Len(opened') /\ \A s \in 1 .. Len(opened) : opened'[s].for = opened[s].for
  BY DEF SessionsStay
<1> QED
  BY <1>1, <1>2 DEF PendingFine

\* A form that is answered, and one that goes on with its session.
LEMMA AnswerStep ==
    ASSUME LoginInv, NEW f \in Forms, RestTyped, PendingFine, SessionsStay, Len(opened') = Len(opened),
           forms' = [forms EXCEPT ![f] = Blank],
           \A k \in GuardKeys : KeyMove(k, forms[f], Blank),
           forms[f].sid # 0 => CloseAsked(opened'[forms[f].sid]) \/ opened[forms[f].sid].for # "change"
    PROVE  FormStep(f)
<1>1. Len(opened) \in Nat
  BY FormFacts
<1>2. Paired(Blank, opened')
  BY <1>1, BlankFacts
<1>3. SessionMove(forms[f], Blank)
  BY <1>1, <1>2 DEF SessionMove, PendingFine
<1> QED
  BY <1>3, BlankFacts DEF FormStep, RestTyped

LEMMA GoStep ==
    ASSUME LoginInv, NEW f \in Forms, RestTyped, PendingFine, SessionsStay, Len(opened') = Len(opened),
           NEW x \in FormRec, forms' = [forms EXCEPT ![f] = x], x.sid = forms[f].sid, Paired(x, opened'),
           \A k \in GuardKeys : KeyMove(k, forms[f], x)
    PROVE  FormStep(f)
<1>1. Len(opened) \in Nat
  BY FormFacts
<1>2. SessionMove(forms[f], x)
  BY <1>1 DEF SessionMove, PendingFine
<1> QED
  BY <1>2 DEF FormStep, RestTyped

LEMMA LoginInit == AdminLoginInit => LoginInv
<1> SUFFICES ASSUME AdminLoginInit PROVE LoginInv
  OBVIOUS
<1>1. opened = <<>> /\ opened \in Seq(SessionRec) /\ Len(opened) = 0
  BY DEF AdminLoginInit
<1>2. \A f \in Forms : forms[f] = Blank
  BY DEF AdminLoginInit
<1>3. AdminTypeOK
  BY <1>1, BlankFacts DEF AdminLoginInit, AdminTypeOK, GuardRec, NoFailures, NoCookie
<1>4. \A k \in GuardKeys : KeyWindow(k)
  <2> TAKE k \in GuardKeys
  <2>1. guard[k].failures = 0 /\ guard[k].until = 0 /\ guard[k].tried = 0 /\ hour = 1 /\ skips = 0
    BY DEF AdminLoginInit, NoFailures
  <2>2. Cardinality(Owing(k)) \in Nat
    BY FormsCounted
  <2> QED
    BY <2>1, <2>2, AdminLoginAssumption DEF AdminLoginAssumption, KeyWindow, LockedKey
<1>5. SessionsPaired
  BY <1>1, <1>2, BlankFacts DEF SessionsPaired, AdminLoginInit, NoCookie
<1>6. ChangesClosed
  BY <1>1 DEF ChangesClosed
<1> QED
  BY <1>3, <1>4, <1>5, <1>6 DEF LoginInv

\* The bounds themselves.
LEMMA LoginInvSuffices == LoginInv => AdminLoginInv
<1> SUFFICES ASSUME LoginInv PROVE AdminLoginInv
  OBVIOUS
<1>1. \A k \in GuardKeys : guard[k].tried <= MaxFailures + (Cardinality(Forms) - 1) + skips
  <2> TAKE k \in GuardKeys
  <2>1. guard[k] \in GuardRec /\ skips \in Nat /\ KeyWindow(k)
    BY DEF LoginInv, AdminTypeOK
  <2>2. guard[k].failures \in Nat /\ guard[k].tried \in Nat
    BY <2>1 DEF GuardRec
  <2>3. /\ Cardinality(Trying(k)) \in Nat /\ Cardinality(Owing(k)) \in Nat /\ Cardinality(Forms) \in Nat
        /\ Cardinality(Trying(k)) + Cardinality(Owing(k)) <= Cardinality(Forms)
    BY FormsCounted
  <2>4. CASE LockedKey(k)
    BY <2>1, <2>2, <2>3, <2>4, AdminLoginAssumption DEF AdminLoginAssumption, KeyWindow
  <2>5. CASE ~LockedKey(k)
    BY <2>1, <2>2, <2>3, <2>5, AdminLoginAssumption DEF AdminLoginAssumption, KeyWindow
  <2> QED
    BY <2>4, <2>5
<1> QED
  BY <1>1 DEF AdminLoginInv, LoginInv, ChangesClosed

\* The page, the cookies and the time.
LEMMA PageSteps ==
    ASSUME LoginInv, Draw \/ PendingEnds \/ Logout
    PROVE  LoginInv'
<1>1. /\ UNCHANGED <<hour, guard, opened, forms, skips>> /\ AdminTypeOK
      /\ drawn' \in Nat /\ factor' \in [verified : Nat, last : Nat]
      /\ pending' = pending \/ pending' = NoCookie
  BY DEF Draw, PendingEnds, Logout, LoginInv, AdminTypeOK
<1>2. AdminTypeOK' /\ SessionsPaired'
  BY <1>1 DEF LoginInv, AdminTypeOK, SessionsPaired, NoCookie
<1>3. \A k \in GuardKeys : KeyWindow(k)'
  BY <1>1 DEF LoginInv, KeyWindow, LockedKey, Trying, Owing
<1>4. ChangesClosed'
  BY <1>1 DEF LoginInv, ChangesClosed
<1> QED
  BY <1>2, <1>3, <1>4 DEF LoginInv

LEMMA HourKeeps == ASSUME LoginInv, HourPasses PROVE LoginInv'
<1>1. /\ UNCHANGED <<opened, factor, pending, drawn, forms, skips>> /\ AdminTypeOK
      /\ hour' = hour + 1 /\ hour \in Nat
  BY DEF HourPasses, LoginInv, AdminTypeOK
<1>2. \A k \in GuardKeys :
        /\ guard[k] \in GuardRec
        /\ guard'[k] = IF guard[k].until = hour + 1 THEN [guard[k] EXCEPT !.tried = 0] ELSE guard[k]
  BY <1>1 DEF HourPasses, AdminTypeOK
<1>3. guard' \in [GuardKeys -> GuardRec]
  <2>1. \A g \in GuardRec : [g EXCEPT !.tried = 0] \in GuardRec
    BY DEF GuardRec
  <2> QED
    BY <1>2, <2>1 DEF HourPasses
<1>4. AdminTypeOK'
  BY <1>1, <1>3 DEF AdminTypeOK
<1>5. \A k \in GuardKeys : KeyWindow(k)'
  <2> TAKE k \in GuardKeys
  <2>1. /\ guard[k].failures \in Nat /\ guard[k].until \in Nat /\ guard[k].tried \in Nat
        /\ guard'[k].failures = guard[k].failures /\ guard'[k].until = guard[k].until
        /\ guard'[k].tried = IF guard[k].until = hour + 1 THEN 0 ELSE guard[k].tried
    BY <1>2 DEF GuardRec
  <2>2. /\ Trying(k)' = Trying(k) /\ Owing(k)' = Owing(k) /\ skips' = skips /\ skips \in Nat
        /\ Cardinality(Owing(k)) \in Nat
    BY <1>1, FormsCounted DEF Trying, Owing, AdminTypeOK
  <2>3. /\ LockedKey(k) <=> guard[k].until > hour
        /\ LockedKey(k)' <=> guard[k].until > hour + 1
    BY <1>1, <2>1 DEF LockedKey
  <2>4. KeyWindow(k)
    BY DEF LoginInv
  <2>5. guard'[k].failures < MaxFailures /\ (guard'[k].until # 0 => guard'[k].failures = 0)
    BY <2>1, <2>4 DEF KeyWindow
  <2>6. ~LockedKey(k)' => guard'[k].tried <= guard'[k].failures + Cardinality(Owing(k)) + skips
    <3>1. CASE guard[k].until = hour + 1
      BY <2>1, <2>2, <3>1
    <3>2. CASE guard[k].until # hour + 1 /\ ~LockedKey(k)'
      <4>1. ~LockedKey(k) /\ guard'[k].tried = guard[k].tried
        BY <1>1, <2>1, <2>3, <3>2
      <4> QED
        BY <2>1, <2>4, <4>1 DEF KeyWindow
    <3> QED
      BY <3>1, <3>2
  <2>7. LockedKey(k)' => guard'[k].tried + Cardinality(Trying(k)) <= MaxFailures + (Cardinality(Forms) - 1) + skips
    BY <1>1, <2>1, <2>3, <2>4 DEF KeyWindow
  <2> QED
    BY <2>2, <2>5, <2>6, <2>7 DEF KeyWindow
<1>6. SessionsPaired' /\ ChangesClosed'
  BY <1>1 DEF LoginInv, SessionsPaired, ChangesClosed
<1> QED
  BY <1>4, <1>5, <1>6 DEF LoginInv

\* A form at pc goes on with the session it has; nothing but its place changes.
LEMMA Moves ==
    ASSUME forms \in [Forms -> FormRec], NEW f \in Forms, NEW pc, NEW key, NEW sid
    PROVE  /\ [forms EXCEPT ![f].pc = pc] = [forms EXCEPT ![f] = [forms[f] EXCEPT !.pc = pc]]
           /\ [forms EXCEPT ![f].key = @ + 1] = [forms EXCEPT ![f] = [forms[f] EXCEPT !.key = @ + 1]]
           /\ [forms EXCEPT ![f].pc = pc, ![f].key = key]
                = [forms EXCEPT ![f] = [forms[f] EXCEPT !.pc = pc, !.key = key]]
           /\ [forms EXCEPT ![f].pc = pc, ![f].sid = sid]
                = [forms EXCEPT ![f] = [forms[f] EXCEPT !.pc = pc, !.sid = sid]]
OBVIOUS

LEMMA SubmitPasswordSteps ==
    ASSUME LoginInv, NEW f \in Forms, SubmitPassword(f)
    PROVE  FormStep(f)
<1>1. PICK for \in {"login", "change", "reset"} :
        forms' = [forms EXCEPT ![f] = [Blank EXCEPT !.pc = "check", !.for = for]]
  BY DEF SubmitPassword
<1> DEFINE x == [Blank EXCEPT !.pc = "check", !.for = for]
<1>2. /\ x \in FormRec /\ x.sid = 0 /\ x.pc = "check" /\ x.for # "code" /\ x.key = 1
  BY DEF Blank, FormRec
<1>7. forms' = [forms EXCEPT ![f] = x]
  BY <1>1
<1> HIDE DEF x
<1>3. forms[f].pc = "blank" /\ forms[f].sid = 0
  BY FormFacts DEF SubmitPassword, At, Paired
<1>4. RestTyped /\ UNCHANGED <<guard, opened, pending>> /\ SessionsStay /\ Len(opened') = Len(opened) /\ PendingFine
  BY FormFacts, SessionsAlone, PendingStays DEF SubmitPassword, RestTyped
<1>5. Paired(x, opened')
  BY <1>2, <1>4, FormFacts DEF Paired
<1>6. \A k \in GuardKeys : KeyMove(k, forms[f], x)
  <2>1. \A k \in GuardKeys : ~MayTry(k, x) /\ ~Uncounted(k, forms[f])
    <3>1. x.key # 2
      BY <1>2
    <3> QED
      BY <1>2, <1>3, <3>1 DEF MayTry, Uncounted, GuardKeys
  <2> QED
    BY <1>4, <2>1 DEF KeyMove, QuietFor
<1> QED
  BY <1>2, <1>3, <1>4, <1>5, <1>6, <1>7, GoStep

LEMMA CheckKeySteps ==
    ASSUME LoginInv, NEW f \in Forms, CheckKey(f)
    PROVE  FormStep(f)
<1>1. /\ forms[f] \in FormRec /\ forms[f].pc = "check" /\ forms[f].sid = 0 /\ forms[f].for # "code"
      /\ forms \in [Forms -> FormRec] /\ Len(opened) \in Nat
  BY FormFacts DEF CheckKey, At, Paired
<1>2. RestTyped /\ UNCHANGED <<guard, opened, pending>> /\ SessionsStay /\ Len(opened') = Len(opened) /\ PendingFine
  BY FormFacts, SessionsAlone, PendingStays DEF CheckKey, RestTyped, Well, Skip
<1>3. CASE forms' = [forms EXCEPT ![f] = Blank]
  <2>1. \A k \in GuardKeys : KeyMove(k, forms[f], Blank)
    BY <1>1, <1>2, BlankFacts DEF KeyMove, QuietFor, Uncounted, GuardKeys
  <2> QED
    BY <1>1, <1>2, <1>3, <2>1, AnswerStep
<1>4. CASE ~LastSession(f) /\ NextKey(f) /\ ~LockedKey(KeyOf(f))
  <2> DEFINE x == [forms[f] EXCEPT !.key = @ + 1]
  <2>1. forms[f].key = 1 /\ KeyOf(f) = "ip"
    BY <1>1, <1>4, KeyFacts DEF FormRec
  <2>2. x \in FormRec /\ x.key = 2 /\ x.pc = "check" /\ x.sid = 0 /\ x.for = forms[f].for
    BY <1>1, <2>1 DEF FormRec
  <2>3. forms' = [forms EXCEPT ![f] = x]
    BY <1>1, <1>4, Moves DEF NextKey
  <2> HIDE DEF x
  <2>4. \A k \in GuardKeys : KeyMove(k, forms[f], x)
    BY <1>1, <1>2, <1>4, <2>1, <2>2 DEF KeyMove, QuietFor, MayTry, Uncounted, GuardKeys
  <2>5. Paired(x, opened')
    BY <1>1, <1>2, <2>2 DEF Paired
  <2> QED
    BY <1>1, <1>2, <2>2, <2>3, <2>4, <2>5, GoStep
<1>5. CASE LastSession(f) /\ Goes(f, "sign_in") /\ ~LockedKey(KeyOf(f))
  <2> DEFINE x == [forms[f] EXCEPT !.pc = "sign_in"]
  <2>1. forms[f].key = 2 /\ KeyOf(f) = "acct"
    BY <1>1, <1>5, KeyFacts DEF FormRec
  <2>2. x \in FormRec /\ x.pc = "sign_in" /\ x.sid = 0 /\ x.for = forms[f].for
    BY <1>1 DEF FormRec
  <2>3. forms' = [forms EXCEPT ![f] = x]
    BY <1>1, <1>5, Moves DEF Goes
  <2> HIDE DEF x
  <2>4. \A k \in GuardKeys : KeyMove(k, forms[f], x)
    BY <1>1, <1>2, <1>5, <2>1, <2>2 DEF KeyMove, QuietFor, MayTry, Uncounted, GuardKeys
  <2>5. Paired(x, opened')
    BY <1>1, <1>2, <2>2 DEF Paired
  <2> QED
    BY <1>1, <1>2, <2>2, <2>3, <2>4, <2>5, GoStep
<1> QED
  BY <1>3, <1>4, <1>5 DEF CheckKey, Tell

LEMMA SignInSteps ==
    ASSUME LoginInv, NEW f \in Forms, SignIn(f)
    PROVE  FormStep(f)
<1>1. /\ forms[f] \in FormRec /\ forms[f].pc = "sign_in" /\ forms[f].sid = 0 /\ forms[f].for # "code"
      /\ forms \in [Forms -> FormRec] /\ Len(opened) \in Nat /\ opened \in Seq(SessionRec)
  BY FormFacts DEF SignIn, At, Paired
<1>2. UNCHANGED <<hour, factor, pending, drawn>> /\ skips' \in {skips, skips + 1}
  BY DEF SignIn, Well, Skip
<1>3. CASE Try({"ip", "acct"}) /\ UNCHANGED opened /\ forms' = [forms EXCEPT ![f].pc = "failure", ![f].key = 1]
  <2> DEFINE x == [forms[f] EXCEPT !.pc = "failure", !.key = 1]
  <2>1. x \in FormRec /\ x.pc = "failure" /\ x.key = 1 /\ x.sid = 0 /\ x.for = forms[f].for
    BY <1>1 DEF FormRec
  <2>2. forms' = [forms EXCEPT ![f] = x]
    BY <1>1, <1>3, Moves
  <2> HIDE DEF x
  <2>3. /\ guard' \in [GuardKeys -> GuardRec]
        /\ \A j \in GuardKeys : guard'[j] = IF j \in {"ip", "acct"} THEN [guard[j] EXCEPT !.tried = @ + 1]
                                            ELSE guard[j]
    BY <1>3, FormFacts, GuardWrites DEF GuardKeys
  <2>4. RestTyped /\ SessionsStay /\ Len(opened') = Len(opened) /\ PendingFine
    BY <1>1, <1>2, <1>3, <2>3, FormFacts, SessionsAlone, PendingStays DEF RestTyped
  <2>5. \A k \in GuardKeys : KeyMove(k, forms[f], x)
    BY <1>1, <2>1, <2>3 DEF KeyMove, QuietFor, TriesFor, MayTry, Uncounted, GuardKeys
  <2>6. Paired(x, opened')
    BY <1>1, <2>1, <2>4 DEF Paired
  <2> QED
    BY <1>1, <2>1, <2>2, <2>4, <2>5, <2>6, GoStep
<1>4. CASE Skip /\ Tell(f, "unavailable") /\ UNCHANGED <<opened, guard>>
  <2>1. RestTyped /\ SessionsStay /\ Len(opened') = Len(opened) /\ PendingFine
    BY <1>1, <1>2, <1>4, FormFacts, SessionsAlone, PendingStays DEF RestTyped
  <2>2. \A k \in GuardKeys : KeyMove(k, forms[f], Blank)
    BY <1>4, BlankFacts DEF KeyMove, QuietFor, Skip
  <2> QED
    BY <1>1, <1>4, <2>1, <2>2, AnswerStep DEF Tell
<1>5. CASE /\ opened' = Append(opened, [aal |-> "aal1", for |-> forms[f].for, closing |-> "none"])
           /\ forms' = [forms EXCEPT ![f].pc = "member", ![f].sid = Len(opened) + 1]
           /\ UNCHANGED guard
  <2> DEFINE x == [forms[f] EXCEPT !.pc = "member", !.sid = Len(opened) + 1]
             r == [aal |-> "aal1", for |-> forms[f].for, closing |-> "none"]
  <2>1. x \in FormRec /\ x.pc = "member" /\ x.sid = Len(opened) + 1 /\ x.for = forms[f].for
    <3>1. Len(opened) + 1 \in Nat
      BY <1>1
    <3>2. \A n \in Nat : [forms[f] EXCEPT !.pc = "member", !.sid = n] \in FormRec
      BY <1>1 DEF FormRec
    <3>3. x \in FormRec
      BY <3>1, <3>2
    <3> QED
      BY <1>1, <3>3 DEF FormRec
  <2>2. forms' = [forms EXCEPT ![f] = x]
    BY <1>1, <1>5, Moves
  <2>3. r \in SessionRec /\ r.for = forms[f].for
    BY <1>1 DEF FormRec, SessionRec
  <2>4. opened' = Append(opened, r)
    BY <1>5
  <2> HIDE DEF x, r
  <2>5. /\ opened' \in Seq(SessionRec) /\ Len(opened') = Len(opened) + 1
        /\ opened'[Len(opened) + 1] = r
        /\ \A s \in 1 .. Len(opened) : opened'[s] = opened[s]
    BY <1>1, <2>3, <2>4
  <2>6. SessionsStay
    BY <1>1, <2>5 DEF SessionsStay
  <2>7. RestTyped /\ PendingFine
    BY <1>1, <1>2, <1>5, <2>5, <2>6, FormFacts, PendingStays DEF RestTyped
  <2>8. \A k \in GuardKeys : KeyMove(k, forms[f], x)
    BY <1>1, <1>5, <2>1 DEF KeyMove, QuietFor, MayTry, Uncounted, GuardKeys
  <2>9. Paired(x, opened')
    BY <1>1, <2>1, <2>3, <2>5 DEF Paired
  <2>10. SessionMove(forms[f], x)
    BY <1>1, <2>1, <2>5, <2>6, <2>7, <2>9 DEF SessionMove, PendingFine
  <2> QED
    BY <2>1, <2>2, <2>7, <2>8, <2>10 DEF FormStep, RestTyped
<1> QED
  BY <1>3, <1>4, <1>5 DEF SignIn

LEMMA MemberSteps ==
    ASSUME LoginInv, NEW f \in Forms, Member(f)
    PROVE  FormStep(f)
<1>1. /\ forms[f] \in FormRec /\ forms[f].pc = "member" /\ forms[f].for # "code"
      /\ forms[f].sid \in 1 .. Len(opened) /\ Paired(forms[f], opened)
      /\ forms \in [Forms -> FormRec] /\ Len(opened) \in Nat /\ opened \in Seq(SessionRec)
  BY FormFacts DEF Member, At, Paired
<1>2. UNCHANGED <<hour, factor, pending, drawn>> /\ skips' \in {skips, skips + 1}
  BY DEF Member, Well, Skip
<1>3. CASE UNCHANGED <<guard, opened>> /\ forms' = [forms EXCEPT ![f].pc = "success", ![f].key = 1]
  <2> DEFINE x == [forms[f] EXCEPT !.pc = "success", !.key = 1]
  <2>1. x \in FormRec /\ x.pc = "success" /\ x.sid = forms[f].sid /\ x.for = forms[f].for
    BY <1>1 DEF FormRec
  <2>2. forms' = [forms EXCEPT ![f] = x]
    BY <1>1, <1>3, Moves
  <2> HIDE DEF x
  <2>3. RestTyped /\ SessionsStay /\ Len(opened') = Len(opened) /\ PendingFine
    BY <1>1, <1>2, <1>3, FormFacts, SessionsAlone, PendingStays DEF RestTyped
  <2>4. \A k \in GuardKeys : KeyMove(k, forms[f], x)
    BY <1>1, <1>3, <2>1 DEF KeyMove, QuietFor, MayTry, Uncounted, GuardKeys
  <2>5. Paired(x, opened')
    BY <1>1, <1>3, <2>1 DEF Paired
  <2> QED
    BY <2>1, <2>2, <2>3, <2>4, <2>5, GoStep
<1>4. CASE SignOut(forms[f].sid) /\ Try({"ip", "acct"}) /\ forms' = [forms EXCEPT ![f].pc = "failure", ![f].key = 1]
  <2> DEFINE x == [forms[f] EXCEPT !.pc = "failure", !.key = 1]
  <2>1. x \in FormRec /\ x.pc = "failure" /\ x.key = 1 /\ x.sid = forms[f].sid /\ x.for = forms[f].for
    BY <1>1 DEF FormRec
  <2>2. forms' = [forms EXCEPT ![f] = x]
    BY <1>1, <1>4, Moves
  <2> HIDE DEF x
  <2>3. /\ guard' \in [GuardKeys -> GuardRec]
        /\ \A j \in GuardKeys : guard'[j] = IF j \in {"ip", "acct"} THEN [guard[j] EXCEPT !.tried = @ + 1]
                                            ELSE guard[j]
    BY <1>4, FormFacts, GuardWrites DEF GuardKeys
  <2>4. SessionsStay /\ Len(opened') = Len(opened) /\ CloseAsked(opened'[forms[f].sid])
    BY <1>1, <1>4, SignsOut
  <2>5. RestTyped /\ PendingFine
    BY <1>1, <1>2, <2>3, <2>4, FormFacts, PendingStays DEF RestTyped
  <2>6. \A k \in GuardKeys : KeyMove(k, forms[f], x)
    BY <1>1, <2>1, <2>3 DEF KeyMove, QuietFor, TriesFor, MayTry, Uncounted, GuardKeys
  <2>7. Paired(x, opened')
    BY <1>1, <2>1, <2>4 DEF Paired, SessionsStay
  <2> QED
    BY <2>1, <2>2, <2>4, <2>5, <2>6, <2>7, GoStep
<1>5. CASE SignOut(forms[f].sid) /\ forms' = [forms EXCEPT ![f] = Blank] /\ UNCHANGED guard
  <2>1. SessionsStay /\ Len(opened') = Len(opened) /\ CloseAsked(opened'[forms[f].sid])
    BY <1>1, <1>5, SignsOut
  <2>2. RestTyped /\ PendingFine
    BY <1>1, <1>2, <1>5, <2>1, FormFacts, PendingStays DEF RestTyped
  <2>3. \A k \in GuardKeys : KeyMove(k, forms[f], Blank)
    BY <1>1, <1>5, BlankFacts DEF KeyMove, QuietFor, Uncounted, GuardKeys
  <2> QED
    BY <1>5, <2>1, <2>2, <2>3, AnswerStep
<1> QED
  BY <1>3, <1>4, <1>5 DEF Member, Tell

LEMMA FailureSteps ==
    ASSUME LoginInv, NEW f \in Forms, Failure(f)
    PROVE  FormStep(f)
<1>1. /\ forms[f] \in FormRec /\ forms[f].pc = "failure" /\ forms[f].for # "code"
      /\ Paired(forms[f], opened) /\ forms[f].sid \in 0 .. Len(opened)
      /\ forms[f].sid # 0 => CloseAsked(opened[forms[f].sid])
      /\ forms \in [Forms -> FormRec] /\ Len(opened) \in Nat /\ opened \in Seq(SessionRec)
  BY FormFacts DEF Failure, At, Paired
<1>2. /\ UNCHANGED <<hour, opened, factor, pending, drawn>> /\ skips' \in {skips, skips + 1}
      /\ SessionsStay /\ Len(opened') = Len(opened) /\ PendingFine
  BY <1>1, SessionsAlone, PendingStays DEF Failure, Well, Skip
<1>3. CASE Hit(KeyOf(f)) /\ ~LastSession(f) /\ NextKey(f)
  <2> DEFINE x == [forms[f] EXCEPT !.key = @ + 1]
  <2>1. forms[f].key = 1 /\ KeyOf(f) = "ip" /\ "ip" \in GuardKeys
    BY <1>1, <1>3, KeyFacts DEF FormRec, GuardKeys
  <2>2. x \in FormRec /\ x.key = 2 /\ x.pc = "failure" /\ x.sid = forms[f].sid /\ x.for = forms[f].for
    BY <1>1, <2>1 DEF FormRec
  <2>3. forms' = [forms EXCEPT ![f] = x]
    BY <1>1, <1>3, Moves DEF NextKey
  <2> HIDE DEF x
  <2>4. /\ guard' \in [GuardKeys -> GuardRec]
        /\ guard'["ip"] = IF LockedKey("ip") THEN guard["ip"] ELSE Count(guard["ip"])
        /\ \A j \in GuardKeys \ {"ip"} : guard'[j] = guard[j]
    BY <1>3, <2>1, FormFacts, GuardWrites
  <2>5. \A k \in GuardKeys : KeyMove(k, forms[f], x)
    <3>1. CountsFor("ip", forms[f], x)
      BY <1>1, <2>1, <2>2, <2>4 DEF CountsFor, MayTry, Uncounted
    <3>2. \A k \in {"acct", "mfa"} : QuietFor(k, forms[f], x)
      BY <1>1, <2>1, <2>2, <2>4 DEF QuietFor, MayTry, Uncounted, GuardKeys
    <3> QED
      BY <3>1, <3>2 DEF KeyMove, GuardKeys
  <2>6. RestTyped /\ Paired(x, opened')
    BY <1>1, <1>2, <2>2, <2>4, FormFacts DEF RestTyped, Paired
  <2> QED
    BY <1>2, <2>2, <2>3, <2>5, <2>6, GoStep
<1>4. CASE Hit(KeyOf(f)) /\ LastSession(f) /\ forms' = [forms EXCEPT ![f] = Blank]
  <2>1. forms[f].key = 2 /\ KeyOf(f) = "acct" /\ "acct" \in GuardKeys
    BY <1>1, <1>4, KeyFacts DEF FormRec, GuardKeys
  <2>2. /\ guard' \in [GuardKeys -> GuardRec]
        /\ guard'["acct"] = IF LockedKey("acct") THEN guard["acct"] ELSE Count(guard["acct"])
        /\ \A j \in GuardKeys \ {"acct"} : guard'[j] = guard[j]
    BY <1>4, <2>1, FormFacts, GuardWrites
  <2>3. \A k \in GuardKeys : KeyMove(k, forms[f], Blank)
    <3>1. CountsFor("acct", forms[f], Blank)
      BY <1>1, <2>1, <2>2, BlankFacts DEF CountsFor, Uncounted
    <3>2. \A k \in {"ip", "mfa"} : QuietFor(k, forms[f], Blank)
      <4>1. forms[f].key # 1
        BY <2>1
      <4>2. \A k \in {"ip", "mfa"} : ~Uncounted(k, forms[f]) /\ ~MayTry(k, Blank)
        BY <1>1, <4>1, BlankFacts DEF Uncounted, GuardKeys
      <4> QED
        BY <2>2, <4>2 DEF QuietFor, GuardKeys
    <3> QED
      BY <3>1, <3>2 DEF KeyMove, GuardKeys
  <2>4. RestTyped
    BY <1>2, <2>2, FormFacts DEF RestTyped
  <2> QED
    BY <1>1, <1>2, <1>4, <2>3, <2>4, AnswerStep
<1>5. CASE Skip /\ forms' = [forms EXCEPT ![f] = Blank] /\ UNCHANGED guard
  <2>1. \A k \in GuardKeys : KeyMove(k, forms[f], Blank)
    BY <1>5, BlankFacts DEF KeyMove, QuietFor, Skip
  <2>2. RestTyped
    BY <1>2, <1>5, FormFacts DEF RestTyped
  <2> QED
    BY <1>1, <1>2, <1>5, <2>1, <2>2, AnswerStep
<1> QED
  BY <1>3, <1>4, <1>5 DEF Failure, Tell

LEMMA SuccessSteps ==
    ASSUME LoginInv, NEW f \in Forms, Success(f)
    PROVE  FormStep(f)
<1>1. /\ forms[f] \in FormRec /\ forms[f].pc = "success" /\ forms[f].for # "code"
      /\ forms[f].sid \in 1 .. Len(opened) /\ Paired(forms[f], opened)
      /\ forms \in [Forms -> FormRec] /\ Len(opened) \in Nat /\ opened \in Seq(SessionRec)
  BY FormFacts DEF Success, At, Paired
<1>2. UNCHANGED <<hour, factor, pending, drawn>> /\ skips' \in {skips, skips + 1}
  BY DEF Success, Well, Skip
<1>3. ASSUME Reset(KeyOf(f)), UNCHANGED opened, NEW x \in FormRec, forms' = [forms EXCEPT ![f] = x],
             x.pc \in {"success", "factors"}, x.sid = forms[f].sid, x.for = forms[f].for
      PROVE  FormStep(f)
  <2>1. KeyOf(f) \in GuardKeys
    BY <1>1, KeyFacts DEF FormRec, GuardKeys
  <2>2. /\ guard' \in [GuardKeys -> GuardRec] /\ guard'[KeyOf(f)] = NoFailures
        /\ \A j \in GuardKeys \ {KeyOf(f)} : guard'[j] = guard[j]
    BY <1>3, <2>1, FormFacts, GuardWrites
  <2>3. RestTyped /\ SessionsStay /\ Len(opened') = Len(opened) /\ PendingFine
    BY <1>1, <1>2, <1>3, <2>2, FormFacts, SessionsAlone, PendingStays DEF RestTyped
  <2>4. \A k \in GuardKeys : ~MayTry(k, x) /\ ~Uncounted(k, forms[f])
    BY <1>1, <1>3 DEF MayTry, Uncounted, GuardKeys
  <2>5. \A k \in GuardKeys : KeyMove(k, forms[f], x)
    BY <2>2, <2>4 DEF KeyMove, QuietFor, ClearsFor
  <2>6. Paired(x, opened')
    BY <1>1, <1>3 DEF Paired
  <2> QED
    BY <1>3, <2>3, <2>5, <2>6, GoStep
<1>4. CASE Reset(KeyOf(f)) /\ UNCHANGED opened /\ LastSession(f) /\ Goes(f, "factors")
  <2> DEFINE x == [forms[f] EXCEPT !.pc = "factors"]
  <2>1. x \in FormRec /\ x.pc = "factors" /\ x.sid = forms[f].sid /\ x.for = forms[f].for
    BY <1>1 DEF FormRec
  <2>2. forms' = [forms EXCEPT ![f] = x]
    BY <1>1, <1>4, Moves DEF Goes
  <2> HIDE DEF x
  <2> QED
    BY <1>3, <1>4, <2>1, <2>2
<1>5. CASE Reset(KeyOf(f)) /\ UNCHANGED opened /\ ~LastSession(f) /\ NextKey(f)
  <2> DEFINE x == [forms[f] EXCEPT !.key = @ + 1]
  <2>1. forms[f].key = 1
    BY <1>1, <1>5, KeyFacts DEF FormRec
  <2>2. x \in FormRec /\ x.pc = "success" /\ x.sid = forms[f].sid /\ x.for = forms[f].for
    BY <1>1, <2>1 DEF FormRec
  <2>3. forms' = [forms EXCEPT ![f] = x]
    BY <1>1, <1>5, Moves DEF NextKey
  <2> HIDE DEF x
  <2> QED
    BY <1>3, <1>5, <2>2, <2>3
<1>6. CASE SignOut(forms[f].sid) /\ forms' = [forms EXCEPT ![f] = Blank] /\ UNCHANGED guard
  <2>1. SessionsStay /\ Len(opened') = Len(opened) /\ CloseAsked(opened'[forms[f].sid])
    BY <1>1, <1>6, SignsOut
  <2>2. RestTyped /\ PendingFine
    BY <1>1, <1>2, <1>6, <2>1, FormFacts, PendingStays DEF RestTyped
  <2>3. \A k \in GuardKeys : KeyMove(k, forms[f], Blank)
    BY <1>1, <1>6, BlankFacts DEF KeyMove, QuietFor, Uncounted, GuardKeys
  <2> QED
    BY <1>6, <2>1, <2>2, <2>3, AnswerStep
<1> QED
  BY <1>4, <1>5, <1>6 DEF Success, Tell

\* The form that answers leaves the guard and the key of the code alone: whatever
\* it was, its session is closed, handed to the page, or not one for a change.
LEMMA Answers ==
    ASSUME LoginInv, NEW f \in Forms,
           forms[f].pc \notin {"failure", "wrong"} \/ skips' = skips + 1,
           hour' = hour, skips' \in {skips, skips + 1}, UNCHANGED guard,
           factor' \in [verified : Nat, last : Nat], drawn' \in Nat,
           forms' = [forms EXCEPT ![f] = Blank], PendingFine,
           \/ forms[f].sid # 0 /\ SignOut(forms[f].sid)
           \/ UNCHANGED opened /\ (forms[f].sid # 0 => forms[f].for # "change")
    PROVE  FormStep(f)
<1>1. /\ forms[f] \in FormRec /\ forms[f].sid \in 0 .. Len(opened) /\ Paired(forms[f], opened)
      /\ Len(opened) \in Nat /\ opened \in Seq(SessionRec)
  BY FormFacts DEF Paired
<1>2. RestTyped
  BY FormFacts DEF RestTyped
<1>3. \A k \in GuardKeys : KeyMove(k, forms[f], Blank)
  <2>1. \A k \in GuardKeys : Uncounted(k, forms[f]) => forms[f].pc \in {"failure", "wrong"}
    BY DEF Uncounted, GuardKeys
  <2> QED
    BY <2>1, BlankFacts DEF KeyMove, QuietFor
<1>4. /\ SessionsStay /\ Len(opened') = Len(opened)
      /\ forms[f].sid # 0 => CloseAsked(opened'[forms[f].sid]) \/ opened[forms[f].sid].for # "change"
  <2>1. CASE forms[f].sid # 0 /\ SignOut(forms[f].sid)
    BY <1>1, <2>1, SignsOut
  <2>2. CASE UNCHANGED opened /\ (forms[f].sid # 0 => forms[f].for # "change")
    <3>1. forms[f].sid # 0 => opened[forms[f].sid].for # "change"
      BY <1>1, <2>2 DEF Paired
    <3> QED
      BY <1>1, <2>2, <3>1, SessionsAlone
  <2> QED
    BY <2>1, <2>2
<1> QED
  BY <1>2, <1>3, <1>4, AnswerStep

\* The form goes on with its session, at a place where nothing is owed.
LEMMA GoesOn ==
    ASSUME LoginInv, NEW f \in Forms, NEW x \in FormRec,
           forms[f].pc \notin {"failure", "wrong"},
           hour' = hour, skips' \in {skips, skips + 1},
           guard' \in [GuardKeys -> GuardRec],
           \A k \in GuardKeys : guard'[k] = guard[k] \/ guard'[k] = NoFailures,
           factor' \in [verified : Nat, last : Nat], drawn' \in Nat,
           forms' = [forms EXCEPT ![f] = x], UNCHANGED <<opened, pending>>,
           x.sid = forms[f].sid, Paired(x, opened),
           \A k \in GuardKeys : ~MayTry(k, x) \/ ~LockedKey(k)
    PROVE  FormStep(f)
<1>1. Len(opened) \in Nat /\ opened \in Seq(SessionRec)
  BY FormFacts
<1>2. RestTyped /\ SessionsStay /\ Len(opened') = Len(opened) /\ PendingFine /\ Paired(x, opened')
  BY <1>1, FormFacts, SessionsAlone, PendingStays DEF RestTyped
<1>3. \A k \in GuardKeys : KeyMove(k, forms[f], x)
  <2>1. \A k \in GuardKeys : ~Uncounted(k, forms[f])
    BY DEF Uncounted, GuardKeys
  <2> QED
    BY <2>1 DEF KeyMove, QuietFor, ClearsFor
<1> QED
  BY <1>2, <1>3, GoStep

LEMMA FactorsSteps ==
    ASSUME LoginInv, NEW f \in Forms, Factors(f)
    PROVE  FormStep(f)
<1>1. /\ forms[f] \in FormRec /\ forms[f].pc = "factors" /\ forms[f].for # "code"
      /\ forms[f].sid \in 1 .. Len(opened) /\ Paired(forms[f], opened) /\ forms[f].sid \in Nat
      /\ opened[forms[f].sid].for = forms[f].for
      /\ forms \in [Forms -> FormRec] /\ Len(opened) \in Nat /\ opened \in Seq(SessionRec)
      /\ factor \in [verified : Nat, last : Nat] /\ drawn \in Nat
      /\ guard \in [GuardKeys -> GuardRec]
  BY FormFacts DEF Factors, At, Paired
<1>2. UNCHANGED <<hour, guard, factor, admitted>> /\ skips' \in {skips, skips + 1}
  BY DEF Factors, Well, Skip
<1>3. CASE /\ forms[f].for = "login" /\ Tell(f, "next")
           /\ pending' = [sid |-> forms[f].sid, fid |-> factor.verified]
           /\ drawn' = 0 /\ UNCHANGED opened
  <2>1. PendingFine
    BY <1>1, <1>3 DEF PendingFine
  <2> QED
    BY <1>1, <1>2, <1>3, <2>1, Answers DEF Tell
<1>4. CASE /\ forms[f].for # "login"
           /\ forms' = [forms EXCEPT ![f].pc = "check_code", ![f].fid = factor.verified]
           /\ UNCHANGED <<opened, pending, drawn, later>>
  <2> DEFINE x == [forms[f] EXCEPT !.pc = "check_code", !.fid = factor.verified]
  <2>1. forms' = [forms EXCEPT ![f] = x]
    BY <1>1, <1>4
  <2>2. x \in FormRec /\ x.pc = "check_code" /\ x.sid = forms[f].sid /\ x.for = forms[f].for
    BY <1>1 DEF FormRec
  <2> HIDE DEF x
  <2>3. Paired(x, opened)
    BY <1>1, <2>2 DEF Paired
  <2>4. \A k \in GuardKeys : ~MayTry(k, x)
    BY <2>2 DEF MayTry, GuardKeys
  <2> QED
    BY <1>1, <1>2, <1>4, <2>1, <2>2, <2>3, <2>4, GoesOn
<1>5. CASE SignOut(forms[f].sid) /\ forms' = [forms EXCEPT ![f] = Blank] /\ UNCHANGED <<pending, drawn>>
  <2>1. PendingFine /\ forms[f].sid # 0
    BY <1>1, <1>5, SignsOut, PendingStays
  <2>2. drawn' \in Nat /\ factor' \in [verified : Nat, last : Nat]
    BY <1>1, <1>2, <1>5
  <2> QED
    BY <1>1, <1>2, <1>5, <2>1, <2>2, Answers
<1> QED
  BY <1>3, <1>4, <1>5 DEF Factors, Tell

LEMMA SubmitCodeSteps ==
    ASSUME LoginInv, NEW f \in Forms, SubmitCode(f)
    PROVE  FormStep(f)
<1> DEFINE x == [Blank EXCEPT !.pc = IF pending.fid = 0 THEN "pick" ELSE "check_code",
                    !.for = "code", !.sid = pending.sid,
                    !.fid = IF pending.fid = 0 THEN drawn ELSE pending.fid]
<1>1. /\ forms[f].pc = "blank" /\ forms[f].sid = 0 /\ forms \in [Forms -> FormRec]
      /\ Len(opened) \in Nat /\ opened \in Seq(SessionRec) /\ guard \in [GuardKeys -> GuardRec]
      /\ pending.sid \in 1 .. Len(opened) /\ opened[pending.sid].for # "change"
      /\ pending.sid \in Nat /\ pending.fid \in Nat /\ drawn \in Nat
  BY FormFacts DEF SubmitCode, At, Paired
<1>2. /\ x \in FormRec /\ x.pc \in {"pick", "check_code"} /\ x.sid = pending.sid /\ x.for = "code"
  BY <1>1 DEF Blank, FormRec
<1>3. forms' = [forms EXCEPT ![f] = x]
  BY DEF SubmitCode
<1> HIDE DEF x
<1>4. RestTyped /\ UNCHANGED <<guard, opened, pending>> /\ SessionsStay /\ Len(opened') = Len(opened) /\ PendingFine
  BY FormFacts, SessionsAlone, PendingStays DEF SubmitCode, RestTyped
<1>5. Paired(x, opened')
  BY <1>1, <1>2, <1>4 DEF Paired
<1>6. \A k \in GuardKeys : KeyMove(k, forms[f], x)
  <2>1. \A k \in GuardKeys : ~MayTry(k, x) /\ ~Uncounted(k, forms[f])
    BY <1>1, <1>2 DEF MayTry, Uncounted, GuardKeys
  <2> QED
    BY <1>4, <2>1 DEF KeyMove, QuietFor
<1>7. SessionMove(forms[f], x)
  BY <1>1, <1>4, <1>5 DEF SessionMove, PendingFine
<1> QED
  BY <1>2, <1>3, <1>4, <1>6, <1>7 DEF FormStep, RestTyped

LEMMA PickSteps ==
    ASSUME LoginInv, NEW f \in Forms, Pick(f)
    PROVE  FormStep(f)
<1>1. /\ forms[f] \in FormRec /\ forms[f].pc = "pick" /\ forms[f].for = "code"
      /\ forms[f].sid \in 1 .. Len(opened) /\ Paired(forms[f], opened)
      /\ forms \in [Forms -> FormRec] /\ Len(opened) \in Nat /\ opened \in Seq(SessionRec)
      /\ factor \in [verified : Nat, last : Nat] /\ drawn \in Nat
      /\ guard \in [GuardKeys -> GuardRec]
  BY FormFacts DEF Pick, At, Paired
<1>2. UNCHANGED <<hour, guard, opened, factor, drawn>> /\ skips' \in {skips, skips + 1}
  BY DEF Pick, Well, Skip
<1>3. CASE Goes(f, "check_code") /\ UNCHANGED pending
  <2> DEFINE x == [forms[f] EXCEPT !.pc = "check_code"]
  <2>1. forms' = [forms EXCEPT ![f] = x]
    BY <1>1, <1>3, Moves DEF Goes
  <2>2. x \in FormRec /\ x.pc = "check_code" /\ x.sid = forms[f].sid /\ x.for = forms[f].for
    BY <1>1 DEF FormRec
  <2> HIDE DEF x
  <2>3. Paired(x, opened)
    BY <1>1, <2>2 DEF Paired
  <2>4. \A k \in GuardKeys : ~MayTry(k, x)
    BY <2>2 DEF MayTry, GuardKeys
  <2> QED
    BY <1>1, <1>2, <1>3, <2>1, <2>2, <2>3, <2>4, GoesOn
<1>4. CASE forms' = [forms EXCEPT ![f] = Blank] /\ (pending' = NoCookie \/ UNCHANGED pending)
  <2>1. PendingFine
    <3>1. CASE UNCHANGED pending
      BY <1>1, <1>2, <3>1, SessionsAlone, PendingStays
    <3>2. CASE pending' = NoCookie
      BY <1>1, <1>2, <3>2 DEF PendingFine, NoCookie
    <3> QED
      BY <1>4, <3>1, <3>2
  <2> QED
    BY <1>1, <1>2, <1>4, <2>1, Answers
<1> QED
  BY <1>3, <1>4 DEF Pick, Tell

\* What Refuse does to the session of the form.
LEMMA Refuses ==
    ASSUME LoginInv, NEW f \in Forms, NEW why, Refuse(f, why), UNCHANGED pending,
           forms[f].sid # 0
    PROVE  /\ forms' = [forms EXCEPT ![f] = Blank]
           /\ SessionsStay /\ Len(opened') = Len(opened) /\ PendingFine
           /\ CloseAsked(opened'[forms[f].sid]) \/ opened[forms[f].sid].for # "change"
           /\ \/ forms[f].sid # 0 /\ SignOut(forms[f].sid)
              \/ UNCHANGED opened /\ (forms[f].sid # 0 => forms[f].for # "change")
<1>1. /\ forms[f].sid \in 1 .. Len(opened) /\ Paired(forms[f], opened)
      /\ Len(opened) \in Nat /\ opened \in Seq(SessionRec)
  BY FormFacts DEF Paired
<1>2. CASE forms[f].for = "code"
  <2>1. UNCHANGED opened /\ opened[forms[f].sid].for # "change"
    BY <1>1, <1>2 DEF Refuse, Paired
  <2> QED
    BY <1>1, <1>2, <2>1, SessionsAlone, PendingStays DEF Refuse, Tell
<1>3. CASE forms[f].for # "code"
  <2>1. SignOut(forms[f].sid)
    BY <1>3 DEF Refuse
  <2> QED
    BY <1>1, <1>3, <2>1, SignsOut, PendingStays DEF Refuse, Tell
<1> QED
  BY <1>2, <1>3

LEMMA CheckCodeSteps ==
    ASSUME LoginInv, NEW f \in Forms, CheckCode(f)
    PROVE  FormStep(f)
<1>1. /\ forms[f] \in FormRec /\ forms[f].pc = "check_code"
      /\ forms[f].sid \in 1 .. Len(opened) /\ Paired(forms[f], opened) /\ forms[f].sid # 0
      /\ forms \in [Forms -> FormRec] /\ Len(opened) \in Nat /\ opened \in Seq(SessionRec)
      /\ factor \in [verified : Nat, last : Nat] /\ drawn \in Nat
      /\ guard \in [GuardKeys -> GuardRec]
  BY FormFacts DEF CheckCode, At, Paired
<1>2. UNCHANGED <<hour, guard, factor, pending, drawn>> /\ skips' \in {skips, skips + 1}
  BY DEF CheckCode, Well, Skip
<1>3. CASE ~LockedKey("mfa") /\ Goes(f, "challenge") /\ UNCHANGED opened
  <2> DEFINE x == [forms[f] EXCEPT !.pc = "challenge"]
  <2>1. forms' = [forms EXCEPT ![f] = x]
    BY <1>1, <1>3, Moves DEF Goes
  <2>2. x \in FormRec /\ x.pc = "challenge" /\ x.sid = forms[f].sid /\ x.for = forms[f].for
    BY <1>1 DEF FormRec
  <2> HIDE DEF x
  <2>3. Paired(x, opened)
    BY <1>1, <2>2 DEF Paired
  <2>4. \A k \in GuardKeys : ~MayTry(k, x) \/ ~LockedKey(k)
    BY <1>3, <2>2 DEF MayTry, GuardKeys
  <2> QED
    BY <1>1, <1>2, <1>3, <2>1, <2>2, <2>3, <2>4, GoesOn
<1>4. ASSUME NEW why, Refuse(f, why) PROVE FormStep(f)
  <2>1. /\ forms' = [forms EXCEPT ![f] = Blank] /\ PendingFine
        /\ \/ forms[f].sid # 0 /\ SignOut(forms[f].sid)
           \/ UNCHANGED opened /\ (forms[f].sid # 0 => forms[f].for # "change")
    BY <1>1, <1>2, <1>4, Refuses
  <2> QED
    BY <1>1, <1>2, <2>1, Answers
<1> QED
  BY <1>3, <1>4 DEF CheckCode

\* What a form that has a session knows.
LEMMA HoldsSession ==
    ASSUME LoginInv, NEW f \in Forms,
           forms[f].pc \in {"check_code", "challenge", "wrong", "right", "level", "issue", "proven"}
    PROVE  /\ forms[f] \in FormRec /\ Paired(forms[f], opened)
           /\ forms[f].sid \in 1 .. Len(opened) /\ forms[f].sid # 0 /\ forms[f].sid \in Nat
           /\ forms[f].fid \in Nat
           /\ forms \in [Forms -> FormRec] /\ Len(opened) \in Nat /\ opened \in Seq(SessionRec)
           /\ factor \in [verified : Nat, last : Nat] /\ drawn \in Nat
           /\ guard \in [GuardKeys -> GuardRec]
BY FormFacts DEF FormRec, Paired

LEMMA ChallengeSteps ==
    ASSUME LoginInv, NEW f \in Forms, Challenge(f)
    PROVE  FormStep(f)
<1>1. forms[f].pc = "challenge"
  BY DEF Challenge, At
<1>2. UNCHANGED <<hour, pending, drawn>> /\ skips' \in {skips, skips + 1}
  BY DEF Challenge, Well, Skip
<1>3. CASE Try({"mfa"}) /\ Goes(f, "wrong") /\ UNCHANGED <<opened, factor>>
  <2> DEFINE x == [forms[f] EXCEPT !.pc = "wrong"]
  <2>1. forms' = [forms EXCEPT ![f] = x]
    BY <1>1, <1>3, HoldsSession, Moves DEF Goes
  <2>2. x \in FormRec /\ x.pc = "wrong" /\ x.sid = forms[f].sid /\ x.for = forms[f].for
    BY <1>1, HoldsSession DEF FormRec
  <2> HIDE DEF x
  <2>3. /\ guard' \in [GuardKeys -> GuardRec]
        /\ \A j \in GuardKeys : guard'[j] = IF j \in {"mfa"} THEN [guard[j] EXCEPT !.tried = @ + 1]
                                            ELSE guard[j]
    BY <1>3, FormFacts, GuardWrites DEF GuardKeys
  <2>4. RestTyped /\ SessionsStay /\ Len(opened') = Len(opened) /\ PendingFine
    BY <1>2, <1>3, <2>3, FormFacts, SessionsAlone, PendingStays DEF RestTyped
  <2>5. \A k \in GuardKeys : KeyMove(k, forms[f], x)
    BY <1>1, <2>2, <2>3 DEF KeyMove, QuietFor, TriesFor, MayTry, Uncounted, GuardKeys
  <2>6. Paired(x, opened')
    BY <1>1, <1>3, <2>2, HoldsSession DEF Paired
  <2> QED
    BY <2>1, <2>2, <2>4, <2>5, <2>6, GoStep
<1>4. CASE /\ Open(forms[f].sid)
           /\ opened' = [opened EXCEPT ![forms[f].sid].aal = "aal2"]
           /\ factor' = [factor EXCEPT !.verified = forms[f].fid]
           /\ Goes(f, "right") /\ UNCHANGED guard
  <2> DEFINE x == [forms[f] EXCEPT !.pc = "right"]
             s == forms[f].sid
             r == [opened[s] EXCEPT !.aal = "aal2"]
  <2>1. forms' = [forms EXCEPT ![f] = x]
    BY <1>1, <1>4, HoldsSession, Moves DEF Goes
  <2>2. x \in FormRec /\ x.pc = "right" /\ x.sid = s /\ x.for = forms[f].for
    BY <1>1, HoldsSession DEF FormRec
  <2>3. s \in 1 .. Len(opened) /\ Len(opened) \in Nat /\ opened \in Seq(SessionRec) /\ opened[s].aal # "closed"
    BY <1>1, <1>4, HoldsSession DEF Open
  <2>4. r \in SessionRec /\ r.for = opened[s].for /\ (CloseAsked(opened[s]) => CloseAsked(r))
    <3>1. opened[s] \in SessionRec
      BY <2>3
    <3>2. \A o \in SessionRec : /\ [o EXCEPT !.aal = "aal2"] \in SessionRec /\ [o EXCEPT !.aal = "aal2"].for = o.for
                                /\ [o EXCEPT !.aal = "aal2"].closing = o.closing
      BY DEF SessionRec
    <3> QED
      BY <2>3, <3>1, <3>2 DEF CloseAsked
  <2>5. opened' = [opened EXCEPT ![s] = r]
    BY <1>4
  <2>6. factor' \in [verified : Nat, last : Nat]
    BY <1>1, <1>4, HoldsSession
  <2> HIDE DEF x, s, r
  <2>7. /\ opened' \in Seq(SessionRec) /\ Len(opened') = Len(opened)
        /\ \A i \in 1 .. Len(opened) : opened'[i] = IF i = s THEN r ELSE opened[i]
    BY <2>3, <2>4, <2>5
  <2>8. SessionsStay
    BY <2>3, <2>4, <2>7 DEF SessionsStay
  <2>9. RestTyped /\ PendingFine
    BY <1>2, <1>4, <2>3, <2>6, <2>7, <2>8, FormFacts, PendingStays DEF RestTyped
  <2>10. \A k \in GuardKeys : KeyMove(k, forms[f], x)
    BY <1>1, <1>4, <2>2 DEF KeyMove, QuietFor, MayTry, Uncounted, GuardKeys
  <2>11. Paired(x, opened')
    <3>1. Paired(forms[f], opened)
      BY FormFacts
    <3>2. opened'[s].for = opened[s].for /\ s \in 0 .. Len(opened')
      BY <2>3, <2>4, <2>7
    <3> QED
      BY <1>1, <2>2, <2>3, <3>1, <3>2 DEF Paired, s
  <2>12. x.sid = forms[f].sid
    BY <2>2 DEF s
  <2> QED
    BY <2>1, <2>2, <2>7, <2>8, <2>9, <2>10, <2>11, <2>12, GoStep
<1>5. CASE Refuse(f, "unavailable") /\ UNCHANGED <<guard, factor>>
  <2>1. /\ forms' = [forms EXCEPT ![f] = Blank] /\ PendingFine
        /\ \/ forms[f].sid # 0 /\ SignOut(forms[f].sid)
           \/ UNCHANGED opened /\ (forms[f].sid # 0 => forms[f].for # "change")
    BY <1>1, <1>2, <1>5, HoldsSession, Refuses
  <2> QED
    BY <1>1, <1>2, <1>5, <2>1, HoldsSession, Answers
<1> QED
  BY <1>3, <1>4, <1>5 DEF Challenge

LEMMA WrongCodeSteps ==
    ASSUME LoginInv, NEW f \in Forms, WrongCode(f)
    PROVE  FormStep(f)
<1>1. forms[f].pc = "wrong"
  BY DEF WrongCode, At
<1>2. /\ UNCHANGED <<hour, factor, pending, drawn>> /\ skips' \in {skips, skips + 1}
      /\ \E why \in {"bad_code", "unavailable"} : Refuse(f, why)
  BY DEF WrongCode, Well, Skip
<1>3. /\ forms' = [forms EXCEPT ![f] = Blank]
      /\ SessionsStay /\ Len(opened') = Len(opened) /\ PendingFine
      /\ CloseAsked(opened'[forms[f].sid]) \/ opened[forms[f].sid].for # "change"
  BY <1>1, <1>2, HoldsSession, Refuses
<1>4. CASE Hit("mfa")
  <2>1. /\ guard' \in [GuardKeys -> GuardRec]
        /\ guard'["mfa"] = IF LockedKey("mfa") THEN guard["mfa"] ELSE Count(guard["mfa"])
        /\ \A j \in GuardKeys \ {"mfa"} : guard'[j] = guard[j]
    BY <1>4, FormFacts, GuardWrites DEF GuardKeys
  <2>2. \A k \in GuardKeys : KeyMove(k, forms[f], Blank)
    <3>1. CountsFor("mfa", forms[f], Blank)
      BY <1>1, <2>1, BlankFacts DEF CountsFor, Uncounted, GuardKeys
    <3>2. \A k \in {"ip", "acct"} : QuietFor(k, forms[f], Blank)
      BY <1>1, <2>1, BlankFacts DEF QuietFor, Uncounted, GuardKeys
    <3> QED
      BY <3>1, <3>2 DEF KeyMove, GuardKeys
  <2>3. RestTyped
    BY <1>2, <2>1, FormFacts DEF RestTyped
  <2> QED
    BY <1>3, <2>2, <2>3, AnswerStep
<1>5. CASE Skip /\ UNCHANGED guard
  <2>1. \A k \in GuardKeys : KeyMove(k, forms[f], Blank)
    BY <1>5, BlankFacts DEF KeyMove, QuietFor, Skip
  <2>2. RestTyped
    BY <1>2, <1>5, FormFacts DEF RestTyped
  <2> QED
    BY <1>3, <2>1, <2>2, AnswerStep
<1> QED
  BY <1>4, <1>5 DEF WrongCode

LEMMA RightCodeSteps ==
    ASSUME LoginInv, NEW f \in Forms, RightCode(f)
    PROVE  FormStep(f)
<1>1. forms[f].pc = "right"
  BY DEF RightCode, At
<1>2. UNCHANGED <<hour, factor, pending, drawn>> /\ skips' \in {skips, skips + 1}
  BY DEF RightCode, Well, Skip
<1>3. CASE Reset("mfa") /\ Goes(f, "level") /\ UNCHANGED opened
  <2> DEFINE x == [forms[f] EXCEPT !.pc = "level"]
  <2>1. forms' = [forms EXCEPT ![f] = x]
    BY <1>1, <1>3, HoldsSession, Moves DEF Goes
  <2>2. x \in FormRec /\ x.pc = "level" /\ x.sid = forms[f].sid /\ x.for = forms[f].for
    BY <1>1, HoldsSession DEF FormRec
  <2> HIDE DEF x
  <2>3. /\ guard' \in [GuardKeys -> GuardRec]
        /\ \A k \in GuardKeys : guard'[k] = guard[k] \/ guard'[k] = NoFailures
    BY <1>3, FormFacts, GuardWrites DEF GuardKeys
  <2>4. Paired(x, opened)
    BY <1>1, <2>2, HoldsSession DEF Paired
  <2>5. \A k \in GuardKeys : ~MayTry(k, x)
    BY <2>2 DEF MayTry, GuardKeys
  <2> QED
    BY <1>1, <1>2, <1>3, <2>1, <2>2, <2>3, <2>4, <2>5, HoldsSession, GoesOn
<1>4. CASE Refuse(f, "unavailable") /\ UNCHANGED guard
  <2>1. /\ forms' = [forms EXCEPT ![f] = Blank] /\ PendingFine
        /\ \/ forms[f].sid # 0 /\ SignOut(forms[f].sid)
           \/ UNCHANGED opened /\ (forms[f].sid # 0 => forms[f].for # "change")
    BY <1>1, <1>2, <1>4, HoldsSession, Refuses
  <2> QED
    BY <1>1, <1>2, <1>4, <2>1, HoldsSession, Answers
<1> QED
  BY <1>3, <1>4 DEF RightCode

LEMMA LevelSteps ==
    ASSUME LoginInv, NEW f \in Forms, Level(f)
    PROVE  FormStep(f)
<1>1. forms[f].pc = "level"
  BY DEF Level, At
<1>2. UNCHANGED <<hour, guard, factor, pending, drawn>> /\ skips' \in {skips, skips + 1}
  BY DEF Level, Well, Skip
<1>3. ASSUME NEW pc, pc = IF forms[f].for = "code" THEN "issue" ELSE "proven", Goes(f, pc), UNCHANGED opened
      PROVE  FormStep(f)
  <2> DEFINE x == [forms[f] EXCEPT !.pc = pc]
  <2>1. forms' = [forms EXCEPT ![f] = x]
    BY <1>1, <1>3, HoldsSession, Moves DEF Goes
  <2>2. x \in FormRec /\ x.pc = pc /\ x.sid = forms[f].sid /\ x.for = forms[f].for
    <3>1. forms[f] \in FormRec /\ pc \in {"issue", "proven"}
      BY <1>1, <1>3, HoldsSession
    <3> QED
      BY <3>1 DEF FormRec
  <2> HIDE DEF x
  <2>3. Paired(x, opened)
    BY <1>1, <1>3, <2>2, HoldsSession DEF Paired
  <2>4. \A k \in GuardKeys : ~MayTry(k, x)
    BY <1>3, <2>2 DEF MayTry, GuardKeys
  <2> QED
    BY <1>1, <1>2, <1>3, <2>1, <2>2, <2>3, <2>4, HoldsSession, GoesOn
<1>4. CASE SignOut(forms[f].sid) /\ forms' = [forms EXCEPT ![f] = Blank]
  <2>1. PendingFine
    BY <1>1, <1>2, <1>4, HoldsSession, SignsOut, PendingStays
  <2> QED
    BY <1>1, <1>2, <1>4, <2>1, HoldsSession, Answers
<1> QED
  BY <1>3, <1>4 DEF Level, Tell

LEMMA LastSteps ==
    ASSUME LoginInv, NEW f \in Forms, Issue(f) \/ ChangePassword(f) \/ ResetFactor(f)
    PROVE  FormStep(f)
<1>1. /\ forms[f].pc \in {"issue", "proven"} /\ forms' = [forms EXCEPT ![f] = Blank]
      /\ UNCHANGED <<hour, guard>> /\ skips' \in {skips, skips + 1}
  BY DEF Issue, ChangePassword, ResetFactor, At, Well, Skip, Tell
<1>2. drawn' \in Nat /\ factor' \in [verified : Nat, last : Nat]
  BY <1>1, HoldsSession DEF Issue, ChangePassword, ResetFactor
<1>3. CASE SignOut(forms[f].sid) /\ (UNCHANGED pending \/ pending' = NoCookie)
  <2>1. SessionsStay /\ Len(opened') = Len(opened) /\ Len(opened) \in Nat
    BY <1>1, <1>3, HoldsSession, SignsOut
  <2>2. PendingFine
    <3>1. CASE UNCHANGED pending
      BY <2>1, <3>1, PendingStays
    <3>2. CASE pending' = NoCookie
      BY <2>1, <3>2 DEF PendingFine, NoCookie
    <3> QED
      BY <1>3, <3>1, <3>2
  <2> QED
    BY <1>1, <1>2, <1>3, <2>2, HoldsSession, Answers
<1>4. CASE /\ forms[f].for = "reset" /\ UNCHANGED opened
           /\ pending' = [sid |-> forms[f].sid, fid |-> 0]
  <2>1. opened[forms[f].sid].for # "change"
    BY <1>1, <1>4, HoldsSession DEF Paired
  <2>2. PendingFine
    BY <1>1, <1>4, <2>1, HoldsSession DEF PendingFine
  <2> QED
    BY <1>1, <1>2, <1>4, <2>2, HoldsSession, Answers
<1> QED
  BY <1>3, <1>4 DEF Issue, ChangePassword, ResetFactor

LEMMA LoginNext == LoginInv /\ [AdminLoginNext]_adminLogin => LoginInv'
<1> SUFFICES ASSUME LoginInv, [AdminLoginNext]_adminLogin PROVE LoginInv'
  OBVIOUS
<1>1. ASSUME NEW f \in Forms, FormNext(f) PROVE LoginInv'
  <2>1. FormStep(f)
    BY <1>1, SubmitPasswordSteps, CheckKeySteps, SignInSteps, MemberSteps, FailureSteps, SuccessSteps,
       FactorsSteps, SubmitCodeSteps, PickSteps, CheckCodeSteps, ChallengeSteps, WrongCodeSteps,
       RightCodeSteps, LevelSteps, LastSteps DEF FormNext
  <2> QED
    BY <2>1, FormStepKeeps
<1>2. CASE UNCHANGED adminLogin
  BY <1>2 DEF adminLogin, LoginInv, AdminTypeOK, KeyWindow, LockedKey, Trying, Owing, SessionsPaired,
              ChangesClosed, Open
<1> QED
  BY <1>1, <1>2, PageSteps, HourKeeps DEF AdminLoginNext

\* For every number of forms: guesses beyond the limit are those of forms that had
\* passed the check, and of failures that were not written; and a session that was
\* opened to change the password is always told to end with its form, so that it
\* outlives it only where that call failed (supabaseAdminAuth.ts:128, adminAuthCore.ts,
\* runPasswordLogin, runMfaVerify, runReauth; admin_login_record_failure).
THEOREM GuessesAreCounted == AdminLoginSpec => []AdminLoginInv
<1>1. AdminLoginSpec => []LoginInv
  BY LoginInit, LoginNext, PTL DEF AdminLoginSpec
<1> QED
  BY <1>1, LoginInvSuffices, PTL
=============================================================================
