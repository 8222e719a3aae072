------------------------------ MODULE MatchInv ------------------------------
(***************************************************************************)
(* The inductive invariant behind MatchTx: which locks a transaction holds *)
(* at each statement, and what those locks keep true until it commits.     *)
(***************************************************************************)
EXTENDS MatchTx

HoldsUser(s, u, mode) == Holds(locks, s, UserRow(u), mode)
HoldsMatch(s, p, mode) == Holds(locks, s, MatchRow(p), mode)

InTrigger == {"existing", "lock_self", "count_self", "reverse", "lock_lo", "lock_hi", "recheck"}

OpsAt(label) ==
    CASE label = "rec"      -> {"accept", "decline", "declare"}
      [] label = "like"     -> {"accept", "like"}
      [] label \in InTrigger -> {"accept", "like"}
      [] label = "row"      -> {"block"}
      [] label = "fk_from"  -> {"accept", "like", "block", "send", "leave"}
      [] label = "fk_to"    -> {"accept", "like", "block", "send"}
      [] label = "match"    -> {"leave", "send", "block"}
      [] label \in {"user", "scan", "pick", "visit"} -> {"ban"}
      [] label = "commit"   -> {"accept", "like", "leave", "send", "block", "ban"}
      [] label = "idle"     -> {"none"}

\* A session is idle exactly when it serves nothing, and is at a statement of
\* the operation it serves.
SessionOK(s) ==
    /\ job[s].op \in OpsAt(pc[s])
    /\ pc[s] = "idle" => ~mk[s] /\ close[s] = {} /\ todo[s] = {}

\* The foreign keys and the trigger hold the users rows they have come to, and
\* what was seen under a users row's FOR UPDATE stays true.
LikeOK(s) ==
    /\ pc[s] = "fk_to" /\ job[s].op # "send" => HoldsUser(s, Me(s), "KeyShare")
    /\ pc[s] \in InTrigger => /\ HoldsUser(s, Me(s), "KeyShare")
                              /\ HoldsUser(s, You(s), "KeyShare")
    /\ pc[s] \in InTrigger \ {"existing", "lock_self"} => HoldsUser(s, Me(s), "Update")
    /\ pc[s] = "reverse" => ActiveCount(Me(s)) < Limit
    /\ pc[s] \in {"lock_lo", "lock_hi", "recheck"} => <<You(s), Me(s)>> \in likes
    /\ pc[s] \in {"lock_hi", "recheck"} => HoldsUser(s, Least(Me(s), You(s)), "Update")
    /\ pc[s] = "recheck" => HoldsUser(s, Greatest(Me(s), You(s)), "Update")

\* A match about to be committed: both users rows are locked, both have a slot,
\* the pair has no row yet and both likes are there.
MakeOK(s) ==
    mk[s] => /\ pc[s] = "commit" /\ job[s].op \in {"accept", "like"}
             /\ HoldsUser(s, Me(s), "Update") /\ HoldsUser(s, You(s), "Update")
             /\ matchSt[PairOf(s)] = "none"
             /\ ActiveCount(Me(s)) < Limit /\ ActiveCount(You(s)) < Limit
             /\ <<You(s), Me(s)>> \in likes

\* A new like about to be committed alone: its answer is not there, and cannot
\* come before it.
AloneOK(s) ==
    pc[s] = "commit" /\ job[s].op \in {"accept", "like"}
        /\ ~mk[s] /\ <<Me(s), You(s)>> \notin likes
    => /\ HoldsUser(s, Me(s), "Update")
       /\ HoldsUser(s, Me(s), "KeyShare") /\ HoldsUser(s, You(s), "KeyShare")
       /\ <<You(s), Me(s)>> \notin likes
       /\ ActiveCount(Me(s)) < Limit

LeaveOK(s) ==
    job[s].op = "leave" /\ pc[s] \in {"fk_from", "commit"}
    => HoldsMatch(s, PairOf(s), "Update") /\ matchSt[PairOf(s)] = "active"

SendOK(s) ==
    job[s].op = "send"
    => /\ matchSt[PairOf(s)] # "none"
       /\ matchSt[PairOf(s)] = "active" => ~BlockedPair(PairOf(s))
       /\ pc[s] \in {"fk_to", "commit"}
          => HoldsMatch(s, PairOf(s), "Update") /\ matchSt[PairOf(s)] = "active"

BlockOK(s) ==
    job[s].op = "block"
    => /\ pc[s] \in {"match", "commit"} => /\ HoldsUser(s, Me(s), "KeyShare")
                                           /\ HoldsUser(s, You(s), "KeyShare")
       /\ pc[s] # "commit" => close[s] = {}
       /\ pc[s] = "commit" /\ close[s] = {} => matchSt[PairOf(s)] # "active"
       /\ pc[s] = "commit" /\ close[s] # {}
          => HoldsMatch(s, PairOf(s), "NoKeyUpdate") /\ matchSt[PairOf(s)] = "active"

\* Nothing becomes a match of the account while its users row is locked, so
\* the active ones are those visited, those to visit and the one in hand.
BanOK(s) ==
    job[s].op = "ban"
    => /\ pc[s] # "user" => HoldsUser(s, Me(s), "Update")
       /\ pc[s] \in {"user", "scan"} => close[s] = {}
       /\ Me(s) \notin close[s] /\ Me(s) \notin todo[s]
       /\ pc[s] \in {"pick", "visit", "commit"} =>
             \A v \in Users \ {Me(s)} : matchSt[Pair(Me(s), v)] = "active" =>
                 v \in close[s] \/ v \in todo[s] \/ (pc[s] = "visit" /\ v = You(s))
       /\ pc[s] = "commit" => todo[s] = {}
       /\ \A v \in close[s] : /\ HoldsMatch(s, Pair(Me(s), v), "NoKeyUpdate")
                              /\ matchSt[Pair(Me(s), v)] = "active"

MatchHasLikes ==
    \A p \in Pairs : matchSt[p] # "none" => p \in likes /\ <<p[2], p[1]>> \in likes

LocksExclude == Exclusive(locks)

SessInv(s) ==
    /\ SessionOK(s) /\ LikeOK(s) /\ MakeOK(s) /\ AloneOK(s)
    /\ LeaveOK(s) /\ SendOK(s) /\ BlockOK(s) /\ BanOK(s)

\* The inductive invariant: everything above, for every session.
IInv == LocksExclude /\ MatchHasLikes /\ \A s \in Sess : SessInv(s)
=============================================================================
