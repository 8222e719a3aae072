---------------------------- MODULE MatchRegistry ----------------------------
(***************************************************************************)
(* What the matching tables promise, with every request a single step: the *)
(* abstract specification that the lock-by-lock transactions of MatchTx    *)
(* implement.  A like that answers another makes the match in the same     *)
(* step; a block, a ban and a leave end matches in the step that records   *)
(* them; a message goes only into an open conversation.                    *)
(***************************************************************************)
EXTENDS Naturals, FiniteSets

CONSTANTS Users, Limit, NoUser

VARIABLES likes, matchSt, closedBy, closeKind, blocks, status, msgs

vars == <<likes, matchSt, closedBy, closeKind, blocks, status, msgs>>

Pairs == {p \in Users \X Users : p[1] < p[2]}
Pair(u, v) == IF u < v THEN <<u, v>> ELSE <<v, u>>

ActiveOf(u) == {p \in Pairs : matchSt[p] = "active" /\ u \in {p[1], p[2]}}
HasSlot(u) == Cardinality(ActiveOf(u)) < Limit
BlockedPair(p) == p \in blocks \/ <<p[2], p[1]>> \in blocks

Init ==
    /\ likes = {} /\ blocks = {}
    /\ matchSt = [p \in Pairs |-> "none"]
    /\ closedBy = [p \in Pairs |-> NoUser]
    /\ closeKind = [p \in Pairs |-> "none"]
    /\ status = [u \in Users |-> "active"]
    /\ msgs = [p \in Pairs |-> 0]

\* The first like of a pair waits for its answer.
Like(u, v) ==
    /\ <<v, u>> \notin likes
    /\ matchSt[Pair(u, v)] = "none"
    /\ HasSlot(u)
    /\ likes' = likes \cup {<<u, v>>}
    /\ UNCHANGED <<matchSt, closedBy, closeKind, blocks, status, msgs>>

\* The second makes the match, when both still have a slot.
LikeBack(u, v) ==
    /\ <<v, u>> \in likes
    /\ matchSt[Pair(u, v)] = "none"
    /\ HasSlot(u) /\ HasSlot(v)
    /\ likes' = likes \cup {<<u, v>>}
    /\ matchSt' = [matchSt EXCEPT ![Pair(u, v)] = "active"]
    /\ UNCHANGED <<closedBy, closeKind, blocks, status, msgs>>

Leave(u, v) ==
    /\ matchSt[Pair(u, v)] = "active"
    /\ matchSt' = [matchSt EXCEPT ![Pair(u, v)] = "closed"]
    /\ closedBy' = [closedBy EXCEPT ![Pair(u, v)] = u]
    /\ closeKind' = [closeKind EXCEPT ![Pair(u, v)] = "left"]
    /\ UNCHANGED <<likes, blocks, status, msgs>>

\* Ends every match of the set, for one reason.
EndMatches(S, st, kind) ==
    /\ matchSt' = [p \in Pairs |-> IF p \in S THEN st ELSE matchSt[p]]
    /\ closeKind' = [p \in Pairs |-> IF p \in S THEN kind ELSE closeKind[p]]

Block(u, v) ==
    /\ blocks' = blocks \cup {<<u, v>>}
    /\ EndMatches({p \in {Pair(u, v)} : matchSt[p] = "active"}, "blocked", "blocked")
    /\ UNCHANGED <<likes, closedBy, status, msgs>>

Ban(u) ==
    /\ status' = [status EXCEPT ![u] = "banned"]
    /\ EndMatches(ActiveOf(u), "closed", "admin")
    /\ UNCHANGED <<likes, closedBy, blocks, msgs>>

Send(u, v) ==
    /\ matchSt[Pair(u, v)] = "active"
    /\ ~BlockedPair(Pair(u, v))
    /\ msgs' = [msgs EXCEPT ![Pair(u, v)] = @ + 1]
    /\ UNCHANGED <<likes, matchSt, closedBy, closeKind, blocks, status>>

Next ==
    \/ \E u, v \in Users : /\ u # v
                           /\ \/ Like(u, v) \/ LikeBack(u, v) \/ Leave(u, v)
                              \/ Block(u, v) \/ Send(u, v)
    \/ \E u \in Users : Ban(u)

Spec == Init /\ [][Next]_vars
=============================================================================
