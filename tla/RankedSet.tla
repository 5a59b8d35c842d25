----------------------------- MODULE RankedSet -----------------------------
(***************************************************************************)
(* What LocTimerContainer needs of LocHeap: a set of ranked objects whose  *)
(* top, peek(), is one that no other outranks and stays the top until it   *)
(* is taken out or outranked.  Which of several equals follows a top that  *)
(* is taken out is left open.                                              *)
(***************************************************************************)
EXTENDS Integers

CONSTANTS Items,     \* the LocRankable objects
          Rank,      \* their rank: the larger one outranks
          None       \* no object

VARIABLES members,   \* what the heap holds
          top,       \* peek()
          out        \* the last operation and what it returned

Highest(S) == IF S = {} THEN {None} ELSE {x \in S : \A y \in S : Rank[y] <= Rank[x]}

Init == members = {} /\ top = None /\ out = <<>>

Push(x) ==
    /\ x \notin members
    /\ members' = members \cup {x}
    /\ top' = IF top = None \/ Rank[top] < Rank[x] THEN x ELSE top
    /\ out' = <<"push", x>>

Pop ==
    /\ members' = members \ {top}
    /\ top' \in Highest(members')
    /\ out' = <<"pop", top>>

Remove(x) ==
    /\ members' = members \ {x}
    /\ top' \in IF x = top THEN Highest(members') ELSE {top}
    /\ out' = <<"remove", x, x \in members>>

Next == Pop \/ \E x \in Items : Push(x) \/ Remove(x)

Spec == Init /\ [][Next]_<<members, top, out>>
=============================================================================
