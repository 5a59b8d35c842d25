------------------------------ MODULE LocHeap ------------------------------
(***************************************************************************)
(* The heap of libgps.utils (LocHeap.cpp): a binary tree of LocHeapNodes   *)
(* that moves the data between nodes and never restructures them.  A node  *)
(* is a record of its mData, mSize, mLeft and mRight; an operation on a    *)
(* node reference returns the tree that it leaves there.                   *)
(***************************************************************************)
EXTENDS Integers, FiniteSets

CONSTANTS Items,     \* the LocRankable objects
          Rank,      \* their rank: the larger one outranks
          None       \* the null pointer

ASSUME LocHeapAssumption == None \notin Items /\ Rank \in [Items -> Int]

VARIABLES mTree,     \* the root, or None
          out        \* the last operation and what it returned

vars == <<mTree, out>>

Node(x) == [data |-> x, size |-> 1, left |-> None, right |-> None]

OutRanks(x, y) == Rank[x] > Rank[y]

-----------------------------------------------------------------------------
(* LocHeapNode *)

\* push: the lower of the two data goes into the smaller subtree.
RECURSIVE PushNode(_, _)
PushNode(n, x) ==
    LET kept == IF OutRanks(x, n.data) THEN x ELSE n.data
        rest == IF OutRanks(x, n.data) THEN n.data ELSE x
        m == [n EXCEPT !.data = kept, !.size = @ + 1]
    IN CASE m.left = None  -> [m EXCEPT !.left = Node(rest)]
         [] m.left # None /\ m.right = None -> [m EXCEPT !.right = Node(rest)]
         [] OTHER -> IF m.left.size <= m.right.size
                     THEN [m EXCEPT !.left = PushNode(@, rest)]
                     ELSE [m EXCEPT !.right = PushNode(@, rest)]

\* The child that takes the place of its parent's data.
GoesUp(n) ==
    IF n.left = None THEN "right"
    ELSE IF n.right = None \/ OutRanks(n.left.data, n.right.data) THEN "left"
    ELSE "right"

\* pop: the data of the top moves down to a leaf, which is cut off.
RECURSIVE PopNode(_)
PopNode(n) ==
    IF n.left = None /\ n.right = None THEN None
    ELSE LET side == GoesUp(n) IN
         [n EXCEPT !.data = n[side].data, !.size = @ - 1, ![side] = PopNode(@)]

\* Faulty variant: a subtree is searched only if the data is below its top.
RECURSIVE RemoveBelow(_, _)
RemoveBelow(n, x) ==
    IF n = None THEN [tree |-> None, found |-> FALSE]
    ELSE IF n.data = x THEN [tree |-> PopNode(n), found |-> TRUE]
    ELSE IF ~ OutRanks(n.data, x) THEN [tree |-> n, found |-> FALSE]
    ELSE LET l == RemoveBelow(n.left, x)
             r == IF l.found THEN [tree |-> n.right, found |-> FALSE]
                  ELSE RemoveBelow(n.right, x)
         IN [tree |-> [n EXCEPT !.left = l.tree, !.right = r.tree,
                                !.size = IF l.found \/ r.found THEN @ - 1 ELSE @],
             found |-> l.found \/ r.found]

\* remove: a search of the subtrees whose top the data does not outrank.
RECURSIVE RemoveNode(_, _)
RemoveNode(n, x) ==
    IF n = None THEN [tree |-> None, found |-> FALSE]
    ELSE IF n.data = x THEN [tree |-> PopNode(n), found |-> TRUE]
    ELSE IF OutRanks(x, n.data) THEN [tree |-> n, found |-> FALSE]
    ELSE LET l == RemoveNode(n.left, x)
             r == IF l.found THEN [tree |-> n.right, found |-> FALSE]
                  ELSE RemoveNode(n.right, x)
         IN [tree |-> [n EXCEPT !.left = l.tree, !.right = r.tree,
                                !.size = IF l.found \/ r.found THEN @ - 1 ELSE @],
             found |-> l.found \/ r.found]

RECURSIVE DataOf(_)
DataOf(n) == IF n = None THEN {} ELSE {n.data} \cup DataOf(n.left) \cup DataOf(n.right)

-----------------------------------------------------------------------------
(* LocHeap *)

peek == IF mTree = None THEN None ELSE mTree.data

Init == mTree = None /\ out = <<>>

\* A delegate is pushed once, by its constructor.
Push(x) ==
    /\ x \notin DataOf(mTree)
    /\ mTree' = IF mTree = None THEN Node(x) ELSE PushNode(mTree, x)
    /\ out' = <<"push", x>>

Pop ==
    /\ mTree' = IF mTree = None THEN None ELSE PopNode(mTree)
    /\ out' = <<"pop", peek>>

Remove(x) ==
    LET r == RemoveNode(mTree, x) IN
    /\ mTree' = r.tree
    /\ out' = <<"remove", x, r.found>>

Next == Pop \/ \E x \in Items : Push(x) \/ Remove(x)

Spec == Init /\ [][Next]_vars

-----------------------------------------------------------------------------
(* Properties *)

SizeOf(n) == IF n = None THEN 0 ELSE n.size

\* checkNodes, the consistency check of the code's unit test: no child
\* outranks its parent and every mSize counts the nodes of its subtree.
RECURSIVE checkNodes(_)
checkNodes(n) ==
    \/ n = None
    \/ /\ \A child \in {n.left, n.right} \ {None} :
             ~ OutRanks(child.data, n.data) /\ checkNodes(child)
       /\ n.size = 1 + SizeOf(n.left) + SizeOf(n.right)

\* checkTree(), and no object sits in the tree twice: mSize counts the
\* different objects, so an operation neither loses nor doubles one.
TreeIsConsistent == checkNodes(mTree) /\ SizeOf(mTree) = Cardinality(DataOf(mTree))

\* The tree is the ranked set that LocTimer relies on, and passes that check.
Abstract == INSTANCE RankedSet WITH members <- DataOf(mTree), top <- peek
IsRankedSet == Abstract!Spec /\ []TreeIsConsistent
=============================================================================
