------------------------------- MODULE LocHeap -------------------------------
(***************************************************************************)
(* LocHeap, the heap that LocTimer keeps its timers in: a binary tree of   *)
(* nodes that swaps data between nodes instead of moving them, pushes to   *)
(* the smaller subtree and pops along the higher ranked one (LocHeap.cpp). *)
(*                                                                         *)
(* A pointer to a node is a sequence of at most one node; <<>> is NULL.    *)
(* The recursive functions return the tree that replaces their argument.   *)
(***************************************************************************)
EXTENDS Integers, Sequences, SequencesExt, FiniteSets

CONSTANTS
    Data,   \* the objects that may be pushed
    Rank    \* object -> its rank

ASSUME HeapAssumption == Rank \in [Data -> Int]

NoData == "NULL"

VARIABLES
    hTree,  \* mTree
    hOut    \* the last operation, its argument and what it returned

Call(op, arg, ret) == [op |-> op, arg |-> arg, ret |-> ret]

hVars == <<hTree, hOut>>

(* The comparison that also lets an equal rank go first. *)
outRanksOrEqual(d, e) == Rank[d] >= Rank[e]

outRanks(d, e) == Rank[d] > Rank[e]

LocHeapNode(d) == [data |-> d, size |-> 1, left |-> <<>>, right |-> <<>>]

-----------------------------------------------------------------------------
(* push: the higher ranked of the two stays, the other goes to the empty   *)
(* or the smaller side.                                                    *)
RECURSIVE node_push(_, _)
node_push(node, d) ==
    LET high == IF outRanks(d, node.data) THEN d ELSE node.data
        low == IF high = d THEN node.data ELSE d
        self == [node EXCEPT !.data = high, !.size = @ + 1]
    IN  CASE node.left = <<>> -> [self EXCEPT !.left = <<LocHeapNode(low)>>]
          [] node.left # <<>> /\ node.right = <<>> -> [self EXCEPT !.right = <<LocHeapNode(low)>>]
          [] OTHER -> IF node.left[1].size <= node.right[1].size
                      THEN [self EXCEPT !.left = <<node_push(@[1], low)>>]
                      ELSE [self EXCEPT !.right = <<node_push(@[1], low)>>]

(* The choice of the lower ranked side. *)
SubTopLower(node) ==
    CASE node.left = <<>> -> "right"
      [] node.left # <<>> /\ node.right = <<>> -> "left"
      [] OTHER -> IF outRanks(node.left[1].data, node.right[1].data) THEN "right" ELSE "left"

(* The side whose top replaces the data of a node that is popped. *)
SubTop(node) ==
    CASE node.left = <<>> -> "right"
      [] node.left # <<>> /\ node.right = <<>> -> "left"
      [] OTHER -> IF outRanks(node.left[1].data, node.right[1].data) THEN "left" ELSE "right"

(* pop: the data of the top is swapped down to a leaf, which is unlinked. *)
RECURSIVE node_pop(_)
node_pop(node) ==
    IF node.left = <<>> /\ node.right = <<>> THEN <<>>
    ELSE LET s == SubTop(node)
         IN  <<[node EXCEPT !.data = node[s][1].data, !.size = @ - 1, ![s] = node_pop(@[1])]>>

(* remove: a search by address that does not look below a node of lower    *)
(* rank.  Returns the tree, the same one if the data was not found.        *)
RECURSIVE node_remove(_, _)
node_remove(node, d) ==
    IF node.data = d THEN node_pop(node)
    ELSE IF outRanks(d, node.data) THEN <<node>>
    ELSE LET In(s) == IF node[s] = <<>> THEN <<>> ELSE node_remove(node[s][1], d)
             side == IF In("left") # node.left THEN "left" ELSE "right"
         IN  IF In(side) = node[side] THEN <<node>>
             ELSE <<[node EXCEPT ![side] = In(side), !.size = @ - 1]>>

-----------------------------------------------------------------------------
RECURSIVE Contents(_)
Contents(tree) ==
    IF tree = <<>> THEN <<>>
    ELSE <<tree[1].data>> \o Contents(tree[1].left) \o Contents(tree[1].right)

HeapInit == hTree = <<>> /\ hOut = Call("init", NoData, NoData)

peek == IF hTree = <<>> THEN NoData ELSE hTree[1].data

(* An object is in the heap at most once: LocTimerContainer::add. *)
HeapPush(d) ==
    /\ d \notin ToSet(Contents(hTree))
    /\ hTree' = <<IF hTree = <<>> THEN LocHeapNode(d) ELSE node_push(hTree[1], d)>>
    /\ hOut' = Call("push", d, NoData)

HeapPop ==
    /\ hOut' = Call("pop", NoData, peek)
    /\ hTree' = IF hTree = <<>> THEN <<>> ELSE node_pop(hTree[1])

HeapRemove(d) ==
    /\ hTree' = IF hTree = <<>> THEN <<>> ELSE node_remove(hTree[1], d)
    /\ hOut' = Call("remove", d, IF hTree' = hTree THEN NoData ELSE d)

HeapNext == HeapPop \/ \E d \in Data : HeapPush(d) \/ HeapRemove(d)

HeapSpec == HeapInit /\ [][HeapNext]_hVars

-----------------------------------------------------------------------------
(* checkNodes of the code's own test: every node has the right size and    *)
(* is outranked by none below it.                                          *)
RECURSIVE checkNodes(_)
checkNodes(tree) ==
    tree # <<>> =>
        LET node == tree[1]
            below == node.left \o node.right
        IN  /\ \A i \in DOMAIN below : Rank[below[i].data] <= Rank[node.data]
            /\ node.size = Len(Contents(tree))
            /\ checkNodes(node.left) /\ checkNodes(node.right)

(* After any pushes, pops and removals of any member the tree is a heap    *)
(* and the sizes that steer push are those of the subtrees.                *)
TreeIsAHeap == checkNodes(hTree)

(* The heap is a set that gives out its highest ranks first, and from      *)
(* which removal finds every member: what LocTimer takes it for.           *)
RS == INSTANCE RankedSet WITH set <- ToSet(Contents(hTree)), out <- hOut
IsRankedSet == RS!RSSpec

(* The tree stays a heap with the right sizes, and implements the set.     *)
HeapIsSound == []TreeIsAHeap /\ IsRankedSet
=============================================================================
