------------------------------ MODULE RankedSet ------------------------------
(***************************************************************************)
(* What LocHeap promises to the timers that use it: a set of ranked        *)
(* objects that gives out one of the highest rank first, and from which    *)
(* any member can be taken.                                                *)
(***************************************************************************)
EXTENDS Integers

CONSTANTS Data, Rank, NoData

VARIABLES
    set,  \* the members
    out   \* the last operation, its argument and what it returned

RSCall(op, arg, ret) == [op |-> op, arg |-> arg, ret |-> ret]

RSInit == set = {} /\ out = RSCall("init", NoData, NoData)

RSPush(d) == d \notin set /\ set' = set \cup {d} /\ out' = RSCall("push", d, NoData)

(* Any of the highest rank; nothing if there is none. *)
RSPop ==
    \/ set = {} /\ set' = set /\ out' = RSCall("pop", NoData, NoData)
    \/ \E d \in set :
          /\ \A e \in set : Rank[d] >= Rank[e]
          /\ set' = set \ {d} /\ out' = RSCall("pop", NoData, d)

(* The object itself if it is a member, whatever its rank. *)
RSRemove(d) ==
    /\ set' = set \ {d}
    /\ out' = RSCall("remove", d, IF d \in set THEN d ELSE NoData)

RSNext == RSPop \/ \E d \in Data : RSPush(d) \/ RSRemove(d)

RSSpec == RSInit /\ [][RSNext]_<<set, out>>
=============================================================================
