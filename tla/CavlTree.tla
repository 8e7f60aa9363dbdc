------------------------------ MODULE CavlTree ------------------------------
(***************************************************************************)
(* A tree of cavl.go and the users that insert and remove its nodes.       *)
(***************************************************************************)
EXTENDS Cavl

VARIABLES
    tree,           \* *t and the fields of every node
    members         \* the keys that were inserted and not removed since

vars == <<tree, members>>

Init ==
    /\ tree = EmptyTree
    /\ members = {}

Insert(k) ==
    /\ k \notin members
    /\ tree' = cavlFindOrInsert(tree, k)
    /\ members' = members \cup {k}

Delete(k) ==
    /\ k \in members
    /\ tree' = cavlRemove(tree, k)
    /\ members' = members \ {k}

Next == \E k \in Keys : Insert(k) \/ Delete(k)

Spec == Init /\ [][Next]_vars
-----------------------------------------------------------------------------
\* "cavlIterate invokes fn for every node in in-order sequence" (cavl.go:388),
\* and for no others: what rxFilterConfigure relies on to serve every
\* subscription, and txExpire, with the same steps, to find the next deadline.
IterateExact == cavlIterate(tree) = Ascending(members)
=============================================================================
