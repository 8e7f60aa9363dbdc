-------------------------------- MODULE Cavl --------------------------------
(***************************************************************************)
(* The intrusive AVL tree of cavl.go that indexes pending transfers,       *)
(* deadlines, subscriptions and sessions, pointer by pointer.              *)
(*                                                                         *)
(* A node is named by its key.  lr[n][0] and lr[n][1] are its children;    *)
(* the root's up pointer is the root itself and a node is inserted iff its *)
(* up pointer is not Nil.  A tree is a record of these fields; crashed is  *)
(* set where the code would dereference a nil pointer.  The operations are *)
(* pure: CavlTree makes a state machine of them.                           *)
(***************************************************************************)
EXTENDS Integers, Sequences, FiniteSets, FiniteSetsExt, SequencesExt

CONSTANTS
    Keys,           \* the keys, numbers
    Nil             \* the nil pointer

ASSUME CavlAssumption ==
    Keys \subseteq Nat /\ Nil \notin Keys

-----------------------------------------------------------------------------
Child(t, n, d) == t.lr[n][d]
SetUp(t, n, p) == IF n = Nil THEN t ELSE [t EXCEPT !.up[n] = p]
SetChild(t, n, d, c) == [t EXCEPT !.lr[n][d] = c]

\* branch(cmp(k, n))
Branch(k, n) == IF k < n THEN 0 ELSE 1

\* In the parent of u, the child pointer to u becomes v.
Relink(t, u, v) ==
    LET p == t.up[u]
    IN  IF p = Nil THEN [t EXCEPT !.crashed = TRUE]
        ELSE SetChild(t, p, IF Child(t, p, 0) = u THEN 0 ELSE 1, v)

Height(t, n) == IF n = Nil THEN 0 ELSE t.height[n]

updateHeight(t, n) ==
    LET h0 == Height(t, Child(t, n, 0))
        h1 == Height(t, Child(t, n, 1))
    IN  [t EXCEPT !.height[n] = (IF h0 > h1 THEN h0 ELSE h1) + 1,
                  !.bf[n] = h1 - h0]

\* cavlRotateLeft(x) for d = 0 and cavlRotateRight(x) for d = 1.
cavlRotate(t, x, d) ==
    LET y  == Child(t, x, 1 - d)
        t1 == SetUp(SetChild(t, x, 1 - d, Child(t, y, d)), Child(t, y, d), x)
        t2 == IF t.up[x] = x
              THEN [SetUp(t1, y, y) EXCEPT !.root = y]
              ELSE Relink(SetUp(t1, y, t.up[x]), x, y)
        t3 == SetChild(SetUp(t2, x, y), y, d, x)
    IN  IF y = Nil THEN t ELSE updateHeight(updateHeight(t3, x), y)

\* The rotation, or the two, that a node with |bf| = 2 gets.
Fix(t, n) ==
    LET d == IF t.bf[n] > 1 THEN 0 ELSE 1
        c == Child(t, n, 1 - d)
        inner == c # Nil /\ (IF d = 0 THEN t.bf[c] < 0 ELSE t.bf[c] > 0)
    IN  cavlRotate(IF inner THEN cavlRotate(t, c, 1 - d) ELSE t, n, d)

\* Mutant: an insertion does not go up from the new node's parent.
RebalanceParent(t, n) ==
    LET u == updateHeight(t, n) IN IF u.bf[n] \in -1..1 THEN u ELSE Fix(u, n)

RECURSIVE cavlRebalanceInsert(_, _)
cavlRebalanceInsert(t, n) ==
    LET u == updateHeight(t, n)
    IN  IF u.bf[n] \notin -1..1 THEN Fix(u, n)
        ELSE IF u.bf[n] = 0 \/ u.up[n] = n THEN u
        ELSE cavlRebalanceInsert(u, u.up[n])

RECURSIVE cavlRebalanceDelete(_, _)
cavlRebalanceDelete(t, n) ==
    LET u == updateHeight(t, n)
        v == IF u.bf[n] \in -1..1 THEN u ELSE Fix(u, n)
        p == v.up[n]
    IN  IF n = Nil THEN t
        ELSE IF u.bf[n] \in {-1, 1} THEN u
        ELSE IF p = Nil \/ v.up[p] = p THEN v
        ELSE cavlRebalanceDelete(v, p)
-----------------------------------------------------------------------------
RECURSIVE Descend(_, _, _)
Descend(t, n, k) ==
    IF k = n \/ Child(t, n, Branch(k, n)) = Nil THEN n
    ELSE Descend(t, Child(t, n, Branch(k, n)), k)

\* cavlFind: the last node visited, whether or not its key is k.
cavlFind(t, k) == IF t.root = Nil THEN Nil ELSE Descend(t, t.root, k)

cavlFindOrInsert(t, k) ==
    LET p == Descend(t, t.root, k)
        leaf == [t EXCEPT !.up[k] = p, !.height[k] = 1, !.lr[p][Branch(k, p)] = k]
    IN  IF t.root = Nil
        THEN [t EXCEPT !.root = k, !.up[k] = k, !.height[k] = 1]
        ELSE IF p = k THEN t ELSE cavlRebalanceInsert(leaf, p)

RECURSIVE cavlMin(_, _)
cavlMin(t, n) == IF Child(t, n, 0) = Nil THEN n ELSE cavlMin(t, Child(t, n, 0))

cavlTransplant(t, u, v) ==
    IF t.up[u] = u
    THEN SetUp([t EXCEPT !.root = v], v, v)
    ELSE SetUp(Relink(t, u, v), v, t.up[u])

\* The height stays in the code, but nobody reads it before it is set to 1.
clearNode(t, z) ==
    [t EXCEPT !.up[z] = Nil, !.lr[z] = [d \in 0..1 |-> Nil], !.bf[z] = 0,
              !.height[z] = 0]

\* z has at most one child, c.
RemoveSimple(t, z, c) ==
    cavlRebalanceDelete(cavlTransplant(t, z, c), IF t.up[z] = z THEN c ELSE t.up[z])

\* Mutant: the successor takes over z's right child without being its parent.
RemoveDistantUnlinked(t, z, y) ==
    LET t1 == cavlTransplant(t, y, Child(t, y, 1))
        t2 == SetUp(SetChild(t1, y, 0, Child(t1, z, 0)), Child(t1, z, 0), y)
        t3 == updateHeight(SetChild(t2, y, 1, Child(t2, z, 1)), y)
    IN  cavlRebalanceDelete(cavlTransplant(t3, z, y), t.up[y])

\* z has two children and its successor y is not its child.
RemoveDistant(t, z, y) ==
    LET t1 == cavlTransplant(t, y, Child(t, y, 1))
        t2 == SetUp(SetChild(t1, y, 0, Child(t1, z, 0)), Child(t1, z, 0), y)
        t3 == updateHeight(SetChild(t2, y, 1, Child(t2, z, 1)), y)
        t4 == SetUp(t3, Child(t3, y, 1), y)
    IN  cavlRebalanceDelete(cavlTransplant(t4, z, y), t.up[y])

\* z has two children and its successor y is its right child.
RemoveAdjacent(t, z, y) ==
    LET t1 == cavlTransplant(t, y, Child(t, y, 1))
        t2 == SetUp(SetChild(t1, y, 0, Child(t1, z, 0)), Child(t1, z, 0), y)
        t3 == cavlTransplant(t2, z, y)
    IN  cavlRebalanceDelete(t3, IF t.up[z] = z THEN t3.root ELSE t.up[z])

cavlRemove(t, z) ==
    LET y == cavlMin(t, Child(t, z, 1))
        u == IF Child(t, z, 0) = Nil THEN RemoveSimple(t, z, Child(t, z, 1))
             ELSE IF Child(t, z, 1) = Nil THEN RemoveSimple(t, z, Child(t, z, 0))
             ELSE IF t.up[y] # z THEN RemoveDistant(t, z, y)
             ELSE RemoveAdjacent(t, z, y)
    IN  clearNode(u, z)

RECURSIVE Ascend(_, _)
Ascend(t, n) ==
    LET p == t.up[n]
    IN  IF p = n \/ p = Nil THEN Nil
        ELSE IF n = Child(t, p, 1) THEN Ascend(t, p)
        ELSE p

cavlNextGreater(t, n) ==
    IF Child(t, n, 1) # Nil THEN cavlMin(t, Child(t, n, 1)) ELSE Ascend(t, n)

\* cavlIterate; fuel bounds the walk should the links form a cycle.
RECURSIVE Walk(_, _, _)
Walk(t, n, fuel) ==
    IF n = Nil \/ fuel = 0 THEN <<>>
    ELSE <<n>> \o Walk(t, cavlNextGreater(t, n), fuel - 1)

cavlIterate(t) ==
    Walk(t, IF t.root = Nil THEN Nil ELSE cavlMin(t, t.root), 2 * Cardinality(Keys))
-----------------------------------------------------------------------------
\* A tree that was never used.
EmptyTree ==
    [root |-> Nil, crashed |-> FALSE,
     up |-> [k \in Keys |-> Nil],
     lr |-> [k \in Keys |-> [d \in 0..1 |-> Nil]],
     height |-> [k \in Keys |-> 0], bf |-> [k \in Keys |-> 0]]
-----------------------------------------------------------------------------
(***************************************************************************)
(* What a tree should be.                                                  *)
(***************************************************************************)
RECURSIVE Subtree(_, _)
Subtree(t, n) ==
    IF n = Nil THEN {} ELSE {n} \cup Subtree(t, Child(t, n, 0)) \cup Subtree(t, Child(t, n, 1))

RECURSIVE TrueHeight(_, _)
TrueHeight(t, n) ==
    IF n = Nil THEN 0
    ELSE 1 + Max({TrueHeight(t, Child(t, n, 0)), TrueHeight(t, Child(t, n, 1))})

\* Up and child pointers agree everywhere, the nodes outside K have a nil up
\* pointer (cavlIsInserted), and nothing was dereferenced as nil.
LinkedOver(t, K) ==
    /\ ~t.crashed
    /\ \A k \in Keys : (t.up[k] # Nil) = (k \in K)
    /\ K # {} => t.up[t.root] = t.root
    /\ \A k \in K, d \in 0..1 : Child(t, k, d) # Nil => t.up[Child(t, k, d)] = k

Ascending(K) == SetToSortSeq(K, LAMBDA a, b : a < b)

\* t is a search tree of the nodes K: they are linked, every one is found
\* under its own key, and the walk visits them and no others, in order.
TreeOf(t, K) ==
    /\ LinkedOver(t, K)
    /\ \A k \in K : cavlFind(t, k) = k
    /\ cavlIterate(t) = Ascending(K)

\* The AVL condition, on real heights.
Balanced(t, K) ==
    \A k \in K :
        TrueHeight(t, Child(t, k, 1)) - TrueHeight(t, Child(t, k, 0)) \in -1..1
-----------------------------------------------------------------------------
(***************************************************************************)
(* The trees that insertions and removals lead to.                         *)
(***************************************************************************)
\* The successor of z is its right child and has a right child of its own: the
\* latter's up pointer becomes z, and when z is removed it is only set again if a
\* rotation happens to.
LosesUpPointer(t, z) ==
    LET y == cavlMin(t, Child(t, z, 1))
    IN  /\ Child(t, z, 0) # Nil /\ Child(t, z, 1) # Nil
        /\ t.up[y] = z /\ Child(t, y, 1) # Nil

Indexing(t, K) == [tree |-> t, members |-> K]

Inserted(s, k) == Indexing(cavlFindOrInsert(s.tree, k), s.members \cup {k})
Removed(s, k) == Indexing(cavlRemove(s.tree, k), s.members \ {k})

\* One operation later; keys that are in the tree are looked up for insertion
\* too.  A removal that loses an up pointer is not followed up.
After(S) ==
    {Inserted(s, k) : s \in S, k \in Keys}
        \cup UNION {{Removed(s, k) : k \in {m \in s.members : ~LosesUpPointer(s.tree, m)}}
                    : s \in S}

RECURSIVE Closure(_, _)
Closure(seen, last) ==
    LET new == After({s \in last : TreeOf(s.tree, s.members)}) \ seen
    IN  IF new = {} THEN seen ELSE Closure(seen \cup new, new)

Reachable == Closure({Indexing(EmptyTree, {})}, {Indexing(EmptyTree, {})})
=============================================================================
