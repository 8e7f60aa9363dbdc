----------------------------- MODULE MCCanardTx ------------------------------
(***************************************************************************)
(* The node's state machine, CanardTx, composed with the pure parts it     *)
(* drives: the acceptance filters that Poll computes for the node-ID, the  *)
(* cutting of payloads into the frames that txPush budgets for, and the    *)
(* trees that index its transfers and subscriptions.                       *)
(***************************************************************************)
EXTENDS CanardTx, AcceptanceFilters, Segmentation, Cavl

\* Some subscriptions at a time, of all kinds.
FewSubscriptions == {S \in SUBSET SomeSubscriptions : Cardinality(S) <= 3}

\* The node-IDs that are served by filters computed for the node-ID n.
ServedBy ==
    [n \in NodeIDs |-> {m \in NodeIDs :
        \A subs \in FewSubscriptions, capacity \in SomeCapacities :
            Serves(n, m, subs, capacity)}]

\* However many subscriptions share however few hardware filters: unless a
\* reconfiguration is pending, every frame that is sent to a subscribed port
\* of this node, and every heartbeat, passes a filter of rxFilterConfigure and
\* is read by rxParse as what was sent, whatever node-IDs the node has had.
NothingWantedFilteredOut ==
    alive /\ FilterCount > 0 /\ ~filtersDirty => NodeID \in ServedBy[filterNode]
-----------------------------------------------------------------------------
MtuOf(fd) == IF fd THEN MTUFD ELSE MTUClassic

\* Payload sizes on both sides of every boundary, to five frames of Classic CAN
\* and three of CAN FD, and extents on both sides of the payload.
SizesFor(mtu) ==
    IF mtu = MTUClassic THEN 0..33 ELSE (0..9) \cup (59..66) \cup (121..128) \cup (184..187)
SomeExtents == {1, 2, 6, 13, 62, 64, 200}

\* What arrives of the frames is the payload, cut to the extent if the transfer
\* has several frames, or nothing; and not nothing if all of them arrive.
ExactOrNothing(v0, mtu, size, extent) ==
    LET frames == Spooled(v0, mtu, size)
        whole == Payload(IF Len(frames) = 1 THEN size ELSE Min({size, extent}))
    IN  \A lost \in SUBSET DOMAIN frames :
            LET left == SelectSeq([i \in DOMAIN frames |-> i], LAMBDA i : i \notin lost)
                out == Reassembled(v0, extent, [i \in DOMAIN left |-> frames[left[i]]])
            IN  out = whole \/ (lost # {} /\ out = Nothing)

\* The cases in which the frames are as many as predicted, none longer than
\* the MTU, and reassemble.
CutRight ==
    {<<v0, mtu>> \in {<<FALSE, MTUFD>>, <<FALSE, MTUClassic>>, <<TRUE, MTUClassic>>} :
        \A size \in SizesFor(mtu) :
            LET frames == Spooled(v0, mtu, size)
            IN  /\ Len(frames) = txPredictFrameCount(size, mtu)
                /\ \A i \in DOMAIN frames : Len(frames[i].data) < mtu
                /\ \A extent \in SomeExtents : ExactOrNothing(v0, mtu, size, extent)}

\* In whichever mode the node is, a payload of any size becomes exactly the
\* number of frames that txPush made room for, and a receiver that misses any
\* of them gets the payload or nothing: the CRC may be split over two frames,
\* and an even number of lost frames leaves the toggle right.
CutAndReassembled ==
    alive => \A v0 \in BOOLEAN : <<v0, MtuOf(FD /\ ~v0)>> \in CutRight
-----------------------------------------------------------------------------
\* Every tree is a sorted set, and a removal keeps it one unless it loses an up
\* pointer.
TreesAreSorted ==
    \A s \in Reachable :
        /\ TreeOf(s.tree, s.members)
        /\ \A k \in s.members :
            ~LosesUpPointer(s.tree, k) =>
                LET u == Removed(s, k) IN TreeOf(u.tree, u.members)

\* As long as no removal has met the one shape that cavlRemove may leave with a
\* pointer to the removed node (cavl.go:368), a tree of the instance stays what
\* CanardTx and CanardRx take it for, a sorted set, through every sequence of
\* insertions and removals, whichever rotations, early stops and branches of
\* removal they go through.
IndexTreesKept == alive => TreesAreSorted

InsertedBalanced ==
    \A s \in Reachable : Balanced(s.tree, s.members) =>
        \A k \in Keys :
            LET u == Inserted(s, k) IN Balanced(u.tree, u.members)

\* "AVL balance violated" (canard_test.go) never follows an insertion into a
\* balanced tree, also after removals that have left stale balance factors.
InsertionBalances == alive => InsertedBalanced
=============================================================================
