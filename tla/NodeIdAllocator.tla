--------------------------- MODULE NodeIdAllocator ---------------------------
(***************************************************************************)
(* The plug-and-play node-ID of one Canard instance (canard.go): the local *)
(* node-ID, the bitmap of node-IDs heard on the bus, and the dirty flag    *)
(* that makes the next Poll reprogram the hardware acceptance filters.     *)
(*                                                                         *)
(* The bitmap NodeIDOccupancyBitmap is the set of its set bits.  The PRNG  *)
(* is a nondeterministic choice over the values it can return.             *)
(***************************************************************************)
EXTENDS Naturals, FiniteSets

CONSTANTS
    NodeIDMax,      \* largest node-ID; 127 in the code
    FilterCount,    \* hardware acceptance filters available; 0: no filtering
    NoNode          \* NodeIDAnonymous, and "no filter programmed yet"

ASSUME NodeIDAssumption ==
    /\ NodeIDMax \in Nat /\ NodeIDMax >= 3
    /\ FilterCount \in Nat
    /\ NoNode \notin 0..NodeIDMax

VARIABLES
    NodeID,         \* self.NodeID
    occupancy,      \* the set bits of self.NodeIDOccupancyBitmap
    filtersDirty,   \* self.rx.filtersDirty
    filterNode      \* the node-ID the hardware filters were last computed for

nodeVars == <<NodeID, occupancy, filtersDirty, filterNode>>

NodeIDs == 0..NodeIDMax
NodeIDCapacity == NodeIDMax + 1

NodeTypeOK ==
    /\ NodeID \in NodeIDs
    /\ occupancy \in SUBSET NodeIDs
    /\ filtersDirty \in BOOLEAN
    /\ filterNode \in NodeIDs \cup {NoNode}

\* nodeIDOccupancyReset: bit 0 stays reserved for compatibility with v0.
ResetOccupancy == {0}

NodeInit ==
    /\ NodeID \in 1..NodeIDMax
    /\ occupancy = ResetOccupancy
    /\ filtersDirty = (FilterCount > 0)
    /\ filterNode = NoNode
-----------------------------------------------------------------------------
\* Mutant: the chance may fail even when one node-ID is left.
ChanceMayFailAtOne(zc) == zc > 0

\* chance(zc) is certain when its argument is at most one.
ChanceMayFail(zc) == zc > 1

\* What "purge" may be when the bitmap has become occ.
MayPurge(occ) == Cardinality(occ) > NodeIDCapacity \div 2
MayKeep(occ) == MayPurge(occ) => ChanceMayFail(NodeIDCapacity - Cardinality(occ))

\* The early return of nodeIDOccupancyUpdate.
NothingLearned(src) ==
    \/ src = NoNode
    \/ src \in occupancy /\ NodeID # src

OccupancyUpdate(src) ==
    LET heard == occupancy \cup {src}
    IN  IF NothingLearned(src)
        THEN UNCHANGED nodeVars
        ELSE /\ IF NodeID = src
                THEN /\ NodeID' \in NodeIDs \ heard
                     /\ filtersDirty' = TRUE
                ELSE UNCHANGED <<NodeID, filtersDirty>>
             /\ \/ MayKeep(heard) /\ occupancy' = heard
                \/ MayPurge(heard) /\ occupancy' = ResetOccupancy \cup {src}
             /\ UNCHANGED filterNode

\* SetNodeID, on the receiving side.
ChangeNodeID(id) ==
    IF id = NodeID
    THEN UNCHANGED nodeVars
    ELSE /\ NodeID' = id
         /\ occupancy' = ResetOccupancy
         /\ filtersDirty' = TRUE
         /\ UNCHANGED filterNode

\* The first statement of Poll.  Platform.Filter may fail and is then retried
\* by the next Poll; with no filters rxFilterConfigure returns true at once.
ConfigureFilters ==
    /\ \/ ~filtersDirty /\ UNCHANGED <<filtersDirty, filterNode>>
       \/ /\ filtersDirty /\ filtersDirty' = FALSE
          /\ filterNode' = IF FilterCount > 0 THEN NodeID ELSE filterNode
       \/ /\ filtersDirty /\ FilterCount > 0
          /\ UNCHANGED <<filtersDirty, filterNode>>
    /\ UNCHANGED <<NodeID, occupancy>>
-----------------------------------------------------------------------------
NodeNext ==
    \/ \E src \in NodeIDs \cup {NoNode} : OccupancyUpdate(src)
    \/ \E id \in NodeIDs : ChangeNodeID(id)
    \/ ConfigureFilters

NodeSpec == NodeInit /\ [][NodeNext]_nodeVars
-----------------------------------------------------------------------------
\* nodeIDOccupancyUpdate picks the new node-ID by walking the bitmap to a
\* cleared bit, without a bounds check: a collision must always find one, so
\* two bits have to be clear before any frame is heard (one of them may be set
\* by that frame).  What guarantees it is that chance(1) never fails.
FreeIDRemains == Cardinality(occupancy) + 2 <= NodeIDCapacity

\* The local node-ID is never one that was heard from another node since the
\* bitmap was last reset; only the reserved bit 0 may coincide, and only when
\* the application assigned node-ID 0 itself (SetNodeID).
NodeIDNotHeard == NodeID \in occupancy => NodeID = 0

\* Plug-and-play allocation finds a node-ID, and one that is nobody else's.
NodeIDSound == FreeIDRemains /\ NodeIDNotHeard

\* The hardware filters accept service frames of one node-ID only.  Whenever
\* no reconfiguration is pending they are those of the current node-ID: every
\* path that changes NodeID must raise filtersDirty.
FiltersFollowNodeID == FilterCount > 0 /\ ~filtersDirty => filterNode = NodeID
=============================================================================
