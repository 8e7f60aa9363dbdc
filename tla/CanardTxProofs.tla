--------------------------- MODULE CanardTxProofs ---------------------------
(***************************************************************************)
(* The invariants of NodeIdAllocator for every NodeIDMax >= 3; frame       *)
(* ownership, queue accounting and the integrity of transfers across       *)
(* node-ID changes, for every queue capacity, payload and node-ID range.   *)
(***************************************************************************)
EXTENDS CanardTx, AcceptanceFilters, FiniteSetTheorems, SequenceTheorems, WellFoundedInduction, TLAPS

-----------------------------------------------------------------------------
(***************************************************************************)
(* The node-ID allocator by itself.                                        *)
(***************************************************************************)
NodeInv == NodeTypeOK /\ FreeIDRemains /\ NodeIDNotHeard /\ FiltersFollowNodeID

\* Hearing one more node sets at most one more bit.
LEMMA AddBit ==
    ASSUME NEW S, IsFiniteSet(S), NEW x
    PROVE  /\ IsFiniteSet(S \cup {x})
           /\ Cardinality(S \cup {x}) \in Nat
           /\ Cardinality(S \cup {x}) <= Cardinality(S) + 1
  <1>1. IsFiniteSet(S \cup {x})
        /\ (Cardinality(S \cup {x}) = Cardinality(S) \/ Cardinality(S \cup {x}) = Cardinality(S) + 1)
    BY FS_AddElement
  <1>2. Cardinality(S) \in Nat
    BY FS_CardinalityType
  <1> QED
    BY <1>1, <1>2

LEMMA FiniteIDs == \A S \in SUBSET NodeIDs : IsFiniteSet(S) /\ Cardinality(S) \in Nat
  <1>1. IsFiniteSet(NodeIDs)
    BY FS_Interval, NodeIDAssumption DEF NodeIDs
  <1> QED
    BY <1>1, FS_Subset, FS_CardinalityType

\* Two bits are clear right after a reset, whatever has been heard last.
LEMMA ResetLeavesTwo ==
    \A src \in NodeIDs : Cardinality(ResetOccupancy \cup {src}) + 2 <= NodeIDCapacity
  <1> SUFFICES ASSUME NEW src \in NodeIDs
               PROVE  Cardinality(ResetOccupancy \cup {src}) + 2 <= NodeIDCapacity
    OBVIOUS
  <1>1. IsFiniteSet(ResetOccupancy) /\ Cardinality(ResetOccupancy) = 1
    BY FS_Singleton DEF ResetOccupancy
  <1>2. Cardinality(ResetOccupancy \cup {src}) \in Nat
        /\ Cardinality(ResetOccupancy \cup {src}) <= 2
    BY <1>1, AddBit
  <1> QED
    BY <1>2, NodeIDAssumption DEF NodeIDCapacity

\* A bitmap that is not purged has two clear bits: with one clear bit left
\* chance() is certain.
LEMMA NoPurgeLeavesTwo ==
    ASSUME NEW occ \in SUBSET NodeIDs, MayKeep(occ)
    PROVE  Cardinality(occ) + 2 <= NodeIDCapacity
  <1>1. Cardinality(occ) \in Nat
    BY FiniteIDs
  <1>2. CASE MayPurge(occ)
    BY <1>1, <1>2, NodeIDAssumption DEF MayKeep, ChanceMayFail, NodeIDCapacity
  <1>3. CASE ~MayPurge(occ)
    BY <1>1, <1>3, NodeIDAssumption DEF MayPurge, NodeIDCapacity
  <1> QED
    BY <1>2, <1>3

LEMMA NodeInitInv == NodeInit => NodeInv
  <1> SUFFICES ASSUME NodeInit PROVE NodeInv
    OBVIOUS
  <1>1. NodeTypeOK
    BY NodeIDAssumption DEF NodeInit, NodeTypeOK, NodeIDs, ResetOccupancy
  <1>2. FreeIDRemains
    <2>1. Cardinality(occupancy) = 1
      BY FS_Singleton DEF NodeInit, ResetOccupancy
    <2> QED
      BY <2>1, NodeIDAssumption DEF FreeIDRemains, NodeIDCapacity
  <1>3. NodeIDNotHeard /\ FiltersFollowNodeID
    BY DEF NodeInit, NodeIDNotHeard, FiltersFollowNodeID, ResetOccupancy
  <1> QED
    BY <1>1, <1>2, <1>3 DEF NodeInv

LEMMA OccupancyUpdateInv ==
    ASSUME NodeInv, NEW src \in NodeIDs \cup {NoNode}, OccupancyUpdate(src)
    PROVE  NodeInv'
  <1> USE DEF NodeInv
  <1>1. CASE NothingLearned(src)
    BY <1>1 DEF OccupancyUpdate, nodeVars, NodeTypeOK, FreeIDRemains, NodeIDNotHeard,
                FiltersFollowNodeID
  <1>2. CASE ~NothingLearned(src)
    <2> DEFINE heard == occupancy \cup {src}
    <2>1. src \in NodeIDs
      BY <1>2, NodeIDAssumption DEF NothingLearned
    <2>2. /\ IF NodeID = src
             THEN /\ NodeID' \in NodeIDs \ heard
                  /\ filtersDirty' = TRUE
             ELSE UNCHANGED <<NodeID, filtersDirty>>
          /\ \/ MayKeep(heard) /\ occupancy' = heard
             \/ MayPurge(heard) /\ occupancy' = ResetOccupancy \cup {src}
          /\ UNCHANGED filterNode
      BY <1>2 DEF OccupancyUpdate
    <2>3. occupancy' \in SUBSET NodeIDs
      <3>1. 0 \in NodeIDs
        BY NodeIDAssumption DEF NodeIDs
      <3>2. heard \in SUBSET NodeIDs /\ ResetOccupancy \cup {src} \in SUBSET NodeIDs
        BY <2>1, <3>1 DEF NodeTypeOK, ResetOccupancy
      <3> QED
        BY <2>2, <3>2
    <2>4. NodeTypeOK'
      BY <2>2, <2>3 DEF NodeTypeOK
    <2>5. FreeIDRemains'
      <3>1. CASE MayKeep(heard) /\ occupancy' = heard
        BY <2>3, <3>1, NoPurgeLeavesTwo DEF FreeIDRemains
      <3>2. CASE MayPurge(heard) /\ occupancy' = ResetOccupancy \cup {src}
        BY <2>1, <3>2, ResetLeavesTwo DEF FreeIDRemains
      <3> QED
        BY <2>2, <3>1, <3>2
    <2>6. NodeIDNotHeard'
      BY <2>2 DEF NodeIDNotHeard, ResetOccupancy
    <2>7. FiltersFollowNodeID'
      BY <2>2 DEF FiltersFollowNodeID
    <2> QED
      BY <2>4, <2>5, <2>6, <2>7
  <1> QED
    BY <1>1, <1>2

LEMMA ChangeNodeIDInv ==
    ASSUME NodeInv, NEW id \in NodeIDs, ChangeNodeID(id)
    PROVE  NodeInv'
  <1> USE DEF NodeInv
  <1>1. CASE id = NodeID
    BY <1>1 DEF ChangeNodeID, nodeVars, NodeTypeOK, FreeIDRemains, NodeIDNotHeard,
                FiltersFollowNodeID
  <1>2. CASE id # NodeID
    <2>1. NodeTypeOK' /\ NodeIDNotHeard' /\ FiltersFollowNodeID'
      BY <1>2, NodeIDAssumption DEF ChangeNodeID, NodeTypeOK, NodeIDNotHeard,
         FiltersFollowNodeID, ResetOccupancy, NodeIDs
    <2>2. Cardinality(occupancy') = 1
      BY <1>2, FS_Singleton DEF ChangeNodeID, ResetOccupancy
    <2>3. FreeIDRemains'
      BY <2>2, NodeIDAssumption DEF FreeIDRemains, NodeIDCapacity
    <2> QED
      BY <2>1, <2>3
  <1> QED
    BY <1>1, <1>2

LEMMA ConfigureFiltersInv == NodeInv /\ ConfigureFilters => NodeInv'
  BY DEF NodeInv, ConfigureFilters, NodeTypeOK, FreeIDRemains, NodeIDNotHeard,
         FiltersFollowNodeID

LEMMA NodeStep == NodeInv /\ [NodeNext]_nodeVars => NodeInv'
  <1> SUFFICES ASSUME NodeInv, [NodeNext]_nodeVars PROVE NodeInv'
    OBVIOUS
  <1>1. ASSUME NEW src \in NodeIDs \cup {NoNode}, OccupancyUpdate(src) PROVE NodeInv'
    BY <1>1, OccupancyUpdateInv
  <1>2. ASSUME NEW id \in NodeIDs, ChangeNodeID(id) PROVE NodeInv'
    BY <1>2, ChangeNodeIDInv
  <1>3. CASE ConfigureFilters
    BY <1>3, ConfigureFiltersInv
  <1>4. CASE UNCHANGED nodeVars
    BY <1>4 DEF nodeVars, NodeInv, NodeTypeOK, FreeIDRemains, NodeIDNotHeard,
                FiltersFollowNodeID
  <1> QED
    BY <1>1, <1>2, <1>3, <1>4 DEF NodeNext

\* Plug-and-play node-ID allocation never runs out of bits: whatever frames are
\* heard, nodeIDOccupancyUpdate finds a cleared bit below NodeIDCapacity, keeps
\* the local node-ID apart from those heard, and leaves no stale hardware
\* filter behind.
THEOREM NodeIdInvariant ==
    NodeSpec => [](NodeIDSound /\ FiltersFollowNodeID)
  <1>1. NodeInv => NodeIDSound /\ FiltersFollowNodeID
    BY DEF NodeInv, NodeIDSound
  <1> QED
    BY NodeInitInv, NodeStep, <1>1, PTL DEF NodeSpec

-----------------------------------------------------------------------------
(***************************************************************************)
(* The pipeline.                                                           *)
(***************************************************************************)
\* The bookkeeping the safety properties rest on.  Frame and transfer names
\* are never reused; a destroyed instance is empty.
Structure ==
    /\ IsFiniteSet(Live)
    /\ \A s \in Queued : queue[s].cursor <= queue[s].frames
    /\ alive => /\ \A s \in Queued : s < seqno
                /\ \A f \in Live : f[1] < seqno
                /\ \A k \in DOMAIN wire : wire[k].seqno < seqno
    /\ ~alive => Queued = {} /\ ~polling

\* A transfer that is still queued and has frames on the wire is marked as
\* departed, and all of those frames carry the current node-ID.
WireOwned ==
    \A k \in DOMAIN wire :
        wire[k].seqno \in Queued =>
            /\ queue[wire[k].seqno].firstFrameDeparted
            /\ queue[wire[k].seqno].frames > 1
            /\ wire[k].src = NodeID

RefInv == TypeOK /\ Structure /\ RefcountExact /\ QueueSizeExact
-----------------------------------------------------------------------------
(***************************************************************************)
(* Chains: the frames of a transfer that are still to be sent.             *)
(***************************************************************************)
LEMMA ChainMember ==
    \A s, f : f \in Chain(s) <=>
        f = <<s, f[2]>> /\ f[2] \in queue[s].cursor..queue[s].frames
  BY DEF Chain

LEMMA ChainsMember ==
    \A S, f : f \in ChainsOf(S) <=> f[1] \in S /\ f \in Chain(f[1])
  <1> SUFFICES ASSUME NEW S, NEW f
               PROVE  f \in ChainsOf(S) <=> f[1] \in S /\ f \in Chain(f[1])
    OBVIOUS
  <1>1. ASSUME NEW s \in S, f \in Chain(s) PROVE f[1] \in S /\ f \in Chain(f[1])
    BY <1>1, ChainMember
  <1> QED
    BY <1>1 DEF ChainsOf

\* What is freed by retiring the transfers S, and what is left.
LEMMA RetireFacts ==
    ASSUME RefInv, NEW S, S \subseteq Queued
    PROVE  LET freed == Freed(ChainsOf(S))
               left == Live \ freed
           IN  /\ freed \subseteq Live
               /\ IsFiniteSet(left) /\ Cardinality(left) \in Nat
               /\ Cardinality(left) = Cardinality(Live) - Cardinality(freed)
               /\ Cardinality(freed) \in Nat
               /\ left \subseteq Frames
               /\ Released(ChainsOf(S)) \in [left -> Nat \ {0}]
               /\ HeldAfter(ChainsOf(S)) \in [left -> Nat]
               /\ ChainsOf(Queued \ S) \subseteq left
               /\ \A f \in left : Released(ChainsOf(S))[f] =
                    held[f] + (IF f \in ChainsOf(Queued \ S) THEN 1 ELSE 0)
  <1> DEFINE freed == Freed(ChainsOf(S))
             left == Live \ freed
  <1> USE DEF RefInv
  <1>1. ChainsOf(S) \subseteq ChainsOf(Queued)
    BY DEF ChainsOf
  <1>2. freed \subseteq Live
    BY <1>1 DEF Freed, RefcountExact
  <1>3. /\ IsFiniteSet(freed) /\ Cardinality(freed) \in Nat
        /\ IsFiniteSet(left) /\ Cardinality(left) \in Nat
        /\ Cardinality(left) = Cardinality(Live) - Cardinality(freed)
    <2>1. IsFiniteSet(Live) /\ IsFiniteSet(freed) /\ IsFiniteSet(left)
      BY <1>2, FS_Subset DEF Structure
    <2>2. Cardinality(left) = Cardinality(Live) - Cardinality(Live \cap freed)
      BY <2>1, FS_Difference
    <2>3. Live \cap freed = freed
      BY <1>2
    <2> QED
      BY <2>1, <2>2, <2>3, FS_CardinalityType
  <1>4. \A f \in left : f \in ChainsOf(Queued \ S) <=> f \in ChainsOf(Queued) /\ f \notin ChainsOf(S)
    BY ChainsMember
  <1>5. ASSUME NEW f \in left
        PROVE  /\ Released(ChainsOf(S))[f] \in Nat \ {0}
               /\ Released(ChainsOf(S))[f] =
                    held[f] + (IF f \in ChainsOf(Queued \ S) THEN 1 ELSE 0)
    <2>1. /\ refcount[f] \in Nat \ {0} /\ held[f] \in Nat
          /\ refcount[f] = held[f] + (IF f \in ChainsOf(Queued) THEN 1 ELSE 0)
      BY DEF TypeOK, RefcountExact
    <2>2. CASE f \in ChainsOf(S)
      <3>1. refcount[f] # 1
        BY <2>2 DEF Freed
      <3>2. Released(ChainsOf(S))[f] = refcount[f] - 1
        BY <2>2 DEF Released
      <3>3. f \in ChainsOf(Queued) /\ f \notin ChainsOf(Queued \ S)
        BY <1>1, <1>4, <2>2
      <3> QED
        BY <2>1, <3>1, <3>2, <3>3
    <2>3. CASE f \notin ChainsOf(S)
      <3>1. Released(ChainsOf(S))[f] = refcount[f]
        BY <2>3 DEF Released
      <3> QED
        BY <1>4, <2>1, <2>3, <3>1
    <2> QED
      BY <2>2, <2>3
  <1>6. Released(ChainsOf(S)) \in [left -> Nat \ {0}]
    BY <1>5 DEF Released
  <1>7. HeldAfter(ChainsOf(S)) \in [left -> Nat]
    BY DEF HeldAfter, TypeOK
  <1>8. ChainsOf(Queued \ S) \subseteq left
    <2> SUFFICES ASSUME NEW f \in ChainsOf(Queued \ S) PROVE f \in left
      OBVIOUS
    <2>1. f \in ChainsOf(Queued) /\ f \notin ChainsOf(S)
      BY ChainsMember
    <2> QED
      BY <2>1 DEF Freed, RefcountExact
  <1> QED
    BY <1>2, <1>3, <1>5, <1>6, <1>7, <1>8 DEF TypeOK

\* Retiring transfers does not change the chains of those that stay.
LEMMA ChainsKept ==
    ASSUME NEW T, \A s \in T : queue'[s] = queue[s]
    PROVE  ChainsOf(T)' = ChainsOf(T)
  <1>1. \A s \in T : Chain(s)' = Chain(s)
    BY DEF Chain
  <1> QED
    BY <1>1 DEF ChainsOf

\* The variables outside the queue, the registry and the wire keep their types
\* and the numbering of transfers does not go back.
RestTyped ==
    /\ alive = TRUE /\ alive' = TRUE
    /\ seqno' \in Nat /\ seqno <= seqno'
    /\ NodeTypeOK'
    /\ ifaceUp' \in BOOLEAN /\ FD' \in BOOLEAN /\ polling' \in BOOLEAN
    /\ now' \in Nat /\ polledAt' \in Nat

LEMMA FramesNumbered ==
    ASSUME TypeOK
    PROVE  /\ \A f \in Live : f[1] \in Nat /\ f[2] \in Nat \ {0} /\ f = <<f[1], f[2]>>
           /\ \A k \in DOMAIN wire : wire[k] \in WireFrame /\ wire[k].seqno \in Nat
  <1>1. \A f \in Live : f[1] \in Nat /\ f[2] \in Nat \ {0} /\ f = <<f[1], f[2]>>
    BY DEF TypeOK, Frames
  <1>2. \A k \in DOMAIN wire : wire[k] \in WireFrame
    BY DEF TypeOK
  <1>3. \A w \in WireFrame : w.seqno \in Nat
    BY DEF WireFrame
  <1> QED
    BY <1>1, <1>2, <1>3

LEMMA RetireInv ==
    ASSUME RefInv, NEW S, S \subseteq Queued, Retire(S), RestTyped, wire' = wire
    PROVE  RefInv'
  <1> DEFINE freed == Freed(ChainsOf(S))
             left == Live \ freed
  <1>1. /\ freed \subseteq Live
        /\ IsFiniteSet(left) /\ Cardinality(left) \in Nat
        /\ Cardinality(left) = Cardinality(Live) - Cardinality(freed)
        /\ Cardinality(freed) \in Nat
        /\ left \subseteq Frames
        /\ Released(ChainsOf(S)) \in [left -> Nat \ {0}]
        /\ HeldAfter(ChainsOf(S)) \in [left -> Nat]
        /\ ChainsOf(Queued \ S) \subseteq left
        /\ \A f \in left : Released(ChainsOf(S))[f] =
                    held[f] + (IF f \in ChainsOf(Queued \ S) THEN 1 ELSE 0)
    BY RetireFacts
  <1>2. Queued' = Queued \ S /\ \A s \in Queued' : queue'[s] = queue[s]
    BY DEF Retire, Queued
  <1>3. Live' = left /\ refcount' = Released(ChainsOf(S)) /\ held' = HeldAfter(ChainsOf(S))
    BY <1>1 DEF Retire, Live
  <1>4. ChainsOf(Queued)' = ChainsOf(Queued \ S)
    BY <1>2, ChainsKept
  <1>5. TypeOK'
    <2>1. queue' \in [Queued' -> Descriptor] /\ Queued' \subseteq Nat
      BY <1>2 DEF Retire, RefInv, TypeOK
    <2>2. queueSize' \in Int
      BY <1>1 DEF Retire, SizeWithout, RefInv, TypeOK
    <2>3. wire' \in Seq(WireFrame)
      BY DEF RefInv, TypeOK
    <2> QED
      BY <1>1, <1>3, <2>1, <2>2, <2>3 DEF TypeOK, RestTyped
  <1>6. Structure'
    <2>1. /\ \A s \in Queued : s < seqno /\ s \in Nat
          /\ \A f \in Live : f[1] < seqno /\ f[1] \in Nat
          /\ \A k \in DOMAIN wire : wire[k].seqno < seqno /\ wire[k].seqno \in Nat
          /\ seqno \in Nat
      BY FramesNumbered DEF RefInv, TypeOK, Structure, RestTyped
    <2>2. /\ \A s \in Queued' : s < seqno'
          /\ \A f \in Live' : f[1] < seqno'
          /\ \A k \in DOMAIN wire' : wire'[k].seqno < seqno'
      BY <1>2, <1>3, <2>1 DEF RestTyped
    <2> QED
      BY <1>1, <1>2, <1>3, <2>2 DEF Structure, RestTyped, RefInv
  <1>7. RefcountExact'
    <2>1. \A f \in Live' : held'[f] = held[f]
      BY <1>3 DEF HeldAfter
    <2> QED
      BY <1>1, <1>3, <1>4, <2>1 DEF RefcountExact
  <1>8. QueueSizeExact'
    <2>1. queueSize' = queueSize - Cardinality(freed)
      BY DEF Retire, SizeWithout
    <2> QED
      BY <1>1, <1>3, <2>1, TxAssumption DEF QueueSizeExact, RefInv, TypeOK, RestTyped
  <1> QED
    BY <1>5, <1>6, <1>7, <1>8 DEF RefInv
-----------------------------------------------------------------------------
(***************************************************************************)
(* The operations preserve ownership and accounting.                       *)
(***************************************************************************)
LEMMA FrameSet ==
    ASSUME NEW s, NEW n \in Nat
    PROVE  /\ IsFiniteSet({<<s, i>> : i \in 1..n})
           /\ Cardinality({<<s, i>> : i \in 1..n}) = n
  <1> DEFINE F == {<<s, i>> : i \in 1..n}
             g == [i \in 1..n |-> <<s, i>>]
  <1>1. g \in Bijection(1..n, F)
    BY DEF Bijection, Injection, Surjection, IsInjective
  <1>2. ExistsBijection(1..n, F)
    BY <1>1 DEF ExistsBijection
  <1>3. IsFiniteSet(1..n) /\ Cardinality(1..n) = n
    BY FS_Interval
  <1> QED
    BY <1>2, <1>3, FS_Bijection

LEMMA RetiredForSpaceType ==
    \A n : RetiredForSpace(n) \subseteq Queued
  BY DEF RetiredForSpace, Expired

LEMMA AcceptInv ==
    ASSUME RefInv, NEW id \in Nat, NEW n \in Nat \ {0}, NEW deadline \in Nat,
           Accept(id, n, deadline), RestTyped, seqno' = seqno + 1, wire' = wire
    PROVE  RefInv'
  <1> DEFINE retired == RetiredForSpace(n)
             frames == {<<seqno, i>> : i \in 1..n}
             freed == Freed(ChainsOf(retired))
             left == Live \ freed
             kept == Queued \ retired
  <1>0. retired \subseteq Queued
    BY RetiredForSpaceType
  <1>1. /\ freed \subseteq Live
        /\ IsFiniteSet(left) /\ Cardinality(left) \in Nat
        /\ Cardinality(left) = Cardinality(Live) - Cardinality(freed)
        /\ Cardinality(freed) \in Nat
        /\ left \subseteq Frames
        /\ Released(ChainsOf(retired)) \in [left -> Nat \ {0}]
        /\ HeldAfter(ChainsOf(retired)) \in [left -> Nat]
        /\ ChainsOf(kept) \subseteq left
        /\ \A f \in left : Released(ChainsOf(retired))[f] =
                    held[f] + (IF f \in ChainsOf(kept) THEN 1 ELSE 0)
    BY <1>0, RetireFacts
  <1>2. /\ seqno \in Nat /\ \A s \in Queued : s < seqno /\ s \in Nat
        /\ \A f \in Live : f[1] < seqno /\ f[1] \in Nat
        /\ \A k \in DOMAIN wire : wire[k].seqno < seqno /\ wire[k].seqno \in Nat
    BY FramesNumbered DEF RefInv, TypeOK, Structure, RestTyped
  <1>3. /\ \A f \in frames : f[1] = seqno
        /\ frames \subseteq Frames
        /\ IsFiniteSet(frames) /\ Cardinality(frames) = n
        /\ left \cap frames = {}
    <2>1. \A f \in frames : f[1] = seqno
      OBVIOUS
    <2>2. frames \subseteq Frames
      BY <1>2 DEF Frames
    <2>3. \A f \in left : f[1] # seqno
      BY <1>2
    <2> QED
      BY <2>1, <2>2, <2>3, FrameSet
  <1>4. /\ Queued' = kept \cup {seqno}
        /\ \A s \in kept : queue'[s] = queue[s]
        /\ queue'[seqno] = NewTransfer(id, n, deadline)
    BY <1>2 DEF Accept, Queued
  <1>5. /\ Live' = left \cup frames
        /\ \A f \in frames : refcount'[f] = 1 /\ held'[f] = 0
        /\ \A f \in left : refcount'[f] = Released(ChainsOf(retired))[f] /\ held'[f] = held[f]
    BY <1>3 DEF Accept, Live
  <1>6. ChainsOf(Queued)' = ChainsOf(kept) \cup frames
    <2>1. PICK K, q : K = kept /\ q = seqno
      OBVIOUS
    <2>2. \A s \in K : Chain(s)' = Chain(s)
      BY <1>4, <2>1 DEF Chain
    <2>3. Chain(q)' = {<<q, i>> : i \in 1..n}
      BY <1>4, <2>1 DEF Chain, NewTransfer
    <2>4. ChainsOf(Queued)' = UNION {Chain(s)' : s \in K \cup {q}}
      BY <1>4, <2>1 DEF ChainsOf
    <2>5. ChainsOf(Queued)' = ChainsOf(K) \cup {<<q, i>> : i \in 1..n}
      BY <2>2, <2>3, <2>4 DEF ChainsOf
    <2> QED
      BY <2>1, <2>5
  <1>7. TypeOK'
    <2>1. NewTransfer(id, n, deadline) \in Descriptor
      BY DEF NewTransfer, Descriptor
    <2>2. queue' \in [Queued' -> Descriptor] /\ Queued' \subseteq Nat
      <3>1. \A s \in kept : queue[s] \in Descriptor
        BY DEF RefInv, TypeOK
      <3>2. queue' = [s \in Queued' |-> queue'[s]]
        BY <1>4 DEF Accept
      <3>3. \A s \in Queued' : queue'[s] \in Descriptor
        BY <1>4, <2>1, <3>1
      <3> QED
        BY <1>2, <1>4, <3>2, <3>3
    <2>3. Live' \subseteq Frames
      BY <1>1, <1>3, <1>5
    <2>4. refcount' \in [Live' -> Nat \ {0}]
      <3>1. refcount' = [f \in Live' |-> refcount'[f]]
        BY <1>5 DEF Accept
      <3>2. \A f \in Live' : refcount'[f] \in Nat \ {0}
        BY <1>1, <1>5
      <3> QED
        BY <3>1, <3>2
    <2>5. held' \in [Live' -> Nat]
      <3>1. held' = [f \in Live' |-> held'[f]]
        BY <1>5 DEF Accept
      <3>2. \A f \in left : held[f] \in Nat
        BY DEF RefInv, TypeOK
      <3>3. \A f \in Live' : held'[f] \in Nat
        BY <1>5, <3>2
      <3> QED
        BY <3>1, <3>3
    <2>6. queueSize' \in Int
      BY <1>1 DEF Accept, SizeWithout, RefInv, TypeOK
    <2>7. wire' \in Seq(WireFrame)
      BY DEF RefInv, TypeOK
    <2> QED
      BY <2>2, <2>3, <2>4, <2>5, <2>6, <2>7 DEF TypeOK, RestTyped
  <1>8. Structure'
    <2>1. IsFiniteSet(Live')
      BY <1>1, <1>3, <1>5, FS_Union
    <2>2. \A s \in Queued' : queue'[s].cursor <= queue'[s].frames
      BY <1>4 DEF NewTransfer, RefInv, Structure
    <2>3. /\ \A s \in Queued' : s < seqno'
          /\ \A k \in DOMAIN wire' : wire'[k].seqno < seqno'
      BY <1>2, <1>4
    <2>4. \A f \in Live' : f[1] < seqno'
      BY <1>2, <1>3, <1>5
    <2> QED
      BY <2>1, <2>2, <2>3, <2>4 DEF Structure, RestTyped
  <1>9. RefcountExact'
    <2>1. ChainsOf(Queued)' \subseteq Live'
      BY <1>1, <1>5, <1>6
    <2>2. ASSUME NEW f \in Live'
          PROVE  refcount'[f] = held'[f] + (IF f \in ChainsOf(Queued)' THEN 1 ELSE 0)
      <3>1. CASE f \in frames
        BY <1>5, <1>6, <3>1
      <3>2. CASE f \in left
        BY <1>1, <1>3, <1>5, <1>6, <3>2
      <3> QED
        BY <1>5, <3>1, <3>2
    <2> QED
      BY <2>1, <2>2 DEF RefcountExact
  <1>10. QueueSizeExact'
    <2>1. Cardinality(Live') = Cardinality(left) + n
      <3>1. Cardinality(left \cup frames)
              = Cardinality(left) + Cardinality(frames) - Cardinality(left \cap frames)
        BY <1>1, <1>3, FS_Union
      <3>2. Cardinality(left \cap frames) = 0
        BY <1>3, FS_EmptySet
      <3> QED
        BY <1>1, <1>3, <1>5, <3>1, <3>2
    <2>2. queueSize = Cardinality(Live) /\ Cardinality(Live) \in Nat
      BY FS_CardinalityType DEF RefInv, QueueSizeExact, RestTyped, Structure
    <2>3. SizeWithout(retired) = queueSize - Cardinality(freed)
      BY DEF SizeWithout
    <2>4. queueSize' = SizeWithout(retired) + n /\ n <= QueueCapacity - SizeWithout(retired)
      BY DEF Accept
    <2> QED
      BY <1>1, <2>1, <2>2, <2>3, <2>4, TxAssumption DEF QueueSizeExact
  <1> QED
    BY <1>7, <1>8, <1>9, <1>10 DEF RefInv

\* Steps that leave the queue, the registry and the wire alone.
LEMMA QuietInv ==
    ASSUME RefInv, UNCHANGED <<alive, queue, queueSize, refcount, held, wire>>,
           seqno' \in Nat, seqno <= seqno', NodeTypeOK',
           ifaceUp' \in BOOLEAN, FD' \in BOOLEAN, polling' \in BOOLEAN,
           now' \in Nat, polledAt' \in Nat, ~alive => ~polling'
    PROVE  RefInv'
  <1>1. Queued' = Queued /\ Live' = Live /\ ChainsOf(Queued)' = ChainsOf(Queued)
    BY DEF Queued, Live, ChainsOf, Chain
  <1>2. TypeOK'
    BY <1>1 DEF RefInv, TypeOK
  <1>3. /\ seqno \in Nat
        /\ alive => /\ \A s \in Queued : s < seqno /\ s \in Nat
                    /\ \A f \in Live : f[1] < seqno /\ f[1] \in Nat
                    /\ \A k \in DOMAIN wire : wire[k].seqno < seqno /\ wire[k].seqno \in Nat
    BY FramesNumbered DEF RefInv, TypeOK, Structure
  <1>4. alive => /\ \A s \in Queued : s < seqno'
                 /\ \A f \in Live : f[1] < seqno'
                 /\ \A k \in DOMAIN wire : wire[k].seqno < seqno'
    BY <1>3
  <1>5. Structure'
    BY <1>1, <1>4 DEF RefInv, Structure
  <1>6. RefcountExact' /\ QueueSizeExact'
    BY <1>1 DEF RefInv, RefcountExact, QueueSizeExact
  <1> QED
    BY <1>2, <1>5, <1>6 DEF RefInv

LEMMA NodeTypes ==
    ASSUME NodeTypeOK
    PROVE  /\ \A src \in NodeIDs \cup {NoNode} : OccupancyUpdate(src) => NodeTypeOK'
           /\ \A id \in NodeIDs : ChangeNodeID(id) => NodeTypeOK'
           /\ ConfigureFilters => NodeTypeOK'
           /\ UNCHANGED nodeVars => NodeTypeOK'
  <1>0. 0 \in NodeIDs
    BY NodeIDAssumption DEF NodeIDs
  <1>1. ASSUME NEW src \in NodeIDs \cup {NoNode}, OccupancyUpdate(src) PROVE NodeTypeOK'
    <2>1. CASE NothingLearned(src)
      BY <1>1, <2>1 DEF OccupancyUpdate, NodeTypeOK, nodeVars
    <2>2. CASE ~NothingLearned(src)
      <3>1. src \in NodeIDs
        BY <2>2 DEF NothingLearned
      <3> QED
        BY <1>0, <1>1, <2>2, <3>1 DEF OccupancyUpdate, NodeTypeOK, ResetOccupancy
    <2> QED
      BY <2>1, <2>2
  <1>2. ASSUME NEW id \in NodeIDs, ChangeNodeID(id) PROVE NodeTypeOK'
    BY <1>0, <1>2 DEF ChangeNodeID, NodeTypeOK, ResetOccupancy, nodeVars
  <1>3. ConfigureFilters => NodeTypeOK'
    BY DEF ConfigureFilters, NodeTypeOK
  <1>4. UNCHANGED nodeVars => NodeTypeOK'
    BY DEF nodeVars, NodeTypeOK
  <1> QED
    BY <1>1, <1>2, <1>3, <1>4

\* One frame leaves the registry, or none does.
LEMMA OneFrame ==
    ASSUME RefInv, NEW frame \in Live, NEW L, L = Live \/ L = Live \ {frame}
    PROVE  /\ IsFiniteSet(L) /\ L \subseteq Frames
           /\ Cardinality(Live) \in Nat
           /\ L = Live \ {frame} => Cardinality(L) = Cardinality(Live) - 1
  <1>1. IsFiniteSet(Live) /\ Live \subseteq Frames
    BY DEF RefInv, Structure, TypeOK
  <1>2. IsFiniteSet(Live \ {frame}) /\ Cardinality(Live \ {frame}) = Cardinality(Live) - 1
    BY <1>1, FS_RemoveElement
  <1> QED
    BY <1>1, <1>2, FS_CardinalityType

\* A transfer whose cursor moves on and that is marked as departed.
LEMMA DescriptorAdvance ==
    ASSUME NEW d \in Descriptor, NEW n \in Nat \ {0}
    PROVE  LET e == [d EXCEPT !.cursor = n, !.firstFrameDeparted = TRUE]
           IN  /\ e \in Descriptor
               /\ e.cursor = n /\ e.frames = d.frames /\ e.firstFrameDeparted = TRUE
  BY DEF Descriptor

LEMMA EjectInv ==
    ASSUME RefInv, NEW s \in Queued, NEW retain \in 0..1, Eject(s, retain)
    PROVE  RefInv'
  <1> DEFINE c == queue[s].cursor
             frame == <<s, c>>
             freed == refcount[frame] + retain = 1
             left == IF freed THEN Live \ {frame} ELSE Live
  <1> USE DEF RefInv
  <1>1. /\ queue[s] \in Descriptor /\ c \in Nat \ {0} /\ queue[s].frames \in Nat
        /\ c <= queue[s].frames /\ s \in Nat
    <2>1. queue[s] \in Descriptor /\ s \in Nat /\ c <= queue[s].frames
      BY DEF TypeOK, Structure
    <2>2. \A d \in Descriptor : d.cursor \in Nat \ {0} /\ d.frames \in Nat
      BY DEF Descriptor
    <2> QED
      BY <2>1, <2>2
  <1>2. frame \in Chain(s) /\ frame \in ChainsOf(Queued) /\ frame \in Live
    <2>1. frame \in Chain(s)
      BY <1>1 DEF Chain
    <2> QED
      BY <2>1 DEF ChainsOf, RefcountExact
  <1>3. /\ refcount[frame] = held[frame] + 1 /\ held[frame] \in Nat
        /\ refcount[frame] \in Nat \ {0} /\ retain \in Nat
    BY <1>2 DEF RefcountExact, TypeOK
  <1>4. alive = TRUE /\ alive' = TRUE /\ polling = TRUE
    BY DEF Eject, Structure, TypeOK
  <1>5. /\ Live' = left /\ DOMAIN held' = left
        /\ refcount' = [f \in left |-> IF f = frame THEN refcount[f] + retain - 1 ELSE refcount[f]]
        /\ held' = [f \in left |-> IF f = frame THEN held[f] + retain ELSE held[f]]
    BY DEF Eject, Live
  <1>6. IsFiniteSet(left) /\ left \subseteq Frames /\ Cardinality(Live) \in Nat
        /\ (freed => Cardinality(left) = Cardinality(Live) - 1)
    BY <1>2, OneFrame
  <1>7. /\ Queued' \subseteq Queued
        /\ \A r \in Queued' : r # s => queue'[r] = queue[r]
        /\ \A r \in Queued : r # s => r \in Queued'
        /\ s \in Queued' => /\ c < queue[s].frames
                            /\ queue'[s] = [queue[s] EXCEPT !.cursor = c + 1,
                                                           !.firstFrameDeparted = TRUE]
        /\ s \notin Queued' => c = queue[s].frames
        /\ queue' = [r \in Queued' |-> queue'[r]]
    <2>1. CASE c = queue[s].frames
      <3>1. queue' = [r \in Queued \ {s} |-> queue[r]]
        BY <2>1 DEF Eject
      <3> QED
        BY <2>1, <3>1 DEF Queued
    <2>2. CASE c # queue[s].frames
      <3> DEFINE moved == [queue[s] EXCEPT !.cursor = c + 1, !.firstFrameDeparted = TRUE]
      <3>1. queue' = [queue EXCEPT ![s] = moved]
        BY <2>2 DEF Eject
      <3> HIDE DEF moved
      <3>2. queue \in [Queued -> Descriptor]
        BY DEF TypeOK
      <3>3. /\ Queued' = Queued /\ queue'[s] = moved /\ queue' = [r \in Queued' |-> queue'[r]]
            /\ \A r \in Queued' : r # s => queue'[r] = queue[r]
        BY <3>1, <3>2 DEF Queued
      <3>4. c < queue[s].frames
        BY <1>1, <2>2
      <3> QED
        BY <2>2, <3>3, <3>4 DEF moved
    <2> QED
      BY <2>1, <2>2
  <1>a. s \in Queued' => /\ queue'[s] \in Descriptor
                         /\ queue'[s].cursor = c + 1
                         /\ queue'[s].frames = queue[s].frames
    <2>1. PICK d, n : d = queue[s] /\ n = c + 1
      OBVIOUS
    <2>2. d \in Descriptor /\ n \in Nat \ {0}
      BY <1>1, <2>1
    <2>3. LET e == [d EXCEPT !.cursor = n, !.firstFrameDeparted = TRUE]
          IN  e \in Descriptor /\ e.cursor = n /\ e.frames = d.frames
      BY <2>2, DescriptorAdvance
    <2> QED
      BY <1>7, <2>1, <2>3
  <1>8. \A f : f \in ChainsOf(Queued)' <=> f \in ChainsOf(Queued) /\ f # frame
    <2>1. \A r \in Queued' : r # s => Chain(r)' = Chain(r)
      BY <1>7 DEF Chain
    <2>2. s \in Queued' => Chain(s)' = Chain(s) \ {frame}
      <3> SUFFICES ASSUME s \in Queued' PROVE Chain(s)' = Chain(s) \ {frame}
        OBVIOUS
      <3>1. queue'[s].cursor = c + 1 /\ queue'[s].frames = queue[s].frames
        BY <1>a
      <3>2. Chain(s)' = {<<s, i>> : i \in (c + 1)..queue[s].frames}
        BY <3>1 DEF Chain
      <3> QED
        BY <1>1, <3>2 DEF Chain
    <2>3. s \notin Queued' => Chain(s) = {frame}
      BY <1>1, <1>7 DEF Chain
    <2>4. ChainsOf(Queued)' = UNION {Chain(r)' : r \in Queued'}
      BY DEF ChainsOf
    <2>5. \A r \in Queued : r # s => frame \notin Chain(r)
      BY DEF Chain
    <2> QED
      BY <1>2, <1>7, <2>1, <2>2, <2>3, <2>4, <2>5 DEF ChainsOf
  <1>9. TypeOK'
    <2>1. Queued' \subseteq Nat /\ queue' \in [Queued' -> Descriptor]
      <3>1. s \in Queued' => queue'[s] \in Descriptor
        BY <1>a
      <3>2. \A r \in Queued : queue[r] \in Descriptor
        BY DEF TypeOK
      <3>3. \A r \in Queued' : queue'[r] \in Descriptor
        BY <1>7, <3>1, <3>2
      <3> QED
        BY <1>7, <3>3 DEF TypeOK
    <2>2. refcount' \in [Live' -> Nat \ {0}]
      <3>1. \A f \in left : f # frame => refcount[f] \in Nat \ {0}
        BY DEF TypeOK
      <3>2. frame \in left => refcount[frame] + retain - 1 \in Nat \ {0}
        BY <1>3
      <3> QED
        BY <1>5, <3>1, <3>2
    <2>3. held' \in [Live' -> Nat]
      <3>1. \A f \in left : held[f] \in Nat
        BY DEF TypeOK
      <3> QED
        BY <1>3, <1>5, <3>1
    <2>4. wire' \in Seq(WireFrame)
      <3>1. [canIDMSB |-> queue[s].canIDMSB, src |-> NodeID, seqno |-> s, index |-> c] \in WireFrame
        BY <1>1 DEF WireFrame, Descriptor, TypeOK, NodeTypeOK
      <3> QED
        BY <3>1 DEF Eject, TypeOK
    <2>5. NodeTypeOK'
      BY NodeTypes DEF Eject, TypeOK
    <2>6. queueSize' \in Int
      BY DEF Eject, TypeOK
    <2> QED
      BY <1>5, <1>6, <2>1, <2>2, <2>3, <2>4, <2>5, <2>6 DEF TypeOK, Eject
  <1>10. Structure'
    <2>1. \A r \in Queued' : queue'[r].cursor <= queue'[r].frames
      <3>1. s \in Queued' => queue'[s].cursor = c + 1 /\ queue'[s].frames = queue[s].frames
        BY <1>a
      <3> QED
        BY <1>1, <1>7, <3>1 DEF Structure
    <2>2. /\ \A r \in Queued' : r < seqno'
          /\ \A f \in Live' : f[1] < seqno'
      BY <1>4, <1>5, <1>7 DEF Structure, Eject
    <2>3. \A k \in DOMAIN wire' : wire'[k].seqno < seqno'
      <3>1. /\ wire \in Seq(WireFrame)
            /\ wire' = Append(wire, [canIDMSB |-> queue[s].canIDMSB, src |-> NodeID,
                                     seqno |-> s, index |-> c])
            /\ seqno' = seqno /\ s < seqno
            /\ \A k \in DOMAIN wire : wire[k].seqno < seqno
        BY <1>4 DEF Eject, TypeOK, Structure
      <3> QED
        BY <3>1
    <2> QED
      BY <1>4, <1>5, <1>6, <2>1, <2>2, <2>3 DEF Structure
  <1>11. RefcountExact'
    <2>1. ChainsOf(Queued)' \subseteq Live'
      BY <1>5, <1>8 DEF RefcountExact
    <2>2. ASSUME NEW f \in Live'
          PROVE  refcount'[f] = held'[f] + (IF f \in ChainsOf(Queued)' THEN 1 ELSE 0)
      <3>1. CASE f = frame
        BY <1>3, <1>5, <1>8, <3>1
      <3>2. CASE f # frame
        <4>1. refcount[f] = held[f] + (IF f \in ChainsOf(Queued) THEN 1 ELSE 0)
          BY <1>5 DEF RefcountExact
        <4> QED
          BY <1>5, <1>8, <3>2, <4>1
      <3> QED
        BY <3>1, <3>2
    <2> QED
      BY <2>1, <2>2 DEF RefcountExact
  <1>12. QueueSizeExact'
    <2>1. queueSize' = IF freed THEN queueSize - 1 ELSE queueSize
      BY DEF Eject
    <2> QED
      BY <1>4, <1>5, <1>6, <2>1, TxAssumption DEF QueueSizeExact
  <1> QED
    BY <1>9, <1>10, <1>11, <1>12

\* The application counts a frame up; the queue does not move.
LEMMA RetainInv ==
    ASSUME RefInv, NEW f \in Live, NEW n \in 0..1, Retain(f, n),
           UNCHANGED <<nodeVars, alive, ifaceUp, FD, seqno, queue, queueSize, now, wire>>,
           polling' \in BOOLEAN, polledAt' \in Nat, ~alive => ~polling'
    PROVE  RefInv'
  <1> USE DEF RefInv
  <1>1. held \in [Live -> Nat] /\ refcount \in [Live -> Nat \ {0}] /\ n \in Nat
    BY DEF TypeOK
  <1>2. /\ Live' = Live /\ held' \in [Live -> Nat] /\ refcount' \in [Live -> Nat \ {0}]
        /\ refcount'[f] = refcount[f] + n /\ held'[f] = held[f] + n
        /\ \A g \in Live : g # f => refcount'[g] = refcount[g] /\ held'[g] = held[g]
    BY <1>1 DEF Retain, Live
  <1>3. Queued' = Queued /\ ChainsOf(Queued)' = ChainsOf(Queued)
    BY DEF Queued, ChainsOf, Chain
  <1>4. TypeOK'
    <2>1. NodeTypeOK'
      BY NodeTypes DEF TypeOK
    <2> QED
      BY <1>2, <1>3, <2>1 DEF TypeOK
  <1>5. Structure'
    BY <1>2, <1>3 DEF Structure
  <1>6. RefcountExact'
    <2>1. ASSUME NEW g \in Live
          PROVE  refcount'[g] = held'[g] + (IF g \in ChainsOf(Queued) THEN 1 ELSE 0)
      <3>1. refcount[g] = held[g] + (IF g \in ChainsOf(Queued) THEN 1 ELSE 0)
            /\ held[g] \in Nat
        BY <1>1 DEF RefcountExact
      <3>2. CASE g = f
        BY <1>1, <1>2, <3>1, <3>2
      <3>3. CASE g # f
        BY <1>2, <3>1, <3>3
      <3> QED
        BY <3>2, <3>3
    <2> QED
      BY <1>2, <1>3, <2>1 DEF RefcountExact
  <1>7. QueueSizeExact'
    BY <1>2 DEF QueueSizeExact
  <1> QED
    BY <1>4, <1>5, <1>6, <1>7

LEMMA RefusedInv ==
    ASSUME RefInv, NEW s \in Queued, NEW retain \in 0..1, EjectRefused(s, retain)
    PROVE  RefInv'
  <1>1. PICK f : f = <<s, queue[s].cursor>>
    OBVIOUS
  <1>2. f \in Live
    <2>1. queue[s] \in Descriptor /\ queue[s].cursor <= queue[s].frames
      BY DEF RefInv, TypeOK, Structure
    <2>2. \A d \in Descriptor : d.cursor \in Nat /\ d.frames \in Nat
      BY DEF Descriptor
    <2>3. f \in Chain(s)
      BY <1>1, <2>1, <2>2 DEF Chain
    <2> QED
      BY <2>3 DEF ChainsOf, RefInv, RefcountExact
  <1>3. /\ Retain(f, retain) /\ ~polling' /\ polling' \in BOOLEAN /\ polledAt' \in Nat
        /\ UNCHANGED <<nodeVars, alive, ifaceUp, FD, seqno, queue, queueSize, now, wire>>
    BY <1>1 DEF EjectRefused
  <1> QED
    BY <1>2, <1>3, RetainInv

\* The application releases one of its frames.
LEMMA ReleaseInv ==
    ASSUME RefInv, NEW f \in Live, RefCountDec(f)
    PROVE  RefInv'
  <1> USE DEF RefInv
  <1> DEFINE gone == refcount[f] = 1
             left == IF gone THEN Live \ {f} ELSE Live
  <1>1. /\ UNCHANGED <<nodeVars, alive, ifaceUp, FD, seqno, queue, now, polling, polledAt, wire>>
        /\ held[f] > 0
        /\ queueSize' = IF gone THEN queueSize - 1 ELSE queueSize
    BY DEF RefCountDec
  <1>2. /\ held[f] \in Nat /\ refcount[f] \in Nat \ {0}
        /\ refcount[f] = held[f] + (IF f \in ChainsOf(Queued) THEN 1 ELSE 0)
    BY DEF TypeOK, RefcountExact
  <1>3. /\ refcount' = [g \in left |-> IF g = f THEN refcount[g] - 1 ELSE refcount[g]]
        /\ held' = [g \in left |-> IF g = f THEN held[g] - 1 ELSE held[g]]
        /\ Live' = left
    BY DEF RefCountDec, Live
  <1>4. IsFiniteSet(left) /\ left \subseteq Frames /\ Cardinality(Live) \in Nat
        /\ (gone => Cardinality(left) = Cardinality(Live) - 1)
    BY OneFrame
  <1>5. Queued' = Queued /\ ChainsOf(Queued)' = ChainsOf(Queued)
    BY <1>1 DEF Queued, ChainsOf, Chain
  <1>6. TypeOK'
    <2>1. refcount' \in [Live' -> Nat \ {0}] /\ held' \in [Live' -> Nat]
      <3>1. \A g \in left : refcount[g] \in Nat \ {0} /\ held[g] \in Nat
        BY DEF TypeOK
      <3> QED
        BY <1>1, <1>2, <1>3, <3>1
    <2>2. NodeTypeOK' /\ queueSize' \in Int
      BY <1>1, NodeTypes DEF TypeOK
    <2>3. Live' \subseteq Frames
      BY <1>3, <1>4
    <2> QED
      BY <1>1, <1>5, <2>1, <2>2, <2>3 DEF TypeOK
  <1>7. Structure'
    BY <1>1, <1>3, <1>4, <1>5 DEF Structure
  <1>8. RefcountExact'
    <2>1. gone => f \notin ChainsOf(Queued)
      BY <1>1, <1>2
    <2>2. ChainsOf(Queued)' \subseteq Live'
      BY <1>3, <1>5, <2>1 DEF RefcountExact
    <2>3. ASSUME NEW g \in Live'
          PROVE  refcount'[g] = held'[g] + (IF g \in ChainsOf(Queued)' THEN 1 ELSE 0)
      <3>1. CASE g = f
        BY <1>2, <1>3, <1>5, <3>1
      <3>2. CASE g # f
        BY <1>3, <1>5, <3>2 DEF RefcountExact
      <3> QED
        BY <3>1, <3>2
    <2> QED
      BY <2>2, <2>3 DEF RefcountExact
  <1>9. QueueSizeExact'
    BY <1>1, <1>3, <1>4, TxAssumption DEF QueueSizeExact
  <1> QED
    BY <1>6, <1>7, <1>8, <1>9

LEMMA DestroyInv ==
    ASSUME RefInv, Destroy
    PROVE  RefInv'
  <1> DEFINE left == Live \ Freed(ChainsOf(Queued))
  <1>1. /\ IsFiniteSet(left) /\ left \subseteq Frames
        /\ Released(ChainsOf(Queued)) \in [left -> Nat \ {0}]
        /\ HeldAfter(ChainsOf(Queued)) \in [left -> Nat]
        /\ \A f \in left : Released(ChainsOf(Queued))[f] =
                    held[f] + (IF f \in ChainsOf(Queued \ Queued) THEN 1 ELSE 0)
    BY RetireFacts
  <1>2. ~alive' /\ ~polling' /\ Queued' = {} /\ wire' = wire
    BY DEF Destroy, Idle, Queued, Empty
  <1>3. /\ Live' = left /\ refcount' = Released(ChainsOf(Queued))
        /\ held' = HeldAfter(ChainsOf(Queued))
    BY <1>1 DEF Destroy, Live
  <1>4. ChainsOf(Queued)' = {} /\ ChainsOf(Queued \ Queued) = {}
    BY <1>2 DEF ChainsOf
  <1>5. TypeOK'
    <2>1. NodeTypeOK'
      <3>1. 0 \in NodeIDs
        BY NodeIDAssumption DEF NodeIDs
      <3> QED
        BY <3>1 DEF Destroy, RefInv, TypeOK, NodeTypeOK
    <2>2. queue' \in [Queued' -> Descriptor] /\ Queued' \subseteq Nat
      BY <1>2 DEF Destroy, Queued, Empty
    <2>3. /\ Live' \subseteq Frames
          /\ refcount' \in [Live' -> Nat \ {0}]
          /\ held' \in [Live' -> Nat]
      BY <1>1, <1>3
    <2>4. /\ alive' \in BOOLEAN /\ ifaceUp' \in BOOLEAN /\ FD' \in BOOLEAN
          /\ polling' \in BOOLEAN
      BY Zenon DEF Destroy, RefInv, TypeOK
    <2>5. /\ seqno' \in Nat /\ now' \in Nat /\ polledAt' \in Nat /\ queueSize' \in Int
          /\ wire' \in Seq(WireFrame)
      BY DEF Destroy, RefInv, TypeOK
    <2> QED
      BY <2>1, <2>2, <2>3, <2>4, <2>5 DEF TypeOK
  <1>6. Structure'
    BY <1>1, <1>2, <1>3 DEF Structure
  <1>7. RefcountExact'
    <2>1. \A f \in Live' : held'[f] = held[f] /\ held[f] \in Nat
      BY <1>3 DEF HeldAfter, RefInv, TypeOK
    <2>2. \A f \in Live' : refcount'[f] = held[f]
      BY <1>1, <1>3, <1>4, <2>1
    <2> QED
      BY <1>4, <2>1, <2>2 DEF RefcountExact
  <1>8. QueueSizeExact'
    BY <1>2 DEF QueueSizeExact
  <1> QED
    BY <1>5, <1>6, <1>7, <1>8 DEF RefInv

LEMMA FrameCount ==
    ASSUME NEW size \in Nat
    PROVE  /\ txPredictFrameCount(size, MTUClassic) \in Nat \ {0}
           /\ txPredictFrameCount(size, MTUFD) \in Nat \ {0}
  BY DEF txPredictFrameCount, MTUClassic, MTUFD, crcBytes

LEMMA EnqueueInv ==
    ASSUME RefInv, NEW id \in Nat, NEW n \in Nat \ {0}, NEW deadline \in Nat,
           Enqueue(id, n, deadline)
    PROVE  RefInv'
  <1>1. /\ alive = TRUE /\ alive' = TRUE /\ seqno' = seqno + 1 /\ seqno \in Nat /\ wire' = wire
        /\ UNCHANGED <<nodeVars, alive, ifaceUp, FD, now, polling, polledAt, wire>>
    BY DEF Enqueue, Idle, RefInv, TypeOK
  <1>2. NodeTypeOK'
    BY <1>1, NodeTypes DEF RefInv, TypeOK
  <1>3. RestTyped
    BY <1>1, <1>2 DEF RestTyped, RefInv, TypeOK
  <1>4. CASE UNCHANGED <<queue, queueSize, refcount, held>>
    BY <1>1, <1>3, <1>4, QuietInv DEF RestTyped
  <1>5. CASE Reject(n)
    <2>1. PICK S : S = RetiredForSpace(n)
      OBVIOUS
    <2>2. S \subseteq Queued /\ Retire(S)
      BY <1>5, <2>1, RetiredForSpaceType DEF Reject
    <2> QED
      BY <1>1, <1>3, <2>2, RetireInv
  <1>6. CASE Accept(id, n, deadline)
    BY <1>1, <1>3, <1>6, AcceptInv
  <1> QED
    BY <1>4, <1>5, <1>6 DEF Enqueue
-----------------------------------------------------------------------------
\* SetNodeID and IngestStartFrame: a node-ID change purges, the rest is quiet.
LEMMA NodeChange ==
    ASSUME RefInv,
           \/ \E id \in AssignedIDs : SetNodeID(id)
           \/ \E src \in PeerIDs : IngestStartFrame(src)
    PROVE  /\ alive /\ ~polling
           /\ NodeTypeOK'
           /\ UNCHANGED <<alive, ifaceUp, FD, seqno, now, polling, polledAt, wire>>
           /\ \/ Retire(Continuations)
              \/ UNCHANGED <<queue, queueSize, refcount, held>> /\ NodeID' = NodeID
  <1>1. NodeTypeOK /\ NodeID \in NodeIDs /\ NoNode \notin NodeIDs
    BY NodeIDAssumption DEF RefInv, TypeOK, NodeTypeOK, NodeIDs
  <1>2. ASSUME NEW id \in AssignedIDs, SetNodeID(id)
        PROVE  /\ NodeTypeOK'
               /\ \/ Retire(Continuations)
                  \/ UNCHANGED <<queue, queueSize, refcount, held>> /\ NodeID' = NodeID
    <2>1. NodeTypeOK'
      BY <1>1, <1>2, NodeTypes, TxAssumption DEF SetNodeID
    <2> QED
      BY <1>2, <2>1 DEF SetNodeID, ChangeNodeID, nodeVars
  <1>3. ASSUME NEW src \in PeerIDs, IngestStartFrame(src)
        PROVE  /\ NodeTypeOK'
               /\ \/ Retire(Continuations)
                  \/ UNCHANGED <<queue, queueSize, refcount, held>> /\ NodeID' = NodeID
    <2>1. NodeTypeOK'
      BY <1>1, <1>3, NodeTypes, TxAssumption DEF IngestStartFrame
    <2>2. CASE src = NodeID
      BY <1>3, <2>1, <2>2 DEF IngestStartFrame
    <2>3. CASE src # NodeID
      <3>1. NodeID' = NodeID
        BY <1>3, <2>3 DEF IngestStartFrame, OccupancyUpdate, nodeVars
      <3> QED
        BY <1>3, <2>1, <2>3, <3>1 DEF IngestStartFrame
    <2> QED
      BY <2>2, <2>3
  <1>4. /\ alive /\ ~polling
        /\ UNCHANGED <<alive, ifaceUp, FD, seqno, now, polling, polledAt, wire>>
    BY DEF SetNodeID, IngestStartFrame, Idle
  <1> QED
    BY <1>2, <1>3, <1>4

LEMMA PublishIsEnqueue ==
    ASSUME RefInv, NEW id \in CanIDs, NEW size \in PayloadSizes, NEW deadline \in Deadlines,
           Publish(id, size, deadline) \/ V0Publish(id, size, deadline)
    PROVE  \E n \in Nat \ {0} :
               id \in Nat /\ deadline \in Nat /\ Enqueue(id, n, deadline)
  <1>1. id \in Nat /\ deadline \in Nat /\ size \in Nat
    BY TxAssumption
  <1>2. \A m \in {MTUClassic, MTUFD} : txPredictFrameCount(size, m) \in Nat \ {0}
    BY <1>1, FrameCount
  <1>3. \E m \in {MTUClassic, MTUFD} : Enqueue(id, txPredictFrameCount(size, m), deadline)
    BY DEF Publish, V0Publish
  <1> QED
    BY <1>1, <1>2, <1>3

LEMMA RefStep ==
    RefInv /\ [Next]_vars => RefInv'
  <1> SUFFICES ASSUME RefInv, [Next]_vars PROVE RefInv'
    OBVIOUS
  <1>0. TypeOK /\ NodeTypeOK
    BY DEF RefInv, TypeOK
  <1>1. ASSUME NEW id \in CanIDs, NEW size \in PayloadSizes, NEW d \in Deadlines,
               Publish(id, size, d) \/ V0Publish(id, size, d)
        PROVE  RefInv'
    BY <1>1, PublishIsEnqueue, EnqueueInv
  <1>2. ASSUME NEW b \in BOOLEAN, SetClassicCAN(b) PROVE RefInv'
    <2>1. NodeTypeOK'
      BY <1>0, <1>2, NodeTypes DEF SetClassicCAN
    <2>2. FD' \in BOOLEAN
      BY <1>2 DEF SetClassicCAN
    <2> QED
      BY <1>0, <1>2, <2>1, <2>2, QuietInv DEF SetClassicCAN, Idle, TypeOK
  <1>3. ASSUME \/ \E id \in AssignedIDs : SetNodeID(id)
               \/ \E src \in PeerIDs : IngestStartFrame(src)
        PROVE  RefInv'
    <2>1. /\ alive /\ ~polling
          /\ NodeTypeOK'
          /\ UNCHANGED <<alive, ifaceUp, FD, seqno, now, polling, polledAt, wire>>
          /\ \/ Retire(Continuations)
             \/ UNCHANGED <<queue, queueSize, refcount, held>> /\ NodeID' = NodeID
      BY <1>3, NodeChange
    <2>2. RestTyped
      BY <1>0, <2>1 DEF RestTyped, TypeOK
    <2>3. CASE Retire(Continuations)
      <3>1. PICK S : S = Continuations
        OBVIOUS
      <3>2. S \subseteq Queued /\ Retire(S)
        BY <2>3, <3>1 DEF Continuations
      <3> QED
        BY <2>1, <2>2, <3>2, RetireInv
    <2>4. CASE UNCHANGED <<queue, queueSize, refcount, held>>
      BY <2>1, <2>2, <2>4, QuietInv DEF RestTyped
    <2> QED
      BY <2>1, <2>3, <2>4
  <1>4. ASSUME NEW f \in Live, RefCountInc(f) \/ RefCountDec(f) PROVE RefInv'
    <2>1. CASE RefCountInc(f)
      BY <1>0, <2>1, RetainInv DEF RefCountInc, TypeOK, RefInv, Structure
    <2> QED
      BY <1>4, <2>1, ReleaseInv
  <1>5. CASE Destroy
    BY <1>5, DestroyInv
  <1>6. ASSUME NEW txReady \in BOOLEAN, Poll(txReady) PROVE RefInv'
    <2>1. NodeTypeOK'
      BY <1>0, <1>6, NodeTypes DEF Poll
    <2>2. RestTyped /\ wire' = wire
      BY <1>0, <1>6, <2>1 DEF Poll, Idle, RestTyped, TypeOK
    <2>3. PICK S : S = Expired
      OBVIOUS
    <2>4. S \subseteq Queued /\ Retire(S)
      BY <1>6, <2>3 DEF Poll, Expired
    <2> QED
      BY <2>2, <2>4, RetireInv
  <1>7. ASSUME NEW s \in Queued, NEW retain \in 0..1,
               Eject(s, retain) \/ EjectRefused(s, retain)
        PROVE  RefInv'
    BY <1>7, EjectInv, RefusedInv
  <1>8. CASE EjectDone
    <2>1. NodeTypeOK'
      BY <1>0, <1>8, NodeTypes DEF EjectDone
    <2>2. /\ ~polling' /\ polling' \in BOOLEAN /\ polledAt' \in Nat
          /\ UNCHANGED <<alive, ifaceUp, FD, seqno, queue, queueSize, refcount, now, wire, held>>
      BY <1>8 DEF EjectDone
    <2> QED
      BY <1>0, <1>8, <2>1, <2>2, QuietInv DEF TypeOK
  <1>9. CASE Tick
    <2>1. NodeTypeOK' /\ now' \in Nat
      BY <1>0, <1>9, NodeTypes DEF Tick, TypeOK
    <2> QED
      BY <1>0, <1>9, <2>1, QuietInv DEF Tick, TypeOK, Structure, RefInv
  <1>10. CASE UNCHANGED vars
    <2>1. NodeTypeOK'
      BY <1>0, <1>10 DEF vars, NodeTypeOK
    <2> QED
      BY <1>0, <1>10, <2>1, QuietInv DEF vars, TypeOK, Structure, RefInv
  <1> QED
    BY <1>1, <1>2, <1>3, <1>4, <1>5, <1>6, <1>7, <1>8, <1>9, <1>10
       DEF Next, Application, EjectStep

LEMMA RefInit ==
    Init => RefInv
  <1> SUFFICES ASSUME Init PROVE RefInv
    OBVIOUS
  <1>1. Queued = {} /\ Live = {} /\ ChainsOf(Queued) = {} /\ DOMAIN wire = {}
    BY DEF Init, Queued, Live, Empty, ChainsOf
  <1>2. NodeTypeOK
    BY NodeIDAssumption DEF Init, NodeInit, NodeTypeOK, NodeIDs, ResetOccupancy
  <1>3. queue \in [Queued -> Descriptor] /\ refcount \in [Live -> Nat \ {0}] /\ held \in [Live -> Nat]
    BY <1>1 DEF Init, Empty
  <1>4. alive \in BOOLEAN /\ ifaceUp \in BOOLEAN /\ FD \in BOOLEAN /\ polling \in BOOLEAN
    BY Zenon DEF Init
  <1>5. TypeOK
    BY <1>1, <1>2, <1>3, <1>4 DEF Init, TypeOK
  <1>6. IsFiniteSet(Live) /\ Cardinality(Live) = 0
    BY <1>1, FS_EmptySet
  <1>7. Structure /\ RefcountExact /\ QueueSizeExact
    BY <1>1, <1>6, TxAssumption DEF Init, Structure, RefcountExact, QueueSizeExact
  <1> QED
    BY <1>5, <1>7 DEF RefInv

\* Whatever sequence of pushes, sacrifices, expirations, purges, ejections,
\* retentions and releases the application and the bus cause, each allocated
\* frame is referenced exactly by its queue entry and by the application, and
\* queueSize is the number of allocated frames and within the capacity.
THEOREM TxAccounting ==
    Spec => []Accounting
  <1>1. RefInv => Accounting
    BY DEF RefInv, Accounting
  <1> QED
    BY <1>1, RefInit, RefStep, PTL DEF Spec
-----------------------------------------------------------------------------
(***************************************************************************)
(* Transfers are not torn by a node-ID change.                             *)
(***************************************************************************)
WireInv == WireOwned /\ NoFrankentransfer

\* Steps that send nothing and add no transfer: the node-ID may change only
\* when no continuation stays queued.
LEMMA NothingSent ==
    ASSUME WireInv, wire' = wire, Queued' \subseteq Queued,
           \A s \in Queued' : queue'[s] = queue[s],
           NodeID' = NodeID \/ Queued' \cap Continuations = {}
    PROVE  WireInv'
  <1>1. WireOwned'
    <2> SUFFICES ASSUME NEW k \in DOMAIN wire', wire'[k].seqno \in Queued'
                 PROVE  /\ queue'[wire'[k].seqno].firstFrameDeparted
                        /\ queue'[wire'[k].seqno].frames > 1
                        /\ wire'[k].src = NodeID'
      BY DEF WireOwned
    <2>1. PICK s : s = wire[k].seqno
      OBVIOUS
    <2>2. /\ s \in Queued /\ s \in Queued' /\ queue'[s] = queue[s]
          /\ queue[s].firstFrameDeparted /\ queue[s].frames > 1 /\ wire[k].src = NodeID
      BY <2>1 DEF WireInv, WireOwned
    <2>3. s \in Continuations
      BY <2>2 DEF Continuations
    <2> QED
      BY <2>1, <2>2, <2>3
  <1>2. NoFrankentransfer'
    BY DEF WireInv, NoFrankentransfer
  <1> QED
    BY <1>1, <1>2 DEF WireInv

LEMMA EnqueueWire ==
    ASSUME RefInv, WireInv, NEW id, NEW n, NEW deadline, Enqueue(id, n, deadline)
    PROVE  WireInv'
  <1>1. wire' = wire /\ NodeID' = NodeID /\ alive
    BY DEF Enqueue, Idle, nodeVars
  <1>2. CASE UNCHANGED <<queue, queueSize, refcount, held>>
    BY <1>1, <1>2, NothingSent DEF Queued
  <1>3. CASE Reject(n)
    <2>1. Queued' \subseteq Queued /\ \A s \in Queued' : queue'[s] = queue[s]
      BY <1>3 DEF Reject, Retire, Queued
    <2> QED
      BY <1>1, <2>1, NothingSent
  <1>4. CASE Accept(id, n, deadline)
    <2>1. /\ Queued' \subseteq Queued \cup {seqno}
          /\ \A s \in Queued' : s # seqno => queue'[s] = queue[s]
      BY <1>4 DEF Accept, Queued
    <2>2. \A k \in DOMAIN wire : wire[k].seqno # seqno
      BY <1>1, FramesNumbered DEF RefInv, Structure, TypeOK
    <2>3. WireOwned'
      BY <1>1, <2>1, <2>2 DEF WireInv, WireOwned
    <2>4. NoFrankentransfer'
      BY <1>1 DEF WireInv, NoFrankentransfer
    <2> QED
      BY <2>3, <2>4 DEF WireInv
  <1> QED
    BY <1>2, <1>3, <1>4 DEF Enqueue

LEMMA EjectWire ==
    ASSUME RefInv, WireInv, NEW s \in Queued, NEW retain \in 0..1, Eject(s, retain)
    PROVE  WireInv'
  <1> DEFINE c == queue[s].cursor
             sent == [canIDMSB |-> queue[s].canIDMSB, src |-> NodeID, seqno |-> s, index |-> c]
  <1>1. /\ wire \in Seq(WireFrame) /\ wire' = Append(wire, sent) /\ NodeID' = NodeID
        /\ queue \in [Queued -> Descriptor]
    BY DEF Eject, RefInv, TypeOK, nodeVars
  <1>2. /\ queue[s] \in Descriptor /\ c \in Nat \ {0} /\ queue[s].frames \in Nat
        /\ c <= queue[s].frames
    <2>1. queue[s] \in Descriptor /\ c <= queue[s].frames
      BY DEF RefInv, TypeOK, Structure
    <2>2. \A d \in Descriptor : d.cursor \in Nat \ {0} /\ d.frames \in Nat
      BY DEF Descriptor
    <2> QED
      BY <2>1, <2>2
  <1>3. /\ Queued' \subseteq Queued
        /\ \A r \in Queued' : r # s => queue'[r] = queue[r]
        /\ s \in Queued' => queue'[s].firstFrameDeparted /\ queue'[s].frames > 1
    <2>1. CASE c = queue[s].frames
      <3>1. queue' = [r \in Queued \ {s} |-> queue[r]]
        BY <2>1 DEF Eject
      <3> QED
        BY <3>1 DEF Queued
    <2>2. CASE c # queue[s].frames
      <3>1. PICK d, n : d = queue[s] /\ n = c + 1
        OBVIOUS
      <3> DEFINE moved == [d EXCEPT !.cursor = n, !.firstFrameDeparted = TRUE]
      <3>2. d \in Descriptor /\ n \in Nat \ {0} /\ d.frames > 1
        BY <1>2, <2>2, <3>1
      <3>3. moved.firstFrameDeparted = TRUE /\ moved.frames > 1
        BY <3>2, DescriptorAdvance
      <3>4. queue' = [queue EXCEPT ![s] = moved]
        BY <2>2, <3>1 DEF Eject
      <3> HIDE DEF moved
      <3> QED
        BY <1>1, <3>3, <3>4 DEF Queued
    <2> QED
      BY <2>1, <2>2
  <1>4. /\ DOMAIN wire' = 1..(Len(wire) + 1) /\ DOMAIN wire = 1..Len(wire) /\ Len(wire) \in Nat
        /\ \A k \in DOMAIN wire : wire'[k] = wire[k]
        /\ wire'[Len(wire) + 1] = sent
    BY <1>1
  <1>5. sent.seqno = s /\ sent.src = NodeID
    OBVIOUS
  <1> HIDE DEF sent
  <1>6. \A k \in DOMAIN wire : wire[k].seqno = s => wire[k].src = NodeID
    BY DEF WireInv, WireOwned
  <1>7. WireOwned'
    <2> SUFFICES ASSUME NEW k \in DOMAIN wire', wire'[k].seqno \in Queued'
                 PROVE  /\ queue'[wire'[k].seqno].firstFrameDeparted
                        /\ queue'[wire'[k].seqno].frames > 1
                        /\ wire'[k].src = NodeID'
      BY DEF WireOwned
    <2>1. CASE k \notin DOMAIN wire
      BY <1>1, <1>3, <1>4, <1>5, <2>1
    <2>2. CASE k \in DOMAIN wire /\ wire[k].seqno = s
      BY <1>1, <1>3, <1>4, <1>6, <2>2
    <2>3. CASE k \in DOMAIN wire /\ wire[k].seqno # s
      BY <1>1, <1>3, <1>4, <2>3 DEF WireInv, WireOwned
    <2> QED
      BY <2>1, <2>2, <2>3
  <1>8. NoFrankentransfer'
    <2> SUFFICES ASSUME NEW j \in DOMAIN wire', NEW k \in DOMAIN wire',
                        wire'[j].seqno = wire'[k].seqno
                 PROVE  wire'[j].src = wire'[k].src
      BY DEF NoFrankentransfer
    <2>1. \A i \in DOMAIN wire' : i \in DOMAIN wire \/ i = Len(wire) + 1
      BY <1>4
    <2> QED
      BY <1>4, <1>5, <1>6, <2>1 DEF WireInv, NoFrankentransfer
  <1> QED
    BY <1>7, <1>8 DEF WireInv

LEMMA WireStep ==
    RefInv /\ WireInv /\ [Next]_vars => WireInv'
  <1> SUFFICES ASSUME RefInv, WireInv, [Next]_vars PROVE WireInv'
    OBVIOUS
  <1>1. ASSUME NEW id \in CanIDs, NEW size \in PayloadSizes, NEW d \in Deadlines,
               Publish(id, size, d) \/ V0Publish(id, size, d)
        PROVE  WireInv'
    BY <1>1, PublishIsEnqueue, EnqueueWire
  <1>2. ASSUME UNCHANGED <<NodeID, queue, wire>> PROVE WireInv'
    BY <1>2, NothingSent DEF Queued
  <1>3. ASSUME \/ \E id \in AssignedIDs : SetNodeID(id)
               \/ \E src \in PeerIDs : IngestStartFrame(src)
        PROVE  WireInv'
    <2>1. /\ wire' = wire
          /\ \/ Retire(Continuations)
             \/ UNCHANGED <<queue, queueSize, refcount, held>> /\ NodeID' = NodeID
      BY <1>3, NodeChange
    <2>2. CASE Retire(Continuations)
      <3>1. Queued' = Queued \ Continuations /\ \A s \in Queued' : queue'[s] = queue[s]
        BY <2>2 DEF Retire, Queued
      <3> QED
        BY <2>1, <3>1, NothingSent
    <2> QED
      BY <1>2, <2>1, <2>2
  <1>4. CASE Destroy
    <2>1. wire' = wire /\ Queued' = {}
      BY <1>4 DEF Destroy, Queued, Empty
    <2> QED
      BY <2>1, NothingSent
  <1>5. ASSUME NEW txReady \in BOOLEAN, Poll(txReady) PROVE WireInv'
    <2>1. wire' = wire /\ NodeID' = NodeID
      BY <1>5 DEF Poll, ConfigureFilters
    <2>2. Queued' \subseteq Queued /\ \A s \in Queued' : queue'[s] = queue[s]
      BY <1>5 DEF Poll, Retire, Queued
    <2> QED
      BY <2>1, <2>2, NothingSent
  <1>6. ASSUME NEW s \in Queued, NEW retain \in 0..1, Eject(s, retain) PROVE WireInv'
    BY <1>6, EjectWire
  <1>7. ASSUME \/ \E b \in BOOLEAN : SetClassicCAN(b)
               \/ \E f \in Live : RefCountInc(f) \/ RefCountDec(f)
               \/ \E s \in Queued, retain \in 0..1 : EjectRefused(s, retain)
               \/ EjectDone
               \/ Tick
               \/ UNCHANGED vars
        PROVE  UNCHANGED <<NodeID, queue, wire>>
    BY <1>7 DEF SetClassicCAN, RefCountInc, RefCountDec, EjectRefused, EjectDone, Tick, vars, nodeVars
  <1> QED
    BY <1>1, <1>2, <1>3, <1>4, <1>5, <1>6, <1>7 DEF Next, Application, EjectStep

\* A node-ID change, by SetNodeID or after a collision, never tears a transfer:
\* all the frames of one transfer carry the same source node-ID.  It rests on
\* WireOwned: a queued transfer with frames on the wire is a continuation under
\* the current node-ID, which is exactly what txPurgeContinuations retires.
THEOREM TxNoFrankentransfer ==
    Spec => []NoFrankentransfer
  <1>1. Init => WireInv
    BY DEF Init, WireInv, WireOwned, NoFrankentransfer
  <1>2. RefInv /\ WireInv /\ [Next]_vars => (RefInv /\ WireInv)'
    BY RefStep, WireStep
  <1>3. WireInv => NoFrankentransfer
    BY DEF WireInv
  <1> QED
    BY <1>1, <1>2, <1>3, RefInit, PTL DEF Spec
-----------------------------------------------------------------------------
(***************************************************************************)
(* The order of the frames on the wire, CAN ID by CAN ID.                  *)
(***************************************************************************)
\* k is the last frame of its CAN ID on the wire.
LastOfID(k) ==
    \A j \in DOMAIN wire : wire[j].canIDMSB = wire[k].canIDMSB => j <= k

\* A queued transfer is not older than any on the wire with its CAN ID.  It has
\* no frame there before its first is sent, and afterwards the last frame of
\* the CAN ID is the one before its cursor.
QueueBehindWire ==
    \A s \in Queued :
        /\ \A k \in DOMAIN wire : wire[k].canIDMSB = queue[s].canIDMSB =>
                wire[k].seqno <= s /\ (queue[s].cursor = 1 => wire[k].seqno # s)
        /\ queue[s].cursor > 1 =>
                \E k \in DOMAIN wire : /\ wire[k].canIDMSB = queue[s].canIDMSB
                                       /\ wire[k].seqno = s
                                       /\ wire[k].index = queue[s].cursor - 1
                                       /\ LastOfID(k)

\* Frame k of the wire is where a receiver expects it.
InPlace(k) ==
    IF wire[k].index = 1
    THEN \A j \in 1..(k - 1) :
            wire[j].canIDMSB = wire[k].canIDMSB => wire[j].seqno < wire[k].seqno
    ELSE \E j \in 1..(k - 1) :
            /\ wire[j].canIDMSB = wire[k].canIDMSB
            /\ \A i \in 1..(k - 1) : wire[i].canIDMSB = wire[k].canIDMSB => i <= j
            /\ wire[j].seqno = wire[k].seqno
            /\ wire[j].index = wire[k].index - 1

OrderInv == QueueBehindWire /\ \A k \in DOMAIN wire : InPlace(k)

LEMMA InPlaceIsInOrder == (\A k \in DOMAIN wire : InPlace(k)) => InOrderPerCanID
  BY DEF InPlace, InOrderPerCanID

\* Nothing is sent, and transfers at most leave.
LEMMA NothingSentOrder ==
    ASSUME OrderInv, wire' = wire, Queued' \subseteq Queued,
           \A s \in Queued' : queue'[s] = queue[s]
    PROVE  OrderInv'
  <1>1. QueueBehindWire'
    BY DEF OrderInv, QueueBehindWire, LastOfID
  <1>2. (\A k \in DOMAIN wire : InPlace(k))'
    BY DEF OrderInv, InPlace
  <1> QED
    BY <1>1, <1>2 DEF OrderInv

LEMMA EnqueueOrder ==
    ASSUME RefInv, OrderInv, NEW id, NEW n, NEW deadline, Enqueue(id, n, deadline)
    PROVE  OrderInv'
  <1>1. wire' = wire /\ alive
    BY DEF Enqueue, Idle
  <1>2. CASE UNCHANGED <<queue, queueSize, refcount, held>>
    BY <1>1, <1>2, NothingSentOrder DEF Queued
  <1>3. CASE Reject(n)
    <2>1. Queued' \subseteq Queued /\ \A s \in Queued' : queue'[s] = queue[s]
      BY <1>3 DEF Reject, Retire, Queued
    <2> QED
      BY <1>1, <2>1, NothingSentOrder
  <1>4. CASE Accept(id, n, deadline)
    <2>1. /\ Queued' \subseteq Queued \cup {seqno}
          /\ \A s \in Queued' : s # seqno => queue'[s] = queue[s]
          /\ queue'[seqno] = NewTransfer(id, n, deadline)
      BY <1>4 DEF Accept, Queued
    <2>2. queue'[seqno].cursor = 1
      BY <2>1 DEF NewTransfer
    <2>3. \A k \in DOMAIN wire : wire[k].seqno <= seqno /\ wire[k].seqno # seqno
      BY <1>1, FramesNumbered DEF RefInv, Structure, TypeOK
    <2>4. QueueBehindWire'
      <3> SUFFICES ASSUME NEW s \in Queued'
                   PROVE  /\ \A k \in DOMAIN wire : wire[k].canIDMSB = queue'[s].canIDMSB =>
                                wire[k].seqno <= s /\ (queue'[s].cursor = 1 => wire[k].seqno # s)
                          /\ queue'[s].cursor > 1 =>
                                \E k \in DOMAIN wire : /\ wire[k].canIDMSB = queue'[s].canIDMSB
                                                       /\ wire[k].seqno = s
                                                       /\ wire[k].index = queue'[s].cursor - 1
                                                       /\ LastOfID(k)
        BY <1>1 DEF QueueBehindWire, LastOfID
      <3>1. CASE s = seqno
        BY <2>2, <2>3, <3>1
      <3>2. CASE s # seqno
        BY <2>1, <3>2 DEF OrderInv, QueueBehindWire
      <3> QED
        BY <3>1, <3>2
    <2>5. (\A k \in DOMAIN wire : InPlace(k))'
      BY <1>1 DEF OrderInv, InPlace
    <2> QED
      BY <2>4, <2>5 DEF OrderInv
  <1> QED
    BY <1>2, <1>3, <1>4 DEF Enqueue

\* The frame at the cursor of the first pending transfer is sent.  No other
\* transfer with its CAN ID is in mid-transfer: it would have to be both older,
\* having frames on the wire, and newer, not being the first pending.
LEMMA EjectOrder ==
    ASSUME RefInv, OrderInv, NEW s \in Queued, NEW retain \in 0..1, Eject(s, retain)
    PROVE  OrderInv'
  <1> DEFINE c == queue[s].cursor
             id == queue[s].canIDMSB
             sent == [canIDMSB |-> id, src |-> NodeID, seqno |-> s, index |-> c]
  <1>1. /\ wire \in Seq(WireFrame) /\ wire' = Append(wire, sent)
        /\ queue \in [Queued -> Descriptor] /\ Queued \subseteq Nat
    BY DEF Eject, RefInv, TypeOK
  <1>2. \A r \in Queued : /\ queue[r] \in Descriptor /\ r \in Nat
                          /\ queue[r].cursor \in Nat \ {0} /\ queue[r].canIDMSB \in Nat
    BY <1>1 DEF Descriptor
  <1>3. /\ Queued' \subseteq Queued
        /\ \A r \in Queued' : /\ queue'[r].canIDMSB = queue[r].canIDMSB
                              /\ r # s => queue'[r] = queue[r]
        /\ s \in Queued' => queue'[s].cursor = c + 1
    <2>1. CASE c = queue[s].frames
      <3>1. queue' = [r \in Queued \ {s} |-> queue[r]]
        BY <2>1 DEF Eject
      <3> QED
        BY <3>1 DEF Queued
    <2>2. CASE c # queue[s].frames
      <3>1. PICK d, m : d = queue[s] /\ m = c + 1
        OBVIOUS
      <3> DEFINE moved == [d EXCEPT !.cursor = m, !.firstFrameDeparted = TRUE]
      <3>2. d \in Descriptor /\ m \in Nat \ {0}
        BY <1>2, <3>1
      <3>3. moved.cursor = m /\ moved.canIDMSB = d.canIDMSB
        BY <3>2 DEF Descriptor
      <3>4. queue' = [queue EXCEPT ![s] = moved]
        BY <2>2, <3>1 DEF Eject
      <3> HIDE DEF moved
      <3> QED
        BY <1>1, <3>1, <3>3, <3>4 DEF Queued
    <2> QED
      BY <2>1, <2>2
  <1>0. PICK n : n = Len(wire) + 1
    OBVIOUS
  <1>4. /\ DOMAIN wire' = 1..n /\ DOMAIN wire = 1..(n - 1) /\ n \in Nat \ {0}
        /\ \A k \in DOMAIN wire : wire'[k] = wire[k]
        /\ wire'[n] = sent
    BY <1>0, <1>1
  <1>5. sent.seqno = s /\ sent.canIDMSB = id /\ sent.index = c
    OBVIOUS
  <1>6. \A k \in DOMAIN wire : wire[k].seqno \in Nat
    BY FramesNumbered DEF RefInv
  <1> HIDE DEF sent
  <1>7. \A r \in Queued : queue[r].canIDMSB = id /\ r # s => s < r /\ queue[r].cursor = 1
    <2> SUFFICES ASSUME NEW r \in Queued, queue[r].canIDMSB = id, r # s
                 PROVE  s < r /\ queue[r].cursor = 1
      OBVIOUS
    <2>1. s < r
      BY <1>2 DEF Eject, IsNextPending
    <2>2. queue[r].cursor > 1 => \E k \in DOMAIN wire : wire[k].canIDMSB = id /\ wire[k].seqno = r
      BY DEF OrderInv, QueueBehindWire
    <2>3. \A k \in DOMAIN wire : wire[k].canIDMSB = id => wire[k].seqno <= s
      BY DEF OrderInv, QueueBehindWire
    <2> QED
      BY <1>2, <1>6, <2>1, <2>2, <2>3
  <1>8. LastOfID(n)'
    BY <1>4 DEF LastOfID
  <1>9. QueueBehindWire'
    <2> SUFFICES ASSUME NEW r \in Queued'
                 PROVE  /\ \A k \in DOMAIN wire' : wire'[k].canIDMSB = queue'[r].canIDMSB =>
                              wire'[k].seqno <= r /\ (queue'[r].cursor = 1 => wire'[k].seqno # r)
                        /\ queue'[r].cursor > 1 =>
                              \E k \in DOMAIN wire' : /\ wire'[k].canIDMSB = queue'[r].canIDMSB
                                                      /\ wire'[k].seqno = r
                                                      /\ wire'[k].index = queue'[r].cursor - 1
                                                      /\ LastOfID(k)'
      BY DEF QueueBehindWire
    <2>1. r \in Queued /\ r \in Nat /\ queue'[r].canIDMSB = queue[r].canIDMSB
      BY <1>2, <1>3
    <2>2. CASE r = s
      <3>1. queue'[r].cursor = c + 1 /\ c \in Nat \ {0}
        BY <1>2, <1>3, <2>2
      <3>2. \A k \in DOMAIN wire : wire[k].canIDMSB = id => wire[k].seqno <= s
        BY DEF OrderInv, QueueBehindWire
      <3>3. \A k \in DOMAIN wire' : wire'[k].canIDMSB = id => wire'[k].seqno <= s
        BY <1>2, <1>4, <1>5, <3>2
      <3>4. n \in DOMAIN wire' /\ wire'[n].index = (c + 1) - 1
        BY <1>4, <1>5, <3>1
      <3>5. \A k \in DOMAIN wire' : wire'[k].canIDMSB = queue'[r].canIDMSB => wire'[k].seqno <= r
        BY <2>1, <2>2, <3>3
      <3>6. /\ n \in DOMAIN wire' /\ LastOfID(n)' /\ wire'[n].canIDMSB = queue'[r].canIDMSB
            /\ wire'[n].seqno = r /\ wire'[n].index = queue'[r].cursor - 1
        BY <1>4, <1>5, <1>8, <2>1, <2>2, <3>1, <3>4
      <3>7. queue'[r].cursor # 1
        BY <3>1
      <3> QED
        BY <3>5, <3>6, <3>7
    <2>3. CASE r # s /\ queue[r].canIDMSB = id
      <3>1. s < r /\ queue'[r] = queue[r] /\ queue'[r].cursor = 1
        BY <1>3, <1>7, <2>1, <2>3
      <3>2. \A k \in DOMAIN wire : wire[k].canIDMSB = id => wire[k].seqno <= s
        BY DEF OrderInv, QueueBehindWire
      <3>3. s \in Nat /\ r \in Nat /\ r # s /\ ~(r <= s)
        BY <1>2, <2>1, <3>1
      <3>4. ASSUME NEW k \in DOMAIN wire', wire'[k].canIDMSB = id
            PROVE  wire'[k].seqno <= r /\ wire'[k].seqno # r
        <4>1. CASE k = n
          BY <1>4, <1>5, <3>1, <3>3, <4>1
        <4>2. CASE k \in DOMAIN wire
          <5>1. wire'[k] = wire[k] /\ wire[k].seqno \in Nat
            BY <1>4, <1>6, <4>2
          <5>2. wire[k].seqno <= s
            BY <3>2, <3>4, <4>2, <5>1
          <5> QED
            BY <3>1, <3>3, <5>1, <5>2
        <4> QED
          BY <1>4, <4>1, <4>2
      <3>5. queue'[r].canIDMSB = id /\ queue'[r].cursor = 1
        BY <2>1, <2>3, <3>1
      <3> QED
        BY <3>4, <3>5
    <2>4. CASE r # s /\ queue[r].canIDMSB # id
      <3>1. queue'[r] = queue[r]
        BY <1>3, <2>4
      <3>2. ASSUME NEW k \in DOMAIN wire, LastOfID(k), wire[k].canIDMSB # id
            PROVE  k \in DOMAIN wire' /\ LastOfID(k)'
        BY <1>4, <1>5, <3>2 DEF LastOfID
      <3>3. \A k \in DOMAIN wire' : wire'[k].canIDMSB = queue[r].canIDMSB =>
                k \in DOMAIN wire /\ wire'[k] = wire[k]
        BY <1>4, <1>5, <2>4
      <3> QED
        BY <1>4, <2>1, <2>4, <3>1, <3>2, <3>3 DEF OrderInv, QueueBehindWire
    <2> QED
      BY <2>2, <2>3, <2>4
  <1>10. ASSUME NEW k \in DOMAIN wire' PROVE InPlace(k)'
    <2>1. CASE k \in DOMAIN wire
      <3>1. InPlace(k) /\ \A j \in 1..k : j \in DOMAIN wire /\ wire'[j] = wire[j]
        BY <1>4, <2>1 DEF OrderInv
      <3> QED
        BY <1>4, <2>1, <3>1 DEF InPlace
    <2>2. CASE k = n
      <3>1. 1..(n - 1) = DOMAIN wire /\ wire'[n].index = c /\ wire'[n].seqno = s /\ wire'[n].canIDMSB = id
        BY <1>4, <1>5
      <3>2. \A j \in DOMAIN wire : wire[j].canIDMSB = id =>
                wire[j].seqno <= s /\ (c = 1 => wire[j].seqno # s)
        BY DEF OrderInv, QueueBehindWire
      <3>3. CASE c = 1
        <4>1. \A j \in DOMAIN wire : wire[j].canIDMSB = id => wire[j].seqno < s
          BY <1>2, <1>6, <3>2, <3>3
        <4> QED
          BY <1>4, <2>2, <3>1, <3>3, <4>1 DEF InPlace
      <3>4. CASE c # 1
        <4>1. PICK j \in DOMAIN wire : /\ wire[j].canIDMSB = id /\ wire[j].seqno = s
                                       /\ wire[j].index = c - 1 /\ LastOfID(j)
          BY <1>2, <3>4 DEF OrderInv, QueueBehindWire
        <4>2. \A i \in DOMAIN wire : wire[i].canIDMSB = id => i <= j
          BY <4>1 DEF LastOfID
        <4> QED
          BY <1>4, <2>2, <3>1, <3>4, <4>1, <4>2 DEF InPlace
      <3> QED
        BY <3>3, <3>4
    <2> QED
      BY <1>4, <2>1, <2>2
  <1> QED
    BY <1>9, <1>10 DEF OrderInv

LEMMA OrderStep ==
    RefInv /\ OrderInv /\ [Next]_vars => OrderInv'
  <1> SUFFICES ASSUME RefInv, OrderInv, [Next]_vars PROVE OrderInv'
    OBVIOUS
  <1>1. ASSUME NEW id \in CanIDs, NEW size \in PayloadSizes, NEW d \in Deadlines,
               Publish(id, size, d) \/ V0Publish(id, size, d)
        PROVE  OrderInv'
    BY <1>1, PublishIsEnqueue, EnqueueOrder
  <1>2. ASSUME UNCHANGED <<queue, wire>> PROVE OrderInv'
    BY <1>2, NothingSentOrder DEF Queued
  <1>3. ASSUME NEW S, Retire(S), wire' = wire PROVE OrderInv'
    <2>1. Queued' \subseteq Queued /\ \A s \in Queued' : queue'[s] = queue[s]
      BY <1>3 DEF Retire, Queued
    <2> QED
      BY <1>3, <2>1, NothingSentOrder
  <1>4. ASSUME \/ \E id \in AssignedIDs : SetNodeID(id)
               \/ \E src \in PeerIDs : IngestStartFrame(src)
        PROVE  OrderInv'
    BY <1>2, <1>3, <1>4, NodeChange
  <1>5. CASE Destroy
    <2>1. wire' = wire /\ Queued' = {}
      BY <1>5 DEF Destroy, Queued, Empty
    <2> QED
      BY <2>1, NothingSentOrder
  <1>6. ASSUME NEW txReady \in BOOLEAN, Poll(txReady) PROVE OrderInv'
    BY <1>3, <1>6 DEF Poll
  <1>7. ASSUME NEW s \in Queued, NEW retain \in 0..1, Eject(s, retain) PROVE OrderInv'
    BY <1>7, EjectOrder
  <1>8. ASSUME \/ \E b \in BOOLEAN : SetClassicCAN(b)
               \/ \E f \in Live : RefCountInc(f) \/ RefCountDec(f)
               \/ \E s \in Queued, retain \in 0..1 : EjectRefused(s, retain)
               \/ EjectDone
               \/ Tick
               \/ UNCHANGED vars
        PROVE  UNCHANGED <<queue, wire>>
    BY <1>8 DEF SetClassicCAN, RefCountInc, RefCountDec, EjectRefused, EjectDone, Tick, vars
  <1> QED
    BY <1>1, <1>2, <1>4, <1>5, <1>6, <1>7, <1>8 DEF Next, Application, EjectStep

\* Among the frames of one CAN ID a transfer is sent as one run, its frames in
\* order and none repeated, and transfers in the order in which they were
\* pushed, however transfers of other CAN IDs preempt it and whatever is
\* sacrificed, expires or is purged in mid-transfer (txComparePendingOrder,
\* txEjectPending).
THEOREM TxInOrderPerCanID ==
    Spec => []InOrderPerCanID
  <1>1. Init => OrderInv
    BY DEF Init, OrderInv, QueueBehindWire, Queued, Empty
  <1>2. RefInv /\ OrderInv /\ [Next]_vars => (RefInv /\ OrderInv)'
    BY RefStep, OrderStep
  <1>3. OrderInv => InOrderPerCanID
    BY InPlaceIsInOrder DEF OrderInv
  <1> QED
    BY <1>1, <1>2, <1>3, RefInit, PTL DEF Spec
-----------------------------------------------------------------------------
(***************************************************************************)
(* Deadlines.                                                              *)
(***************************************************************************)
LEMMA OverdueStep ==
    RefInv /\ NothingOverdueOffered /\ [Next]_vars => NothingOverdueOffered'
  <1> SUFFICES ASSUME RefInv, NothingOverdueOffered, [Next]_vars, polling'
               PROVE  \A s \in Queued' : polledAt' <= queue'[s].deadline
    BY DEF NothingOverdueOffered
  <1>1. now \in Nat /\ \A s \in Queued : queue[s] \in Descriptor /\ queue[s].deadline \in Nat
    BY DEF RefInv, TypeOK, Descriptor
  <1>2. ASSUME NEW txReady \in BOOLEAN, Poll(txReady)
        PROVE  \A s \in Queued' : polledAt' <= queue'[s].deadline
    <2>1. polledAt' = now /\ Retire(Expired)
      BY <1>2 DEF Poll
    <2>2. Queued' = Queued \ Expired /\ \A s \in Queued' : queue'[s] = queue[s]
      BY <2>1 DEF Retire, Queued
    <2> QED
      BY <1>1, <2>1, <2>2 DEF Expired
  <1>3. CASE UNCHANGED <<polling, polledAt, queue>>
    BY <1>3 DEF NothingOverdueOffered, Queued
  <1>4. ASSUME NEW s \in Queued, NEW retain \in 0..1, Eject(s, retain)
        PROVE  \A r \in Queued' : polledAt' <= queue'[r].deadline
    <2>1. UNCHANGED <<polling, polledAt>> /\ polling
      BY <1>4 DEF Eject
    <2>2. Queued' \subseteq Queued /\ \A r \in Queued' : queue'[r].deadline = queue[r].deadline
      <3>1. CASE queue[s].cursor = queue[s].frames
        BY <1>4, <3>1 DEF Eject, Queued
      <3>2. CASE queue[s].cursor # queue[s].frames
        <4>1. PICK d, m : d = queue[s] /\ m = queue[s].cursor + 1
          OBVIOUS
        <4> DEFINE moved == [d EXCEPT !.cursor = m, !.firstFrameDeparted = TRUE]
        <4>2. moved.deadline = d.deadline
          BY <1>1, <4>1 DEF Descriptor
        <4>3. queue' = [queue EXCEPT ![s] = moved]
          BY <1>4, <3>2, <4>1 DEF Eject
        <4> HIDE DEF moved
        <4> QED
          BY <4>1, <4>2, <4>3 DEF Queued
      <3> QED
        BY <3>1, <3>2
    <2> QED
      BY <2>1, <2>2 DEF NothingOverdueOffered
  <1>5. ASSUME ~polling, polling' = polling PROVE FALSE
    BY <1>5
  <1>6. ASSUME \/ \E id \in CanIDs, size \in PayloadSizes, d \in Deadlines :
                    Publish(id, size, d) \/ V0Publish(id, size, d)
               \/ \E b \in BOOLEAN : SetClassicCAN(b)
               \/ \E id \in AssignedIDs : SetNodeID(id)
               \/ Destroy
               \/ \E src \in PeerIDs : IngestStartFrame(src)
        PROVE  ~polling /\ polling' = polling
    BY <1>6 DEF Publish, V0Publish, Enqueue, SetClassicCAN, SetNodeID, Destroy,
                IngestStartFrame, Idle
  <1>7. ASSUME (\E s \in Queued, retain \in 0..1 : EjectRefused(s, retain)) \/ EjectDone
        PROVE  polling' = FALSE
    BY <1>7 DEF EjectRefused, EjectDone
  <1>8. ASSUME \/ \E f \in Live : RefCountInc(f) \/ RefCountDec(f)
               \/ Tick
               \/ UNCHANGED vars
        PROVE  UNCHANGED <<polling, polledAt, queue>>
    BY <1>8 DEF RefCountInc, RefCountDec, Tick, vars
  <1> QED
    BY <1>2, <1>3, <1>4, <1>5, <1>6, <1>7, <1>8 DEF Next, Application, EjectStep

\* No frame of a transfer that was overdue when Poll began is handed to the
\* driver (Poll calls txExpire before txEjectPending).
THEOREM TxNothingOverdueOffered ==
    Spec => []NothingOverdueOffered
  <1>1. Init => NothingOverdueOffered
    BY DEF Init, NothingOverdueOffered
  <1> QED
    BY <1>1, OverdueStep, RefInit, RefStep, PTL DEF Spec
-----------------------------------------------------------------------------
(***************************************************************************)
(* Induction, with a set in place of the predicate, and recursion.         *)
(***************************************************************************)
LEMMA LeastNumber ==
    ASSUME NEW T \in SUBSET Nat, T # {}
    PROVE  \E x \in T : \A y \in T : x <= y
<1>1. PICK x \in T : \A y \in T : ~(<<y, x>> \in OpToRel(<, Nat))
    <2>1. IsWellFoundedOn(OpToRel(<, Nat), Nat)
        BY NatLessThanWellFounded
    <2> QED
        BY ONLY <2>1, WFMin, T \in SUBSET Nat, T # {}
<1>2. ASSUME NEW y \in T, ~(x <= y) PROVE FALSE
    <2>1. y < x /\ x \in Nat /\ y \in Nat
        BY <1>2
    <2>2. <<y, x>> \in OpToRel(<, Nat)
        BY <2>1 DEF OpToRel
    <2> QED
        BY <1>1, <2>2
<1> QED
    BY <1>2

LEMMA SetInduction ==
    ASSUME NEW T, 0 \in T, \A n \in Nat : n \in T => n + 1 \in T
    PROVE  \A n \in Nat : n \in T
<1> SUFFICES ASSUME Nat \ T # {} PROVE FALSE
    OBVIOUS
<1>1. PICK x \in Nat \ T : \A y \in Nat \ T : x <= y
    BY LeastNumber
<1>2. x # 0 /\ x \in Nat
    BY <1>1
<1>3. x - 1 \in Nat /\ x - 1 \in T
    BY <1>1, <1>2
<1> QED
    BY <1>1, <1>3

\* A step function has an orbit from every point.
IsOrbit(f, S, F, s) ==
    f \in [Nat -> S] /\ f[0] = s /\ \A n \in Nat : f[n + 1] = F[f[n]]

LEMMA Iteration ==
    ASSUME NEW S, NEW F \in [S -> S], NEW s \in S
    PROVE  \E f : IsOrbit(f, S, F, s)
<1> DEFINE Orbit(g, n) ==
        g \in [0..n -> S] /\ g[0] = s /\ \A i \in 0..(n - 1) : g[i + 1] = F[g[i]]
           T == {n \in Nat : \E g : Orbit(g, n)}
<1>1. 0 \in T
    <2>1. Orbit([i \in 0..0 |-> s], 0)
        OBVIOUS
    <2> QED
        BY <2>1
<1>2. ASSUME NEW n \in Nat, n \in T PROVE n + 1 \in T
    <2>1. PICK g : Orbit(g, n)
        BY <1>2
    <2> DEFINE h == [i \in 0..(n + 1) |-> IF i = n + 1 THEN F[g[n]] ELSE g[i]]
    <2>2. h \in [0..(n + 1) -> S]
        BY <2>1
    <2>3. h[0] = s
        BY <2>1
    <2>4. ASSUME NEW i \in 0..n PROVE h[i + 1] = F[h[i]]
        <3>1. CASE i = n
            BY <3>1
        <3>2. CASE i # n
            <4>1. i \in 0..(n - 1) /\ i + 1 \in 0..(n + 1) /\ i + 1 # n + 1 /\ i # n + 1
                BY <3>2
            <4> QED
                BY <2>1, <4>1
        <3> QED
            BY <3>1, <3>2
    <2> HIDE DEF h
    <2>5. (n + 1) - 1 = n
        OBVIOUS
    <2>6. Orbit(h, n + 1)
        BY <2>2, <2>3, <2>4, <2>5
    <2> HIDE DEF Orbit
    <2> QED
        BY <2>6
<1>3. \A n \in Nat : n \in T
    <2> HIDE DEF T
    <2> QED
        BY <1>1, <1>2, SetInduction
<1>4. ASSUME NEW n \in Nat, NEW m \in Nat, NEW g, NEW h, Orbit(g, n), Orbit(h, m)
      PROVE  \A i \in Nat : i <= n /\ i <= m => g[i] = h[i]
    <2> DEFINE U == {i \in Nat : i <= n /\ i <= m => g[i] = h[i]}
    <2>1. 0 \in U
        BY <1>4
    <2>2. ASSUME NEW i \in Nat, i \in U PROVE i + 1 \in U
        <3>1. ASSUME i + 1 <= n, i + 1 <= m PROVE g[i + 1] = h[i + 1]
            <4>1. i \in 0..(n - 1) /\ i \in 0..(m - 1) /\ g[i] = h[i]
                BY <2>2, <3>1
            <4> QED
                BY <1>4, <4>1
        <3> QED
            BY <3>1
    <2>3. \A i \in Nat : i \in U
        <3> HIDE DEF U
        <3> QED
            BY <2>1, <2>2, SetInduction
    <2> QED
        BY <2>3
<1> DEFINE o == [n \in Nat |-> CHOOSE g : Orbit(g, n)]
           f == [n \in Nat |-> o[n][n]]
<1>5. \A n \in Nat : Orbit(o[n], n)
    <2> SUFFICES ASSUME NEW n \in Nat PROVE Orbit(o[n], n)
        OBVIOUS
    <2>1. \E g : Orbit(g, n)
        BY <1>3
    <2> HIDE DEF Orbit
    <2>2. Orbit(CHOOSE g : Orbit(g, n), n)
        BY <2>1
    <2> QED
        BY <2>2
<1>6. f \in [Nat -> S]
    <2> SUFFICES ASSUME NEW n \in Nat PROVE o[n][n] \in S
        OBVIOUS
    <2> HIDE DEF o, Orbit
    <2>1. Orbit(o[n], n)
        BY <1>5
    <2> QED
        BY <2>1 DEF Orbit
<1>7. f[0] = s
    BY <1>5
<1>8. ASSUME NEW n \in Nat PROVE f[n + 1] = F[f[n]]
    <2> HIDE DEF o
    <2>1. n + 1 \in Nat /\ n \in 0..((n + 1) - 1)
        OBVIOUS
    <2>2. o[n + 1][n + 1] = F[o[n + 1][n]]
        BY <1>5, <2>1
    <2>3. o[n + 1][n] = o[n][n]
        <3>1. n <= n /\ n <= n + 1 /\ Orbit(o[n], n) /\ Orbit(o[n + 1], n + 1)
            BY <1>5, <2>1
        <3> HIDE DEF Orbit
        <3> QED
            BY <1>4, <2>1, <3>1
    <2> QED
        BY <2>1, <2>2, <2>3
<1> HIDE DEF f
<1> QED
    BY <1>6, <1>7, <1>8 DEF IsOrbit

\* What the value at n determines with n the value at n + 1.
IsRecursive(f, S, F, s) ==
    f \in [Nat -> S] /\ f[0] = s /\ \A n \in Nat : f[n + 1] = F[<<n, f[n]>>]

LEMMA Recursion ==
    ASSUME NEW S, NEW F \in [Nat \X S -> S], NEW s \in S
    PROVE  \E f : IsRecursive(f, S, F, s)
<1> DEFINE P == Nat \X S
           G == [p \in P |-> <<p[1] + 1, F[p]>>]
<1>1. G \in [P -> P] /\ <<0, s>> \in P
    OBVIOUS
<1>2. PICK g : IsOrbit(g, P, G, <<0, s>>)
    <2> HIDE DEF G, P
    <2> QED
        BY <1>1, Iteration
<1>3. g \in [Nat -> P] /\ g[0] = <<0, s>> /\ \A n \in Nat : g[n + 1] = G[g[n]]
    BY <1>2 DEF IsOrbit
<1> DEFINE T == {n \in Nat : g[n][1] = n}
<1>4. 0 \in T
    BY <1>3
<1>5. ASSUME NEW n \in Nat, n \in T PROVE n + 1 \in T
    <2>1. g[n] \in P /\ g[n][1] = n /\ g[n + 1] = G[g[n]]
        BY <1>3, <1>5
    <2>2. g[n + 1] = <<g[n][1] + 1, F[g[n]]>>
        BY <2>1
    <2>3. g[n + 1][1] = n + 1
        BY <2>1, <2>2
    <2> QED
        BY <2>3
<1>6. \A n \in Nat : n \in T
    <2> HIDE DEF T
    <2> QED
        BY <1>4, <1>5, SetInduction
<1> DEFINE f == [n \in Nat |-> g[n][2]]
<1>7. f \in [Nat -> S] /\ f[0] = s
    BY <1>3
<1>8. ASSUME NEW n \in Nat PROVE f[n + 1] = F[<<n, f[n]>>]
    <2>1. g[n] \in P /\ g[n][1] = n
        BY <1>3, <1>6
    <2>2. g[n] = <<n, f[n]>>
        BY <2>1
    <2>3. g[n + 1] = <<n + 1, F[g[n]]>>
        BY <1>3, <2>1
    <2> QED
        BY <2>2, <2>3
<1> HIDE DEF f
<1> QED
    BY <1>7, <1>8 DEF IsRecursive

\* A set of numbers with a bound has a greatest one.
LEMMA GreatestNumber ==
    ASSUME NEW T \in SUBSET Int, NEW b \in Int, \A x \in T : x <= b, T # {}
    PROVE  \E x \in T : \A y \in T : y <= x
<1> DEFINE U == {b - x : x \in T}
<1>1. U \in SUBSET Nat /\ U # {}
    <2>1. \A x \in T : b - x \in Nat
        OBVIOUS
    <2>2. PICK x \in T : TRUE
        OBVIOUS
    <2>3. b - x \in U
        BY <2>2
    <2> QED
        BY <2>1, <2>3
<1>2. PICK u \in U : \A v \in U : u <= v
    BY <1>1, LeastNumber
<1>3. PICK x \in T : u = b - x
    BY <1>2
<1>4. \A y \in T : y <= x
    BY <1>2, <1>3
<1> QED
    BY <1>4

-----------------------------------------------------------------------------
(***************************************************************************)
(* The acceptance filters.                                                 *)
(***************************************************************************)
Masks == SUBSET (0..28)

Filters == [id : SUBSET Int, mask : Masks]

\* One of the filters lets the identifier through.
Through(filters, id) == \E i \in DOMAIN filters : Passes(filters[i], id)

LEMMA FilterType ==
    ASSUME NEW node \in Nat, NEW kind \in Kinds, NEW port \in Nat
    PROVE  rxFilterForSubscription(node, <<kind, port>>) \in Filters
<1>1. \A v, lo \in Nat : Shl(v, lo) \in SUBSET Int
    BY DEF Shl
<1>2. /\ Shl(port, 8) \in SUBSET Int /\ Shl(port, 14) \in SUBSET Int
      /\ Shl(port, 16) \in SUBSET Int /\ Shl(node, 7) \in SUBSET Int
      /\ Shl(node, 8) \in SUBSET Int
    BY <1>1
<1>3. /\ ServiceID(kind, port, node) \in SUBSET Int
      /\ V0ServiceID(kind, port, node) \in SUBSET Int
    BY <1>2 DEF ServiceID, V0ServiceID
<1>4. /\ 7..25 \in Masks /\ {25, 23} \cup 7..20 \in Masks /\ 7..9 \in Masks /\ 7..23 \in Masks
    BY DEF Masks
<1>5. kind \in {Message16b, Message13b, Response, Request, V0Message, V0Response, V0Request}
    BY DEF Kinds, Message16b, Message13b, Response, Request, V0Message, V0Response, V0Request
<1> QED
    BY <1>2, <1>3, <1>4, <1>5
    DEF rxFilterForSubscription, Filter, Filters,
        Message16b, Message13b, Response, Request, V0Message, V0Response, V0Request

\* A fusion lets everything through that one of the two filters does.
LEMMA FuseWeaker ==
    ASSUME NEW a \in Filters, NEW b \in Filters
    PROVE  /\ rxFilterFuse(a, b) \in Filters
           /\ \A id \in SUBSET Int : Passes(a, id) \/ Passes(b, id) => Passes(rxFilterFuse(a, b), id)
<1>1. a.id \in SUBSET Int /\ b.id \in SUBSET Int /\ a.mask \in Masks /\ b.mask \in Masks
    BY DEF Filters
<1>2. rxFilterFuse(a, b) \in Filters
    BY <1>1 DEF rxFilterFuse, Filter, Filters, Masks
<1>3. ASSUME NEW id \in SUBSET Int, Passes(a, id) PROVE Passes(rxFilterFuse(a, b), id)
    BY <1>3 DEF rxFilterFuse, Filter, Passes
<1>4. ASSUME NEW id \in SUBSET Int, Passes(b, id) PROVE Passes(rxFilterFuse(a, b), id)
    BY <1>4 DEF rxFilterFuse, Filter, Passes
<1> QED
    BY <1>2, <1>3, <1>4

\* A filter that is covered adds nothing.
LEMMA CoveredPasses ==
    ASSUME NEW filters, NEW inner, rxFilterCovered(filters, inner), NEW id, Passes(inner, id)
    PROVE  Through(filters, id)
<1>1. PICK i \in DOMAIN filters :
        /\ filters[i].mask \subseteq inner.mask
        /\ inner.id \cap filters[i].mask = filters[i].id
    BY DEF rxFilterCovered
<1>2. Passes(filters[i], id)
    BY <1>1 DEF Passes
<1> QED
    BY <1>2 DEF Through

\* Of the pairs of the two loops there is a last one.
IsLastOf(p, P) == \A q \in P \ {p} : p[1] > q[1] \/ (p[1] = q[1] /\ p[2] > q[2])

LEMMA LastPair ==
    ASSUME NEW n \in Nat, NEW m \in Nat, NEW P \in SUBSET ((1..n) \X (1..m)), P # {}
    PROVE  \E p \in P : IsLastOf(p, P)
<1> DEFINE T == {p[1] : p \in P}
<1>1. \A p \in P : p[1] \in 1..n /\ p[2] \in 1..m /\ p = <<p[1], p[2]>>
    OBVIOUS
<1>2. T \in SUBSET Int /\ (\A x \in T : x <= n) /\ T # {}
    <2>1. PICK p \in P : TRUE
        OBVIOUS
    <2>2. p[1] \in T
        BY <2>1
    <2>3. \A x \in T : x \in Int /\ x <= n
        BY <1>1
    <2> HIDE DEF T
    <2> QED
        BY <2>2, <2>3
<1>3. PICK x \in T : \A y \in T : y <= x
    <2>1. n \in Int
        OBVIOUS
    <2> HIDE DEF T
    <2>2. T \in SUBSET Int
        BY <1>2
    <2>3. \A y \in T : y <= n
        BY <1>2
    <2>4. T # {}
        BY <1>2
    <2> QED
        BY ONLY <2>1, <2>2, <2>3, <2>4, GreatestNumber
<1> DEFINE U == {p[2] : p \in {p \in P : p[1] = x}}
<1>4. U \in SUBSET Int /\ (\A y \in U : y <= m) /\ U # {}
    <2>1. PICK p \in P : p[1] = x
        BY <1>3
    <2>2. p[2] \in U
        BY <2>1
    <2>3. \A y \in U : y \in Int /\ y <= m
        BY <1>1
    <2> HIDE DEF U
    <2> QED
        BY <2>2, <2>3
<1>5. PICK y \in U : \A z \in U : z <= y
    <2>1. m \in Int
        OBVIOUS
    <2> HIDE DEF U
    <2>2. U \in SUBSET Int
        BY <1>4
    <2>3. \A z \in U : z <= m
        BY <1>4
    <2>4. U # {}
        BY <1>4
    <2> QED
        BY ONLY <2>1, <2>2, <2>3, <2>4, GreatestNumber
<1>6. PICK p \in P : p[1] = x /\ p[2] = y
    BY <1>5
<1>7. ASSUME NEW q \in P \ {p} PROVE p[1] > q[1] \/ (p[1] = q[1] /\ p[2] > q[2])
    <2>1. q[1] \in T /\ q[1] <= x /\ q[1] \in Int /\ q[2] \in Int /\ x \in Int /\ y \in Int
        BY <1>1, <1>3, <1>6
    <2>2. CASE q[1] = x
        <3>1. q[2] \in U
            BY <2>2
        <3>2. q[2] <= y
            BY <1>5, <3>1
        <3>3. q[2] # y
            BY <1>1, <1>6, <2>2
        <3> QED
            BY <1>6, <2>1, <2>2, <3>2, <3>3
    <2>3. CASE q[1] # x
        BY <1>6, <2>1, <2>3
    <2> QED
        BY <2>2, <2>3
<1> QED
    BY <1>7 DEF IsLastOf

\* Room is made without anything being shut out.
LEMMA CoalesceKeeps ==
    ASSUME NEW filters \in Seq(Filters), Len(filters) >= 1, NEW new \in Filters
    PROVE  LET to == rxFilterCoalesceInto(filters, new)
           IN  /\ to \in Seq(Filters) /\ Len(to) = Len(filters)
               /\ \A id \in SUBSET Int : Through(filters, id) \/ Passes(new, id) => Through(to, id)
<1> DEFINE n == Len(filters)
           all == Append(filters, new)
           pairs == {p \in (DOMAIN filters) \X (DOMAIN all) : p[1] < p[2]}
           rank == [p \in pairs |-> rxFilterRank(rxFilterFuse(all[p[1]], all[p[2]]))]
           tied == {p \in pairs : rank[p] = Max(Range(rank))}
           Final(p) == \A q \in tied \ {p} : p[1] > q[1] \/ (p[1] = q[1] /\ p[2] > q[2])
           best == CHOOSE p \in tied : Final(p)
           to == [k \in DOMAIN filters |->
                    CASE k = best[1] -> rxFilterFuse(all[best[1]], all[best[2]])
                      [] k = best[2] -> new
                      [] OTHER -> filters[k]]
<1>1. rxFilterCoalesceInto(filters, new) = to
    BY DEF rxFilterCoalesceInto
<1>2. n \in Nat /\ DOMAIN filters = 1..n /\ \A i \in 1..n : filters[i] \in Filters
    BY LenProperties, ElementOfSeq
<1>3. /\ all \in Seq(Filters) /\ DOMAIN all = 1..(n + 1) /\ all[n + 1] = new
      /\ \A i \in 1..n : all[i] = filters[i]
    BY <1>2, AppendProperties, LenProperties
<1>4. \A i \in 1..(n + 1) : all[i] \in Filters
    <2> SUFFICES ASSUME NEW i \in 1..(n + 1) PROVE all[i] \in Filters
        OBVIOUS
    <2>1. i \in 1..n \/ i = n + 1
        BY <1>2
    <2> QED
        BY <1>2, <1>3, <2>1
<1> HIDE DEF all, n
<1>5. \A p \in pairs : p[1] \in 1..n /\ p[2] \in 1..(n + 1) /\ p[1] < p[2]
    BY <1>2, <1>3
<1>6. \A f \in Filters : rxFilterRank(f) \in 0..29
    <2> SUFFICES ASSUME NEW f \in Filters PROVE rxFilterRank(f) \in 0..29
        OBVIOUS
    <2>1. f.mask \subseteq 0..28
        BY DEF Filters, Masks
    <2>2. IsFiniteSet(0..28)
        BY FS_Interval, 0 \in Int, 28 \in Int
    <2>3. Cardinality(0..28) = 28 - 0 + 1
        BY FS_Interval, 0 \in Int, 28 \in Int, ~(0 > 28)
    <2>4. IsFiniteSet(f.mask) /\ Cardinality(f.mask) <= Cardinality(0..28)
        BY ONLY <2>1, <2>2, FS_Subset
    <2>5. Cardinality(f.mask) \in Nat
        BY ONLY <2>4, FS_CardinalityType
    <2> DEFINE c == Cardinality(f.mask)
               d == Cardinality(0..28)
    <2>6. c \in Nat /\ c <= d /\ d = 29
        BY <2>3, <2>4, <2>5
    <2>7. rxFilterRank(f) = c
        BY DEF rxFilterRank
    <2> HIDE DEF c, d
    <2> QED
        BY <2>6, <2>7
<1>7. \A p \in pairs : rank[p] \in 0..29
    <2> SUFFICES ASSUME NEW p \in pairs PROVE rank[p] \in 0..29
        OBVIOUS
    <2>1. p[1] \in 1..(n + 1) /\ p[2] \in 1..(n + 1)
        BY <1>2, <1>5
    <2>2. rxFilterFuse(all[p[1]], all[p[2]]) \in Filters
        BY <1>4, <2>1, FuseWeaker
    <2> QED
        BY <1>6, <2>2
<1>8. <<1, 2>> \in pairs
    <2>1. 1 \in 1..n /\ 2 \in 1..(n + 1)
        BY <1>2 DEF n
    <2> QED
        BY <1>2, <1>3, <2>1
<1> HIDE DEF pairs
<1>9. DOMAIN rank = pairs
    OBVIOUS
<1> HIDE DEF rank
<1>10. PICK p0 \in pairs : \A q \in pairs : rank[q] <= rank[p0]
    <2> DEFINE R == {rank[p] : p \in pairs}
    <2>1. rank[<<1, 2>>] \in R
        BY <1>8
    <2>3. ASSUME NEW r \in R PROVE r \in Int /\ r <= 29
        <3>1. PICK p \in pairs : r = rank[p]
            OBVIOUS
        <3>2. r \in 0..29
            BY <1>7, <3>1
        <3> QED
            BY <3>2
    <2>2. PICK r \in R : \A x \in R : x <= r
        <3> HIDE DEF R
        <3>1. R \in SUBSET Int
            BY <2>3
        <3>2. \A x \in R : x <= 29
            BY <2>3
        <3>3. R # {}
            BY <2>1
        <3>4. 29 \in Int
            OBVIOUS
        <3> QED
            BY ONLY <3>1, <3>2, <3>3, <3>4, GreatestNumber
    <2> QED
        BY <2>2
<1>11. Max(Range(rank)) = rank[p0]
    <2> DEFINE R == Range(rank)
    <2>1. R = {rank[p] : p \in pairs}
        BY <1>9 DEF Range
    <2> HIDE DEF R
    <2>2. rank[p0] \in R
        BY <1>10, <2>1
    <2>3. ASSUME NEW x \in R PROVE rank[p0] >= x /\ x \in Int
        <3>1. PICK p \in pairs : x = rank[p]
            BY <2>1
        <3>2. x \in 0..29 /\ rank[p0] \in 0..29 /\ x <= rank[p0]
            BY <1>7, <1>10, <3>1
        <3> QED
            BY <3>2
    <2>4. Max(R) \in R /\ \A x \in R : Max(R) >= x
        BY <2>2, <2>3 DEF Max
    <2>5. rank[p0] >= Max(R) /\ Max(R) >= rank[p0] /\ Max(R) \in Int /\ rank[p0] \in Int
        BY <2>2, <2>3, <2>4
    <2>6. Max(R) = rank[p0]
        BY <2>5
    <2> QED
        BY <2>6 DEF R
<1>12. p0 \in tied /\ tied \subseteq pairs
    BY <1>10, <1>11
<1> HIDE DEF tied
<1>13. \E p \in tied : Final(p)
    <2>1. n \in Nat /\ n + 1 \in Nat
        BY <1>2
    <2>2. pairs \subseteq (1..n) \X (1..(n + 1))
        BY <1>2, <1>3 DEF pairs
    <2>3. tied \in SUBSET ((1..n) \X (1..(n + 1)))
        BY <1>12, <2>2
    <2>4. tied # {}
        BY <1>12
    <2> HIDE DEF tied
    <2> DEFINE m == n + 1
    <2>5. m \in Nat /\ tied \in SUBSET ((1..n) \X (1..m))
        BY <2>1, <2>3
    <2> HIDE DEF m
    <2>6. \E p \in tied : IsLastOf(p, tied)
        BY ONLY <2>1, <2>4, <2>5, LastPair
    <2> QED
        BY <2>6 DEF IsLastOf
<1>14. best \in tied
    <2> HIDE DEF Final
    <2> QED
        BY <1>13
<1> DEFINE a == best[1]
           b == best[2]
           fused == rxFilterFuse(all[a], all[b])
<1> HIDE DEF best
<1>15. a \in 1..n /\ b \in 1..(n + 1) /\ a < b /\ a # b
    <2>1. best \in pairs
        BY <1>12, <1>14
    <2>2. best[1] \in 1..n /\ best[2] \in 1..(n + 1) /\ best[1] < best[2]
        BY <1>5, <2>1
    <2> QED
        BY <1>2, <2>2
<1>16. to = [k \in 1..n |-> IF k = a THEN fused ELSE IF k = b THEN new ELSE filters[k]]
    BY ONLY <1>2, <1>15
<1> HIDE DEF to, a, b
<1>17. all[a] \in Filters /\ all[b] \in Filters
    BY <1>2, <1>4, <1>15
<1>18. fused \in Filters /\ \A id \in SUBSET Int : Passes(all[a], id) \/ Passes(all[b], id) => Passes(fused, id)
    BY <1>17, FuseWeaker
<1> HIDE DEF fused
<1>19. to \in [1..n -> Filters]
    BY <1>2, <1>16, <1>18
<1>20. to \in Seq(Filters) /\ Len(to) = n
    BY <1>2, <1>19, SeqDef, LenProperties
<1>21. ASSUME NEW id \in SUBSET Int, Through(filters, id) \/ Passes(new, id) PROVE Through(to, id)
    <2>1. PICK i \in 1..(n + 1) : Passes(all[i], id)
        BY <1>2, <1>3, <1>21 DEF Through
    <2>2. CASE i = a \/ i = b
        <3>1. Passes(to[a], id)
            BY <1>15, <1>16, <1>18, <2>1, <2>2
        <3> QED
            BY <1>15, <1>16, <3>1 DEF Through
    <2>3. CASE i # a /\ i # b /\ i \in 1..n
        <3>1. to[i] = filters[i] /\ all[i] = filters[i] /\ i \in DOMAIN to
            BY <1>3, <1>16, <2>3
        <3> QED
            BY <2>1, <3>1 DEF Through
    <2>4. CASE i # a /\ i # b /\ i = n + 1
        <3>1. b \in 1..n /\ to[b] = new /\ b \in DOMAIN to /\ all[i] = new
            BY <1>2, <1>3, <1>15, <1>16, <2>4
        <3> QED
            BY <2>1, <3>1 DEF Through
    <2> QED
        BY <1>2, <2>2, <2>3, <2>4
<1> QED
    BY <1>1, <1>20, <1>21 DEF n

\* One more filter shuts nothing out either.
LEMMA AppendKeeps ==
    ASSUME NEW capacity \in Nat \ {0}, NEW filters \in Seq(Filters), Len(filters) <= capacity,
           NEW f \in Filters
    PROVE  LET to == rxFilterAppend(filters, capacity, f)
           IN  /\ to \in Seq(Filters) /\ Len(to) <= capacity
               /\ \A id \in SUBSET Int : Through(filters, id) \/ Passes(f, id) => Through(to, id)
<1> DEFINE to == rxFilterAppend(filters, capacity, f)
<1>1. Len(filters) \in Nat /\ DOMAIN filters = 1..Len(filters)
    BY LenProperties
<1>2. CASE Len(filters) < capacity
    <2>1. to = Append(filters, f)
        BY <1>2 DEF rxFilterAppend
    <2>2. /\ to \in Seq(Filters) /\ Len(to) = Len(filters) + 1
          /\ to[Len(filters) + 1] = f
          /\ \A i \in 1..Len(filters) : to[i] = filters[i]
        BY <2>1, AppendProperties
    <2>3. DOMAIN to = 1..(Len(filters) + 1)
        BY <2>2, LenProperties
    <2> HIDE DEF to
    <2>4. ASSUME NEW id \in SUBSET Int, Through(filters, id) \/ Passes(f, id) PROVE Through(to, id)
        <3>1. CASE Passes(f, id)
            <4>1. Len(filters) + 1 \in DOMAIN to
                BY <1>1, <2>3
            <4> QED
                BY <2>2, <3>1, <4>1 DEF Through
        <3>2. CASE Through(filters, id)
            <4>1. PICK i \in DOMAIN filters : Passes(filters[i], id)
                BY <3>2 DEF Through
            <4>2. i \in DOMAIN to /\ to[i] = filters[i]
                BY <1>1, <2>2, <2>3
            <4> QED
                BY <4>1, <4>2 DEF Through
        <3> QED
            BY <2>4, <3>1, <3>2
    <2>5. Len(to) <= capacity
        BY <1>1, <1>2, <2>2
    <2> QED
        BY <2>2, <2>4, <2>5 DEF to
<1>3. CASE ~(Len(filters) < capacity)
    <2>1. to = rxFilterCoalesceInto(filters, f)
        BY <1>3 DEF rxFilterAppend
    <2>2. Len(filters) >= 1 /\ Len(filters) <= capacity
        BY <1>1, <1>3
    <2> HIDE DEF to
    <2>3. /\ to \in Seq(Filters) /\ Len(to) = Len(filters)
          /\ \A id \in SUBSET Int : Through(filters, id) \/ Passes(f, id) => Through(to, id)
        BY <2>1, <2>2, CoalesceKeeps
    <2> QED
        BY <2>2, <2>3 DEF to
<1> QED
    BY <1>2, <1>3

\* What rxFilterConfigure programs is no more than there is room for, and lets
\* through what the filter of any one subscription or heartbeat does.
LEMMA ConfigureKeeps ==
    ASSUME NEW node \in Nat, NEW subs \in Seq(Kinds \X Nat), NEW capacity \in Nat \ {0}
    PROVE  LET filters == rxFilterConfigure(node, subs, capacity)
           IN  /\ filters \in Seq(Filters) /\ Len(filters) <= capacity
               /\ \A sub \in Range(subs) \cup Range(Heartbeats), id \in SUBSET Int :
                    Passes(rxFilterForSubscription(node, sub), id) => Through(filters, id)
<1> DEFINE S == {fs \in Seq(Filters) : Len(fs) <= capacity}
           wanted(sub) == rxFilterForSubscription(node, sub)
           append(fs, sub) == rxFilterAppend(fs, capacity, wanted(sub))
           L == Len(subs)
           Obeys(g) == g = [i \in 0..L |-> IF i = 0 THEN <<>> ELSE append(g[i - 1], subs[i])]
           F == [p \in Nat \X S |->
                    IF p[1] + 1 \in 1..L THEN append(p[2], subs[p[1] + 1]) ELSE p[2]]
<1>1. L \in Nat /\ DOMAIN subs = 1..L /\ \A i \in 1..L : subs[i] \in Kinds \X Nat
    BY LenProperties, ElementOfSeq
<1>2. ASSUME NEW sub \in Kinds \X Nat PROVE wanted(sub) \in Filters
    <2>1. sub = <<sub[1], sub[2]>> /\ sub[1] \in Kinds /\ sub[2] \in Nat
        OBVIOUS
    <2>2. rxFilterForSubscription(node, <<sub[1], sub[2]>>) \in Filters
        BY <2>1, FilterType
    <2> QED
        BY <2>1, <2>2
<1>3. ASSUME NEW fs \in S, NEW sub \in Kinds \X Nat
      PROVE  /\ append(fs, sub) \in S
             /\ \A id \in SUBSET Int : Through(fs, id) \/ Passes(wanted(sub), id) =>
                    Through(append(fs, sub), id)
    <2>1. wanted(sub) \in Filters
        BY <1>2
    <2> HIDE DEF wanted
    <2> QED
        BY <2>1, AppendKeeps
<1> HIDE DEF wanted, append
<1>4. <<>> \in S
    BY EmptySeq, 0 <= capacity
<1>5. F \in [Nat \X S -> S]
    <2> SUFFICES ASSUME NEW p \in Nat \X S PROVE F[p] \in S
        OBVIOUS
    <2>1. p[1] \in Nat /\ p[2] \in S
        OBVIOUS
    <2> HIDE DEF S
    <2> QED
        BY <1>1, <1>3, <2>1
<1> HIDE DEF L
<1>6. PICK f : IsRecursive(f, S, F, <<>>)
    <2> HIDE DEF F, S
    <2> QED
        BY <1>4, <1>5, Recursion
<1>7. f \in [Nat -> S] /\ f[0] = <<>> /\ \A n \in Nat : f[n + 1] = F[<<n, f[n]>>]
    BY <1>6 DEF IsRecursive
<1> HIDE DEF S
<1>8. \A n \in Nat : n + 1 \in 1..L => f[n + 1] = append(f[n], subs[n + 1])
    BY <1>7
<1> HIDE DEF F
<1> DEFINE g == [i \in 0..L |-> f[i]]
<1>9. Obeys(g)
    <2> SUFFICES ASSUME NEW i \in 0..L
                 PROVE  f[i] = IF i = 0 THEN <<>> ELSE append(g[i - 1], subs[i])
        OBVIOUS
    <2>1. CASE i = 0
        BY <1>7, <2>1
    <2>2. CASE i # 0
        <3>1. i - 1 \in Nat /\ i - 1 \in 0..L /\ (i - 1) + 1 = i /\ i \in 1..L
            BY <1>1, <2>2
        <3>2. f[i] = append(f[i - 1], subs[i])
            BY <1>8, <3>1
        <3> QED
            BY <2>2, <3>1, <3>2
    <2> QED
        BY <2>1, <2>2
<1> DEFINE after == CHOOSE h : Obeys(h)
<1>10. Obeys(after)
    <2> HIDE DEF Obeys
    <2> QED
        BY <1>9
<1> HIDE DEF after
<1>11. /\ after[0] = <<>>
       /\ \A n \in Nat : n + 1 \in 1..L => after[n + 1] = append(after[n], subs[n + 1])
    <2>1. after[0] = <<>>
        <3>1. 0 \in 0..L
            BY <1>1
        <3> QED
            BY <1>10, <3>1
    <2>2. ASSUME NEW n \in Nat, n + 1 \in 1..L PROVE after[n + 1] = append(after[n], subs[n + 1])
        <3>1. n + 1 \in 0..L /\ n + 1 # 0 /\ (n + 1) - 1 = n
            BY <1>1, <2>2
        <3> QED
            BY <1>10, <3>1
    <2> QED
        BY <2>1, <2>2
<1> HIDE DEF Obeys
\* Every prefix of the subscriptions is served.
<1> DEFINE Good(n) ==
        /\ after[n] \in S
        /\ \A i \in 1..n : \A id \in SUBSET Int :
                Passes(wanted(subs[i]), id) => Through(after[n], id)
           T == {n \in Nat : n <= L => Good(n)}
<1>12. 0 \in T
    BY <1>4, <1>11
<1>13. ASSUME NEW n \in Nat, n \in T PROVE n + 1 \in T
    <2> SUFFICES ASSUME n + 1 <= L PROVE Good(n + 1)
        OBVIOUS
    <2>1. Good(n) /\ n + 1 \in 1..L /\ subs[n + 1] \in Kinds \X Nat
        BY <1>1, <1>13
    <2>2. after[n + 1] = append(after[n], subs[n + 1])
        BY <1>11, <2>1
    <2>3. /\ after[n + 1] \in S
          /\ \A id \in SUBSET Int : Through(after[n], id) \/ Passes(wanted(subs[n + 1]), id) =>
                Through(after[n + 1], id)
        BY <1>3, <2>1, <2>2
    <2>4. ASSUME NEW i \in 1..(n + 1), NEW id \in SUBSET Int, Passes(wanted(subs[i]), id)
          PROVE  Through(after[n + 1], id)
        <3>1. CASE i = n + 1
            BY <2>3, <2>4, <3>1
        <3>2. CASE i # n + 1
            <4>1. i \in 1..n
                BY <3>2
            <4> QED
                BY <2>1, <2>3, <2>4, <4>1
        <3> QED
            BY <3>1, <3>2
    <2> QED
        BY <2>3, <2>4
<1>14. Good(L)
    <2>1. \A n \in Nat : n \in T
        <3> HIDE DEF T
        <3> QED
            BY <1>12, <1>13, SetInduction
    <2> QED
        BY <1>1, <2>1
\* And then the heartbeats are.
<1> DEFINE force(fs, sub) == IF rxFilterCovered(fs, wanted(sub)) THEN fs ELSE append(fs, sub)
<1>15. ASSUME NEW fs \in S, NEW sub \in Kinds \X Nat
       PROVE  /\ force(fs, sub) \in S
              /\ \A id \in SUBSET Int : Through(fs, id) \/ Passes(wanted(sub), id) =>
                    Through(force(fs, sub), id)
    <2>1. CASE rxFilterCovered(fs, wanted(sub))
        <3>1. force(fs, sub) = fs
            BY <2>1
        <3>2. \A id \in SUBSET Int : Passes(wanted(sub), id) => Through(fs, id)
            BY <2>1, CoveredPasses
        <3> QED
            BY <3>1, <3>2
    <2>2. CASE ~rxFilterCovered(fs, wanted(sub))
        <3>1. force(fs, sub) = append(fs, sub)
            BY <2>2
        <3> QED
            BY <1>3, <3>1
    <2> QED
        BY <2>1, <2>2
<1>16. Heartbeats[1] \in Kinds \X Nat /\ Heartbeats[2] \in Kinds \X Nat
    BY DEF Heartbeats, Kinds, Message16b, Message13b, V0Message, V0Request
<1> DEFINE first == force(after[L], Heartbeats[1])
           all == force(first, Heartbeats[2])
<1>17. rxFilterConfigure(node, subs, capacity) = all
    BY DEF rxFilterConfigure, after, Obeys, append, wanted, L
<1>18. first \in S /\ \A id \in SUBSET Int :
            Through(after[L], id) \/ Passes(wanted(Heartbeats[1]), id) => Through(first, id)
    BY <1>14, <1>15, <1>16
<1> HIDE DEF first
<1>19. all \in S /\ \A id \in SUBSET Int :
            Through(first, id) \/ Passes(wanted(Heartbeats[2]), id) => Through(all, id)
    BY <1>15, <1>16, <1>18
<1> HIDE DEF all
<1>20. ASSUME NEW sub \in Range(subs) \cup Range(Heartbeats), NEW id \in SUBSET Int,
              Passes(wanted(sub), id)
       PROVE  Through(all, id)
    <2>1. CASE sub \in Range(subs)
        <3>1. PICK i \in 1..L : sub = subs[i]
            BY <1>1, <2>1 DEF Range
        <3>2. Through(after[L], id)
            BY <1>14, <1>20, <3>1
        <3> QED
            BY <1>18, <1>19, <3>2
    <2>2. CASE sub \in Range(Heartbeats)
        <3>1. sub = Heartbeats[1] \/ sub = Heartbeats[2]
            BY <2>2 DEF Range, Heartbeats
        <3> QED
            BY <1>18, <1>19, <1>20, <3>1
    <2> QED
        BY <2>1, <2>2
<1> QED
    BY <1>17, <1>19, <1>20 DEF S, wanted

\* The source is below the fields that a filter looks at, the priority above.
LEMMA OutOfTheMask ==
    /\ \A prio \in Nat : Shl(prio, 26) \in SUBSET Int /\ Shl(prio, 26) \cap 7..25 = {}
    /\ \A src \in 0..127 : Shl(src, 0) \in SUBSET Int /\ Shl(src, 0) \cap 7..25 = {}
<1>1. ASSUME NEW prio \in Nat, NEW x \in Shl(prio, 26) PROVE x \in Int /\ x >= 26
    BY <1>1 DEF Shl
<1>2. ASSUME NEW src \in 0..127, NEW x \in Shl(src, 0) PROVE x \in Int /\ x <= 6
    <2>1. PICK b \in 0..15 : (src \div 2^b) % 2 = 1 /\ x = 0 + b
        BY <1>2 DEF Shl
    <2>2. b \notin 7..15
        <3> DEFINE bit == [i \in 0..15 |-> (src \div 2^i) % 2]
        <3>1. src \div 2^7 = 0 /\ src \div 2^8 = 0 /\ src \div 2^9 = 0 /\ src \div 2^10 = 0
            OBVIOUS
        <3>2. src \div 2^11 = 0 /\ src \div 2^12 = 0 /\ src \div 2^13 = 0 /\ src \div 2^14 = 0
            OBVIOUS
        <3>3. src \div 2^15 = 0 /\ 0 % 2 = 0
            OBVIOUS
        <3>4. bit[7] = 0 /\ bit[8] = 0 /\ bit[9] = 0 /\ bit[10] = 0
            BY <3>1, <3>3
        <3>5. bit[11] = 0 /\ bit[12] = 0 /\ bit[13] = 0 /\ bit[14] = 0
            BY <3>2, <3>3
        <3>6. bit[15] = 0 /\ bit[b] = 1
            BY <2>1, <3>3
        <3> HIDE DEF bit
        <3> QED
            BY <3>4, <3>5, <3>6
    <2> QED
        BY <2>1, <2>2
<1> QED
    BY <1>1, <1>2

\* The identifier is one of a frame that is sent to the node on the port of a
\* subscription: what txEjectPending puts on the bus, or an anonymous frame of one
\* of the two message kinds, whose upper bits an anonymous v0 node draws at random.
RandomBits == 0..(2^14 - 1)
AnonymousV1(prio, port, src) ==
    {24} \cup Shl(prio, 26) \cup Shl(src, 0) \cup MessageID(Message13b, port)
AnonymousV0(prio, port, random) == Shl(prio, 26) \cup Shl(port + 4 * random, 8)

IsSentTo(id, node, kind, port) ==
    \/ \E prio \in 0..7, src \in 0..127 : id = FrameID(prio, kind, port, src, node)
    \/ kind = Message13b /\ \E prio \in 0..7, src \in 0..127 : id = AnonymousV1(prio, port, src)
    \/ /\ kind = V0Message /\ port <= 3
       /\ \E prio \in 0..7, random \in RandomBits : id = AnonymousV0(prio, port, random)

\* An anonymous v0 node's random bits leave the two of the data type ID alone.
LEMMA TwoBits ==
    ASSUME NEW port \in 0..3, NEW random \in Nat
    PROVE  Shl(port + 4 * random, 8) \cap 7..9 = Shl(port, 8) \cap 7..9
<1>1. /\ ((port + 4 * random) \div 2^0) % 2 = (port \div 2^0) % 2
      /\ ((port + 4 * random) \div 2^1) % 2 = (port \div 2^1) % 2
    OBVIOUS
<1>2. ASSUME NEW b \in 0..15, 8 + b \in 7..9 PROVE b = 0 \/ b = 1
    BY <1>2
<1>3. ASSUME NEW x \in 7..9
      PROVE  x \in Shl(port + 4 * random, 8) <=> x \in Shl(port, 8)
    <2>1. \A v \in Nat : x \in Shl(v, 8) <=> \E b \in {0, 1} : x = 8 + b /\ (v \div 2^b) % 2 = 1
        <3> TAKE v \in Nat
        <3>1. x \in Shl(v, 8) <=> \E b \in 0..15 : x = 8 + b /\ (v \div 2^b) % 2 = 1
            BY DEF Shl
        <3> QED
            BY <1>2, <3>1
    <2> QED
        BY <1>1, <2>1
<1> QED
    BY <1>3

LEMMA MaskedOut ==
    ASSUME NEW i \in SUBSET Int, NEW rest \in SUBSET Int, NEW mask \in SUBSET Int, rest \cap mask = {}
    PROVE  Passes(Filter(i, mask), rest \cup i)
BY DEF Passes, Filter

\* Every frame that is sent to a subscription passes the filter made for it.
LEMMA OwnFramesPass ==
    ASSUME NEW node \in Nat, NEW kind \in Kinds, NEW port \in Nat,
           NEW id, IsSentTo(id, node, kind, port)
    PROVE  id \in SUBSET Int /\ Passes(rxFilterForSubscription(node, <<kind, port>>), id)
<1> DEFINE f == rxFilterForSubscription(node, <<kind, port>>)
           Shown == id \in SUBSET Int /\ Passes(f, id)
<1> SUFFICES Shown
    OBVIOUS
<1>1. kind \in {Message16b, Message13b, Response, Request, V0Message, V0Response, V0Request}
    BY DEF Kinds, Message16b, Message13b, Response, Request, V0Message, V0Response, V0Request
<1>2. \A v, lo \in Nat : Shl(v, lo) \in SUBSET Int
    BY DEF Shl
<1>3. /\ Shl(port, 8) \in SUBSET Int
      /\ ServiceID(kind, port, node) \in SUBSET Int
      /\ V0ServiceID(kind, port, node) \in SUBSET Int
    BY <1>2 DEF ServiceID, V0ServiceID
<1>4. /\ kind = Message16b => f = Filter(Shl(port, 8) \cup {7}, 7..25)
      /\ kind = Message13b => f = Filter(Shl(port, 8), {25, 23} \cup 7..20)
      /\ kind \in {Response, Request} => f = Filter(ServiceID(kind, port, node), 7..25)
      /\ kind = V0Message => f = Filter(Shl(port, 8), IF port <= 3 THEN 7..9 ELSE 7..23)
      /\ kind \in {V0Response, V0Request} => f = Filter(V0ServiceID(kind, port, node), 7..23)
    BY DEF rxFilterForSubscription,
        Message16b, Message13b, Response, Request, V0Message, V0Response, V0Request
<1>5. /\ kind = Message16b => MessageID(kind, port) = Shl(port, 8) \cup {7}
      /\ kind = Message13b => MessageID(kind, port) = {21, 22} \cup Shl(port, 8)
      /\ kind = V0Message => MessageID(kind, port) = Shl(port, 8)
    BY DEF MessageID, Message16b, Message13b, V0Message
<1> HIDE DEF f
\* What is outside the mask of the filter does not matter.
<1>6. ASSUME NEW i \in SUBSET Int, NEW rest \in SUBSET Int, NEW mask \in SUBSET Int,
             rest \cap mask = {}, f = Filter(i, mask), id = rest \cup i
      PROVE  Shown
    BY <1>6, MaskedOut
<1>7. CASE \E prio \in 0..7, src \in 0..127 : id = FrameID(prio, kind, port, src, node)
    <2>1. PICK prio \in 0..7, src \in 0..127 : id = FrameID(prio, kind, port, src, node)
        BY <1>7
    <2> DEFINE rest == Shl(prio, 26) \cup Shl(src, 0)
    <2>2. rest \in SUBSET Int /\ rest \cap 7..25 = {}
        BY OutOfTheMask
    <2>3. /\ kind \in {Message16b, Message13b, V0Message} => id = rest \cup MessageID(kind, port)
          /\ kind \in {Response, Request} => id = rest \cup ServiceID(kind, port, node)
          /\ kind \in {V0Response, V0Request} => id = rest \cup V0ServiceID(kind, port, node)
        BY <2>1 DEF FrameID,
            Message16b, Message13b, Response, Request, V0Message, V0Response, V0Request
    <2> HIDE DEF rest, Shown
    <2>4. CASE kind = Message16b
        <3> DEFINE i == Shl(port, 8) \cup {7}
        <3>1. id = rest \cup i
            BY <1>5, <2>3, <2>4
        <3>2. f = Filter(i, 7..25) /\ i \in SUBSET Int /\ 7..25 \in SUBSET Int
            BY <1>3, <1>4, <2>4
        <3> HIDE DEF i
        <3> QED
            BY <1>6, <2>2, <3>1, <3>2
    <2>5. CASE kind = Message13b
        <3> DEFINE more == rest \cup {21, 22}
        <3>1. id = more \cup Shl(port, 8)
            <4>1. id = rest \cup ({21, 22} \cup Shl(port, 8))
                BY <1>5, <2>3, <2>5
            <4> QED
                BY <4>1
        <3> DEFINE mask == {25, 23} \cup 7..20
        <3>2. f = Filter(Shl(port, 8), mask)
            BY <1>4, <2>5
        <3>3. more \in SUBSET Int /\ mask \in SUBSET Int /\ more \cap mask = {}
            BY <2>2
        <3> HIDE DEF more, mask
        <3> QED
            BY <1>3, <1>6, <3>1, <3>2, <3>3
    <2>6. CASE kind = V0Message
        <3> DEFINE mask == IF port <= 3 THEN 7..9 ELSE 7..23
        <3>1. id = rest \cup Shl(port, 8)
            BY <1>5, <2>3, <2>6
        <3>2. f = Filter(Shl(port, 8), mask)
            BY <1>4, <2>6
        <3>3. mask \in SUBSET Int /\ rest \cap mask = {}
            BY <2>2
        <3> HIDE DEF mask
        <3> QED
            BY <1>3, <1>6, <2>2, <3>1, <3>2, <3>3
    <2>7. CASE kind \in {Response, Request}
        <3>1. id = rest \cup ServiceID(kind, port, node)
            BY <2>3, <2>7
        <3>2. f = Filter(ServiceID(kind, port, node), 7..25) /\ 7..25 \in SUBSET Int
            BY <1>4, <2>7
        <3> QED
            BY <1>3, <1>6, <2>2, <3>1, <3>2
    <2>8. CASE kind \in {V0Response, V0Request}
        <3>1. id = rest \cup V0ServiceID(kind, port, node)
            BY <2>3, <2>8
        <3>2. f = Filter(V0ServiceID(kind, port, node), 7..23)
            BY <1>4, <2>8
        <3>3. 7..23 \in SUBSET Int /\ rest \cap 7..23 = {}
            BY <2>2
        <3> QED
            BY <1>3, <1>6, <2>2, <3>1, <3>2, <3>3
    <2> QED
        BY <1>1, <2>4, <2>5, <2>6, <2>7, <2>8
<1>8. CASE /\ kind = Message13b
           /\ \E prio \in 0..7, src \in 0..127 : id = AnonymousV1(prio, port, src)
    <2>1. PICK prio \in 0..7, src \in 0..127 : id = AnonymousV1(prio, port, src)
        BY <1>8
    <2> DEFINE rest == Shl(prio, 26) \cup Shl(src, 0)
               more == {24} \cup rest \cup {21, 22}
    <2>2. rest \in SUBSET Int /\ rest \cap 7..25 = {}
        BY OutOfTheMask
    <2>3. id = {24} \cup rest \cup MessageID(kind, port)
        BY <1>8, <2>1 DEF AnonymousV1
    <2> HIDE DEF rest, Shown
    <2>4. id = more \cup Shl(port, 8)
        BY <1>5, <1>8, <2>3
    <2> DEFINE mask == {25, 23} \cup 7..20
    <2>5. f = Filter(Shl(port, 8), mask)
        BY <1>4, <1>8
    <2>6. more \in SUBSET Int /\ mask \in SUBSET Int /\ more \cap mask = {}
        BY <2>2
    <2> HIDE DEF more, mask
    <2> QED
        BY <1>3, <1>6, <2>4, <2>5, <2>6
<1>9. ASSUME kind = V0Message, port <= 3, NEW prio \in 0..7, NEW random \in RandomBits,
             id = AnonymousV0(prio, port, random)
      PROVE  Shown
    <2>1. port \in 0..3 /\ random \in Nat /\ prio \in Nat
        BY <1>9 DEF RandomBits
    <2> DEFINE p == Shl(prio, 26)
               t == Shl(port + 4 * random, 8)
    <2>2. p \in SUBSET Int /\ p \cap 7..25 = {}
        BY OutOfTheMask
    <2>3. t \in SUBSET Int
        BY <1>2, <2>1
    <2>4. t \cap 7..9 = Shl(port, 8) \cap 7..9
        BY <2>1, TwoBits
    <2>5. f = Filter(Shl(port, 8), 7..9)
        BY <1>4, <1>9
    <2>6. id = p \cup t
        BY <1>9 DEF AnonymousV0
    <2> HIDE DEF p, t
    <2>7. id \cap 7..9 = Shl(port, 8) \cap 7..9
        BY <2>2, <2>4, <2>6
    <2> QED
        BY <2>2, <2>3, <2>5, <2>6, <2>7 DEF Filter, Passes
<1> QED
    BY <1>7, <1>8, <1>9 DEF IsSentTo

\* However many subscriptions share however few hardware filters: unless a
\* reconfiguration is pending, the filters are no more than the hardware has, and
\* every frame that is sent to a subscribed port of this node, and every
\* heartbeat, passes one of them.
NoSubscriptionShutOut ==
    FilterCount > 0 /\ ~filtersDirty =>
        \A subs \in Seq(Kinds \X Nat) :
            LET filters == rxFilterConfigure(filterNode, subs, FilterCount)
            IN  /\ Len(filters) <= FilterCount
                /\ \A sub \in Range(subs) \cup Range(Heartbeats) :
                    \A id : IsSentTo(id, NodeID, sub[1], sub[2]) => Through(filters, id)

LEMMA FollowingServes == NodeTypeOK /\ FiltersFollowNodeID => NoSubscriptionShutOut
<1> SUFFICES ASSUME NodeTypeOK, FiltersFollowNodeID, FilterCount > 0, ~filtersDirty,
                    NEW subs \in Seq(Kinds \X Nat)
             PROVE  LET filters == rxFilterConfigure(filterNode, subs, FilterCount)
                    IN  /\ Len(filters) <= FilterCount
                        /\ \A sub \in Range(subs) \cup Range(Heartbeats) :
                            \A id : IsSentTo(id, NodeID, sub[1], sub[2]) => Through(filters, id)
    BY DEF NoSubscriptionShutOut
<1> DEFINE filters == rxFilterConfigure(NodeID, subs, FilterCount)
<1>1. filterNode = NodeID /\ NodeID \in Nat /\ FilterCount \in Nat \ {0}
    BY NodeIDAssumption DEF FiltersFollowNodeID, NodeTypeOK, NodeIDs
<1>2. /\ Len(filters) <= FilterCount
      /\ \A sub \in Range(subs) \cup Range(Heartbeats), id \in SUBSET Int :
            Passes(rxFilterForSubscription(NodeID, sub), id) => Through(filters, id)
    BY <1>1, ConfigureKeeps
<1>3. ASSUME NEW sub \in Range(subs) \cup Range(Heartbeats) PROVE sub \in Kinds \X Nat
    <2>1. Range(subs) \subseteq Kinds \X Nat
        BY ElementOfSeq, LenProperties DEF Range
    <2>2. Range(Heartbeats) \subseteq Kinds \X Nat
        BY DEF Range, Heartbeats, Kinds, Message16b, Message13b, V0Message, V0Request
    <2> QED
        BY <2>1, <2>2
<1> HIDE DEF filters
<1>4. ASSUME NEW sub \in Range(subs) \cup Range(Heartbeats),
             NEW id, IsSentTo(id, NodeID, sub[1], sub[2])
      PROVE  Through(filters, id)
    <2>1. sub = <<sub[1], sub[2]>> /\ sub[1] \in Kinds /\ sub[2] \in Nat
        BY <1>3
    <2>2. id \in SUBSET Int /\ Passes(rxFilterForSubscription(NodeID, sub), id)
        BY <1>1, <1>4, <2>1, OwnFramesPass
    <2> QED
        BY <1>2, <2>2
<1> QED
    BY <1>1, <1>2, <1>4 DEF filters

-----------------------------------------------------------------------------
(***************************************************************************)
(* The node-ID and the filters of the whole instance, which Destroy zeroes *)
(* and nothing changes after that.                                         *)
(***************************************************************************)
InstanceInv ==
    /\ alive => NodeInv
    /\ ~alive => NodeID = 0 /\ occupancy = {}

LEMMA InstanceInit == Init => InstanceInv
  BY NodeInitInv DEF Init, InstanceInv

LEMMA InstanceStep == InstanceInv /\ [Next]_vars => InstanceInv'
  <1> SUFFICES ASSUME InstanceInv, [Next]_vars PROVE InstanceInv'
    OBVIOUS
  <1>1. ASSUME UNCHANGED <<nodeVars, alive>> PROVE InstanceInv'
    BY <1>1 DEF InstanceInv, NodeInv, NodeTypeOK, FreeIDRemains, NodeIDNotHeard,
                FiltersFollowNodeID, nodeVars
  <1>2. ASSUME alive, alive' = alive, [NodeNext]_nodeVars PROVE InstanceInv'
    BY <1>2, NodeStep DEF InstanceInv
  <1>3. ASSUME NEW id \in CanIDs, NEW size \in PayloadSizes, NEW d \in Deadlines,
               Publish(id, size, d) \/ V0Publish(id, size, d)
        PROVE  InstanceInv'
    BY <1>1, <1>3 DEF Publish, V0Publish, Enqueue
  <1>4. ASSUME NEW b \in BOOLEAN, SetClassicCAN(b) PROVE InstanceInv'
    BY <1>1, <1>4 DEF SetClassicCAN
  <1>5. ASSUME NEW id \in AssignedIDs, SetNodeID(id) PROVE InstanceInv'
    BY <1>2, <1>5, TxAssumption DEF SetNodeID, Idle, NodeNext
  <1>6. ASSUME NEW f \in Live, RefCountInc(f) \/ RefCountDec(f) PROVE InstanceInv'
    BY <1>1, <1>6 DEF RefCountInc, RefCountDec
  <1>7. CASE Destroy
    BY <1>7 DEF Destroy, InstanceInv
  <1>8. ASSUME NEW src \in PeerIDs, IngestStartFrame(src) PROVE InstanceInv'
    BY <1>2, <1>8, TxAssumption DEF IngestStartFrame, Idle, NodeNext
  <1>9. ASSUME NEW txReady \in BOOLEAN, Poll(txReady) PROVE InstanceInv'
    BY <1>2, <1>9 DEF Poll, Idle, NodeNext
  <1>10. CASE EjectStep
    BY <1>1, <1>10 DEF EjectStep, Eject, EjectRefused, EjectDone
  <1>11. CASE Tick
    BY <1>1, <1>11 DEF Tick
  <1>12. CASE UNCHANGED vars
    BY <1>1, <1>12 DEF vars, nodeVars
  <1> QED
    BY <1>3, <1>4, <1>5, <1>6, <1>7, <1>8, <1>9, <1>10, <1>11, <1>12 DEF Next, Application

\* Whatever the application and the bus do to the instance, a collision finds a
\* free node-ID, the node-ID is not one heard from another node, and unless a
\* reconfiguration is pending the filters of rxFilterConfigure shut out no frame
\* that is sent to a subscription: for any number of subscriptions, on any ports,
\* sharing any number of hardware filters.
THEOREM InstanceReachable ==
    Spec => [](NodeIDSound /\ (alive => NoSubscriptionShutOut))
  <1>1. InstanceInv => NodeIDSound
    <2>1. CASE alive
      BY <2>1 DEF InstanceInv, NodeInv, NodeIDSound
    <2>2. CASE ~alive
      BY <2>2, FS_EmptySet, NodeIDAssumption
         DEF InstanceInv, NodeIDSound, FreeIDRemains, NodeIDNotHeard, NodeIDCapacity
    <2> QED
      BY <2>1, <2>2
  <1>2. InstanceInv => (alive => NoSubscriptionShutOut)
    BY FollowingServes DEF InstanceInv, NodeInv
  <1> QED
    BY InstanceInit, InstanceStep, <1>1, <1>2, PTL DEF Spec
=============================================================================
