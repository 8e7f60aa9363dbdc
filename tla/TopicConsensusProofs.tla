------------------------ MODULE TopicConsensusProofs ------------------------
(***************************************************************************)
(* Proofs about TopicConsensus: an allocation ends, whatever topics defeat *)
(* each other in it; it leaves the subject-ID index, the readers and the   *)
(* eviction counters of the node consistent; and so does every handler.    *)
(***************************************************************************)
EXTENDS TopicConsensus, FiniteSetTheorems, SequenceTheorems, WellFoundedInduction, TLAPS

-----------------------------------------------------------------------------
(***************************************************************************)
(* Induction, with a set in place of the predicate.                        *)
(***************************************************************************)
LEMMA LeastNumber ==
    ASSUME NEW T \in SUBSET Nat, T # {}
    PROVE  \E x \in T : \A y \in T : x <= y
<1>1. PICK x \in T : \A y \in T : ~(<<y, x>> \in OpToRel(<, Nat))
    <2>1. IsWellFoundedOn(OpToRel(<, Nat), Nat)
        BY NatLessThanWellFounded
    <2> QED
        BY ONLY <2>1, WFMin, T \in SUBSET Nat, T # {}
<1>2. ASSUME NEW y \in T, ~(x <= y) PROVE FALSE
    <2>1. y < x /\ x \in Nat /\ y \in Nat
        BY <1>2
    <2>2. <<y, x>> \in OpToRel(<, Nat)
        BY <2>1 DEF OpToRel
    <2> QED
        BY <1>1, <2>2
<1> QED
    BY <1>2

LEMMA SetInduction ==
    ASSUME NEW T, 0 \in T, \A n \in Nat : n \in T => n + 1 \in T
    PROVE  \A n \in Nat : n \in T
<1> SUFFICES ASSUME Nat \ T # {} PROVE FALSE
    OBVIOUS
<1>1. PICK x \in Nat \ T : \A y \in Nat \ T : x <= y
    BY LeastNumber
<1>2. x # 0 /\ x \in Nat
    BY <1>1
<1>3. x - 1 \in Nat /\ x - 1 \in T
    BY <1>1, <1>2
<1> QED
    BY <1>1, <1>3

\* A step function has an orbit from every point.
IsOrbit(f, S, F, s) ==
    f \in [Nat -> S] /\ f[0] = s /\ \A n \in Nat : f[n + 1] = F[f[n]]

LEMMA Iteration ==
    ASSUME NEW S, NEW F \in [S -> S], NEW s \in S
    PROVE  \E f : IsOrbit(f, S, F, s)
<1> DEFINE Orbit(g, n) ==
        g \in [0..n -> S] /\ g[0] = s /\ \A i \in 0..(n - 1) : g[i + 1] = F[g[i]]
           T == {n \in Nat : \E g : Orbit(g, n)}
<1>1. 0 \in T
    <2>1. Orbit([i \in 0..0 |-> s], 0)
        OBVIOUS
    <2> QED
        BY <2>1
<1>2. ASSUME NEW n \in Nat, n \in T PROVE n + 1 \in T
    <2>1. PICK g : Orbit(g, n)
        BY <1>2
    <2> DEFINE h == [i \in 0..(n + 1) |-> IF i = n + 1 THEN F[g[n]] ELSE g[i]]
    <2>2. h \in [0..(n + 1) -> S]
        BY <2>1
    <2>3. h[0] = s
        BY <2>1
    <2>4. ASSUME NEW i \in 0..n PROVE h[i + 1] = F[h[i]]
        <3>1. CASE i = n
            BY <3>1
        <3>2. CASE i # n
            <4>1. i \in 0..(n - 1) /\ i + 1 \in 0..(n + 1) /\ i + 1 # n + 1 /\ i # n + 1
                BY <3>2
            <4> QED
                BY <2>1, <4>1
        <3> QED
            BY <3>1, <3>2
    <2> HIDE DEF h
    <2>5. (n + 1) - 1 = n
        OBVIOUS
    <2>6. Orbit(h, n + 1)
        BY <2>2, <2>3, <2>4, <2>5
    <2> HIDE DEF Orbit
    <2> QED
        BY <2>6
<1>3. \A n \in Nat : n \in T
    <2> HIDE DEF T
    <2> QED
        BY <1>1, <1>2, SetInduction
<1>4. ASSUME NEW n \in Nat, NEW m \in Nat, NEW g, NEW h, Orbit(g, n), Orbit(h, m)
      PROVE  \A i \in Nat : i <= n /\ i <= m => g[i] = h[i]
    <2> DEFINE U == {i \in Nat : i <= n /\ i <= m => g[i] = h[i]}
    <2>1. 0 \in U
        BY <1>4
    <2>2. ASSUME NEW i \in Nat, i \in U PROVE i + 1 \in U
        <3>1. ASSUME i + 1 <= n, i + 1 <= m PROVE g[i + 1] = h[i + 1]
            <4>1. i \in 0..(n - 1) /\ i \in 0..(m - 1) /\ g[i] = h[i]
                BY <2>2, <3>1
            <4> QED
                BY <1>4, <4>1
        <3> QED
            BY <3>1
    <2>3. \A i \in Nat : i \in U
        <3> HIDE DEF U
        <3> QED
            BY <2>1, <2>2, SetInduction
    <2> QED
        BY <2>3
<1> DEFINE o == [n \in Nat |-> CHOOSE g : Orbit(g, n)]
           f == [n \in Nat |-> o[n][n]]
<1>5. \A n \in Nat : Orbit(o[n], n)
    <2> SUFFICES ASSUME NEW n \in Nat PROVE Orbit(o[n], n)
        OBVIOUS
    <2>1. \E g : Orbit(g, n)
        BY <1>3
    <2> HIDE DEF Orbit
    <2>2. Orbit(CHOOSE g : Orbit(g, n), n)
        BY <2>1
    <2> QED
        BY <2>2
<1>6. f \in [Nat -> S]
    <2> SUFFICES ASSUME NEW n \in Nat PROVE o[n][n] \in S
        OBVIOUS
    <2> HIDE DEF o, Orbit
    <2>1. Orbit(o[n], n)
        BY <1>5
    <2> QED
        BY <2>1 DEF Orbit
<1>7. f[0] = s
    BY <1>5
<1>8. ASSUME NEW n \in Nat PROVE f[n + 1] = F[f[n]]
    <2> HIDE DEF o
    <2>1. n + 1 \in Nat /\ n \in 0..((n + 1) - 1)
        OBVIOUS
    <2>2. o[n + 1][n + 1] = F[o[n + 1][n]]
        BY <1>5, <2>1
    <2>3. o[n + 1][n] = o[n][n]
        <3>1. n <= n /\ n <= n + 1 /\ Orbit(o[n], n) /\ Orbit(o[n + 1], n + 1)
            BY <1>5, <2>1
        <3> HIDE DEF Orbit
        <3> QED
            BY <1>4, <2>1, <3>1
    <2> QED
        BY <2>1, <2>2, <2>3
<1> HIDE DEF f
<1> QED
    BY <1>6, <1>7, <1>8 DEF IsOrbit

\* Powers of two are numbers: they count the subsets of an interval.
LEMMA PowerType ==
    ASSUME NEW n \in Nat
    PROVE  2^n \in Nat
<1>1. IsFiniteSet(1..n) /\ Cardinality(1..n) = n
    <2>1. n < 1 => 1..n = {}
        OBVIOUS
    <2> QED
        BY <2>1, FS_Interval, FS_EmptySet
<1>2. IsFiniteSet(SUBSET (1..n)) /\ Cardinality(SUBSET (1..n)) = 2^Cardinality(1..n)
    BY <1>1, FS_SUBSET
<1> QED
    BY <1>1, <1>2, FS_CardinalityType

-----------------------------------------------------------------------------
(***************************************************************************)
(* The state of one node.                                                  *)
(***************************************************************************)
Topic == [tsOrigin : Int, evictions : 0..EvictionsMax, pinned : BOOLEAN,
          subjectID : Int, reader : Int \cup {None}, gossipCounter : Int]

Node == [topics : UNION {[T -> Topic] : T \in SUBSET Topics},
         index : UNION {[S -> Topics] : S \in SUBSET Int},
         urgent : SUBSET Topics, periodic : SUBSET Topics]

\* What is indexed is a topic of the node that is not pinned, at its subject-ID.
Indexed(st) ==
    \A s \in DOMAIN st.index :
        /\ st.index[s] \in DOMAIN st.topics
        /\ st.topics[st.index[s]].subjectID = s
        /\ ~st.topics[st.index[s]].pinned

\* An open reader is on the subject of its topic.
Following(st) ==
    \A t \in DOMAIN st.topics : st.topics[t].reader \in {None, st.topics[t].subjectID}

\* Gossips are scheduled for topics of the node.
Scheduled(st) == st.urgent \cup st.periodic \subseteq DOMAIN st.topics

\* The topic uses the subject-ID that its eviction counter stands for.
Allotted(t, tp) ==
    /\ tp.pinned = isPinned(tp.evictions)
    /\ tp.subjectID = IF isPinned(tp.evictions) THEN EvictionsMax - tp.evictions
                      ELSE ComputeSubjectID(t, tp.evictions)

Consistent(st) == st \in Node /\ Indexed(st) /\ Following(st) /\ Scheduled(st)

\* The state of a node between two handlers.
Sound(st) ==
    /\ Consistent(st)
    /\ \A t \in DOMAIN st.topics : Allotted(t, st.topics[t])

LEMMA Constants ==
    /\ Modulus \in Nat \ {0} /\ SubjectIDPinnedMax \in Nat /\ EvictionsMax \in Nat
    /\ SubjectIDPinnedMax <= EvictionsMax /\ Topics \subseteq Nat /\ IsFiniteSet(Topics)
    /\ None \notin Topics /\ None \notin Int /\ PinNone \notin Int
    /\ Pins \subseteq 0..SubjectIDPinnedMax
<1>1. Modulus \in Nat \ {0} /\ EvictionsMax \in Nat /\ SubjectIDPinnedMax \in 0..EvictionsMax
    BY ConsensusAssumption DEF ConsensusAssumption
<1>2. None \notin Topics
    <2>1. \A t \in Topics : t \in Int
        BY ConsensusAssumption DEF ConsensusAssumption
    <2>2. None \notin Int
        BY NothingAssumption DEF NothingAssumption
    <2> QED
        BY <2>1, <2>2, Zenon
<1> QED
    BY <1>1, <1>2, ConsensusAssumption, NothingAssumption
    DEF ConsensusAssumption, NothingAssumption

LEMMA NodeParts ==
    ASSUME NEW st \in Node
    PROVE  /\ DOMAIN st.topics \subseteq Topics /\ st.topics \in [DOMAIN st.topics -> Topic]
           /\ DOMAIN st.index \subseteq Int /\ st.index \in [DOMAIN st.index -> Topics]
           /\ st.urgent \subseteq Topics /\ st.periodic \subseteq Topics
           /\ st = [topics |-> st.topics, index |-> st.index,
                    urgent |-> st.urgent, periodic |-> st.periodic]
<1>1. /\ st.topics \in UNION {[T -> Topic] : T \in SUBSET Topics}
      /\ st.index \in UNION {[S -> Topics] : S \in SUBSET Int}
      /\ st.urgent \in SUBSET Topics /\ st.periodic \in SUBSET Topics
      /\ st = [topics |-> st.topics, index |-> st.index,
               urgent |-> st.urgent, periodic |-> st.periodic]
    BY DEF Node
<1>2. PICK T \in SUBSET Topics : st.topics \in [T -> Topic]
    BY <1>1
<1>3. PICK S \in SUBSET Int : st.index \in [S -> Topics]
    BY <1>1
<1> QED
    BY <1>1, <1>2, <1>3

LEMMA NodeMade ==
    ASSUME NEW topics, NEW index, NEW urgent \in SUBSET Topics, NEW periodic \in SUBSET Topics,
           DOMAIN topics \subseteq Topics, topics \in [DOMAIN topics -> Topic],
           DOMAIN index \subseteq Int, index \in [DOMAIN index -> Topics]
    PROVE  [topics |-> topics, index |-> index, urgent |-> urgent, periodic |-> periodic] \in Node
BY DEF Node

LEMMA SubjectIDType ==
    ASSUME NEW t \in Topics, NEW e \in Nat
    PROVE  ComputeSubjectID(t, e) \in Nat
<1>1. t \in Nat /\ Modulus \in Nat \ {0} /\ SubjectIDPinnedMax \in Nat
    BY Constants
<1>2. t % Modulus \in Nat /\ e % Modulus \in Nat
    BY <1>1
<1>3. (e % Modulus) * (e % Modulus) \in Nat
    BY <1>2
<1>4. ((t % Modulus) + (((e % Modulus) * (e % Modulus)) % Modulus)) % Modulus \in Nat
    BY <1>1, <1>2, <1>3
<1> QED
    BY <1>1, <1>4 DEF ComputeSubjectID

LEMMA LageToUSType ==
    ASSUME NEW lage \in Int
    PROVE  LageToUS(lage) \in Nat
<1>1. 2^35 \in Nat
    BY PowerType
<1>2. ~(lage < 0) => 2^lage \in Nat
    BY PowerType
<1> QED
    BY <1>1, <1>2 DEF LageToUS, LAGEMax

LEMMA LageType ==
    ASSUME NEW tp \in Topic, now \in Int
    PROVE  Lage(tp) \in Int
<1> DEFINE x == now - tp.tsOrigin
           B == {k \in 0..x : 2^k <= x}
<1>1. x \in Int
    BY DEF Topic
<1>2. IsFiniteSet(0..x)
    BY <1>1, FS_Interval
<1>3. IsFiniteSet(B) /\ Cardinality(B) \in Nat
    BY <1>2, FS_Subset, FS_CardinalityType
<1> QED
    BY <1>3 DEF Lage, Log2Floor

-----------------------------------------------------------------------------
(***************************************************************************)
(* One call of topicAllocate.                                              *)
(***************************************************************************)
\* The same topics of the same ages.
SameAges(st, to) ==
    /\ DOMAIN to.topics = DOMAIN st.topics
    /\ \A t \in DOMAIN st.topics : to.topics[t].tsOrigin = st.topics[t].tsOrigin

LEMMA ResyncEffect ==
    ASSUME NEW tp \in Topic, NEW ok
    PROVE  /\ resyncTopicReader(tp, ok) \in Topic
           /\ resyncTopicReader(tp, ok).reader \in {None, tp.subjectID}
           /\ resyncTopicReader(tp, ok).tsOrigin = tp.tsOrigin
           /\ resyncTopicReader(tp, ok).evictions = tp.evictions
           /\ resyncTopicReader(tp, ok).pinned = tp.pinned
           /\ resyncTopicReader(tp, ok).subjectID = tp.subjectID
BY DEF resyncTopicReader, Topic

\* A topic is replaced by one of the same type.
LEMMA ReplaceTopic ==
    ASSUME NEW st \in Node, NEW t \in DOMAIN st.topics, NEW tp \in Topic
    PROVE  /\ [st EXCEPT !.topics[t] = tp] \in Node
           /\ [st EXCEPT !.topics[t] = tp].index = st.index
           /\ [st EXCEPT !.topics[t] = tp].urgent = st.urgent
           /\ [st EXCEPT !.topics[t] = tp].periodic = st.periodic
           /\ DOMAIN [st EXCEPT !.topics[t] = tp].topics = DOMAIN st.topics
           /\ [st EXCEPT !.topics[t] = tp].topics[t] = tp
           /\ \A u \in DOMAIN st.topics \ {t} :
                [st EXCEPT !.topics[t] = tp].topics[u] = st.topics[u]
<1> DEFINE topics == [st.topics EXCEPT ![t] = tp]
           made == [topics |-> topics, index |-> st.index,
                    urgent |-> st.urgent, periodic |-> st.periodic]
<1>1. [st EXCEPT !.topics[t] = tp] = made
    BY NodeParts
<1>2. topics \in [DOMAIN st.topics -> Topic] /\ DOMAIN topics = DOMAIN st.topics
    BY NodeParts
<1>3. made \in Node
    <2> HIDE DEF topics
    <2> QED
        BY <1>2, NodeMade, NodeParts
<1>4. topics[t] = tp /\ \A u \in DOMAIN st.topics \ {t} : topics[u] = st.topics[u]
    BY NodeParts
<1> QED
    BY <1>1, <1>2, <1>3, <1>4

LEMMA UrgentEffect ==
    ASSUME NEW st \in Node, NEW t \in DOMAIN st.topics
    PROVE  /\ ScheduleUrgent(st, t) \in Node
           /\ ScheduleUrgent(st, t).index = st.index
           /\ ScheduleUrgent(st, t).urgent = st.urgent \cup {t}
           /\ ScheduleUrgent(st, t).periodic = st.periodic
           /\ DOMAIN ScheduleUrgent(st, t).topics = DOMAIN st.topics
           /\ ScheduleUrgent(st, t).topics[t] = [st.topics[t] EXCEPT !.gossipCounter = 0]
           /\ \A u \in DOMAIN st.topics \ {t} :
                ScheduleUrgent(st, t).topics[u] = st.topics[u]
<1> DEFINE tp == [st.topics[t] EXCEPT !.gossipCounter = 0]
           topics == [st.topics EXCEPT ![t] = tp]
           made == [topics |-> topics, index |-> st.index,
                    urgent |-> st.urgent \cup {t}, periodic |-> st.periodic]
<1>1. ScheduleUrgent(st, t) = made
    <2>1. ScheduleUrgent(st, t) = [[st EXCEPT !.urgent = st.urgent \cup {t}]
                                       EXCEPT !.topics = topics]
        BY DEF ScheduleUrgent
    <2> QED
        BY <2>1, NodeParts
<1>2. st.topics[t] \in Topic
    BY NodeParts
<1>3. tp \in Topic
    BY <1>2 DEF Topic
<1>4. topics \in [DOMAIN st.topics -> Topic] /\ DOMAIN topics = DOMAIN st.topics
    BY <1>3, NodeParts
<1>5. made \in Node
    <2> HIDE DEF topics
    <2>1. st.urgent \cup {t} \in SUBSET Topics
        BY NodeParts
    <2> QED
        BY <1>4, <2>1, NodeMade, NodeParts
<1>6. topics[t] = tp /\ \A u \in DOMAIN st.topics \ {t} : topics[u] = st.topics[u]
    BY NodeParts
<1> QED
    BY <1>1, <1>4, <1>5, <1>6

LEMMA SettleEffect ==
    ASSUME NEW st \in Node, NEW t \in DOMAIN st.topics, NEW e \in 0..EvictionsMax,
           NEW sid \in Int, NEW ok
    PROVE  /\ Settle(st, t, e, sid, ok) \in Node
           /\ Settle(st, t, e, sid, ok).index = st.index
           /\ Settle(st, t, e, sid, ok).urgent = st.urgent \cup {t}
           /\ Settle(st, t, e, sid, ok).periodic = st.periodic
           /\ DOMAIN Settle(st, t, e, sid, ok).topics = DOMAIN st.topics
           /\ \A u \in DOMAIN st.topics \ {t} :
                Settle(st, t, e, sid, ok).topics[u] = st.topics[u]
           /\ Settle(st, t, e, sid, ok).topics[t].tsOrigin = st.topics[t].tsOrigin
           /\ Settle(st, t, e, sid, ok).topics[t].evictions = e
           /\ Settle(st, t, e, sid, ok).topics[t].pinned = isPinned(e)
           /\ Settle(st, t, e, sid, ok).topics[t].subjectID = sid
           /\ Settle(st, t, e, sid, ok).topics[t].reader \in {None, sid}
<1> DEFINE moved == [st.topics[t] EXCEPT !.evictions = e, !.pinned = isPinned(e),
                                         !.subjectID = sid]
           tp == resyncTopicReader(moved, ok)
           placed == [st EXCEPT !.topics[t] = tp]
<1>1. st.topics[t] \in Topic
    BY NodeParts
<1>2. isPinned(e) \in BOOLEAN
    BY DEF isPinned
<1>3. /\ moved \in Topic /\ moved.tsOrigin = st.topics[t].tsOrigin /\ moved.evictions = e
      /\ moved.pinned = isPinned(e) /\ moved.subjectID = sid
    BY <1>1, <1>2 DEF Topic
<1>4. /\ tp \in Topic /\ tp.reader \in {None, sid} /\ tp.tsOrigin = st.topics[t].tsOrigin
      /\ tp.evictions = e /\ tp.pinned = isPinned(e) /\ tp.subjectID = sid
    <2> HIDE DEF moved
    <2> QED
        BY <1>3, ResyncEffect
<1>5. Settle(st, t, e, sid, ok) = ScheduleUrgent(placed, t)
    BY DEF Settle
<1> HIDE DEF tp
<1>6. /\ placed \in Node /\ placed.index = st.index /\ placed.urgent = st.urgent
      /\ placed.periodic = st.periodic /\ DOMAIN placed.topics = DOMAIN st.topics
      /\ placed.topics[t] = tp
      /\ \A u \in DOMAIN st.topics \ {t} : placed.topics[u] = st.topics[u]
    BY <1>4, ReplaceTopic
<1> HIDE DEF placed
<1>7. LET q == [tp EXCEPT !.gossipCounter = 0]
      IN  /\ q.tsOrigin = tp.tsOrigin /\ q.evictions = tp.evictions /\ q.pinned = tp.pinned
          /\ q.subjectID = tp.subjectID /\ q.reader = tp.reader
    BY <1>4 DEF Topic
<1>8. /\ ScheduleUrgent(placed, t) \in Node
      /\ ScheduleUrgent(placed, t).index = st.index
      /\ ScheduleUrgent(placed, t).urgent = st.urgent \cup {t}
      /\ ScheduleUrgent(placed, t).periodic = st.periodic
      /\ DOMAIN ScheduleUrgent(placed, t).topics = DOMAIN st.topics
      /\ ScheduleUrgent(placed, t).topics[t] = [tp EXCEPT !.gossipCounter = 0]
      /\ \A u \in DOMAIN st.topics \ {t} :
            ScheduleUrgent(placed, t).topics[u] = st.topics[u]
    BY <1>6, UrgentEffect
<1> QED
    BY <1>4, <1>5, <1>7, <1>8

LEMMA ReindexEffect ==
    ASSUME NEW st \in Node, NEW index, DOMAIN index \subseteq Int,
           index \in [DOMAIN index -> Topics]
    PROVE  /\ [st EXCEPT !.index = index] \in Node
           /\ [st EXCEPT !.index = index].index = index
           /\ [st EXCEPT !.index = index].topics = st.topics
           /\ [st EXCEPT !.index = index].urgent = st.urgent
           /\ [st EXCEPT !.index = index].periodic = st.periodic
<1>1. [st EXCEPT !.index = index] = [topics |-> st.topics, index |-> index,
                                     urgent |-> st.urgent, periodic |-> st.periodic]
    BY NodeParts
<1> QED
    BY <1>1, NodeMade, NodeParts

\* Deindex takes the topic out of the index, and at most another one that is
\* indexed where it is.
LEMMA DeindexEffect ==
    ASSUME NEW st, Consistent(st), NEW t \in DOMAIN st.topics
    PROVE  /\ DOMAIN Deindex(st, t) \subseteq DOMAIN st.index
           /\ Deindex(st, t) \in [DOMAIN Deindex(st, t) -> Topics]
           /\ \A s \in DOMAIN Deindex(st, t) :
                Deindex(st, t)[s] = st.index[s] /\ Deindex(st, t)[s] # t
<1>1. st \in Node /\ st.index \in [DOMAIN st.index -> Topics]
    BY NodeParts DEF Consistent
<1>2. CASE st.topics[t].pinned
    <2>1. \A s \in DOMAIN st.index : st.index[s] # t
        BY <1>2 DEF Consistent, Indexed
    <2> QED
        BY <1>1, <1>2, <2>1 DEF Deindex
<1>3. CASE ~st.topics[t].pinned
    <2>1. Deindex(st, t) = [s \in DOMAIN st.index \ {st.topics[t].subjectID} |-> st.index[s]]
        BY <1>3 DEF Deindex, Without
    <2>2. \A s \in DOMAIN st.index \ {st.topics[t].subjectID} : st.index[s] # t
        BY DEF Consistent, Indexed
    <2> QED
        BY <1>1, <2>1, <2>2
<1> QED
    BY <1>2, <1>3

-----------------------------------------------------------------------------
\* The calls that an allocation goes through: every topic but the one that is
\* being allocated has its share.
Stages ==
    {c \in [st : Node, topic : Topics \cup {None}, evictions : 0..EvictionsMax] :
        /\ Consistent(c.st)
        /\ c.topic # None => c.topic \in DOMAIN c.st.topics
        /\ \A u \in DOMAIN c.st.topics \ {c.topic} : Allotted(u, c.st.topics[u])}

Younger(st, t) == {u \in DOMAIN st.topics : leftWins(st.topics[t], t, Lage(st.topics[u]), u)}

\* How many calls there may still be.
CallsLeft(c) ==
    IF c.topic = None THEN 0
    ELSE Cardinality(Younger(c.st, c.topic)) * (EvictionsMax + 1)
            + (EvictionsMax + 1) - c.evictions

LEMMA FreeEffect ==
    ASSUME NEW st, Consistent(st), NEW t \in DOMAIN st.topics
    PROVE  LET free == [st EXCEPT !.index = Deindex(st, t)]
           IN  /\ Consistent(free) /\ free.topics = st.topics
               /\ free.index = Deindex(st, t)
               /\ free.urgent = st.urgent /\ free.periodic = st.periodic
               /\ \A s \in DOMAIN free.index : free.index[s] # t
<1> DEFINE free == [st EXCEPT !.index = Deindex(st, t)]
<1>1. st \in Node /\ DOMAIN st.index \subseteq Int
    BY NodeParts DEF Consistent
<1>2. /\ free \in Node /\ free.topics = st.topics /\ free.index = Deindex(st, t)
      /\ free.urgent = st.urgent /\ free.periodic = st.periodic
    BY <1>1, DeindexEffect, ReindexEffect
<1>3. Indexed(free)
    BY <1>2, DeindexEffect DEF Consistent, Indexed
<1>4. Following(free) /\ Scheduled(free)
    BY <1>2 DEF Consistent, Following, Scheduled
<1>5. \A s \in DOMAIN free.index : free.index[s] # t
    BY <1>2, DeindexEffect
<1> HIDE DEF free
<1>6. Consistent(free)
    BY <1>2, <1>3, <1>4 DEF Consistent
<1> QED
    BY <1>2, <1>5, <1>6 DEF free

\* A topic becomes pinned, and its node has no entry for it.
LEMMA PinnedEffect ==
    ASSUME NEW st, Consistent(st), NEW t \in DOMAIN st.topics, NEW e \in 0..EvictionsMax,
           NEW ok, \A s \in DOMAIN st.index : st.index[s] # t, isPinned(e)
    PROVE  LET to == Settle(st, t, e, EvictionsMax - e, ok)
           IN  /\ Consistent(to) /\ SameAges(st, to) /\ Allotted(t, to.topics[t])
               /\ \A u \in DOMAIN st.topics \ {t} : to.topics[u] = st.topics[u]
<1> DEFINE sid == EvictionsMax - e
           to == Settle(st, t, e, sid, ok)
<1>1. st \in Node /\ sid \in Int
    BY Constants DEF Consistent
<1> HIDE DEF sid
<1>2. /\ to \in Node /\ to.index = st.index /\ to.urgent = st.urgent \cup {t}
      /\ to.periodic = st.periodic /\ DOMAIN to.topics = DOMAIN st.topics
      /\ \A u \in DOMAIN st.topics \ {t} : to.topics[u] = st.topics[u]
      /\ to.topics[t].tsOrigin = st.topics[t].tsOrigin
      /\ to.topics[t].evictions = e /\ to.topics[t].pinned = isPinned(e)
      /\ to.topics[t].subjectID = sid
      /\ to.topics[t].reader \in {None, sid}
    BY ONLY <1>1, t \in DOMAIN st.topics, e \in 0..EvictionsMax, SettleEffect
<1> HIDE DEF to
<1>3. Indexed(to)
    <2> SUFFICES ASSUME NEW s \in DOMAIN st.index
                 PROVE  /\ st.index[s] \in DOMAIN st.topics
                        /\ to.topics[st.index[s]].subjectID = s
                        /\ ~to.topics[st.index[s]].pinned
        BY <1>2 DEF Indexed
    <2>1. st.index[s] \in DOMAIN st.topics \ {t}
        BY DEF Consistent, Indexed
    <2> QED
        BY <1>2, <2>1 DEF Consistent, Indexed
<1>4. Following(to)
    BY <1>2 DEF Consistent, Following
<1>5. Scheduled(to)
    BY <1>2 DEF Consistent, Scheduled
<1>6. SameAges(st, to)
    BY <1>2 DEF SameAges
<1>7. Allotted(t, to.topics[t])
    BY <1>2 DEF Allotted, sid
<1>8. Consistent(to)
    BY <1>2, <1>3, <1>4, <1>5 DEF Consistent
<1> QED
    BY <1>2, <1>6, <1>7, <1>8 DEF to, sid

\* A topic wins a subject-ID where no other topic of its node is, or from the
\* one that is there, which is to be allocated next.
LEMMA WonEffect ==
    ASSUME NEW st, Consistent(st), NEW t \in DOMAIN st.topics, NEW e \in 0..EvictionsMax,
           NEW ok, \A s \in DOMAIN st.index : st.index[s] # t, ~isPinned(e)
    PROVE  LET sid == ComputeSubjectID(t, e)
               to == [Settle(st, t, e, sid, ok) EXCEPT !.index = With(@, sid, t)]
           IN  /\ Consistent(to) /\ SameAges(st, to) /\ Allotted(t, to.topics[t])
               /\ \A u \in DOMAIN st.topics \ {t} : to.topics[u] = st.topics[u]
               /\ to.urgent = st.urgent \cup {t} /\ to.periodic = st.periodic
<1> DEFINE sid == ComputeSubjectID(t, e)
           moved == Settle(st, t, e, sid, ok)
           index == With(moved.index, sid, t)
           to == [moved EXCEPT !.index = index]
<1>1. st \in Node /\ t \in Topics
    BY NodeParts DEF Consistent
<1>2. sid \in Int
    BY <1>1, SubjectIDType
<1> HIDE DEF sid
<1>3. /\ moved \in Node /\ moved.index = st.index /\ moved.urgent = st.urgent \cup {t}
      /\ moved.periodic = st.periodic /\ DOMAIN moved.topics = DOMAIN st.topics
      /\ \A u \in DOMAIN st.topics \ {t} : moved.topics[u] = st.topics[u]
      /\ moved.topics[t].tsOrigin = st.topics[t].tsOrigin
      /\ moved.topics[t].evictions = e /\ moved.topics[t].pinned = isPinned(e)
      /\ moved.topics[t].subjectID = sid
      /\ moved.topics[t].reader \in {None, sid}
    BY <1>1, <1>2, SettleEffect
<1> HIDE DEF moved
<1>4. /\ DOMAIN index = DOMAIN st.index \cup {sid} /\ index[sid] = t
      /\ \A s \in DOMAIN st.index \ {sid} : index[s] = st.index[s]
      /\ DOMAIN index \subseteq Int /\ index \in [DOMAIN index -> Topics]
    BY <1>1, <1>2, <1>3, NodeParts DEF With
<1> HIDE DEF index
<1>5. /\ to \in Node /\ to.topics = moved.topics /\ to.index = index
      /\ to.urgent = moved.urgent /\ to.periodic = moved.periodic
    BY <1>3, <1>4, ReindexEffect
<1> HIDE DEF to
<1>6. Indexed(to)
    <2> SUFFICES ASSUME NEW s \in DOMAIN index
                 PROVE  /\ index[s] \in DOMAIN st.topics
                        /\ moved.topics[index[s]].subjectID = s
                        /\ ~moved.topics[index[s]].pinned
        BY <1>3, <1>5 DEF Indexed
    <2>1. CASE s = sid
        BY <1>3, <1>4, <2>1
    <2>2. CASE s # sid
        <3>1. s \in DOMAIN st.index /\ index[s] = st.index[s] /\ st.index[s] # t
            BY <1>4, <2>2
        <3>2. st.index[s] \in DOMAIN st.topics \ {t}
            BY <3>1 DEF Consistent, Indexed
        <3> QED
            BY <1>3, <3>1, <3>2 DEF Consistent, Indexed
    <2> QED
        BY <2>1, <2>2
<1>7. Following(to)
    BY <1>3, <1>5 DEF Consistent, Following
<1>8. Scheduled(to)
    BY <1>3, <1>5 DEF Consistent, Scheduled
<1>9. SameAges(st, to)
    BY <1>3, <1>5 DEF SameAges
<1>10. Allotted(t, to.topics[t])
    BY <1>3, <1>5 DEF Allotted, sid
<1>11. Consistent(to)
    BY <1>5, <1>6, <1>7, <1>8 DEF Consistent
<1> QED
    BY <1>3, <1>5, <1>9, <1>10, <1>11 DEF to, index, moved, sid

\* The loser closes its reader.
LEMMA ClosedEffect ==
    ASSUME NEW st, Consistent(st), NEW t \in DOMAIN st.topics
    PROVE  LET to == Closed(st, t)
           IN  /\ Consistent(to) /\ SameAges(st, to) /\ to.index = st.index
               /\ \A u \in DOMAIN st.topics \ {t} : to.topics[u] = st.topics[u]
<1> DEFINE tp == [st.topics[t] EXCEPT !.reader = None]
           to == [st EXCEPT !.topics[t] = tp]
<1>1. Closed(st, t) = to
    BY DEF Closed
<1>2. st \in Node /\ st.topics[t] \in Topic
    BY NodeParts DEF Consistent
<1>3. /\ tp \in Topic /\ tp.reader = None /\ tp.subjectID = st.topics[t].subjectID
      /\ tp.pinned = st.topics[t].pinned /\ tp.tsOrigin = st.topics[t].tsOrigin
    BY <1>2 DEF Topic
<1> HIDE DEF tp
<1>4. /\ to \in Node /\ to.index = st.index /\ to.urgent = st.urgent
      /\ to.periodic = st.periodic /\ DOMAIN to.topics = DOMAIN st.topics /\ to.topics[t] = tp
      /\ \A u \in DOMAIN st.topics \ {t} : to.topics[u] = st.topics[u]
    BY <1>2, <1>3, ReplaceTopic
<1> HIDE DEF to
<1>5. Indexed(to)
    BY <1>3, <1>4 DEF Consistent, Indexed
<1>6. Following(to)
    BY <1>3, <1>4 DEF Consistent, Following
<1>7. Scheduled(to)
    BY <1>4 DEF Consistent, Scheduled
<1>8. SameAges(st, to)
    BY <1>3, <1>4 DEF SameAges
<1> QED
    BY <1>1, <1>4, <1>5, <1>6, <1>7, <1>8 DEF Consistent

-----------------------------------------------------------------------------
(***************************************************************************)
(* The recursion ends.                                                     *)
(***************************************************************************)
LEMMA YoungerKept ==
    ASSUME NEW st, NEW to, SameAges(st, to), NEW t \in DOMAIN st.topics
    PROVE  Younger(to, t) = Younger(st, t)
BY DEF Younger, SameAges, leftWins, Lage

LEMMA YoungerFinite ==
    ASSUME NEW st \in Node, NEW t
    PROVE  IsFiniteSet(Younger(st, t)) /\ Cardinality(Younger(st, t)) \in Nat
<1>1. Younger(st, t) \subseteq Topics
    BY NodeParts DEF Younger
<1> QED
    BY <1>1, Constants, FS_Subset, FS_CardinalityType

\* Those that are younger than the loser are younger than the winner, and so is
\* the loser.
LEMMA YoungerShrinks ==
    ASSUME NEW st \in Node, now \in Int, NEW t \in DOMAIN st.topics, NEW u \in DOMAIN st.topics,
           leftWins(st.topics[t], t, Lage(st.topics[u]), u)
    PROVE  Cardinality(Younger(st, u)) + 1 <= Cardinality(Younger(st, t))
<1>1. \A v \in DOMAIN st.topics : Lage(st.topics[v]) \in Int /\ v \in Int
    BY NodeParts, LageType, Constants
<1>2. Younger(st, u) \subseteq Younger(st, t)
    BY <1>1 DEF Younger, leftWins
<1>3. u \in Younger(st, t) /\ u \notin Younger(st, u)
    BY <1>1 DEF Younger, leftWins
<1>4. Cardinality(Younger(st, u)) < Cardinality(Younger(st, t))
    <2>1. Younger(st, u) # Younger(st, t)
        BY <1>3
    <2> QED
        BY <1>2, <2>1, YoungerFinite, FS_Subset
<1> QED
    BY <1>4, YoungerFinite

LEMMA YoungerBound ==
    ASSUME NEW st \in Node, now \in Int, NEW t \in DOMAIN st.topics
    PROVE  Cardinality(Younger(st, t)) + 1 <= Cardinality(Topics)
<1>1. t \in Topics /\ t \notin Younger(st, t)
    <2>1. Lage(st.topics[t]) \in Int /\ t \in Int
        BY NodeParts, LageType, Constants
    <2> QED
        BY <2>1, NodeParts DEF Younger, leftWins
<1>2. Younger(st, t) \subseteq Topics /\ Younger(st, t) # Topics
    BY <1>1, NodeParts DEF Younger
<1>3. Cardinality(Younger(st, t)) < Cardinality(Topics)
    <2>1. IsFiniteSet(Topics) /\ Cardinality(Topics) \in Nat
        BY Constants, FS_CardinalityType
    <2> QED
        BY <1>2, <2>1, YoungerFinite, FS_Subset
<1> QED
    BY <1>3, YoungerFinite, Constants, FS_CardinalityType

LEMMA ProductStep ==
    ASSUME NEW a \in Nat, NEW b \in Nat, NEW k \in Nat, a + 1 <= b
    PROVE  a * k + k <= b * k
<1>1. b - (a + 1) \in Nat
    OBVIOUS
<1>2. (b - (a + 1)) * k \in Nat
    BY <1>1
<1>3. b * k = (b - (a + 1)) * k + (a * k + k)
    OBVIOUS
<1>4. a * k \in Nat /\ b * k \in Nat
    OBVIOUS
<1> QED
    BY <1>2, <1>3, <1>4

LEMMA CallsLeftType ==
    ASSUME NEW c \in Stages, now \in Int
    PROVE  /\ CallsLeft(c) \in Nat /\ CallsLeft(c) <= MaxCalls
           /\ (c.topic # None) => CallsLeft(c) > 0
<1>1. CASE c.topic = None
    <2>1. Cardinality(Topics) \in Nat /\ EvictionsMax + 1 \in Nat
        BY Constants, FS_CardinalityType
    <2>2. Cardinality(Topics) * (EvictionsMax + 1) \in Nat
        BY <2>1
    <2> QED
        BY <1>1, <2>2 DEF CallsLeft, MaxCalls
<1>2. CASE c.topic # None
    <2> DEFINE a == Cardinality(Younger(c.st, c.topic))
               b == Cardinality(Topics)
               k == EvictionsMax + 1
    <2>1. c.st \in Node /\ c.topic \in DOMAIN c.st.topics /\ c.evictions \in 0..EvictionsMax
        BY <1>2 DEF Stages, Consistent
    <2>2. a \in Nat /\ b \in Nat /\ a + 1 <= b
        BY <2>1, YoungerFinite, YoungerBound, Constants, FS_CardinalityType
    <2>3. k \in Nat /\ c.evictions \in Nat /\ c.evictions < k
        BY <2>1, Constants
    <2>4. CallsLeft(c) = a * k + k - c.evictions /\ MaxCalls = b * k
        BY <1>2 DEF CallsLeft, MaxCalls
    <2> HIDE DEF a, b, k
    <2>5. a * k + k <= b * k /\ a * k \in Nat /\ b * k \in Nat
        BY <2>2, <2>3, ProductStep
    <2> QED
        BY <2>3, <2>4, <2>5
<1> QED
    BY <1>1, <1>2

\* A call leaves a stage of the allocation, has kept the topics and their ages,
\* and has brought the end nearer.
LEMMA OneCall ==
    ASSUME NEW c \in Stages, now \in Int, NEW ok
    PROVE  LET d == AllocateOnce(c, ok)
           IN  /\ d \in Stages /\ SameAges(c.st, d.st)
               /\ c.topic # None => CallsLeft(d) < CallsLeft(c)
<1> DEFINE st == c.st
           t == c.topic
           e == c.evictions
           d == AllocateOnce(c, ok)
<1> SUFFICES d \in Stages /\ SameAges(st, d.st) /\ (t # None => CallsLeft(d) < CallsLeft(c))
    OBVIOUS
<1>1. /\ Consistent(st) /\ st \in Node /\ e \in 0..EvictionsMax
      /\ t # None => t \in DOMAIN st.topics
      /\ \A u \in DOMAIN st.topics \ {t} : Allotted(u, st.topics[u])
    BY DEF Stages, Consistent
<1>2. CASE t = None
    <2>1. d = c
        BY <1>2 DEF AllocateOnce
    <2> QED
        BY <1>2, <2>1 DEF SameAges
<1>3. CASE t # None
    <2> DEFINE free == [st EXCEPT !.index = Deindex(st, t)]
               sid == ComputeSubjectID(t, e)
               that == IF sid \in DOMAIN free.index /\ free.index[sid] # t
                       THEN free.index[sid] ELSE None
               victory == that # None =>
                   leftWins(st.topics[t], t, Lage(st.topics[that]), that)
               won == [Settle(free, t, e, sid, ok) EXCEPT !.index = With(@, sid, t)]
               lost == Closed(won, that)
               shut == Closed(free, t)
               pinned == Settle(shut, t, e, EvictionsMax - e, ok)
    <2>1. d = IF isPinned(e) THEN Call(pinned, None, 0)
              ELSE IF ~victory THEN Call(free, t, e + 1)
              ELSE IF that = None THEN Call(won, None, 0)
              ELSE Call(lost, that, st.topics[that].evictions + 1)
        BY <1>3 DEF AllocateOnce
    <2>2. /\ Consistent(free) /\ free.topics = st.topics
          /\ free.urgent = st.urgent /\ free.periodic = st.periodic
          /\ \A s \in DOMAIN free.index : free.index[s] # t
        BY <1>1, <1>3, FreeEffect
    <2>3. t \in DOMAIN free.topics /\ t \in DOMAIN st.topics /\ SameAges(st, free)
        BY <1>1, <1>3, <2>2 DEF SameAges
    <2>4. CallsLeft(c) > 0 /\ CallsLeft(c) \in Nat /\ 0 \in 0..EvictionsMax
        BY <1>3, CallsLeftType, Constants
    <2>5. CASE isPinned(e)
        <3>1. /\ Consistent(pinned) /\ SameAges(free, pinned) /\ Allotted(t, pinned.topics[t])
              /\ \A u \in DOMAIN free.topics \ {t} : pinned.topics[u] = free.topics[u]
            <4> HIDE DEF free
            <4>1. /\ Consistent(shut) /\ SameAges(free, shut) /\ shut.index = free.index
                  /\ \A u \in DOMAIN free.topics \ {t} : shut.topics[u] = free.topics[u]
                BY <2>2, <2>3, ClosedEffect
            <4> HIDE DEF shut
            <4>2. t \in DOMAIN shut.topics /\ \A s \in DOMAIN shut.index : shut.index[s] # t
                BY <2>2, <2>3, <4>1 DEF SameAges
            <4>3. /\ Consistent(pinned) /\ SameAges(shut, pinned) /\ Allotted(t, pinned.topics[t])
                  /\ \A u \in DOMAIN shut.topics \ {t} : pinned.topics[u] = shut.topics[u]
                BY <1>1, <2>5, <4>1, <4>2, PinnedEffect
            <4> HIDE DEF pinned
            <4> QED
                BY <4>1, <4>3 DEF SameAges
        <3> HIDE DEF pinned, free
        <3>2. \A u \in DOMAIN pinned.topics : Allotted(u, pinned.topics[u])
            BY <1>1, <2>2, <3>1 DEF SameAges
        <3>3. d = [st |-> pinned, topic |-> None, evictions |-> 0]
            BY <2>1, <2>5 DEF Call
        <3>4. d \in Stages /\ CallsLeft(d) = 0
            BY <2>4, <3>1, <3>2, <3>3 DEF Stages, Consistent, CallsLeft
        <3> QED
            BY <2>2, <2>4, <3>1, <3>3, <3>4 DEF SameAges
    <2>6. CASE ~isPinned(e)
        <3>1. e + 1 \in 0..EvictionsMax /\ e + 1 \in Nat /\ e \in Nat
            BY <1>1, <2>6, Constants DEF isPinned
        <3>2. CASE ~victory
            <4> HIDE DEF victory, free
            <4>1. d = [st |-> free, topic |-> t, evictions |-> e + 1]
                BY <2>1, <2>6, <3>2 DEF Call
            <4>2. d \in Stages
                BY <1>1, <1>3, <2>2, <3>1, <4>1 DEF Stages, Consistent
            <4>3. Younger(free, t) = Younger(st, t)
                BY <2>3, YoungerKept
            <4> DEFINE n == Cardinality(Younger(st, t))
                       k == EvictionsMax + 1
            <4>4. n \in Nat /\ k \in Nat
                BY <1>1, YoungerFinite, Constants
            <4>5. CallsLeft(c) = n * k + k - e
                BY <1>3 DEF CallsLeft
            <4>6. CallsLeft(d) = n * k + k - (e + 1)
                <5>1. d.topic = t /\ d.st = free /\ d.evictions = e + 1
                    BY <4>1
                <5> HIDE DEF d
                <5> QED
                    BY <1>3, <4>3, <5>1 DEF CallsLeft
            <4> HIDE DEF n, k
            <4>7. n * k \in Nat
                BY <4>4
            <4> QED
                BY <2>3, <3>1, <4>1, <4>2, <4>4, <4>5, <4>6, <4>7
        <3>3. CASE victory
            <4>1. /\ Consistent(won) /\ SameAges(free, won) /\ Allotted(t, won.topics[t])
                  /\ \A u \in DOMAIN free.topics \ {t} : won.topics[u] = free.topics[u]
                <5> HIDE DEF free
                <5> QED
                    BY <1>1, <2>2, <2>3, <2>6, WonEffect
            <4>2. SameAges(st, won)
                BY <2>3, <4>1 DEF SameAges
            <4>3. CASE that = None
                <5> HIDE DEF won, free, that, victory
                <5>1. d = [st |-> won, topic |-> None, evictions |-> 0]
                    BY <2>1, <2>6, <3>3, <4>3 DEF Call
                <5>2. \A u \in DOMAIN won.topics : Allotted(u, won.topics[u])
                    BY <1>1, <2>2, <4>1 DEF SameAges
                <5>3. d \in Stages /\ CallsLeft(d) = 0
                    BY <2>4, <4>1, <5>1, <5>2 DEF Stages, Consistent, CallsLeft
                <5> QED
                    BY <2>4, <4>2, <5>1, <5>3
            <4>4. CASE that # None
                <5>1. /\ that \in DOMAIN st.topics /\ that # t /\ ~st.topics[that].pinned
                      /\ leftWins(st.topics[t], t, Lage(st.topics[that]), that)
                    <6>1. sid \in DOMAIN free.index /\ free.index[sid] # t /\ that = free.index[sid]
                        BY <4>4
                    <6>2. that \in DOMAIN free.topics /\ ~free.topics[that].pinned
                        BY <2>2, <6>1 DEF Consistent, Indexed
                    <6> HIDE DEF free, that
                    <6> QED
                        BY <2>2, <3>3, <4>4, <6>1, <6>2
                <5>2. LET f == st.topics[that].evictions + 1
                      IN f \in 0..EvictionsMax /\ f >= 1
                    <6> HIDE DEF that
                    <6>1. st.topics[that].evictions \in 0..EvictionsMax
                        BY <1>1, <5>1, NodeParts DEF Topic
                    <6>2. ~isPinned(st.topics[that].evictions)
                        BY <1>1, <5>1 DEF Allotted
                    <6> QED
                        BY <6>1, <6>2, Constants DEF isPinned
                <5> HIDE DEF won, free, that, victory
                <5> DEFINE f == st.topics[that].evictions + 1
                <5>3. that \in DOMAIN won.topics
                    BY <4>2, <5>1 DEF SameAges
                <5>4. /\ Consistent(lost) /\ SameAges(won, lost)
                      /\ \A u \in DOMAIN won.topics \ {that} : lost.topics[u] = won.topics[u]
                    BY <4>1, <5>3, ClosedEffect
                <5> HIDE DEF lost
                <5>5. SameAges(st, lost)
                    BY <4>2, <5>4 DEF SameAges
                <5>6. \A u \in DOMAIN lost.topics \ {that} : Allotted(u, lost.topics[u])
                    BY <1>1, <2>2, <4>1, <5>4 DEF SameAges
                <5>7. d = [st |-> lost, topic |-> that, evictions |-> f]
                    BY <2>1, <2>6, <3>3, <4>4 DEF Call
                <5>8. that \in DOMAIN lost.topics /\ that \in Topics /\ lost \in Node
                    BY <1>1, <5>1, <5>4, <5>5, NodeParts DEF SameAges, Consistent
                <5>9. d \in Stages
                    BY <5>2, <5>4, <5>6, <5>7, <5>8 DEF Stages
                <5> DEFINE a == Cardinality(Younger(st, that))
                           b == Cardinality(Younger(st, t))
                           k == EvictionsMax + 1
                <5>10. a \in Nat /\ b \in Nat /\ a + 1 <= b /\ k \in Nat
                    BY <1>1, <2>3, <5>1, YoungerFinite, YoungerShrinks, Constants
                <5>11. Younger(lost, that) = Younger(st, that)
                    BY <5>1, <5>5, YoungerKept
                <5>12. CallsLeft(c) = b * k + k - e /\ CallsLeft(d) = a * k + k - f
                    BY <1>3, <4>4, <5>7, <5>11 DEF CallsLeft
                <5>13. e < k /\ f \in Nat /\ f >= 1 /\ e \in Nat
                    BY <1>1, <5>2, Constants
                <5> HIDE DEF a, b, k, f
                <5>14. a * k + k <= b * k /\ a * k \in Nat /\ b * k \in Nat
                    BY <5>10, ProductStep
                <5>15. CallsLeft(d) < CallsLeft(c)
                    BY <5>10, <5>12, <5>13, <5>14
                <5> QED
                    BY <5>5, <5>7, <5>9, <5>15
            <4> QED
                BY <4>3, <4>4
        <3> QED
            BY <3>2, <3>3
    <2> QED
        BY <2>5, <2>6
<1> QED
    BY <1>2, <1>3

\* NextCall is AllocateOnce under another name (the set has one element).
LEMMA NextCallIs == ASSUME NEW call, NEW ok PROVE NextCall(call, ok) = AllocateOnce(call, ok)
<1>1. {AllocateOnce(c, ok) : c \in {call}} = {AllocateOnce(call, ok)}
    OBVIOUS
<1> QED
    BY <1>1 DEF NextCall

\* The calls of one allocation exist: the recursive function is defined.
LEMMA CallsDefined ==
    ASSUME NEW st, NEW t, NEW e, NEW ok, Call(st, t, e) \in Stages, now \in Int
    PROVE  /\ Calls(st, t, e, ok)[0] = Call(st, t, e)
           /\ \A i \in Nat : i + 1 <= MaxCalls =>
                Calls(st, t, e, ok)[i + 1] = AllocateOnce(Calls(st, t, e, ok)[i], ok)
<1> DEFINE first == Call(st, t, e)
           F == [c \in Stages |-> AllocateOnce(c, ok)]
           Obeys(g) == g = [i \in 0..MaxCalls |->
                               IF i = 0 THEN first ELSE NextCall(g[i - 1], ok)]
<1>1. F \in [Stages -> Stages]
    BY OneCall
<1>2. PICK f \in [Nat -> Stages] : f[0] = first /\ \A n \in Nat : f[n + 1] = F[f[n]]
    <2>1. first \in Stages
        OBVIOUS
    <2> HIDE DEF F, first
    <2>2. PICK f : IsOrbit(f, Stages, F, first)
        BY <1>1, <2>1, Iteration
    <2> QED
        BY <2>2 DEF IsOrbit
<1>3. MaxCalls \in Nat
    <2>1. Cardinality(Topics) \in Nat /\ EvictionsMax + 1 \in Nat
        BY Constants, FS_CardinalityType
    <2> QED
        BY <2>1 DEF MaxCalls
<1> DEFINE g == [i \in 0..MaxCalls |-> f[i]]
<1>4. Obeys(g)
    <2> SUFFICES ASSUME NEW i \in 0..MaxCalls
                 PROVE  f[i] = IF i = 0 THEN first ELSE NextCall(g[i - 1], ok)
        OBVIOUS
    <2>1. CASE i = 0
        BY <1>2, <2>1
    <2>2. CASE i # 0
        <3>1. i - 1 \in Nat /\ i - 1 \in 0..MaxCalls /\ (i - 1) + 1 = i
            BY <1>3, <2>2
        <3>2. f[i] = F[f[i - 1]] /\ f[i - 1] \in Stages
            <4> HIDE DEF F
            <4> QED
                BY <1>2, <3>1
        <3>3. NextCall(g[i - 1], ok) = AllocateOnce(f[i - 1], ok)
            BY <3>1, NextCallIs
        <3> QED
            BY <2>2, <3>2, <3>3
    <2> QED
        BY <2>1, <2>2
<1>5. Obeys(CHOOSE h : Obeys(h))
    <2> HIDE DEF Obeys
    <2> QED
        BY <1>4
<1>6. Calls(st, t, e, ok) = CHOOSE h : Obeys(h)
    BY DEF Calls
<1>7. Obeys(Calls(st, t, e, ok))
    <2> HIDE DEF Obeys
    <2> QED
        BY <1>5, <1>6
<1> DEFINE calls == Calls(st, t, e, ok)
<1> HIDE DEF calls, first
<1>8. calls = [i \in 0..MaxCalls |-> IF i = 0 THEN first ELSE NextCall(calls[i - 1], ok)]
    BY <1>7 DEF calls
<1>9. calls[0] = first
    BY <1>3, <1>8
<1>10. ASSUME NEW i \in Nat, i + 1 <= MaxCalls PROVE calls[i + 1] = AllocateOnce(calls[i], ok)
    <2>1. i + 1 \in 0..MaxCalls /\ i + 1 # 0 /\ (i + 1) - 1 = i
        BY <1>3, <1>10
    <2>2. calls[i + 1] = NextCall(calls[i], ok)
        BY <1>8, <2>1
    <2> QED
        BY <2>2, NextCallIs
<1> QED
    BY <1>9, <1>10 DEF calls, first

\* Every recursion of topicAllocate returns, however topics defeat each other
\* and wherever the quadratic probing leads them, within MaxCalls calls.
LEMMA AllocationEnds ==
    ASSUME NEW st, NEW t, NEW e, NEW ok, Call(st, t, e) \in Stages, now \in Int
    PROVE  /\ \E i \in 0..MaxCalls : Calls(st, t, e, ok)[i].topic = None
           /\ \A i \in 0..MaxCalls :
                Calls(st, t, e, ok)[i] \in Stages /\ SameAges(st, Calls(st, t, e, ok)[i].st)
<1> DEFINE calls == Calls(st, t, e, ok)
           Near(i) == calls[i].topic # None => CallsLeft(calls[i]) + i <= MaxCalls
           T == {i \in Nat : i <= MaxCalls =>
                    calls[i] \in Stages /\ SameAges(st, calls[i].st) /\ Near(i)}
<1>1. /\ calls[0] = Call(st, t, e)
      /\ \A i \in Nat : i + 1 <= MaxCalls => calls[i + 1] = AllocateOnce(calls[i], ok)
    BY CallsDefined
<1>2. MaxCalls \in Nat
    <2>1. Cardinality(Topics) \in Nat /\ EvictionsMax + 1 \in Nat
        BY Constants, FS_CardinalityType
    <2> QED
        BY <2>1 DEF MaxCalls
<1> HIDE DEF calls
<1>3. 0 \in T
    <2>1. calls[0] \in Stages /\ SameAges(st, calls[0].st)
        BY <1>1 DEF Call, SameAges
    <2>2. CallsLeft(calls[0]) \in Nat /\ CallsLeft(calls[0]) <= MaxCalls
        BY <2>1, CallsLeftType
    <2> QED
        BY <1>2, <2>1, <2>2
<1>4. ASSUME NEW i \in Nat, i \in T PROVE i + 1 \in T
    <2> SUFFICES ASSUME i + 1 <= MaxCalls
                 PROVE  calls[i + 1] \in Stages /\ SameAges(st, calls[i + 1].st) /\ Near(i + 1)
        OBVIOUS
    <2>1. calls[i] \in Stages /\ SameAges(st, calls[i].st) /\ Near(i)
        BY <1>2, <1>4
    <2> DEFINE c == calls[i]
               d == calls[i + 1]
    <2>2. d = AllocateOnce(c, ok)
        BY <1>1
    <2> HIDE DEF c, d
    <2>3. /\ d \in Stages /\ SameAges(c.st, d.st)
          /\ c.topic # None => CallsLeft(d) < CallsLeft(c)
        BY <2>1, <2>2, OneCall DEF c
    <2>4. SameAges(st, d.st)
        BY <2>1, <2>3 DEF SameAges, c
    <2>5. CallsLeft(c) \in Nat /\ CallsLeft(d) \in Nat
        BY <2>1, <2>3, CallsLeftType DEF c
    <2>6. c.topic = None => d.topic = None
        BY <2>2 DEF AllocateOnce
    <2>7. d.topic # None => CallsLeft(d) + (i + 1) <= MaxCalls
        BY <1>2, <2>1, <2>3, <2>5, <2>6 DEF c
    <2> QED
        BY <2>3, <2>4, <2>7 DEF d
<1>5. \A i \in Nat : i \in T
    <2> HIDE DEF T
    <2> QED
        BY <1>3, <1>4, SetInduction
<1>6. \A i \in 0..MaxCalls : calls[i] \in Stages /\ SameAges(st, calls[i].st)
    BY <1>2, <1>5
<1>7. calls[MaxCalls].topic = None
    <2>1. calls[MaxCalls] \in Stages /\ Near(MaxCalls)
        BY <1>2, <1>5
    <2>2. /\ CallsLeft(calls[MaxCalls]) \in Nat
          /\ calls[MaxCalls].topic # None => CallsLeft(calls[MaxCalls]) > 0
        BY <2>1, CallsLeftType
    <2> QED
        BY <1>2, <2>1, <2>2
<1> QED
    BY <1>2, <1>6, <1>7 DEF calls

LEMMA Allocated ==
    ASSUME NEW st, NEW t, NEW e \in 0..EvictionsMax, NEW ok, now \in Int,
           Consistent(st), t \in DOMAIN st.topics,
           \A u \in DOMAIN st.topics \ {t} : Allotted(u, st.topics[u])
    PROVE  Sound(topicAllocate(st, t, e, ok)) /\ SameAges(st, topicAllocate(st, t, e, ok))
<1> DEFINE calls == Calls(st, t, e, ok)
           k == CHOOSE i \in 0..MaxCalls : calls[i].topic = None
<1>1. t \in Topics /\ t # None /\ st \in Node
    BY NodeParts, Constants DEF Consistent
<1>2. Call(st, t, e) \in Stages
    BY <1>1 DEF Call, Stages
<1>3. /\ \E i \in 0..MaxCalls : calls[i].topic = None
      /\ \A i \in 0..MaxCalls : calls[i] \in Stages /\ SameAges(st, calls[i].st)
    BY <1>2, AllocationEnds
<1>4. k \in 0..MaxCalls /\ calls[k].topic = None
    <2> HIDE DEF calls
    <2> QED
        BY <1>3
<1>5. topicAllocate(st, t, e, ok) = calls[k].st
    BY DEF topicAllocate
<1> HIDE DEF k, calls
<1>6. calls[k] \in Stages /\ SameAges(st, calls[k].st)
    BY <1>3, <1>4
<1>7. calls[k].st \in Node /\ None \notin DOMAIN calls[k].st.topics
    BY <1>6, NodeParts, Constants DEF Stages
<1>8. Sound(calls[k].st)
    BY <1>4, <1>6, <1>7 DEF Stages, Sound
<1> QED
    BY <1>5, <1>6, <1>8

-----------------------------------------------------------------------------
(***************************************************************************)
(* The handlers.                                                           *)
(***************************************************************************)
\* A topic may change in what is neither its subject-ID nor its counter.
LEMMA AlikeSound ==
    ASSUME NEW st, Sound(st), NEW t \in DOMAIN st.topics, NEW tp \in Topic,
           tp.evictions = st.topics[t].evictions, tp.pinned = st.topics[t].pinned,
           tp.subjectID = st.topics[t].subjectID, tp.reader \in {None, tp.subjectID}
    PROVE  LET to == [st EXCEPT !.topics[t] = tp]
           IN  /\ Sound(to) /\ DOMAIN to.topics = DOMAIN st.topics /\ to.topics[t] = tp
               /\ \A u \in DOMAIN st.topics \ {t} : to.topics[u] = st.topics[u]
<1> DEFINE to == [st EXCEPT !.topics[t] = tp]
<1>1. st \in Node /\ Indexed(st) /\ Following(st) /\ Scheduled(st)
    BY DEF Sound, Consistent
<1>2. /\ to \in Node /\ to.index = st.index /\ to.urgent = st.urgent
      /\ to.periodic = st.periodic /\ DOMAIN to.topics = DOMAIN st.topics /\ to.topics[t] = tp
      /\ \A u \in DOMAIN st.topics \ {t} : to.topics[u] = st.topics[u]
    BY <1>1, ReplaceTopic
<1> HIDE DEF to
<1>3. Indexed(to)
    BY <1>1, <1>2 DEF Indexed
<1>4. Following(to) /\ Scheduled(to)
    BY <1>1, <1>2 DEF Following, Scheduled
<1>5. \A u \in DOMAIN to.topics : Allotted(u, to.topics[u])
    BY <1>2 DEF Sound, Allotted
<1> QED
    BY <1>2, <1>3, <1>4, <1>5 DEF Sound, Consistent, to

LEMMA UrgentSound ==
    ASSUME NEW st, Sound(st), NEW t \in DOMAIN st.topics
    PROVE  /\ Sound(ScheduleUrgent(st, t))
           /\ DOMAIN ScheduleUrgent(st, t).topics = DOMAIN st.topics
<1> DEFINE to == ScheduleUrgent(st, t)
           tp == [st.topics[t] EXCEPT !.gossipCounter = 0]
<1>1. st \in Node /\ Indexed(st) /\ Following(st) /\ Scheduled(st) /\ st.topics[t] \in Topic
    BY NodeParts DEF Sound, Consistent
<1>2. /\ tp.evictions = st.topics[t].evictions /\ tp.pinned = st.topics[t].pinned
      /\ tp.subjectID = st.topics[t].subjectID /\ tp.reader = st.topics[t].reader
    BY <1>1 DEF Topic
<1>3. /\ to \in Node /\ to.index = st.index /\ to.urgent = st.urgent \cup {t}
      /\ to.periodic = st.periodic /\ DOMAIN to.topics = DOMAIN st.topics /\ to.topics[t] = tp
      /\ \A u \in DOMAIN st.topics \ {t} : to.topics[u] = st.topics[u]
    BY <1>1, UrgentEffect
<1> HIDE DEF to, tp
<1>4. Indexed(to)
    BY <1>1, <1>2, <1>3 DEF Indexed
<1>5. Following(to) /\ Scheduled(to)
    BY <1>1, <1>2, <1>3 DEF Following, Scheduled
<1>6. \A u \in DOMAIN to.topics : Allotted(u, to.topics[u])
    BY <1>2, <1>3 DEF Sound, Allotted
<1> QED
    BY <1>3, <1>4, <1>5, <1>6 DEF Sound, Consistent, to

\* The schedules of a node may become any sets of its topics.
LEMMA ScheduleSound ==
    ASSUME NEW st, Sound(st), NEW U \in SUBSET DOMAIN st.topics
    PROVE  /\ Sound([st EXCEPT !.urgent = U]) /\ Sound([st EXCEPT !.periodic = U])
           /\ [st EXCEPT !.urgent = U].topics = st.topics
           /\ [st EXCEPT !.periodic = U].topics = st.topics
<1>1. st \in Node /\ U \subseteq Topics
    BY NodeParts DEF Sound, Consistent
<1>2. /\ [st EXCEPT !.urgent = U] = [topics |-> st.topics, index |-> st.index,
                                     urgent |-> U, periodic |-> st.periodic]
      /\ [st EXCEPT !.periodic = U] = [topics |-> st.topics, index |-> st.index,
                                       urgent |-> st.urgent, periodic |-> U]
    BY <1>1, NodeParts
<1>3. [st EXCEPT !.urgent = U] \in Node /\ [st EXCEPT !.periodic = U] \in Node
    BY <1>1, <1>2, NodeParts, NodeMade
<1> QED
    BY <1>2, <1>3 DEF Sound, Consistent, Indexed, Following, Scheduled

LEMMA PeriodicSound ==
    ASSUME NEW st, Sound(st), NEW t \in DOMAIN st.topics
    PROVE  /\ Sound(SchedulePeriodic(st, t))
           /\ DOMAIN SchedulePeriodic(st, t).topics = DOMAIN st.topics
<1>1. st.periodic \cup {t} \in SUBSET DOMAIN st.topics
    BY DEF Sound, Consistent, Scheduled
<1>2. SchedulePeriodic(st, t) = [st EXCEPT !.periodic = st.periodic \cup {t}]
    BY DEF SchedulePeriodic
<1> QED
    BY <1>1, <1>2, ScheduleSound

LEMMA MergeEffect ==
    ASSUME NEW tp \in Topic, NEW lage \in Int, now \in Int
    PROVE  LET to == MergeLageAt(tp, lage)
           IN  /\ to \in Topic /\ to.evictions = tp.evictions /\ to.pinned = tp.pinned
               /\ to.subjectID = tp.subjectID /\ to.reader = tp.reader
<1>1. now - LageToUS(lage) \in Int
    BY LageToUSType
<1> DEFINE origin == now - LageToUS(lage)
<1>2. MergeLageAt(tp, lage) = IF origin < tp.tsOrigin THEN [tp EXCEPT !.tsOrigin = origin] ELSE tp
    BY DEF MergeLageAt
<1> HIDE DEF origin
<1> QED
    BY <1>1, <1>2 DEF Topic, origin

LEMMA AllocateSound ==
    ASSUME NEW st, Sound(st), NEW t \in DOMAIN st.topics, NEW e \in 0..EvictionsMax, NEW ok,
           now \in Int
    PROVE  /\ Sound(topicAllocate(st, t, e, ok))
           /\ DOMAIN topicAllocate(st, t, e, ok).topics = DOMAIN st.topics
<1>1. Consistent(st) /\ \A u \in DOMAIN st.topics \ {t} : Allotted(u, st.topics[u])
    BY DEF Sound
<1>2. Sound(topicAllocate(st, t, e, ok)) /\ SameAges(st, topicAllocate(st, t, e, ok))
    BY <1>1, Allocated
<1> QED
    BY <1>2 DEF SameAges

\* A topic that is added is what the next allocation may start with.
LEMMA AddedStage ==
    ASSUME NEW st, Sound(st), NEW t \in Topics, t \notin DOMAIN st.topics,
           NEW pin \in Int \cup {PinNone}, NEW lage \in Int, NEW e \in 0..EvictionsMax,
           now \in Int
    PROVE  LET added == [st EXCEPT !.topics = With(@, t, newTopic(t, pin, lage, e))]
           IN  /\ Consistent(added) /\ DOMAIN added.topics = DOMAIN st.topics \cup {t}
               /\ \A u \in DOMAIN added.topics \ {t} : Allotted(u, added.topics[u])
<1> DEFINE tp == newTopic(t, pin, lage, e)
           topics == With(st.topics, t, tp)
           added == [st EXCEPT !.topics = topics]
<1>1. st \in Node /\ Indexed(st) /\ Following(st) /\ Scheduled(st)
    BY DEF Sound, Consistent
<1>2. tp \in Topic /\ tp.reader = None
    <2>1. now - LageToUS(lage) \in Int
        BY LageToUSType
    <2>2. ComputeSubjectID(t, 0) \in Int
        BY SubjectIDType
    <2>3. pin # PinNone => pin \in Int
        OBVIOUS
    <2> DEFINE sid == IF pin # PinNone THEN pin ELSE ComputeSubjectID(t, 0)
               origin == now - LageToUS(lage)
               pinned == (pin # PinNone)
    <2>4. sid \in Int /\ origin \in Int /\ pinned \in BOOLEAN
        BY <2>1, <2>2, <2>3
    <2>5. tp = [tsOrigin |-> origin, evictions |-> e, pinned |-> pinned, subjectID |-> sid,
                reader |-> None, gossipCounter |-> 0]
        BY DEF newTopic
    <2> HIDE DEF tp, sid, origin, pinned
    <2> QED
        BY <2>4, <2>5 DEF Topic
<1> HIDE DEF tp
<1>3. /\ DOMAIN topics = DOMAIN st.topics \cup {t} /\ topics[t] = tp
      /\ \A u \in DOMAIN st.topics : topics[u] = st.topics[u]
      /\ topics \in [DOMAIN topics -> Topic] /\ DOMAIN topics \subseteq Topics
    BY <1>1, <1>2, NodeParts DEF With
<1> HIDE DEF topics
<1>4. added = [topics |-> topics, index |-> st.index,
               urgent |-> st.urgent, periodic |-> st.periodic]
    BY <1>1, NodeParts
<1>5. added \in Node
    <2>1. /\ DOMAIN st.index \subseteq Int /\ st.index \in [DOMAIN st.index -> Topics]
          /\ st.urgent \in SUBSET Topics /\ st.periodic \in SUBSET Topics
        BY <1>1, NodeParts
    <2> HIDE DEF added
    <2> QED
        BY ONLY <1>3, <1>4, <2>1, NodeMade
<1>6. Indexed(added)
    BY <1>1, <1>3, <1>4 DEF Indexed
<1>7. Following(added) /\ Scheduled(added)
    BY <1>1, <1>2, <1>3, <1>4 DEF Following, Scheduled
<1>8. DOMAIN added.topics = DOMAIN st.topics \cup {t}
    BY <1>3, <1>4
<1>9. \A u \in DOMAIN added.topics \ {t} : Allotted(u, added.topics[u])
    BY <1>3, <1>4 DEF Sound
<1> HIDE DEF added
<1> QED
    BY <1>5, <1>6, <1>7, <1>8, <1>9 DEF Consistent, added, topics, tp

LEMMA AddSound ==
    ASSUME NEW st, Sound(st), NEW t \in Topics, t \notin DOMAIN st.topics,
           NEW pin \in Int \cup {PinNone}, NEW lage \in Int, NEW e \in 0..EvictionsMax, NEW ok,
           now \in Int
    PROVE  LET to == AddTopic(st, t, pin, lage, e, ok)
           IN  Sound(to) /\ DOMAIN to.topics = DOMAIN st.topics \cup {t}
<1> DEFINE added == [st EXCEPT !.topics = With(@, t, newTopic(t, pin, lage, e))]
           made == topicAllocate(added, t, e, ok)
<1>1. /\ Consistent(added) /\ DOMAIN added.topics = DOMAIN st.topics \cup {t}
      /\ \A u \in DOMAIN added.topics \ {t} : Allotted(u, added.topics[u])
    BY AddedStage
<1>2. AddTopic(st, t, pin, lage, e, ok) = ScheduleUrgent(made, t)
    BY DEF AddTopic
<1> HIDE DEF added
<1>3. Sound(made) /\ SameAges(added, made)
    BY <1>1, Allocated
<1> HIDE DEF made
<1>4. DOMAIN made.topics = DOMAIN st.topics \cup {t}
    BY <1>1, <1>3 DEF SameAges
<1> QED
    BY <1>2, <1>3, <1>4, UrgentSound

LEMMA MergedSound ==
    ASSUME NEW st, Sound(st), NEW t \in DOMAIN st.topics, NEW lage \in Int, now \in Int
    PROVE  LET to == [st EXCEPT !.topics[t] = MergeLageAt(st.topics[t], lage)]
           IN  Sound(to) /\ DOMAIN to.topics = DOMAIN st.topics
<1> DEFINE tp == st.topics[t]
           older == MergeLageAt(tp, lage)
<1>1. tp \in Topic /\ tp.reader \in {None, tp.subjectID}
    BY NodeParts DEF Sound, Consistent, Following
<1>2. /\ older \in Topic /\ older.evictions = tp.evictions /\ older.pinned = tp.pinned
      /\ older.subjectID = tp.subjectID /\ older.reader = tp.reader
    BY <1>1, MergeEffect
<1> HIDE DEF older
<1> QED
    BY <1>1, <1>2, AlikeSound DEF older

Scouts == [kind : {"scout"}, from : Nodes]
Gossips == [kind : {"gossip", "unicast", "data"}, from : Nodes, hash : Topics, lage : Int,
            evictions : 0..EvictionsMax, subjectID : Int \cup {None}]

LEMMA KnownTopicSound ==
    ASSUME NEW st, Sound(st), NEW m \in Gossips, m.hash \in DOMAIN st.topics, NEW ok, now \in Int
    PROVE  /\ Sound(onGossipKnownTopic(st, m, ok))
           /\ DOMAIN onGossipKnownTopic(st, m, ok).topics = DOMAIN st.topics
<1> DEFINE t == m.hash
           tp == st.topics[t]
           older == MergeLageAt(tp, m.lage)
           merged == [st EXCEPT !.topics[t] = older]
           adopted == topicAllocate(merged, t, m.evictions, ok)
           after ==
            IF tp.evictions # m.evictions
            THEN IF UpdateState(tp, m.lage, m.evictions) THEN ScheduleUrgent(merged, t)
                 ELSE IF adopted.topics[t].evictions = m.evictions
                      THEN SchedulePeriodic(adopted, t) ELSE adopted
            ELSE IF m.kind = "gossip" /\ Lage(merged.topics[t]) = m.lage
                 THEN SchedulePeriodic(merged, t) ELSE merged
           Kept(to) == Sound(to) /\ DOMAIN to.topics = DOMAIN st.topics
<1>1. st \in Node /\ tp \in Topic /\ tp.reader \in {None, tp.subjectID}
    BY NodeParts DEF Sound, Consistent, Following
<1>2. m.lage \in Int /\ m.evictions \in 0..EvictionsMax
    BY DEF Gossips
<1>3. Kept(merged)
    BY <1>2, MergedSound
<1> HIDE DEF merged
<1>4. Kept(adopted)
    BY <1>2, <1>3, AllocateSound
<1> HIDE DEF adopted
<1>5. Kept(ScheduleUrgent(merged, t)) /\ Kept(SchedulePeriodic(merged, t))
    BY <1>3, UrgentSound, PeriodicSound
<1>6. Kept(SchedulePeriodic(adopted, t))
    BY <1>4, PeriodicSound
<1>7. Kept(after)
    <2> HIDE DEF Kept
    <2> QED
        BY <1>3, <1>4, <1>5, <1>6
<1>8. onGossipKnownTopic(st, m, ok) = [after EXCEPT !.topics[t] = resyncTopicReader(after.topics[t], ok)]
    BY DEF onGossipKnownTopic, merged, adopted
<1> HIDE DEF after
<1> DEFINE synced == resyncTopicReader(after.topics[t], ok)
<1>9. /\ after \in Node /\ after.topics[t] \in Topic
      /\ t \in DOMAIN after.topics
    BY <1>7, NodeParts DEF Sound, Consistent
<1>10. /\ synced \in Topic /\ synced.evictions = after.topics[t].evictions
       /\ synced.pinned = after.topics[t].pinned /\ synced.subjectID = after.topics[t].subjectID
       /\ synced.reader \in {None, synced.subjectID}
    BY <1>9, ResyncEffect
<1> HIDE DEF synced
<1>11. Kept([after EXCEPT !.topics[t] = synced])
    BY <1>7, <1>9, <1>10, AlikeSound
<1> QED
    BY <1>8, <1>11 DEF synced

LEMMA UnknownTopicSound ==
    ASSUME NEW st, Sound(st), NEW m \in Gossips, NEW ok, now \in Int
    PROVE  /\ Sound(onGossipUnknownTopic(st, m, ok))
           /\ DOMAIN onGossipUnknownTopic(st, m, ok).topics = DOMAIN st.topics
<1> DEFINE sid == ComputeSubjectID(m.hash, m.evictions)
           mine == st.index[sid]
           e == st.topics[mine].evictions
<1>1. CASE sid \notin DOMAIN st.index
    BY <1>1 DEF onGossipUnknownTopic
<1>2. CASE sid \in DOMAIN st.index
    <2> HIDE DEF sid
    <2>1. mine \in DOMAIN st.topics /\ ~st.topics[mine].pinned
        BY <1>2 DEF Sound, Consistent, Indexed
    <2> HIDE DEF mine
    <2>2. e + 1 \in 0..EvictionsMax
        <3>1. e \in 0..EvictionsMax
            <4>1. st \in Node
                BY DEF Sound, Consistent
            <4>2. st.topics[mine] \in Topic
                BY <2>1, <4>1, NodeParts
            <4> QED
                BY <4>2 DEF Topic
        <3>2. ~isPinned(e)
            BY <2>1 DEF Sound, Allotted
        <3> QED
            BY <3>1, <3>2, Constants DEF isPinned
    <2>3. onGossipUnknownTopic(st, m, ok) =
            IF leftWins(st.topics[mine], mine, m.lage, m.hash) THEN ScheduleUrgent(st, mine)
            ELSE topicAllocate(st, mine, e + 1, ok)
        BY <1>2 DEF onGossipUnknownTopic, sid, mine
    <2> HIDE DEF e
    <2>4. CASE leftWins(st.topics[mine], mine, m.lage, m.hash)
        BY <2>1, <2>3, <2>4, UrgentSound
    <2>5. CASE ~leftWins(st.topics[mine], mine, m.lage, m.hash)
        BY <2>1, <2>2, <2>3, <2>5, AllocateSound
    <2> QED
        BY <2>4, <2>5
<1> QED
    BY <1>1, <1>2

LEMMA GossipSound ==
    ASSUME NEW st, Sound(st), NEW m \in Gossips, NEW wanted, NEW ok, now \in Int
    PROVE  /\ Sound(onGossip(st, m, wanted, ok)) /\ Sound(onData(st, m, ok))
           /\ DOMAIN st.topics \subseteq DOMAIN onGossip(st, m, wanted, ok).topics
           /\ DOMAIN st.topics \subseteq DOMAIN onData(st, m, ok).topics
<1> DEFINE added == AddTopic(st, m.hash, PinNone, m.lage, m.evictions, ok)
           known == IF m.hash \notin DOMAIN st.topics /\ wanted THEN added ELSE st
<1>1. m.hash \in Topics /\ m.lage \in Int /\ m.evictions \in 0..EvictionsMax
    BY DEF Gossips
<1>2. m.hash \notin DOMAIN st.topics =>
        Sound(added) /\ DOMAIN st.topics \subseteq DOMAIN added.topics
    <2> SUFFICES ASSUME m.hash \notin DOMAIN st.topics
                 PROVE  Sound(added) /\ DOMAIN st.topics \subseteq DOMAIN added.topics
        OBVIOUS
    <2>1. PinNone \in Int \cup {PinNone}
        OBVIOUS
    <2>2. ASSUME NEW t \in Topics, NEW pin \in Int \cup {PinNone}, NEW lage \in Int,
                 NEW e \in 0..EvictionsMax, t \notin DOMAIN st.topics
          PROVE  /\ Sound(AddTopic(st, t, pin, lage, e, ok))
                 /\ DOMAIN AddTopic(st, t, pin, lage, e, ok).topics = DOMAIN st.topics \cup {t}
        BY <2>2, AddSound
    <2>3. Sound(added) /\ DOMAIN added.topics = DOMAIN st.topics \cup {m.hash}
        BY <1>1, <2>1, <2>2
    <2> QED
        BY <2>3
<1> HIDE DEF added
<1>3. Sound(known) /\ DOMAIN st.topics \subseteq DOMAIN known.topics
    BY <1>2
<1> HIDE DEF known
<1>4. onGossip(st, m, wanted, ok) =
        IF m.lage \notin LAGEMin..LAGEMax THEN st
        ELSE IF m.hash \in DOMAIN known.topics THEN onGossipKnownTopic(known, m, ok)
        ELSE onGossipUnknownTopic(known, m, ok)
    BY DEF onGossip, known, added
<1>5. /\ m.hash \in DOMAIN known.topics =>
            /\ Sound(onGossipKnownTopic(known, m, ok))
            /\ DOMAIN onGossipKnownTopic(known, m, ok).topics = DOMAIN known.topics
      /\ m.hash \in DOMAIN st.topics =>
            /\ Sound(onGossipKnownTopic(st, m, ok))
            /\ DOMAIN onGossipKnownTopic(st, m, ok).topics = DOMAIN st.topics
    BY <1>3, KnownTopicSound
<1>6. /\ Sound(onGossipUnknownTopic(known, m, ok)) /\ Sound(onGossipUnknownTopic(st, m, ok))
      /\ DOMAIN onGossipUnknownTopic(known, m, ok).topics = DOMAIN known.topics
      /\ DOMAIN onGossipUnknownTopic(st, m, ok).topics = DOMAIN st.topics
    BY <1>3, UnknownTopicSound
<1>7. Sound(onGossip(st, m, wanted, ok))
    BY <1>3, <1>4, <1>5, <1>6
<1>8. DOMAIN st.topics \subseteq DOMAIN onGossip(st, m, wanted, ok).topics
    BY <1>3, <1>4, <1>5, <1>6
<1>9. Sound(onData(st, m, ok)) /\ DOMAIN st.topics \subseteq DOMAIN onData(st, m, ok).topics
    BY <1>5, <1>6 DEF onData
<1> QED
    BY <1>7, <1>8, <1>9

-----------------------------------------------------------------------------
(***************************************************************************)
(* The nodes and the messages between them.                                *)
(***************************************************************************)
Message == Scouts \cup Gossips

NodesSound == cy \in [Nodes -> Node] /\ \A n \in Nodes : Sound(cy[n])

InboxesOK == inbox \in [Nodes -> Seq(Message)]

\* A composed message is about a topic of its node.
WiresOK ==
    /\ wire \in [Nodes -> Gossips \cup {None}]
    /\ \A n \in Nodes : wire[n] # None => wire[n].hash \in Known(n)

Inv == now \in Int /\ NodesSound /\ InboxesOK /\ WiresOK

LEMMA GossipType ==
    ASSUME Inv, NEW kind \in {"gossip", "unicast", "data"}, NEW n \in Nodes, NEW t \in Known(n)
    PROVE  Gossip(kind, n, t) \in Gossips
<1>1. cy[n] \in Node /\ t \in Topics /\ cy[n].topics[t] \in Topic
    BY NodeParts DEF Inv, NodesSound, Known
<1>2. Lage(cy[n].topics[t]) \in Int /\ cy[n].topics[t].evictions \in 0..EvictionsMax
    BY <1>1, LageType DEF Inv, Topic
<1> QED
    BY <1>1, <1>2 DEF Gossip, Gossips

LEMMA MulticastKeeps ==
    ASSUME InboxesOK, NEW m \in Message, NEW To, Multicast(inbox, m, To)
    PROVE  InboxesOK'
<1>1. PICK S \in SUBSET To :
        inbox' = [n \in Nodes |-> IF n \in S THEN Append(inbox[n], m) ELSE inbox[n]]
    BY DEF Multicast
<1>2. ASSUME NEW n \in Nodes PROVE inbox[n] \in Seq(Message) /\ Append(inbox[n], m) \in Seq(Message)
    <2>1. inbox[n] \in Seq(Message)
        BY DEF InboxesOK
    <2> QED
        BY <2>1, AppendProperties
<1> QED
    BY <1>1, <1>2 DEF InboxesOK

LEMMA RemoveType ==
    ASSUME NEW S, NEW s \in Seq(S), NEW i \in DOMAIN s
    PROVE  RemoveAt(s, i) \in Seq(S)
<1>1. Len(s) \in Nat /\ i \in 1..Len(s) /\ \A j \in 1..Len(s) : s[j] \in S
    BY LenProperties, ElementOfSeq
<1>2. SubSeq(s, 1, i - 1) \in Seq(S)
    BY <1>1, SubSeqProperties
<1>3. SubSeq(s, i + 1, Len(s)) \in Seq(S)
    BY <1>1, SubSeqProperties
<1> QED
    BY <1>2, <1>3, ConcatProperties DEF RemoveAt

LEMMA SetToSeqType ==
    ASSUME NEW S, IsFiniteSet(S)
    PROVE  SetToSeq(S) \in Seq(S)
<1>1. Cardinality(S) \in Nat /\ ExistsBijection(1..Cardinality(S), S)
    BY FS_CardinalityType
<1>2. PICK f : f \in Bijection(1..Cardinality(S), S)
    BY <1>1 DEF ExistsBijection
<1>3. f \in [1..Cardinality(S) -> S] /\ IsInjective(f)
    BY <1>2 DEF Bijection, Injection, IsInjective
<1>4. SetToSeq(S) \in [1..Cardinality(S) -> S]
    BY <1>3 DEF SetToSeq
<1> QED
    BY <1>1, <1>4, SeqDef

LEMMA RepliesType ==
    ASSUME Inv, NEW n \in Nodes, NEW m
    PROVE  Replies(n, m) \in Seq(Message)
<1> DEFINE known == {t \in Known(n) : <<m.from, t>> \in Matching}
           S == {Gossip("unicast", n, t) : t \in known}
<1>1. IsFiniteSet(known)
    <2>1. known \subseteq Topics
        BY NodeParts DEF Inv, NodesSound, Known
    <2> QED
        BY <2>1, Constants, FS_Subset
<1>2. IsFiniteSet(S)
    <2> DEFINE f == [t \in known |-> Gossip("unicast", n, t)]
    <2> HIDE DEF known
    <2>1. f \in Surjection(known, S)
        BY DEF Surjection
    <2> HIDE DEF f, S
    <2> QED
        BY <1>1, <2>1, FS_Surjection
<1>3. S \subseteq Message
    BY GossipType DEF Message
<1>4. Replies(n, m) = SetToSeq(S)
    BY DEF Replies, Known
<1> HIDE DEF S
<1>5. SetToSeq(S) \in Seq(S)
    BY <1>2, SetToSeqType
<1> QED
    BY <1>3, <1>4, <1>5, SeqMonotonic

-----------------------------------------------------------------------------
(***************************************************************************)
(* The steps.                                                              *)
(***************************************************************************)
\* The state of one node is replaced by a sound one with all of its topics.
LEMMA NodeReplaced ==
    ASSUME Inv, NEW n \in Nodes, NEW st, Sound(st), Known(n) \subseteq DOMAIN st.topics,
           cy' = [cy EXCEPT ![n] = st], UNCHANGED wire
    PROVE  NodesSound' /\ WiresOK'
<1>1. st \in Node /\ cy \in [Nodes -> Node]
    BY DEF Sound, Consistent, Inv, NodesSound
<1>2. cy' \in [Nodes -> Node] /\ \A o \in Nodes : cy'[o] = IF o = n THEN st ELSE cy[o]
    BY <1>1
<1>3. NodesSound'
    BY <1>2 DEF Inv, NodesSound
<1>4. \A o \in Nodes : Known(o) \subseteq Known(o)'
    BY <1>2 DEF Known
<1> QED
    BY <1>3, <1>4 DEF Inv, WiresOK

LEMMA SameNodes ==
    ASSUME Inv, UNCHANGED <<cy, wire>>
    PROVE  NodesSound' /\ WiresOK'
BY DEF Inv, NodesSound, WiresOK, Known

LEMMA CreateStep ==
    ASSUME Inv, NEW n \in Nodes, NEW t \in Topics, NEW pin \in Pins \cup {PinNone}, NEW ok,
           Create(n, t, pin, ok)
    PROVE  Inv'
<1> DEFINE e == IF pin = PinNone THEN 0 ELSE EvictionsMax - pin
           st == AddTopic(cy[n], t, pin, LAGEMin, e, ok)
<1>1. /\ cy' = [cy EXCEPT ![n] = st] /\ t \notin DOMAIN cy[n].topics
      /\ UNCHANGED <<inbox, wire, now>>
    BY DEF Create
<1>2. e \in 0..EvictionsMax
    <2>1. CASE pin = PinNone
        BY <2>1, Constants
    <2>2. CASE pin # PinNone
        <3>1. pin \in 0..SubjectIDPinnedMax
            BY <2>2, Constants
        <3> QED
            BY <2>2, <3>1, Constants
    <2> QED
        BY <2>1, <2>2
<1>3. pin \in Int \cup {PinNone} /\ LAGEMin \in Int
    BY Constants DEF LAGEMin
<1> HIDE DEF e
<1>4. Sound(st) /\ DOMAIN st.topics = DOMAIN cy[n].topics \cup {t}
    BY <1>1, <1>2, <1>3, AddSound DEF Inv, NodesSound
<1> HIDE DEF st
<1>5. NodesSound' /\ WiresOK'
    BY <1>1, <1>4, NodeReplaced DEF Known
<1> QED
    BY <1>1, <1>5 DEF Inv, InboxesOK

LEMMA SendUrgentStep ==
    ASSUME Inv, NEW n \in Nodes, NEW t \in Topics, SendUrgent(n, t)
    PROVE  Inv'
<1> DEFINE st == [cy[n] EXCEPT !.urgent = cy[n].urgent \ {t}]
<1>1. /\ t \in cy[n].urgent /\ Multicast(inbox, Gossip("gossip", n, t), Others(n))
      /\ cy' = [cy EXCEPT ![n].urgent = @ \ {t}] /\ UNCHANGED <<wire, now>>
    BY DEF SendUrgent
<1>2. Sound(cy[n]) /\ cy[n].urgent \subseteq Known(n)
    BY DEF Inv, NodesSound, Sound, Consistent, Scheduled, Known
<1>3. Sound(st) /\ st.topics = cy[n].topics
    <2>1. cy[n].urgent \ {t} \in SUBSET DOMAIN cy[n].topics
        BY <1>2 DEF Known
    <2> QED
        BY <1>2, <2>1, ScheduleSound
<1>4. cy' = [cy EXCEPT ![n] = st]
    BY <1>1
<1> HIDE DEF st
<1>5. NodesSound' /\ WiresOK'
    BY <1>1, <1>3, <1>4, NodeReplaced DEF Known
<1>6. Gossip("gossip", n, t) \in Message
    BY <1>1, <1>2, GossipType DEF Message
<1>7. InboxesOK'
    BY <1>1, <1>6, MulticastKeeps DEF Inv
<1> QED
    BY <1>1, <1>5, <1>7 DEF Inv

LEMMA SendPeriodicStep ==
    ASSUME Inv, NEW n \in Nodes, NEW t \in Topics, SendPeriodic(n, t)
    PROVE  Inv'
<1> DEFINE c == cy[n].topics[t].gossipCounter
           tp == [cy[n].topics[t] EXCEPT !.gossipCounter = Count(c)]
           st == [cy[n] EXCEPT !.topics[t] = tp]
<1>1. /\ t \in cy[n].periodic
      /\ \/ Multicast(inbox, Gossip("gossip", n, t), Others(n))
         \/ UNCHANGED inbox
      /\ cy' = [cy EXCEPT ![n].topics[t].gossipCounter = Count(c)] /\ UNCHANGED <<wire, now>>
    BY DEF SendPeriodic
<1>2. Sound(cy[n]) /\ t \in DOMAIN cy[n].topics
    BY <1>1 DEF Inv, NodesSound, Sound, Consistent, Scheduled
<1>3. cy[n].topics[t] \in Topic /\ cy[n].topics[t].reader \in {None, cy[n].topics[t].subjectID}
    BY <1>2, NodeParts DEF Sound, Consistent, Following
<1>4. Count(c) \in Int
    <2>1. c \in Int /\ BroadcastRatio \in Int
        BY <1>3, ConsensusAssumption DEF Topic, ConsensusAssumption
    <2> QED
        BY <2>1 DEF Count
<1>5. /\ tp \in Topic /\ tp.evictions = cy[n].topics[t].evictions
      /\ tp.pinned = cy[n].topics[t].pinned /\ tp.subjectID = cy[n].topics[t].subjectID
      /\ tp.reader = cy[n].topics[t].reader
    <2> HIDE DEF c
    <2> QED
        BY <1>3, <1>4 DEF Topic
<1>6. cy' = [cy EXCEPT ![n] = st]
    BY <1>1
<1> HIDE DEF tp
<1>7. Sound(st) /\ DOMAIN st.topics = DOMAIN cy[n].topics
    BY <1>2, <1>3, <1>5, AlikeSound
<1> HIDE DEF st
<1>8. NodesSound' /\ WiresOK'
    BY <1>1, <1>6, <1>7, NodeReplaced DEF Known
<1>9. Gossip("gossip", n, t) \in Message
    BY <1>2, GossipType DEF Message, Known
<1>10. InboxesOK'
    BY <1>1, <1>9, MulticastKeeps DEF Inv, InboxesOK
<1> QED
    BY <1>1, <1>8, <1>10 DEF Inv

LEMMA ScoutStep ==
    ASSUME Inv, NEW n \in Nodes, PatternSubscribe(n) \/ RetryScout(n)
    PROVE  Inv'
<1>1. /\ Multicast(inbox, Scout(n), Others(n)) \/ UNCHANGED inbox
      /\ UNCHANGED <<cy, wire, now>>
    BY DEF PatternSubscribe, RetryScout
<1>2. Scout(n) \in Message
    BY DEF Scout, Scouts, Message
<1>3. InboxesOK'
    BY <1>1, <1>2, MulticastKeeps DEF Inv, InboxesOK
<1> QED
    BY <1>1, <1>3, SameNodes DEF Inv

LEMMA BuildWireStep ==
    ASSUME Inv, NEW n \in Nodes, NEW t \in Topics, BuildWire(n, t)
    PROVE  Inv'
<1>1. /\ t \in Known(n) /\ wire' = [wire EXCEPT ![n] = Gossip("data", n, t)]
      /\ UNCHANGED <<cy, inbox, now>>
    BY DEF BuildWire, Known
<1>2. Gossip("data", n, t) \in Gossips /\ Gossip("data", n, t).hash = t
    BY <1>1, GossipType DEF Gossip
<1>3. WiresOK'
    BY <1>1, <1>2 DEF Inv, WiresOK, Known
<1> QED
    BY <1>1, <1>3 DEF Inv, NodesSound, InboxesOK

LEMMA SendWireStep ==
    ASSUME Inv, NEW n \in Nodes, SendWire(n)
    PROVE  Inv'
<1> DEFINE sid == cy[n].topics[wire[n].hash].subjectID
           m == [wire[n] EXCEPT !.subjectID = sid]
<1>1. /\ wire[n] # None /\ Multicast(inbox, m, Others(n)) /\ UNCHANGED <<cy, now>>
      /\ \/ wire' = [wire EXCEPT ![n] = wire[n]]
         \/ wire' = [wire EXCEPT ![n] = None]
    BY DEF SendWire
<1>2. wire[n] \in Gossips /\ wire[n].hash \in Known(n)
    BY <1>1 DEF Inv, WiresOK
<1>3. sid \in Int
    <2>1. cy[n] \in Node /\ wire[n].hash \in DOMAIN cy[n].topics
        BY <1>2 DEF Inv, NodesSound, Known
    <2>2. cy[n].topics[wire[n].hash] \in Topic
        BY <2>1, NodeParts
    <2> QED
        BY <2>2 DEF Topic
<1> HIDE DEF sid
<1>4. m \in Message
    BY <1>2, <1>3 DEF Gossips, Message
<1> HIDE DEF m
<1>5. InboxesOK'
    BY <1>1, <1>4, MulticastKeeps DEF Inv
<1>6. WiresOK'
    BY <1>1 DEF Inv, WiresOK, Known
<1> QED
    BY <1>1, <1>5, <1>6 DEF Inv, NodesSound

LEMMA NewCySound == Sound(NewCy)
<1>1. DOMAIN Empty = {} /\ Empty \in [{} -> Topic] /\ Empty \in [{} -> Topics]
    BY DEF Empty
<1>2. NewCy \in Node
    <2> HIDE DEF Empty
    <2>1. {} \in SUBSET Topics
        OBVIOUS
    <2>2. [topics |-> Empty, index |-> Empty, urgent |-> {}, periodic |-> {}] \in Node
        BY <1>1, <2>1, NodeMade
    <2> QED
        BY <2>2 DEF NewCy
<1> QED
    BY <1>1, <1>2 DEF NewCy, Sound, Consistent, Indexed, Following, Scheduled

LEMMA RestartStep ==
    ASSUME Inv, NEW n \in Nodes, Restart(n)
    PROVE  Inv'
<1>1. /\ cy' = [cy EXCEPT ![n] = NewCy] /\ wire' = [wire EXCEPT ![n] = None]
      /\ UNCHANGED <<inbox, now>>
    BY DEF Restart
<1>2. NewCy \in Node
    BY NewCySound DEF Sound, Consistent
<1>3. NodesSound'
    BY <1>1, <1>2, NewCySound DEF Inv, NodesSound
<1>4. WiresOK'
    BY <1>1 DEF Inv, NodesSound, WiresOK, Known
<1> QED
    BY <1>1, <1>3, <1>4 DEF Inv, InboxesOK

LEMMA ReceiveStep ==
    ASSUME Inv, NEW n \in Nodes, NEW i \in DOMAIN inbox[n], NEW again, NEW ok,
           Receive(n, i, again, ok)
    PROVE  Inv'
<1> DEFINE m == inbox[n][i]
           wanted == n \in pattern /\ <<n, m.hash>> \in Matching
           left == IF again THEN inbox ELSE [inbox EXCEPT ![n] = RemoveAt(inbox[n], i)]
<1>1. inbox[n] \in Seq(Message) /\ m \in Message
    <2>1. inbox[n] \in Seq(Message)
        BY DEF Inv, InboxesOK
    <2>2. i \in 1..Len(inbox[n])
        BY <2>1, LenProperties
    <2> QED
        BY <2>1, <2>2, ElementOfSeq
<1>2. left \in [Nodes -> Seq(Message)]
    BY <1>1, RemoveType DEF Inv, InboxesOK
<1>3. UNCHANGED <<wire, now>>
    BY DEF Receive
<1> HIDE DEF m
<1>4. \/ /\ m.kind = "scout" /\ UNCHANGED cy
         /\ \E replies \in {Replies(n, m), <<>>} :
                inbox' = [left EXCEPT ![m.from] = left[m.from] \o replies]
      \/ /\ m.kind \in {"gossip", "unicast"} /\ inbox' = left
         /\ cy' = [cy EXCEPT ![n] = onGossip(cy[n], m, wanted, ok)]
      \/ /\ m.kind = "data" /\ inbox' = left
         /\ cy' = [cy EXCEPT ![n] = onData(cy[n], m, ok)]
      \/ inbox' = left /\ UNCHANGED cy
    BY DEF Receive, m
<1> HIDE DEF left, wanted
<1>5. CASE /\ m.kind = "scout" /\ UNCHANGED cy
           /\ \E replies \in {Replies(n, m), <<>>} :
                inbox' = [left EXCEPT ![m.from] = left[m.from] \o replies]
    <2>1. PICK replies \in {Replies(n, m), <<>>} :
            inbox' = [left EXCEPT ![m.from] = left[m.from] \o replies]
        BY <1>5
    <2>2. m.from \in Nodes
        BY <1>1 DEF Message, Scouts, Gossips
    <2>3. replies \in Seq(Message)
        BY <2>1, RepliesType, EmptySeq
    <2>4. left[m.from] \o replies \in Seq(Message)
        BY <1>2, <2>2, <2>3, ConcatProperties
    <2>5. InboxesOK'
        BY <1>2, <2>1, <2>4 DEF InboxesOK
    <2> QED
        BY <1>3, <1>5, <2>5, SameNodes DEF Inv
<1>6. CASE inbox' = left /\ UNCHANGED cy
    BY <1>2, <1>3, <1>6, SameNodes DEF Inv, InboxesOK
<1>7. Sound(cy[n])
    BY DEF Inv, NodesSound
<1>8. m.kind # "scout" => m \in Gossips
    BY <1>1 DEF Message, Scouts
<1>9. CASE /\ m.kind \in {"gossip", "unicast"} /\ inbox' = left
           /\ cy' = [cy EXCEPT ![n] = onGossip(cy[n], m, wanted, ok)]
    <2> DEFINE st == onGossip(cy[n], m, wanted, ok)
    <2>1. Sound(st) /\ Known(n) \subseteq DOMAIN st.topics
        BY <1>7, <1>8, <1>9, GossipSound DEF Inv, Known
    <2> HIDE DEF st
    <2>2. NodesSound' /\ WiresOK'
        BY <1>3, <1>9, <2>1, NodeReplaced DEF st
    <2> QED
        BY <1>2, <1>3, <1>9, <2>2 DEF Inv, InboxesOK
<1>10. CASE /\ m.kind = "data" /\ inbox' = left
            /\ cy' = [cy EXCEPT ![n] = onData(cy[n], m, ok)]
    <2> DEFINE st == onData(cy[n], m, ok)
    <2>1. Sound(st) /\ Known(n) \subseteq DOMAIN st.topics
        BY <1>7, <1>8, <1>10, GossipSound DEF Inv, Known
    <2> HIDE DEF st
    <2>2. NodesSound' /\ WiresOK'
        BY <1>3, <1>10, <2>1, NodeReplaced DEF st
    <2> QED
        BY <1>2, <1>3, <1>10, <2>2 DEF Inv, InboxesOK
<1> QED
    BY <1>4, <1>5, <1>6, <1>9, <1>10

LEMMA TickStep ==
    ASSUME Inv, Tick
    PROVE  Inv'
BY SameNodes DEF Tick, Inv, InboxesOK

LEMMA InitInv == Init => Inv
<1> SUFFICES ASSUME Init PROVE Inv
    OBVIOUS
<1>1. NewCy \in Node /\ Sound(NewCy)
    BY NewCySound DEF Sound, Consistent
<1>2. NodesSound
    BY <1>1 DEF Init, NodesSound
<1>3. InboxesOK
    BY EmptySeq DEF Init, InboxesOK
<1>4. WiresOK
    BY DEF Init, WiresOK
<1> QED
    BY <1>2, <1>3, <1>4 DEF Init, Inv

LEMMA NextInv == Inv /\ [Next]_vars => Inv'
<1> SUFFICES ASSUME Inv, [Next]_vars PROVE Inv'
    OBVIOUS
<1>1. ASSUME NEW n \in Nodes, NEW t \in Topics,
             NEW pin \in Pins \cup {PinNone}, NEW ok \in MayFail, Create(n, t, pin, ok)
      PROVE  Inv'
    BY <1>1, CreateStep
<1>2. ASSUME NEW n \in Nodes, NEW t \in Topics, SendUrgent(n, t)
      PROVE  Inv'
    BY <1>2, SendUrgentStep
<1>3. ASSUME NEW n \in Nodes, NEW t \in Topics, SendPeriodic(n, t)
      PROVE  Inv'
    BY <1>3, SendPeriodicStep
<1>4. ASSUME NEW n \in Nodes, NEW t \in Topics, BuildWire(n, t)
      PROVE  Inv'
    BY <1>4, BuildWireStep
<1>5. ASSUME NEW n \in Nodes, PatternSubscribe(n) \/ RetryScout(n)
      PROVE  Inv'
    BY <1>5, ScoutStep
<1>6. ASSUME NEW n \in Nodes, SendWire(n)
      PROVE  Inv'
    BY <1>6, SendWireStep
<1>7. ASSUME NEW n \in Nodes, Restart(n)
      PROVE  Inv'
    BY <1>7, RestartStep
<1>8. ASSUME NEW n \in Nodes, NEW i \in DOMAIN inbox[n], NEW again \in MayRepeat,
             NEW ok \in MayFail, Receive(n, i, again, ok)
      PROVE  Inv'
    BY <1>8, ReceiveStep
<1>9. CASE Tick
    BY <1>9, TickStep
<1>10. CASE UNCHANGED vars
    BY <1>10, SameNodes DEF vars, Inv, InboxesOK
<1> QED
    BY <1>1, <1>2, <1>3, <1>4, <1>5, <1>6, <1>7, <1>8, <1>9, <1>10 DEF Next

LEMMA SpecInv == Spec => []Inv
<1>1. Init => Inv
    BY InitInv
<1>2. Inv /\ [Next]_vars => Inv'
    BY NextInv
<1> QED
    BY <1>1, <1>2, PTL DEF Spec

-----------------------------------------------------------------------------
(***************************************************************************)
(* The theorems.                                                           *)
(***************************************************************************)
\* The state of a node in which the allocation of t begins: t is known, and its
\* age may just have been merged, or it has just been added.
Begun(n, t, pin, lage, e) ==
    IF t \in Known(n) THEN [cy[n] EXCEPT !.topics[t] = MergeLageAt(cy[n].topics[t], lage)]
    ELSE [cy[n] EXCEPT !.topics = With(@, t, newTopic(t, pin, lage, e))]

EveryAllocationReturns ==
    \A n \in Nodes, t \in Topics, pin \in Pins \cup {PinNone},
       lage \in LAGEMin..LAGEMax, e \in 0..EvictionsMax, ok \in BOOLEAN :
        \E i \in 0..MaxCalls : Calls(Begun(n, t, pin, lage, e), t, e, ok)[i].topic = None

\* However the topics of a node defeat one another, try the next subject-ID and
\* are defeated there, and whether or not readers open: an allocation that
\* begins in a reachable state is over after MaxCalls calls of topicAllocate
\* (cy.go:1075, whose recursion has no bound of its own).
THEOREM AllocationReturns ==
    Spec => []EveryAllocationReturns
<1>1. ASSUME Inv, NEW n \in Nodes, NEW t \in Topics, NEW pin \in Pins \cup {PinNone},
             NEW lage \in LAGEMin..LAGEMax, NEW e \in 0..EvictionsMax, NEW ok \in BOOLEAN
      PROVE  \E i \in 0..MaxCalls : Calls(Begun(n, t, pin, lage, e), t, e, ok)[i].topic = None
    <2> DEFINE st == Begun(n, t, pin, lage, e)
    <2>1. Sound(cy[n]) /\ now \in Int /\ lage \in Int
        BY <1>1 DEF Inv, NodesSound, LAGEMin, LAGEMax
    <2>2. Consistent(st) /\ t \in DOMAIN st.topics
          /\ \A u \in DOMAIN st.topics \ {t} : Allotted(u, st.topics[u])
        <3>1. CASE t \in Known(n)
            <4>1. st = [cy[n] EXCEPT !.topics[t] = MergeLageAt(cy[n].topics[t], lage)]
                BY <3>1 DEF Begun
            <4> HIDE DEF st
            <4>2. Sound(st) /\ DOMAIN st.topics = DOMAIN cy[n].topics
                BY <2>1, <3>1, <4>1, MergedSound DEF Known
            <4> QED
                BY <3>1, <4>2 DEF Sound, Known
        <3>2. CASE t \notin Known(n)
            <4>1. st = [cy[n] EXCEPT !.topics = With(@, t, newTopic(t, pin, lage, e))]
                BY <3>2 DEF Begun
            <4> HIDE DEF st
            <4>2. pin \in Int \cup {PinNone}
                BY Constants
            <4>3. t \notin DOMAIN cy[n].topics
                BY <3>2 DEF Known
            <4>4. ASSUME NEW p \in Int \cup {PinNone}
                  PROVE  LET to == [cy[n] EXCEPT !.topics = With(@, t, newTopic(t, p, lage, e))]
                         IN  /\ Consistent(to) /\ DOMAIN to.topics = DOMAIN cy[n].topics \cup {t}
                             /\ \A u \in DOMAIN to.topics \ {t} : Allotted(u, to.topics[u])
                BY <2>1, <4>3, AddedStage
            <4> QED
                BY <4>1, <4>2, <4>4
        <3> QED
            BY <3>1, <3>2
    <2> HIDE DEF st
    <2>3. Call(st, t, e) \in Stages
        BY <2>2 DEF Call, Stages, Consistent
    <2> QED
        BY <2>1, <2>3, AllocationEnds DEF st
<1>2. Inv => EveryAllocationReturns
    BY <1>1 DEF EveryAllocationReturns
<1> QED
    BY <1>2, SpecInv, PTL

\* An entry of the subject-ID index is a topic of its node that uses that very
\* subject-ID, for every interleaving of creations, gossips, losses, failures
\* of readers and restarts (Deindex, AllocateOnce).
THEOREM IndexIsSound == Spec => []IndexSound
<1>1. Inv => IndexSound
    BY DEF Inv, NodesSound, Sound, Consistent, Indexed, IndexSound, Known
<1> QED
    BY <1>1, SpecInv, PTL

\* Nodes that agree on the eviction counter of a topic use one subject-ID for
\* it: the counter is all that a gossip has to carry (Settle).
SubjectsAgree ==
    \A n, o \in Nodes : \A t \in Known(n) \cap Known(o) :
        cy[n].topics[t].evictions = cy[o].topics[t].evictions
            => cy[n].topics[t].subjectID = cy[o].topics[t].subjectID

LEMMA CountersSuffice == Inv => SubjectsAgree
<1> SUFFICES ASSUME Inv, NEW n \in Nodes, NEW o \in Nodes, NEW t \in Known(n) \cap Known(o),
                    cy[n].topics[t].evictions = cy[o].topics[t].evictions
             PROVE  cy[n].topics[t].subjectID = cy[o].topics[t].subjectID
    BY DEF SubjectsAgree
<1>1. Allotted(t, cy[n].topics[t]) /\ Allotted(t, cy[o].topics[t])
    BY DEF Inv, NodesSound, Sound, Known
<1> QED
    BY <1>1 DEF Allotted

\* A reader that is open listens where its topic was allocated, after any chain
\* of defeats and failures to open a reader (resyncTopicReader); and that is
\* where every node with the same eviction counter publishes.
THEOREM ReadersFollow == Spec => [](SubjectsAgree /\ ReaderFollowsSubject)
<1>1. Inv => ReaderFollowsSubject
    <2> SUFFICES ASSUME Inv, NEW n \in Nodes, NEW o \in Nodes, NEW t \in Known(n) \cap Known(o),
                        cy[n].topics[t].evictions = cy[o].topics[t].evictions
                 PROVE  cy[n].topics[t].reader \in {None, cy[o].topics[t].subjectID}
        BY DEF ReaderFollowsSubject
    <2>1. cy[n].topics[t].subjectID = cy[o].topics[t].subjectID
        BY CountersSuffice DEF SubjectsAgree
    <2>2. cy[n].topics[t].reader \in {None, cy[n].topics[t].subjectID}
        BY DEF Inv, NodesSound, Sound, Consistent, Following, Known
    <2> QED
        BY <2>1, <2>2
<1> QED
    BY <1>1, CountersSuffice, SpecInv, PTL
=============================================================================
