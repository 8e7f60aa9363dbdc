------------------------ MODULE ReliableReceiverProofs ------------------------
(***************************************************************************)
(* Proofs about the receiver of reliable messages, for any subscribers,    *)
(* tag width, window sizes and timing.                                     *)
(*                                                                         *)
(* Tags wrap around, so the proofs speak of ranks: the place of a tag in   *)
(* the order of publication.  A buffer linearizes tags from an Origin; the *)
(* Edge is the rank up to which it takes no message any more.             *)
(***************************************************************************)
EXTENDS ReliableReceiver, FiniteSetTheorems, SequenceTheorems, TLAPS

-----------------------------------------------------------------------------
(* Tags.                                                                   *)

\* The tag of the i-th message.
TagOf(i) == Plus(TagBaseline, i)

LEMMA ModUnique ==
    ASSUME NEW m \in Nat \ {0}, NEW r \in 0..(m - 1), NEW k \in Int
    PROVE  (k * m + r) % m = r
OBVIOUS

LEMMA ModSplit ==
    ASSUME NEW m \in Nat \ {0}, NEW x \in Int
    PROVE  x % m \in 0..(m - 1) /\ \E k \in Int : x = k * m + (x % m)
<1>1. x = (x \div m) * m + (x % m)
    OBVIOUS
<1>2. x \div m \in Int
    OBVIOUS
<1>3. x % m \in 0..(m - 1)
    OBVIOUS
<1>4. \E k \in Int : x = k * m + (x % m)
    BY <1>1, <1>2
<1> QED
    BY <1>3, <1>4

\* Numbers that differ by a multiple of the modulus have the same residue.
LEMMA ModSame ==
    ASSUME NEW m \in Nat \ {0}, NEW x \in Int, NEW y \in Int, NEW k \in Int, x = y + k * m
    PROVE  x % m = y % m
<1>1. PICK j \in Int : y = j * m + (y % m)
    BY ModSplit
<1>2. PICK r \in 0..(m - 1) : r = y % m
    BY ModSplit
<1>3. x = (j + k) * m + r
    BY <1>1, <1>2
<1>4. j + k \in Int
    OBVIOUS
<1>5. PICK l \in Int : l = j + k
    BY <1>4
<1>6. x % m = r
    <2>1. (l * m + r) % m = r
        BY ModUnique
    <2> QED
        BY <1>3, <1>5, <2>1
<1> QED
    BY <1>2, <1>6

\* A residue within a sum, and within a difference.
LEMMA ModInner ==
    ASSUME NEW m \in Nat \ {0}, NEW x \in Int, NEW y \in Int
    PROVE  /\ ((x % m) + y) % m = (x + y) % m
           /\ (y - (x % m)) % m = (y - x) % m
<1>1. PICK k \in Int : x = k * m + (x % m)
    BY ModSplit
<1>2. PICK r \in 0..(m - 1) : r = x % m
    BY ModSplit
<1>3. PICK w \in Int : w = k * m
    OBVIOUS
<1>7. r \in Int
    BY <1>1
<1>6. x = w + r
    BY <1>1, <1>2, <1>3
<1>4. (x + y) % m = (r + y) % m
    <2>1. PICK u \in Int, v \in Int : u = x + y /\ v = r + y
        BY <1>7
    <2>2. u = v + w
        BY <1>6, <1>7, <2>1
    <2>3. u % m = v % m
        BY <1>3, <2>2, ModSame
    <2> QED
        BY <2>1, <2>3
<1>5. (y - r) % m = (y - x) % m
    <2>1. PICK u \in Int, v \in Int : u = y - r /\ v = y - x
        BY <1>7
    <2>2. u = v + w
        BY <1>6, <1>7, <2>1
    <2>3. u % m = v % m
        BY <1>3, <2>2, ModSame
    <2> QED
        BY <2>1, <2>3
<1> QED
    BY <1>2, <1>4, <1>5

LEMMA ModShort ==
    ASSUME NEW m \in Nat \ {0}, NEW x \in Int
    PROVE  /\ x \in 0..(m - 1) => x % m = x
           /\ x \in (-m)..(-1) => x % m = x + m
<1>1. x \in 0..(m - 1) => x % m = x
    OBVIOUS
<1>2. ASSUME x \in (-m)..(-1) PROVE x % m = x + m
    <2>1. x + m \in 0..(m - 1) /\ x = (-1) * m + (x + m)
        BY <1>2
    <2> QED
        BY <2>1, ModUnique
<1> QED
    BY <1>1, <1>2

LEMMA Constants ==
    /\ TagModulus \in Nat \ {0} /\ TagBaseline \in 0..(TagModulus - 1)
    /\ dedupHistory \in Nat \ {0} /\ dedupHistory <= TagModulus
    /\ reorderingCapacity \in Nat /\ reorderingCapacity > 3
    /\ MaxInputs \in Nat /\ MaxBackwardLag \in Nat
    /\ 2 * (MaxInputs + reorderingCapacity) < TagModulus
    /\ TagModulus \div 2 \in Nat
    /\ TagModulus - 1 <= 2 * (TagModulus \div 2) /\ 2 * (TagModulus \div 2) <= TagModulus
    /\ MaxBackwardLag < TagModulus \div 2
    /\ MaxInputs + reorderingCapacity < TagModulus \div 2
BY ReceiverAssumption

\* Plus and Minus as operations on integers.
LEMMA TagArithmetic ==
    ASSUME NEW x \in Int, NEW y \in Int
    PROVE  /\ Plus(x, y) \in 0..(TagModulus - 1) /\ Minus(x, y) \in 0..(TagModulus - 1)
           /\ x - y \in 0..(TagModulus - 1) => Minus(x, y) = x - y
           /\ x - y \in (-TagModulus)..(-1) => Minus(x, y) = x - y + TagModulus
<1> DEFINE M == TagModulus
<1>1. M \in Nat \ {0}
    BY Constants
<1>2. PICK u \in Int, v \in Int : u = x + y /\ v = x - y
    OBVIOUS
<1>3. u % M \in 0..(M - 1) /\ v % M \in 0..(M - 1)
    BY <1>1, ModSplit
<1>4. (v \in 0..(M - 1) => v % M = v) /\ (v \in (-M)..(-1) => v % M = v + M)
    BY <1>1, ModShort
<1> QED
    BY <1>2, <1>3, <1>4 DEF Plus, Minus

LEMMA TagOfFacts ==
    ASSUME NEW i \in Int, NEW j \in Int
    PROVE  /\ Minus(TagOf(i), TagOf(j)) = Minus(i, j)
           /\ Minus(TagOf(i), j) = TagOf(i - j)
           /\ Plus(TagOf(i), j) = TagOf(i + j)
           /\ TagOf(i) \in 0..(TagModulus - 1)
<1> DEFINE M == TagModulus
<1>1. M \in Nat \ {0} /\ TagBaseline \in Int
    BY Constants
<1>2. PICK u \in Int : u = TagBaseline + i
    BY <1>1
<1>3. PICK v \in Int : v = TagBaseline + j
    BY <1>1
<1>4. u % M \in Int /\ v % M \in Int /\ u - v = i - j /\ u - j = TagBaseline + (i - j)
        /\ u + j = TagBaseline + (i + j)
    BY <1>1, <1>2, <1>3
<1>5. ((u % M) - (v % M)) % M = (u - v) % M
    <2>1. PICK a \in Int, w \in Int : a = u % M /\ w = 0 - v
        BY <1>4
    <2>2. (a - (v % M)) % M = (a - v) % M
        BY <1>1, ModInner
    <2>3. ((u % M) + w) % M = (u + w) % M
        BY <1>1, ModInner
    <2>4. a - v = a + w /\ u - v = u + w
        BY <2>1
    <2> QED
        BY <2>1, <2>2, <2>3, <2>4
<1>6. ((u % M) - j) % M = (u - j) % M
    <2>1. PICK a \in Int, w \in Int : a = u % M /\ w = 0 - j
        BY <1>4
    <2>3. ((u % M) + w) % M = (u + w) % M
        BY <1>1, ModInner
    <2>4. a - j = a + w /\ u - j = u + w
        BY <2>1
    <2> QED
        BY <2>1, <2>3, <2>4
<1>7. ((u % M) + j) % M = (u + j) % M
    BY <1>1, <1>4, ModInner
<1>8. TagOf(i) = u % M /\ TagOf(j) = v % M
    BY <1>2, <1>3 DEF TagOf, Plus
<1>9. TagOf(i) \in 0..(M - 1)
    BY <1>1, <1>2, <1>8, ModSplit
<1>10. Minus(TagOf(i), TagOf(j)) = Minus(i, j)
    BY <1>4, <1>5, <1>8 DEF Minus
<1>11. Minus(TagOf(i), j) = TagOf(i - j)
    BY <1>4, <1>6, <1>8 DEF Minus, TagOf, Plus
<1>12. Plus(TagOf(i), j) = TagOf(i + j)
    BY <1>4, <1>7, <1>8 DEF TagOf, Plus
<1> QED
    BY <1>9, <1>10, <1>11, <1>12

LEMMA RankOf ==
    ASSUME NEW i \in 1..MaxInputs
    PROVE  TagOf(i) \in Tags /\ Rank(TagOf(i)) = i
<1>1. TagOf(i) \in Tags
    BY DEF Tags, TagOf
<1>2. i \in Int /\ i \in 0..(TagModulus - 1)
    BY Constants
<1>3. TagOf(0) = TagBaseline
    <2>1. TagBaseline + 0 = TagBaseline /\ TagBaseline % TagModulus = TagBaseline
        BY Constants, ModShort
    <2> QED
        BY <2>1 DEF TagOf, Plus
<1>4. Minus(TagOf(i), TagOf(0)) = Minus(i, 0)
    BY <1>2, TagOfFacts
<1>5. Minus(i, 0) = i
    BY <1>2, TagArithmetic
<1> QED
    BY <1>1, <1>3, <1>4, <1>5 DEF Rank

LEMMA RankFacts ==
    ASSUME NEW t \in Tags
    PROVE  Rank(t) \in 1..MaxInputs /\ TagOf(Rank(t)) = t /\ t \in 0..(TagModulus - 1)
<1>1. PICK i \in 1..MaxInputs : t = TagOf(i)
    BY DEF Tags, TagOf
<1>2. i \in Int
    BY Constants
<1> QED
    BY <1>1, <1>2, RankOf, TagOfFacts

\* How far apart two tags are, and which tag is that far behind another.
LEMMA TagDistance ==
    ASSUME NEW t \in Tags, NEW u \in Tags
    PROVE  /\ Rank(u) <= Rank(t) => Minus(t, u) = Rank(t) - Rank(u)
           /\ Rank(t) < Rank(u) => Minus(t, u) = Rank(t) - Rank(u) + TagModulus
           /\ Minus(t, u) \in 0..(TagModulus - 1)
           /\ Rank(t) = Rank(u) => t = u
<1>0. TagModulus \in Nat /\ MaxInputs \in Nat /\ MaxInputs < TagModulus
    BY Constants
<1>1. PICK i \in 1..MaxInputs, j \in 1..MaxInputs :
        i = Rank(t) /\ j = Rank(u) /\ t = TagOf(i) /\ u = TagOf(j)
    BY RankFacts
<1>2. i \in Int /\ j \in Int /\ i - j \in (-TagModulus)..(TagModulus - 1)
    BY Constants
<1>3. Minus(t, u) = Minus(i, j)
    BY <1>1, <1>2, TagOfFacts
<1>4. /\ i - j \in 0..(TagModulus - 1) => Minus(i, j) = i - j
      /\ i - j \in (-TagModulus)..(-1) => Minus(i, j) = i - j + TagModulus
      /\ Minus(i, j) \in 0..(TagModulus - 1)
    BY <1>2, TagArithmetic
<1>5. j <= i => Minus(t, u) = i - j
    BY <1>0, <1>2, <1>3, <1>4
<1>6. i < j => Minus(t, u) = i - j + TagModulus
    BY <1>0, <1>2, <1>3, <1>4
<1> QED
    BY <1>1, <1>3, <1>4, <1>5, <1>6

LEMMA TagsBehind ==
    ASSUME NEW t \in 0..(TagModulus - 1), NEW u \in 0..(TagModulus - 1)
    PROVE  Minus(t, Minus(t, u)) = u
<1> DEFINE M == TagModulus
<1>1. M \in Nat \ {0}
    BY Constants
<1>6. t \in Int /\ u \in Int
    BY <1>1
<1>2. PICK v \in Int : v = t - u
    BY <1>6
<1>3. (t - (v % M)) % M = (t - v) % M
    BY <1>1, <1>6, ModInner
<1>4. t - v = u
    BY <1>2, <1>6
<1>5. u % M = u
    BY <1>1, ModShort
<1> QED
    BY <1>2, <1>3, <1>4, <1>5 DEF Minus

-----------------------------------------------------------------------------
(* Linearized tags.                                                        *)

Half == reorderingCapacity \div 2

LEMMA HalfFacts ==
    Half \in Nat /\ 2 <= Half /\ Half + 2 <= reorderingCapacity
BY Constants DEF Half

\* The rank of the tag that a baseline linearizes to zero.
OriginOf(base) == Rank(Plus(base, Half)) - Half

LEMMA Linearized ==
    ASSUME NEW base \in 0..(TagModulus - 1), Plus(base, Half) \in Tags,
           NEW o, o = OriginOf(base)
    PROVE  /\ o \in Int /\ 1 - Half <= o /\ o <= MaxInputs - Half
           /\ \A k \in Int : Plus(k, base) = TagOf(o + k)
           /\ \A t \in Tags : /\ o <= Rank(t) => Minus(t, base) = Rank(t) - o
                              /\ Rank(t) < o => Minus(t, base) = Rank(t) - o + TagModulus
<1> DEFINE M == TagModulus
<1>1. M \in Nat \ {0} /\ Half \in Nat /\ base \in Int
    BY Constants, HalfFacts
<1>2. PICK r \in 1..MaxInputs : r = Rank(Plus(base, Half)) /\ TagOf(r) = Plus(base, Half)
    BY RankFacts
<1>3. o = r - Half /\ r \in Int /\ o \in Int /\ 1 - Half <= o /\ o <= MaxInputs - Half
    BY <1>1, <1>2, Constants DEF OriginOf
<1>4. base = TagOf(o)
    <2>1. Minus(TagOf(r), Half) = TagOf(o)
        BY <1>1, <1>3, TagOfFacts
    <2>2. PICK v \in Int, w \in Int : v = base + Half /\ w = -Half
        BY <1>1
    <2>3. ((v % M) + w) % M = (v + w) % M
        BY <1>1, ModInner
    <2>4. v + w = base /\ base % M = base
        BY <1>1, <2>2, ModShort
    <2>5. v % M \in Int
        BY <1>1, ModSplit
    <2>6. Minus(v % M, Half) = base
        BY <1>1, <2>2, <2>3, <2>4, <2>5 DEF Minus
    <2> QED
        BY <1>2, <2>1, <2>2, <2>6 DEF Plus
<1>5. ASSUME NEW k \in Int PROVE Plus(k, base) = TagOf(o + k)
    <2>1. Plus(base, k) = TagOf(o + k)
        BY <1>3, <1>4, TagOfFacts
    <2>2. k + base = base + k
        BY <1>1
    <2> QED
        BY <2>1, <2>2 DEF Plus
<1>6. ASSUME NEW t \in Tags
      PROVE  /\ o <= Rank(t) => Minus(t, base) = Rank(t) - o
             /\ Rank(t) < o => Minus(t, base) = Rank(t) - o + M
    <2>1. PICK i \in 1..MaxInputs : i = Rank(t) /\ TagOf(i) = t
        BY RankFacts
    <2>2. i \in Int /\ i - o \in (-M)..(M - 1)
        BY <1>1, <1>3, Constants, HalfFacts
    <2>3. Minus(t, base) = Minus(i, o)
        BY <1>3, <1>4, <2>1, <2>2, TagOfFacts
    <2>4. /\ i - o \in 0..(M - 1) => Minus(i, o) = i - o
          /\ i - o \in (-M)..(-1) => Minus(i, o) = i - o + M
        BY <1>3, <2>2, TagArithmetic
    <2> QED
        BY <1>1, <1>3, <2>1, <2>2, <2>3, <2>4
<1> QED
    BY <1>3, <1>5, <1>6

LEMMA BaselineAround ==
    ASSUME NEW t \in Tags
    PROVE  /\ Minus(t, Half) \in 0..(TagModulus - 1)
           /\ Plus(Minus(t, Half), Half) = t
           /\ OriginOf(Minus(t, Half)) = Rank(t) - Half
<1> DEFINE M == TagModulus
<1>1. M \in Nat \ {0} /\ Half \in Int /\ t \in 0..(M - 1) /\ t \in Int
    BY Constants, HalfFacts, RankFacts
<1>2. Minus(t, Half) \in 0..(M - 1)
    BY <1>1, TagArithmetic
<1>3. Plus(Minus(t, Half), Half) = t
    <2>1. PICK v \in Int : v = t - Half
        BY <1>1
    <2>2. ((v % M) + Half) % M = (v + Half) % M
        BY <1>1, ModInner
    <2>3. v + Half = t /\ t % M = t
        BY <1>1, <2>1, ModShort
    <2> QED
        BY <2>1, <2>2, <2>3 DEF Plus, Minus
<1> QED
    BY <1>2, <1>3 DEF OriginOf

-----------------------------------------------------------------------------
(* The order of finite sets of numbers.                                    *)

LEMMA AscendingExists ==
    ASSUME NEW S, S \subseteq Nat, IsFiniteSet(S)
    PROVE  \E f \in [1..Cardinality(S) -> S] : \A i, j \in DOMAIN f : i < j => f[i] < f[j]
<1>1. PICK c : c = Cardinality(S)
    OBVIOUS
<1>2. PICK place : place = [x \in S |-> Cardinality({y \in S : y <= x})]
    OBVIOUS
<1>3. c \in Nat /\ \A x \in S : x \in Nat
    BY <1>1, FS_CardinalityType
<1>4. ASSUME NEW x \in S PROVE place[x] \in 1..c
    <2>1. PICK below \in SUBSET S : below = {y \in S : y <= x}
        OBVIOUS
    <2>2. IsFiniteSet(below) /\ Cardinality(below) <= c
        BY <1>1, FS_Subset
    <2>3. Cardinality(below) \in Nat
        BY <2>2, FS_CardinalityType
    <2>4. x \in below
        BY <1>3, <2>1
    <2>5. Cardinality(below) # 0
        BY <2>2, <2>4, FS_EmptySet
    <2> QED
        BY <1>2, <1>3, <2>1, <2>2, <2>3, <2>5
<1>5. ASSUME NEW x \in S, NEW y \in S, x < y PROVE place[x] < place[y]
    <2>1. PICK below : below = {z \in S : z <= x}
        OBVIOUS
    <2>2. PICK more \in SUBSET S : more = {z \in S : z <= y}
        OBVIOUS
    <2>3. below \in SUBSET more /\ y \in more /\ y \notin below
        <3>1. x \in Nat /\ y \in Nat
            BY <1>3
        <3>2. \A z \in below : z \in more
            BY <1>3, <1>5, <2>1, <2>2, <3>1
        <3>3. y \in more /\ y \notin below
            BY <1>5, <2>1, <2>2, <3>1
        <3> QED
            BY <3>2, <3>3
    <2>4. IsFiniteSet(more)
        BY FS_Subset
    <2>5. IsFiniteSet(below) /\ Cardinality(below) <= Cardinality(more)
            /\ Cardinality(below) # Cardinality(more)
        BY <2>3, <2>4, FS_Subset
    <2>6. Cardinality(below) \in Nat /\ Cardinality(more) \in Nat
        BY <2>4, <2>5, FS_CardinalityType
    <2>7. Cardinality(below) < Cardinality(more)
        BY <2>5, <2>6
    <2> QED
        BY <1>2, <2>1, <2>2, <2>7
<1>6. \A x, y \in S : place[x] = place[y] => x = y
    BY <1>3, <1>4, <1>5
<1>7. \A n \in 1..c : \E x \in S : place[x] = n
    <2>1. place \in [S -> 1..c]
        BY <1>2, <1>4
    <2>2. place \in Injection(S, 1..c)
        BY <1>6, <2>1 DEF Injection, IsInjective
    <2>3. IsFiniteSet(1..c) /\ Cardinality(1..c) = c
        BY <1>3, FS_Interval
    <2>4. place \in Surjection(S, 1..c)
        BY <1>1, <2>2, <2>3, FS_Injection, Zenon
    <2> QED
        BY <2>4 DEF Surjection
<1>8. PICK f : f = [n \in 1..c |-> CHOOSE x \in S : place[x] = n]
    OBVIOUS
<1>9. f \in [1..c -> S] /\ \A n \in 1..c : f[n] \in S /\ place[f[n]] = n
    <2>1. \A n \in 1..c : f[n] \in S /\ place[f[n]] = n
        BY <1>7, <1>8
    <2>2. DOMAIN f = 1..c /\ f = [n \in DOMAIN f |-> f[n]]
        BY <1>8
    <2>3. f \in [1..c -> S]
        BY <2>1, <2>2
    <2> QED
        BY <2>1, <2>3
<1>10. ASSUME NEW i \in 1..c, NEW j \in 1..c, i < j PROVE f[i] < f[j]
    <2>1. f[i] \in Nat /\ f[j] \in Nat
        BY <1>3, <1>9
    <2>2. PICK x \in S, y \in S : x = f[i] /\ y = f[j]
        BY <1>9
    <2>3. place[x] = i /\ place[y] = j
        BY <1>9, <2>2
    <2>4. x # y
        BY <1>3, <1>10, <2>3
    <2>5. y < x => j < i
        BY <1>5, <2>3
    <2> QED
        BY <1>3, <1>10, <2>1, <2>2, <2>4, <2>5
<1> QED
    BY <1>1, <1>9, <1>10

LEMMA AscendingFacts ==
    ASSUME NEW S, S \subseteq Nat, IsFiniteSet(S), NEW f, f = Ascending(S)
    PROVE  /\ f \in Seq(S) /\ Len(f) = Cardinality(S)
           /\ \A i, j \in DOMAIN f : i < j => f[i] < f[j]
           /\ \A i \in DOMAIN f : f[i] \in S
           /\ \A x \in S : \E i \in DOMAIN f : f[i] = x
<1>1. PICK c \in Nat : c = Cardinality(S)
    BY FS_CardinalityType
<1>2. f \in [1..c -> S] /\ \A i, j \in DOMAIN f : i < j => f[i] < f[j]
    BY <1>1, AscendingExists DEF Ascending
<1>3. f \in Seq(S) /\ Len(f) = c /\ DOMAIN f = 1..c
    <2>1. DOMAIN f = 1..c
        BY <1>2
    <2>2. f \in Seq(S)
        BY <1>2
    <2>3. Len(f) = c
        BY <2>1, <2>2
    <2> QED
        BY <2>1, <2>2, <2>3
<1>4. \A i, j \in 1..c : f[i] = f[j] => i = j
    <2>1. \A i \in 1..c : f[i] \in Nat
        BY <1>2
    <2> QED
        BY <1>1, <1>2, <1>3, <2>1
<1>5. f \in Injection(1..c, S)
    BY <1>2, <1>4 DEF Injection, IsInjective
<1>6. IsFiniteSet(1..c) /\ Cardinality(1..c) = c
    BY <1>1, FS_Interval
<1>7. f \in Surjection(1..c, S)
    BY <1>1, <1>5, <1>6, FS_Injection, Zenon
<1>8. \A x \in S : \E i \in 1..c : f[i] = x
    BY <1>7 DEF Surjection
<1> QED
    BY <1>1, <1>2, <1>3, <1>8

LEMMA ExtremesFacts ==
    ASSUME NEW S, S \subseteq Nat, IsFiniteSet(S), S # {}
    PROVE  /\ Lowest(S) \in S /\ \A x \in S : Lowest(S) <= x
           /\ Highest(S) \in S /\ \A x \in S : x <= Highest(S)
<1>1. PICK f : f = Ascending(S)
    OBVIOUS
<1>2. /\ f \in Seq(S) /\ Len(f) = Cardinality(S)
      /\ \A i, j \in DOMAIN f : i < j => f[i] < f[j]
      /\ \A i \in DOMAIN f : f[i] \in S
      /\ \A x \in S : \E i \in DOMAIN f : f[i] = x
    BY <1>1, AscendingFacts, Zenon
<1>3. PICK c \in Nat \ {0} : c = Len(f)
    <2>1. Cardinality(S) # 0 /\ Cardinality(S) \in Nat
        BY FS_EmptySet, FS_CardinalityType
    <2> QED
        BY <1>2, <2>1
<1>4. DOMAIN f = 1..c /\ \A i \in 1..c : f[i] \in S /\ f[i] \in Nat
    <2>1. DOMAIN f = 1..c
        BY <1>2, <1>3
    <2>2. \A i \in DOMAIN f : f[i] \in S
        BY <1>2
    <2> QED
        BY <2>1, <2>2
<1>5. 1 \in 1..c /\ c \in 1..c
    BY <1>3
<1>6. \A x \in S : \E i \in 1..c : f[i] = x
    BY <1>2, <1>4
<1>7. ASSUME NEW i \in 1..c PROVE f[1] <= f[i] /\ f[i] <= f[c]
    <2>1. f[1] \in Nat /\ f[i] \in Nat /\ f[c] \in Nat
        BY <1>4, <1>5
    <2>2. i = 1 \/ 1 < i
        BY <1>3
    <2>3. i = c \/ i < c
        BY <1>3
    <2>4. (1 < i => f[1] < f[i]) /\ (i < c => f[i] < f[c])
        BY <1>2, <1>4, <1>5
    <2> QED
        BY <2>1, <2>2, <2>3, <2>4
<1>8. f[1] \in S /\ \A x \in S : f[1] <= x
    BY <1>4, <1>5, <1>6, <1>7
<1>9. f[c] \in S /\ \A x \in S : x <= f[c]
    BY <1>4, <1>5, <1>6, <1>7
<1>10. Lowest(S) \in S /\ \A x \in S : Lowest(S) <= x
    BY <1>8 DEF Lowest
<1>11. Highest(S) \in S /\ \A x \in S : x <= Highest(S)
    BY <1>9 DEF Highest
<1> QED
    BY <1>10, <1>11

-----------------------------------------------------------------------------
(***************************************************************************)
(* The inductive invariant.                                                *)
(***************************************************************************)
Messages == [tag : Tags, deadline : Nat, reliable : BOOLEAN]

Types ==
    /\ msgSeqno \in Nat /\ changes \in Nat /\ msgSeqno + 2 * changes <= MaxInputs
    /\ now \in 0..MaxTime
    /\ net \subseteq Messages
    /\ acks \subseteq Tags /\ accepted \subseteq Tags
    /\ sub \in [Subs -> {"none", "live", "disposed"}]
    /\ dedup \in DedupState \cup {None}
    /\ reordering \in [Subs -> ReorderingState \cup {None}]
    /\ delivered \in [Subs -> Seq(Tags)]

\* What the publisher and the network owe: nothing on the network is late, or
\* lags behind what is published, by more than a receiver can tell.
Network ==
    /\ \A m \in net :
        /\ Rank(m.tag) <= msgSeqno /\ msgSeqno - Rank(m.tag) <= MaxBackwardLag
        /\ now <= m.deadline /\ m.deadline <= now + Patience
    /\ \A m, n \in net :
        /\ m.tag = n.tag => m = n
        /\ m.reliable /\ n.reliable => Rank(n.tag) - Rank(m.tag) < dedupHistory

\* The bits of the dedup window are set for accepted messages, and it reaches
\* back to every reliable message on the network.
Window(d) ==
    /\ d.tag \in Tags /\ Rank(d.tag) <= msgSeqno /\ d.lastActiveAt <= now
    /\ \A i \in d.bitmap : Minus(d.tag, i) \in accepted
    /\ \A m \in net : m.reliable => Rank(d.tag) - Rank(m.tag) < dedupHistory

Remembered == dedup # None => Window(dedup)

\* The rank that is linearized to zero, and the last one that was handed over.
Origin(q) == OriginOf(q.tagBaseline)
Edge(q) == Origin(q) + q.lastEjected

\* A buffer, in the middle of a step also.
Buffer(q) ==
    /\ q \in ReorderingState
    /\ Plus(q.tagBaseline, Half) \in Tags
    /\ Edge(q) <= msgSeqno
    /\ \A k \in DOMAIN q.slots :
        /\ q.lastEjected < k /\ k <= q.lastEjected + reorderingCapacity
        /\ 1 <= Origin(q) + k /\ Origin(q) + k <= msgSeqno
        /\ q.slots[k] <= q.lastActiveAt

Gap(q) == q.lastEjected + 1 \notin DOMAIN q.slots

Armed(q) ==
    DOMAIN q.slots # {} => q.windowTask = q.slots[Lowest(DOMAIN q.slots)] + ReorderingWindow

\* A buffer between two steps.
Idle(q) ==
    /\ Buffer(q) /\ Gap(q) /\ Armed(q) /\ q.out = <<>> /\ q.lastActiveAt <= now
    /\ DOMAIN q.slots # {} => now <= q.lastActiveAt + ReorderingWindow

Buffers ==
    \A s \in Subs :
        /\ reordering[s] # None => s \in Ordered /\ Idle(reordering[s])
        /\ sub[s] = "none" => reordering[s] = None
        /\ sub[s] = "live" /\ s \in Ordered /\ reordering[s] = None => delivered[s] = <<>>

\* What a subscriber was notified of, up to rank d, precedes what waits, and a
\* copy on the network is a later one or comes too late.
Behind(q, d) ==
    /\ d <= msgSeqno
    /\ \A k \in DOMAIN q.slots : d < Origin(q) + k
    /\ \A m \in net : d < Rank(m.tag) \/ Rank(m.tag) <= Edge(q)

\* What was published after the buffer was active last is later than rank d.
Older(q, d) == \A m \in net : m.deadline > q.lastActiveAt + Patience => d < Rank(m.tag)

NothingTwice(q, tags) ==
    /\ \A j \in DOMAIN tags : Behind(q, Rank(tags[j])) /\ Older(q, Rank(tags[j]))
    /\ \A k \in DOMAIN q.slots : Older(q, Origin(q) + k)

OrderedOnce ==
    \A s \in Ordered : sub[s] = "live" /\ reordering[s] # None =>
        NothingTwice(reordering[s], delivered[s])

\* A copy of what an unordered subscriber was notified of is known as one.
PlainOnce ==
    \A s \in Subs \ Ordered : sub[s] = "live" =>
        \A j \in DOMAIN delivered[s] :
            /\ Rank(delivered[s][j]) <= msgSeqno
            /\ \A m \in net : m.tag = delivered[s][j] =>
                    /\ m.reliable /\ dedup # None /\ check(dedup, m.tag)
                    /\ m.deadline <= dedup.lastActiveAt + Patience

RxInv ==
    /\ Types /\ Network /\ Remembered /\ acks \subseteq accepted
    /\ Buffers /\ OrderedOnce /\ PlainOnce /\ DeliveredOnceInOrder

-----------------------------------------------------------------------------
(* The fields of a buffer.                                                 *)

State(base, edge, slots, task, at, out) ==
    [tagBaseline |-> base, lastEjected |-> edge, slots |-> slots, windowTask |-> task,
     lastActiveAt |-> at, out |-> out]

LEMMA StateFields ==
    ASSUME NEW q \in ReorderingState
    PROVE  /\ q = State(q.tagBaseline, q.lastEjected, q.slots, q.windowTask, q.lastActiveAt, q.out)
           /\ q.tagBaseline \in 0..(TagModulus - 1) /\ q.lastEjected \in Nat
           /\ q.windowTask \in Nat \cup {None} /\ q.lastActiveAt \in Nat
           /\ q.out \in Seq(0..(TagModulus - 1))
           /\ DOMAIN q.slots \subseteq 0..(MaxInputs + reorderingCapacity)
           /\ DOMAIN q.slots \subseteq Nat /\ IsFiniteSet(DOMAIN q.slots)
           /\ q.slots \in [DOMAIN q.slots -> Nat]
           /\ q.slots = Empty <=> DOMAIN q.slots = {}
<1>1. PICK S \in SUBSET (0..(MaxInputs + reorderingCapacity)) : q.slots \in [S -> Nat]
    BY DEF ReorderingState
<1>2. DOMAIN q.slots = S /\ q.slots \in [DOMAIN q.slots -> Nat]
    BY <1>1
<1>3. IsFiniteSet(DOMAIN q.slots)
    <2>1. IsFiniteSet(0..(MaxInputs + reorderingCapacity))
        BY Constants, FS_Interval
    <2> QED
        BY <1>2, <2>1, FS_Subset
<1>4. S \subseteq Nat
    BY Constants
<1>5. q.slots = Empty <=> DOMAIN q.slots = {}
    BY <1>2 DEF Empty
<1>6. q = State(q.tagBaseline, q.lastEjected, q.slots, q.windowTask, q.lastActiveAt, q.out)
    BY DEF ReorderingState, State
<1>7. /\ q.tagBaseline \in 0..(TagModulus - 1) /\ q.lastEjected \in Nat
      /\ q.windowTask \in Nat \cup {None} /\ q.lastActiveAt \in Nat
      /\ q.out \in Seq(0..(TagModulus - 1))
    BY DEF ReorderingState
<1> QED
    BY <1>2, <1>3, <1>4, <1>5, <1>6, <1>7

\* The fields of a state that was put together.
LEMMA StateParts ==
    ASSUME NEW base, NEW edge, NEW slots, NEW task, NEW at, NEW out,
           NEW q, q = State(base, edge, slots, task, at, out)
    PROVE  /\ q.tagBaseline = base /\ q.lastEjected = edge /\ q.slots = slots
           /\ q.windowTask = task /\ q.lastActiveAt = at /\ q.out = out
BY DEF State

LEMMA StateMade ==
    ASSUME NEW q,
           q = State(q.tagBaseline, q.lastEjected, q.slots, q.windowTask, q.lastActiveAt, q.out),
           q.tagBaseline \in 0..(TagModulus - 1), q.lastEjected \in Nat,
           q.slots \in [DOMAIN q.slots -> Nat],
           DOMAIN q.slots \subseteq 0..(MaxInputs + reorderingCapacity),
           q.windowTask \in Nat \cup {None}, q.lastActiveAt \in Nat,
           q.out \in Seq(0..(TagModulus - 1))
    PROVE  q \in ReorderingState
<1>1. q.slots \in UNION {[S -> Nat] : S \in SUBSET (0..(MaxInputs + reorderingCapacity))}
    OBVIOUS
<1> QED
    BY <1>1 DEF ReorderingState, State

\* What EXCEPT does to a buffer.
LEMMA StateExcept ==
    ASSUME NEW q \in ReorderingState, NEW x
    PROVE  /\ [q EXCEPT !.windowTask = x]
                = State(q.tagBaseline, q.lastEjected, q.slots, x, q.lastActiveAt, q.out)
           /\ [q EXCEPT !.out = x]
                = State(q.tagBaseline, q.lastEjected, q.slots, q.windowTask, q.lastActiveAt, x)
           /\ [q EXCEPT !.slots = x]
                = State(q.tagBaseline, q.lastEjected, x, q.windowTask, q.lastActiveAt, q.out)
           /\ [q EXCEPT !.lastActiveAt = x]
                = State(q.tagBaseline, q.lastEjected, q.slots, q.windowTask, x, q.out)
BY DEF ReorderingState, State

\* What the buffer knows, in ranks.
Waits(q, r) == r - Origin(q) \in DOMAIN q.slots
Handed(q, r) == \E i \in DOMAIN q.out : Rank(q.out[i]) = r
Holds(q, r) == Waits(q, r) \/ Handed(q, r)

\* Tags in the order of publication.
Rising(tags) == \A i, j \in DOMAIN tags : i < j => Rank(tags[i]) < Rank(tags[j])

\* One sequence of tags comes before another.
Before(a, b) == \A i \in DOMAIN a, j \in DOMAIN b : Rank(a[i]) < Rank(b[j])

\* What was handed over during a step is in order, and behind the edge.
Passed(q) ==
    /\ q.out \in Seq(Tags) /\ Rising(q.out)
    /\ \A i \in DOMAIN q.out : Rank(q.out[i]) <= Edge(q)

\* The buffer moves on: nothing gets lost, nothing is added.
Advances(q, e) ==
    /\ Buffer(e) /\ Passed(e)
    /\ e.lastActiveAt = q.lastActiveAt
    /\ Edge(q) <= Edge(e)
    /\ \A r \in Int : Holds(e, r) <=> Holds(q, r)

LEMMA BufferFields ==
    ASSUME NEW q, Buffer(q)
    PROVE  /\ q \in ReorderingState
           /\ Origin(q) \in Int /\ 1 - Half <= Origin(q) /\ Origin(q) <= MaxInputs - Half
           /\ Edge(q) \in Int /\ q.lastEjected \in Nat
           /\ \A k \in Int : Plus(k, q.tagBaseline) = TagOf(Origin(q) + k)
           /\ \A t \in Tags :
                /\ Origin(q) <= Rank(t) => Minus(t, q.tagBaseline) = Rank(t) - Origin(q)
                /\ Rank(t) < Origin(q) =>
                        Minus(t, q.tagBaseline) = Rank(t) - Origin(q) + TagModulus
<1>1. q \in ReorderingState /\ Plus(q.tagBaseline, Half) \in Tags
    BY DEF Buffer
<1>2. PICK base \in 0..(TagModulus - 1) : base = q.tagBaseline
    BY <1>1, StateFields
<1>3. Plus(base, Half) \in Tags
    BY <1>1, <1>2
<1>4. PICK o : o = OriginOf(base)
    OBVIOUS
<1>5. /\ o \in Int /\ 1 - Half <= o /\ o <= MaxInputs - Half
      /\ \A k \in Int : Plus(k, base) = TagOf(o + k)
      /\ \A t \in Tags : /\ o <= Rank(t) => Minus(t, base) = Rank(t) - o
                         /\ Rank(t) < o => Minus(t, base) = Rank(t) - o + TagModulus
    BY <1>3, <1>4, Linearized
<1>6. q.lastEjected \in Nat
    BY <1>1, StateFields
<1>7. Origin(q) = o /\ Edge(q) = o + q.lastEjected
    BY <1>2, <1>4 DEF Origin, Edge
<1>8. Edge(q) \in Int
    BY <1>5, <1>6, <1>7
<1> QED
    BY <1>1, <1>2, <1>5, <1>6, <1>7, <1>8

-----------------------------------------------------------------------------
(* The steps of a buffer.                                                  *)

LEMMA TagSequences ==
    ASSUME NEW tags \in Seq(Tags)
    PROVE  tags \in Seq(0..(TagModulus - 1))
<1>1. \A t \in Tags : t \in 0..(TagModulus - 1)
    BY RankFacts
<1>2. PICK n \in Nat : n = Len(tags)
    OBVIOUS
<1>3. tags \in [1..n -> Tags]
    BY <1>2
<1>4. PICK T : T = 0..(TagModulus - 1)
    OBVIOUS
<1>5. tags \in [1..n -> T]
    BY <1>1, <1>3, <1>4
<1>6. tags \in Seq(T)
    BY <1>5
<1> QED
    BY <1>4, <1>6

\* Sequence c has the members of a and those of b.
MadeOf(c, a, b) ==
    /\ \A i \in DOMAIN c : \/ \E j \in DOMAIN a : c[i] = a[j]
                           \/ \E j \in DOMAIN b : c[i] = b[j]
    /\ \A j \in DOMAIN a : \E i \in DOMAIN c : c[i] = a[j]
    /\ \A j \in DOMAIN b : \E i \in DOMAIN c : c[i] = b[j]

\* Two sequences of tags, one after the other.
LEMMA Joined ==
    ASSUME NEW a \in Seq(Tags), NEW b \in Seq(Tags), NEW c, c = a \o b
    PROVE  /\ c \in Seq(Tags)
           /\ MadeOf(c, a, b)
           /\ Rising(a) /\ Rising(b) /\ Before(a, b) => Rising(c)
<1>1. PICK m \in Nat, n \in Nat : m = Len(a) /\ n = Len(b)
    OBVIOUS
<1>2. /\ c \in Seq(Tags) /\ DOMAIN c = 1..(m + n) /\ DOMAIN a = 1..m /\ DOMAIN b = 1..n
      /\ \A i \in 1..m : c[i] = a[i]
      /\ \A i \in 1..n : c[m + i] = b[i]
    BY <1>1
<1>3. ASSUME NEW i \in DOMAIN c
      PROVE  \/ i \in DOMAIN a /\ c[i] = a[i]
             \/ i > m /\ i - m \in DOMAIN b /\ c[i] = b[i - m]
    <2>1. CASE i <= m
        BY <1>2, <2>1
    <2>2. CASE i > m
        <3>1. i - m \in 1..n /\ m + (i - m) = i
            BY <1>2, <2>2
        <3> QED
            BY <1>2, <2>2, <3>1
    <2> QED
        BY <1>2, <2>1, <2>2
<1>4. ASSUME NEW j \in DOMAIN a PROVE \E i \in DOMAIN c : c[i] = a[j]
    BY <1>2
<1>5. ASSUME NEW j \in DOMAIN b PROVE \E i \in DOMAIN c : c[i] = b[j]
    <2>1. m + j \in DOMAIN c
        BY <1>2
    <2> QED
        BY <1>2, <2>1
<1>6. ASSUME Rising(a), Rising(b), Before(a, b)
      PROVE  Rising(c)
    <2> SUFFICES ASSUME NEW i \in DOMAIN c, NEW j \in DOMAIN c, i < j
                 PROVE  Rank(c[i]) < Rank(c[j])
        BY DEF Rising
    <2>1. CASE i \in DOMAIN a /\ j \in DOMAIN a
        BY <1>2, <1>6, <2>1 DEF Rising
    <2>2. CASE i \in DOMAIN a /\ j \notin DOMAIN a
        BY <1>2, <1>3, <1>6, <2>2 DEF Before
    <2>3. CASE i \notin DOMAIN a
        <3>1. i \in Nat /\ j \in Nat /\ i > m /\ j > m
            BY <1>2, <2>3
        <3>2. i - m \in DOMAIN b /\ c[i] = b[i - m] /\ j - m \in DOMAIN b /\ c[j] = b[j - m]
            BY <1>2, <1>3, <3>1
        <3>3. i - m < j - m
            BY <3>1
        <3> QED
            BY <1>6, <3>2, <3>3 DEF Rising
    <2> QED
        BY <2>1, <2>2, <2>3
<1>7. MadeOf(c, a, b)
    BY <1>3, <1>4, <1>5 DEF MadeOf
<1> QED
    BY <1>2, <1>6, <1>7

LEMMA LowestSlot ==
    ASSUME NEW q, Buffer(q), DOMAIN q.slots # {}
    PROVE  /\ Lowest(DOMAIN q.slots) \in DOMAIN q.slots
           /\ \A k \in DOMAIN q.slots : Lowest(DOMAIN q.slots) <= k
           /\ Highest(DOMAIN q.slots) \in DOMAIN q.slots
           /\ \A k \in DOMAIN q.slots : k <= Highest(DOMAIN q.slots)
<1>1. DOMAIN q.slots \subseteq Nat /\ IsFiniteSet(DOMAIN q.slots)
    BY StateFields DEF Buffer
<1> QED
    BY <1>1, ExtremesFacts

\* Arming sets the window task and nothing else.
LEMMA ArmFacts ==
    ASSUME NEW q, Buffer(q), Passed(q), NEW e, e = arm(q)
    PROVE  /\ Advances(q, e) /\ Armed(e)
           /\ e.tagBaseline = q.tagBaseline /\ e.lastEjected = q.lastEjected
           /\ e.slots = q.slots /\ e.out = q.out
<1>1. q \in ReorderingState
    BY DEF Buffer
<1>2. PICK task : task = IF q.slots = Empty THEN None
                         ELSE q.slots[Lowest(DOMAIN q.slots)] + ReorderingWindow
    OBVIOUS
<1>3. task \in Nat \cup {None}
    <2>1. CASE q.slots = Empty
        BY <1>2, <2>1
    <2>2. CASE q.slots # Empty
        <3>1. DOMAIN q.slots # {} /\ q.slots \in [DOMAIN q.slots -> Nat]
            BY <1>1, <2>2, StateFields
        <3>2. Lowest(DOMAIN q.slots) \in DOMAIN q.slots
            BY <3>1, LowestSlot
        <3>3. q.slots[Lowest(DOMAIN q.slots)] \in Nat
            BY <3>1, <3>2
        <3> QED
            BY <1>2, <2>2, <3>3, ReceiverAssumption
    <2> QED
        BY <2>1, <2>2
<1>4. e = State(q.tagBaseline, q.lastEjected, q.slots, task, q.lastActiveAt, q.out)
    <2>1. e = [q EXCEPT !.windowTask = task]
        BY <1>2 DEF arm
    <2> QED
        BY <1>1, <2>1, StateExcept
<1>12. /\ q.tagBaseline \in 0..(TagModulus - 1) /\ q.lastEjected \in Nat
       /\ q.lastActiveAt \in Nat /\ q.out \in Seq(0..(TagModulus - 1))
       /\ q.slots \in [DOMAIN q.slots -> Nat]
       /\ DOMAIN q.slots \subseteq 0..(MaxInputs + reorderingCapacity)
    BY <1>1, StateFields
<1>5. /\ e \in ReorderingState /\ e.tagBaseline = q.tagBaseline
      /\ e.lastEjected = q.lastEjected /\ e.slots = q.slots /\ e.windowTask = task
      /\ e.lastActiveAt = q.lastActiveAt /\ e.out = q.out
    <2>1. /\ e.tagBaseline = q.tagBaseline
          /\ e.lastEjected = q.lastEjected /\ e.slots = q.slots /\ e.windowTask = task
          /\ e.lastActiveAt = q.lastActiveAt /\ e.out = q.out
        BY <1>4, StateParts
    <2>2. e \in ReorderingState
        BY <1>3, <1>4, <1>12, <2>1, StateMade
    <2> QED
        BY <2>1, <2>2
<1>6. Origin(e) = Origin(q) /\ Edge(e) = Edge(q)
    BY <1>5 DEF Origin, Edge
<1>7. Buffer(e)
    BY <1>5, <1>6 DEF Buffer
<1>8. Passed(e)
    BY <1>5, <1>6 DEF Passed
<1>9. \A r \in Int : Holds(e, r) <=> Holds(q, r)
    BY <1>5, <1>6 DEF Holds, Waits, Handed
<1>10. Edge(q) <= Edge(e)
    BY <1>6, BufferFields
<1>11. Armed(e)
    BY <1>1, <1>2, <1>5, StateFields DEF Armed
<1> QED
    BY <1>5, <1>7, <1>8, <1>9, <1>10, <1>11 DEF Advances

LEMMA AdvancesTwice ==
    ASSUME NEW q, NEW d, NEW e, Buffer(q), Advances(q, d), Advances(d, e)
    PROVE  Advances(q, e)
<1>1. Edge(q) \in Int /\ Edge(d) \in Int /\ Edge(e) \in Int
    BY BufferFields DEF Advances
<1> QED
    BY <1>1 DEF Advances

\* Slots up to one of them are handed over.
LEMMA EjectFacts ==
    ASSUME msgSeqno \in 0..MaxInputs,
           NEW q, Buffer(q), Passed(q), NEW last \in DOMAIN q.slots, NEW e, e = eject(q, last)
    PROVE  /\ Advances(q, e)
           /\ e.tagBaseline = q.tagBaseline /\ e.lastEjected = last
           /\ DOMAIN e.slots = {k \in DOMAIN q.slots : k > last}
<1>25. PICK S : S = {k \in DOMAIN q.slots : k <= last}
    OBVIOUS
<1>1. PICK o \in Int : o = Origin(q)
    BY BufferFields
<1>2. /\ q \in ReorderingState /\ last \in Nat /\ q.lastEjected \in Nat
      /\ DOMAIN q.slots \subseteq Nat /\ IsFiniteSet(DOMAIN q.slots)
      /\ q.slots \in [DOMAIN q.slots -> Nat]
      /\ DOMAIN q.slots \subseteq 0..(MaxInputs + reorderingCapacity)
      /\ Edge(q) = o + q.lastEjected
    BY <1>1, StateFields DEF Buffer, Edge
<1>3. S \subseteq Nat /\ IsFiniteSet(S)
    BY <1>2, <1>25, FS_Subset
<1>4. PICK gone : gone = Ascending(S)
    OBVIOUS
<1>5. /\ gone \in Seq(S)
      /\ \A i, j \in DOMAIN gone : i < j => gone[i] < gone[j]
      /\ \A i \in DOMAIN gone : gone[i] \in S
      /\ \A x \in S : \E i \in DOMAIN gone : gone[i] = x
    BY <1>3, <1>4, AscendingFacts, Zenon
<1>6. PICK tags : tags = [i \in DOMAIN gone |-> Plus(gone[i], q.tagBaseline)]
    OBVIOUS
<1>7. ASSUME NEW i \in DOMAIN gone
      PROVE  /\ gone[i] \in Nat /\ gone[i] \in DOMAIN q.slots /\ gone[i] <= last
             /\ tags[i] \in Tags /\ Rank(tags[i]) = o + gone[i]
    <2>1. gone[i] \in Nat /\ gone[i] \in DOMAIN q.slots /\ gone[i] <= last
        BY <1>2, <1>5, <1>25
    <2>2. tags[i] = TagOf(o + gone[i])
        <3>1. \A k \in Int : Plus(k, q.tagBaseline) = TagOf(o + k)
            BY <1>1, BufferFields
        <3> QED
            BY <1>6, <2>1, <3>1
    <2>3. o + gone[i] \in 1..MaxInputs
        <3>1. 1 <= o + gone[i] /\ o + gone[i] <= msgSeqno
            BY <1>1, <2>1 DEF Buffer
        <3> QED
            BY <1>1, <2>1, <3>1, Constants
    <2> QED
        BY <2>1, <2>2, <2>3, RankOf
<1>8. tags \in Seq(Tags) /\ Len(tags) = Len(gone) /\ DOMAIN tags = DOMAIN gone
    <2>1. DOMAIN gone = 1..Len(gone) /\ Len(gone) \in Nat
        BY <1>5
    <2>2. tags \in [1..Len(gone) -> Tags]
        BY <1>6, <1>7, <2>1
    <2> QED
        BY <2>1, <2>2
<1>9. PICK rest : rest = [k \in {j \in DOMAIN q.slots : j > last} |-> q.slots[k]]
    OBVIOUS
<1>10. /\ DOMAIN rest = {k \in DOMAIN q.slots : k > last}
       /\ rest \in [DOMAIN rest -> Nat] /\ \A k \in DOMAIN rest : rest[k] = q.slots[k]
       /\ DOMAIN rest \subseteq 0..(MaxInputs + reorderingCapacity)
    BY <1>2, <1>9
<1>11. PICK out : out = q.out \o tags
    OBVIOUS
<1>12. q.out \in Seq(Tags) /\ Rising(q.out) /\ \A i \in DOMAIN q.out : Rank(q.out[i]) <= o + q.lastEjected
    BY <1>2 DEF Passed
<1>13. Rising(tags)
    <2>1. \A i, j \in DOMAIN tags : i < j => o + gone[i] < o + gone[j]
        BY <1>1, <1>5, <1>7, <1>8
    <2> QED
        BY <1>7, <1>8, <2>1 DEF Rising
<1>14. \A k \in DOMAIN q.slots : k \in Nat /\ q.lastEjected < k
    BY <1>2 DEF Buffer
<1>15. \A i \in DOMAIN q.out, j \in DOMAIN tags : Rank(q.out[i]) < Rank(tags[j])
    <2> SUFFICES ASSUME NEW i \in DOMAIN q.out, NEW j \in DOMAIN tags
                 PROVE  Rank(q.out[i]) < Rank(tags[j])
        OBVIOUS
    <2>1. Rank(tags[j]) = o + gone[j] /\ gone[j] \in Nat /\ q.lastEjected < gone[j]
        BY <1>7, <1>8, <1>14
    <2>2. Rank(q.out[i]) <= o + q.lastEjected /\ q.out[i] \in Tags
        BY <1>12
    <2>3. Rank(q.out[i]) \in Int
        BY <2>2, RankFacts
    <2> QED
        BY <1>1, <1>2, <2>1, <2>2, <2>3
<1>16. out \in Seq(Tags) /\ Rising(out) /\ MadeOf(out, q.out, tags)
    <2>1. PICK a : a = q.out
        OBVIOUS
    <2>2. /\ a \in Seq(Tags) /\ tags \in Seq(Tags) /\ out = a \o tags
          /\ Rising(a) /\ Rising(tags) /\ Before(a, tags)
        BY <1>8, <1>11, <1>12, <1>13, <1>15, <2>1 DEF Before
    <2>3. out \in Seq(Tags) /\ Rising(out) /\ MadeOf(out, a, tags)
        BY <2>2, Joined
    <2> QED
        BY <2>1, <2>3
<1>17. e = State(q.tagBaseline, last, rest, q.windowTask, q.lastActiveAt, out)
    <2>1. e = [q EXCEPT !.out = out, !.slots = rest, !.lastEjected = last]
        BY <1>4, <1>6, <1>9, <1>11, <1>25 DEF eject
    <2> QED
        BY <1>2, <2>1 DEF ReorderingState, State
<1>18. out \in Seq(0..(TagModulus - 1))
    BY <1>16, TagSequences
<1>19. /\ e \in ReorderingState /\ e.tagBaseline = q.tagBaseline
       /\ e.lastEjected = last /\ e.slots = rest
       /\ e.lastActiveAt = q.lastActiveAt /\ e.out = out
    <2>1. /\ q.tagBaseline \in 0..(TagModulus - 1) /\ q.windowTask \in Nat \cup {None}
          /\ q.lastActiveAt \in Nat
        BY <1>2, StateFields
    <2>2. /\ e.tagBaseline = q.tagBaseline
          /\ e.lastEjected = last /\ e.slots = rest /\ e.windowTask = q.windowTask
          /\ e.lastActiveAt = q.lastActiveAt /\ e.out = out
        BY <1>17, StateParts
    <2>3. e \in ReorderingState
        BY <1>2, <1>10, <1>17, <1>18, <2>1, <2>2, StateMade
    <2> QED
        BY <2>2, <2>3
<1>20. Origin(e) = o /\ Edge(e) = o + last /\ q.lastEjected < last
    BY <1>1, <1>14, <1>19 DEF Origin, Edge
<1>21. Buffer(e)
    <2>1. Edge(e) <= msgSeqno
        BY <1>1, <1>20 DEF Buffer
    <2>2. ASSUME NEW k \in DOMAIN e.slots
          PROVE  /\ e.lastEjected < k /\ k <= e.lastEjected + reorderingCapacity
                 /\ 1 <= Origin(e) + k /\ Origin(e) + k <= msgSeqno
                 /\ e.slots[k] <= e.lastActiveAt
        <3>1. k \in DOMAIN q.slots /\ last < k /\ k \in Nat /\ e.slots[k] = q.slots[k]
            BY <1>10, <1>14, <1>19
        <3>2. /\ k <= q.lastEjected + reorderingCapacity
              /\ 1 <= o + k /\ o + k <= msgSeqno /\ q.slots[k] <= q.lastActiveAt
            BY <1>1, <3>1 DEF Buffer
        <3>3. k <= last + reorderingCapacity
            BY <1>2, <1>20, <3>1, <3>2, Constants
        <3> QED
            BY <1>19, <1>20, <3>1, <3>2, <3>3
    <2>3. Plus(e.tagBaseline, Half) \in Tags
        BY <1>19 DEF Buffer
    <2> QED
        BY <1>19, <2>1, <2>2, <2>3 DEF Buffer
<1>22. Passed(e)
    <2> SUFFICES ASSUME NEW i \in DOMAIN out PROVE Rank(out[i]) <= o + last
        BY <1>16, <1>19, <1>20 DEF Passed
    <2>1. CASE \E j \in DOMAIN q.out : out[i] = q.out[j]
        <3>1. Rank(out[i]) <= o + q.lastEjected
            BY <1>12, <2>1
        <3>2. Rank(out[i]) \in Int
            BY <1>16, RankFacts
        <3> QED
            BY <1>1, <1>2, <1>20, <3>1, <3>2
    <2>2. CASE \E j \in DOMAIN tags : out[i] = tags[j]
        BY <1>1, <1>2, <1>7, <1>8, <2>2
    <2> QED
        BY <1>16, <2>1, <2>2 DEF MadeOf
<1>23. Edge(q) <= Edge(e)
    BY <1>1, <1>2, <1>20
<1>24. ASSUME NEW r \in Int PROVE Holds(e, r) <=> Holds(q, r)
    <2>1. Waits(q, r) <=> r - o \in DOMAIN q.slots
        BY <1>1 DEF Waits
    <2>2. Waits(e, r) <=> r - o \in DOMAIN q.slots /\ r - o > last
        BY <1>10, <1>19, <1>20 DEF Waits
    <2>3. Handed(e, r) <=> Handed(q, r) \/ \E j \in DOMAIN tags : Rank(tags[j]) = r
        BY <1>16, <1>19 DEF Handed, MadeOf
    <2>4. (\E j \in DOMAIN tags : Rank(tags[j]) = r) <=> r - o \in S
        <3>1. ASSUME NEW j \in DOMAIN tags, Rank(tags[j]) = r PROVE r - o \in S
            <4>1. r = o + gone[j] /\ gone[j] \in S /\ gone[j] \in Nat
                BY <1>5, <1>7, <1>8, <3>1
            <4>2. r - o = gone[j]
                BY <1>1, <4>1
            <4> QED
                BY <4>1, <4>2
        <3>2. ASSUME r - o \in S PROVE \E j \in DOMAIN tags : Rank(tags[j]) = r
            <4>1. PICK j \in DOMAIN gone : gone[j] = r - o
                BY <1>5, <3>2
            <4>2. Rank(tags[j]) = o + (r - o)
                BY <1>7, <4>1
            <4> QED
                BY <1>1, <1>8, <4>1, <4>2
        <3> QED
            BY <3>1, <3>2
    <2>5. r - o \in DOMAIN q.slots => (r - o > last \/ r - o \in S)
        BY <1>1, <1>2, <1>25
    <2>6. r - o \in S => r - o \in DOMAIN q.slots
        BY <1>25
    <2> QED
        BY <2>1, <2>2, <2>3, <2>4, <2>5, <2>6 DEF Holds
<1> QED
    BY <1>10, <1>19, <1>21, <1>22, <1>23, <1>24 DEF Advances

LEMMA RunEndFacts ==
    ASSUME NEW q, Buffer(q), NEW first \in DOMAIN q.slots
    PROVE  RunEnd(q, first) \in DOMAIN q.slots /\ RunEnd(q, first) + 1 \notin DOMAIN q.slots
<1>1. DOMAIN q.slots \subseteq Nat /\ IsFiniteSet(DOMAIN q.slots)
    BY StateFields DEF Buffer
<1>2. PICK S \in SUBSET DOMAIN q.slots :
        S = {k \in DOMAIN q.slots : k >= first /\ k + 1 \notin DOMAIN q.slots}
    OBVIOUS
<1>3. PICK h \in DOMAIN q.slots : \A k \in DOMAIN q.slots : k <= h
    BY LowestSlot
<1>4. h + 1 \notin DOMAIN q.slots /\ first <= h
    BY <1>1, <1>3
<1>5. S # {} /\ S \subseteq Nat /\ IsFiniteSet(S)
    BY <1>1, <1>2, <1>3, <1>4, FS_Subset
<1>6. Lowest(S) \in S
    BY <1>5, ExtremesFacts
<1> QED
    BY <1>2, <1>6 DEF RunEnd

\* Eject and arm, which most operations end with.
LEMMA EjectArmFacts ==
    ASSUME msgSeqno \in 0..MaxInputs,
           NEW q, Buffer(q), Passed(q), NEW last \in DOMAIN q.slots, NEW e, e = arm(eject(q, last))
    PROVE  /\ Advances(q, e) /\ Armed(e)
           /\ e.tagBaseline = q.tagBaseline /\ e.lastEjected = last
           /\ DOMAIN e.slots = {k \in DOMAIN q.slots : k > last}
           /\ last + 1 \notin DOMAIN q.slots => Gap(e)
<1>1. PICK d : d = eject(q, last)
    OBVIOUS
<1>2. /\ Advances(q, d)
      /\ d.tagBaseline = q.tagBaseline /\ d.lastEjected = last
      /\ DOMAIN d.slots = {k \in DOMAIN q.slots : k > last}
    BY <1>1, EjectFacts
<1>3. Buffer(d) /\ Passed(d) /\ e = arm(d)
    BY <1>1, <1>2 DEF Advances
<1>4. /\ Advances(d, e) /\ Armed(e)
      /\ e.tagBaseline = d.tagBaseline /\ e.lastEjected = d.lastEjected /\ e.slots = d.slots
    BY <1>3, ArmFacts
<1>5. Advances(q, e)
    BY <1>2, <1>4, AdvancesTwice
<1> QED
    BY <1>2, <1>4, <1>5 DEF Gap

LEMMA ScanFacts ==
    ASSUME msgSeqno \in 0..MaxInputs,
           NEW q, Buffer(q), Passed(q), NEW force \in BOOLEAN, NEW e, e = scan(q, force)
    PROVE  /\ Advances(q, e) /\ Armed(e) /\ Gap(e)
           /\ e.tagBaseline = q.tagBaseline
           /\ DOMAIN e.slots \subseteq DOMAIN q.slots
<1>1. PICK first : first = IF force THEN Lowest(DOMAIN q.slots) ELSE q.lastEjected + 1
    OBVIOUS
<1>2. e = IF q.slots # Empty /\ first \in DOMAIN q.slots
          THEN arm(eject(q, RunEnd(q, first))) ELSE arm(q)
    BY <1>1 DEF scan
<1>3. CASE q.slots # Empty /\ first \in DOMAIN q.slots
    <2>1. PICK last \in DOMAIN q.slots :
            last = RunEnd(q, first) /\ last + 1 \notin DOMAIN q.slots
        BY <1>3, RunEndFacts
    <2>2. e = arm(eject(q, last))
        BY <1>2, <1>3, <2>1
    <2> QED
        BY <2>1, <2>2, EjectArmFacts
<1>4. CASE ~(q.slots # Empty /\ first \in DOMAIN q.slots)
    <2>1. e = arm(q)
        BY <1>2, <1>4
    <2>2. Advances(q, e) /\ Armed(e) /\ e.tagBaseline = q.tagBaseline
            /\ e.lastEjected = q.lastEjected /\ e.slots = q.slots
        BY <2>1, ArmFacts
    <2>3. q.lastEjected + 1 \notin DOMAIN q.slots
        <3>1. CASE q.slots = Empty
            BY <3>1, StateFields DEF Buffer
        <3>2. CASE q.slots # Empty /\ first \notin DOMAIN q.slots
            <4>1. DOMAIN q.slots # {}
                BY <3>2, StateFields DEF Buffer
            <4>2. Lowest(DOMAIN q.slots) \in DOMAIN q.slots
                BY <4>1, LowestSlot
            <4> QED
                BY <1>1, <3>2, <4>2
        <3> QED
            BY <1>4, <3>1, <3>2
    <2> QED
        BY <2>2, <2>3 DEF Gap
<1> QED
    BY <1>3, <1>4

LEMMA AdvancesNot ==
    ASSUME NEW q, Buffer(q), Passed(q)
    PROVE  Advances(q, q)
BY BufferFields DEF Advances

LEMMA EjectAllFacts ==
    ASSUME msgSeqno \in 0..MaxInputs,
           NEW q, Buffer(q), Passed(q), NEW e, e = ejectAll(q)
    PROVE  Advances(q, e) /\ DOMAIN e.slots = {}
<1>1. CASE q.slots = Empty
    <2>1. e = q /\ DOMAIN q.slots = {}
        BY <1>1, StateFields DEF ejectAll, Buffer
    <2> QED
        BY <2>1, AdvancesNot
<1>2. CASE q.slots # Empty
    <2>1. DOMAIN q.slots # {} /\ DOMAIN q.slots \subseteq Nat
        BY <1>2, StateFields DEF Buffer
    <2>2. PICK last \in DOMAIN q.slots :
            last = Highest(DOMAIN q.slots) /\ \A k \in DOMAIN q.slots : k <= last
        BY <2>1, LowestSlot
    <2>3. e = arm(eject(q, last))
        BY <1>2, <2>2 DEF ejectAll
    <2>4. Advances(q, e) /\ DOMAIN e.slots = {k \in DOMAIN q.slots : k > last}
        BY <2>3, EjectArmFacts
    <2>5. \A k \in DOMAIN q.slots : ~(k > last)
        BY <2>1, <2>2
    <2> QED
        BY <2>4, <2>5
<1> QED
    BY <1>1, <1>2

\* The window slides until the tag fits in or no slot is left, and never past it.
LEMMA SlideFacts ==
    ASSUME msgSeqno \in 0..MaxInputs,
           NEW q, Buffer(q), Passed(q), Gap(q), Armed(q),
           NEW lin \in Nat, q.lastEjected < lin, NEW e, e = SlideTo(q, lin)
    PROVE  /\ Advances(q, e) /\ Armed(e) /\ Gap(e)
           /\ e.tagBaseline = q.tagBaseline /\ e.lastEjected < lin
           /\ DOMAIN e.slots = {} \/ lin <= e.lastEjected + reorderingCapacity
<1>1. CASE q.slots = Empty \/ lin <= q.lastEjected + reorderingCapacity
    <2>1. e = q
        BY <1>1 DEF SlideTo
    <2>2. q.slots = Empty => DOMAIN q.slots = {}
        BY StateFields DEF Buffer
    <2> QED
        BY <1>1, <2>1, <2>2, AdvancesNot
<1>2. CASE ~(q.slots = Empty \/ lin <= q.lastEjected + reorderingCapacity)
    <2>1. DOMAIN q.slots # {} /\ DOMAIN q.slots \subseteq Nat /\ IsFiniteSet(DOMAIN q.slots)
            /\ q.lastEjected \in Nat
        BY <1>2, StateFields DEF Buffer
    <2>2. PICK runEnds \in SUBSET DOMAIN q.slots :
            runEnds = {k \in DOMAIN q.slots : k + 1 \notin DOMAIN q.slots}
        OBVIOUS
    <2>3. PICK fit \in SUBSET runEnds :
            fit = {k \in runEnds : lin <= k + reorderingCapacity}
        OBVIOUS
    <2>4. IsFiniteSet(runEnds) /\ IsFiniteSet(fit) /\ runEnds \subseteq Nat /\ fit \subseteq Nat
        BY <2>1, <2>2, <2>3, FS_Subset
    <2>5. PICK h \in DOMAIN q.slots : \A k \in DOMAIN q.slots : k <= h
        BY <2>1, LowestSlot
    <2>6. h + 1 \notin DOMAIN q.slots
        BY <2>1, <2>5
    <2>7. runEnds # {}
        BY <2>2, <2>5, <2>6
    <2>8. Highest(runEnds) \in runEnds /\ \A k \in runEnds : k <= Highest(runEnds)
        BY <2>4, <2>7, ExtremesFacts
    <2>9. PICK last : last = IF fit = {} THEN Highest(runEnds) ELSE Lowest(fit)
        OBVIOUS
    <2>10. last \in runEnds /\ (fit # {} => last \in fit)
        BY <2>3, <2>4, <2>8, <2>9, ExtremesFacts
    <2>11. last \in DOMAIN q.slots /\ last + 1 \notin DOMAIN q.slots /\ last \in Nat
        BY <2>1, <2>2, <2>10
    <2>12. e = arm(eject(q, last))
        BY <1>2, <2>2, <2>3, <2>9 DEF SlideTo
    <2>13. /\ Advances(q, e) /\ Armed(e) /\ Gap(e)
           /\ e.tagBaseline = q.tagBaseline /\ e.lastEjected = last
           /\ DOMAIN e.slots = {k \in DOMAIN q.slots : k > last}
        BY <2>11, <2>12, EjectArmFacts
    <2>14. last < lin
        <3>1. last <= q.lastEjected + reorderingCapacity
            BY <2>11 DEF Buffer
        <3> QED
            BY <1>2, <2>1, <2>11, <3>1, Constants
    <2>15. DOMAIN e.slots = {} \/ lin <= last + reorderingCapacity
        <3>1. CASE fit # {}
            BY <2>3, <2>10, <3>1
        <3>2. CASE fit = {}
            <4>1. h \in runEnds
                BY <2>2, <2>5, <2>6
            <4>2. \A k \in DOMAIN q.slots : k <= last
                BY <2>1, <2>4, <2>5, <2>8, <2>9, <2>11, <3>2, <4>1
            <4>3. \A k \in DOMAIN q.slots : ~(k > last)
                BY <2>1, <2>11, <4>2
            <4> QED
                BY <2>13, <4>3
        <3> QED
            BY <3>1, <3>2
    <2> QED
        BY <2>13, <2>14, <2>15
<1> QED
    BY <1>1, <1>2

\* The buffer takes the message with a tag.
Gains(q, t, e) ==
    /\ Buffer(e) /\ Passed(e)
    /\ e.lastActiveAt = q.lastActiveAt
    /\ Edge(q) <= Edge(e)
    /\ \A r \in Int : Holds(e, r) <=> Holds(q, r) \/ r = Rank(t)

LEMMA AdvancesAndGains ==
    ASSUME NEW t, NEW q, NEW d, NEW e, Buffer(q), Buffer(d), Buffer(e)
    PROVE  /\ Advances(q, d) /\ Gains(d, t, e) => Gains(q, t, e)
           /\ Gains(q, t, d) /\ Advances(d, e) => Gains(q, t, e)
<1>1. Edge(q) \in Int /\ Edge(d) \in Int /\ Edge(e) \in Int
    BY BufferFields
<1>2. ASSUME Advances(q, d), Gains(d, t, e) PROVE Gains(q, t, e)
    BY <1>1, <1>2 DEF Advances, Gains
<1>3. ASSUME Gains(q, t, d), Advances(d, e) PROVE Gains(q, t, e)
    BY <1>1, <1>3 DEF Advances, Gains
<1> QED
    BY <1>2, <1>3

\* An empty buffer starts anew around a tag that is far ahead.
LEMMA ResequenceFacts ==
    ASSUME msgSeqno \in 0..MaxInputs,
           NEW q, Buffer(q), Passed(q), DOMAIN q.slots = {},
           NEW t \in Tags, Rank(t) <= msgSeqno, Edge(q) + reorderingCapacity < Rank(t),
           NEW e, e = resequence(q, t)
    PROVE  /\ Advances(q, e) /\ Gap(e)
           /\ e.lastEjected = 0 /\ Origin(e) = Rank(t) - Half /\ DOMAIN e.slots = {}
<1>1. /\ q \in ReorderingState /\ Edge(q) \in Int /\ Half \in Int /\ Half < reorderingCapacity
      /\ reorderingCapacity \in Int /\ Rank(t) \in Int /\ 0 <= Half
    BY BufferFields, RankFacts, HalfFacts, Constants
<1>2. PICK base \in 0..(TagModulus - 1) :
        base = Minus(t, Half) /\ Plus(base, Half) = t /\ OriginOf(base) = Rank(t) - Half
    BY BaselineAround
<1>3. e = State(base, 0, q.slots, q.windowTask, q.lastActiveAt, q.out)
    BY <1>1, <1>2 DEF resequence, ReorderingState, State, Half
<1>4. /\ q.windowTask \in Nat \cup {None}
      /\ q.lastActiveAt \in Nat /\ q.out \in Seq(0..(TagModulus - 1))
      /\ q.slots \in [DOMAIN q.slots -> Nat]
      /\ DOMAIN q.slots \subseteq 0..(MaxInputs + reorderingCapacity)
    BY <1>1, StateFields
<1>5. /\ e.tagBaseline = base
      /\ e.lastEjected = 0 /\ e.slots = q.slots /\ e.windowTask = q.windowTask
      /\ e.lastActiveAt = q.lastActiveAt /\ e.out = q.out
    BY <1>3, StateParts
<1>6. e \in ReorderingState
    BY <1>3, <1>4, <1>5, StateMade
<1>7. Origin(e) = Rank(t) - Half /\ Edge(e) = Rank(t) - Half
    BY <1>1, <1>2, <1>5 DEF Origin, Edge
<1>8. Edge(q) <= Edge(e) /\ Edge(e) <= msgSeqno
    BY <1>1, <1>7
<1>9. Buffer(e)
    BY <1>2, <1>5, <1>6, <1>8 DEF Buffer
<1>10. Passed(e)
    <2>1. q.out \in Seq(Tags) /\ Rising(q.out) /\ \A i \in DOMAIN q.out : Rank(q.out[i]) <= Edge(q)
        BY DEF Passed
    <2>2. \A i \in DOMAIN q.out : Rank(q.out[i]) \in Int
        BY <2>1, RankFacts
    <2>3. \A i \in DOMAIN q.out : Rank(q.out[i]) <= Edge(e)
        BY <1>1, <1>7, <1>8, <2>1, <2>2
    <2> QED
        BY <1>5, <2>1, <2>3 DEF Passed
<1>11. ASSUME NEW r \in Int PROVE Holds(e, r) <=> Holds(q, r)
    BY <1>5 DEF Holds, Waits, Handed
<1>12. Gap(e)
    BY <1>5 DEF Gap
<1> QED
    BY <1>5, <1>7, <1>8, <1>9, <1>10, <1>11, <1>12 DEF Advances

LEMMA InsertFacts ==
    ASSUME msgSeqno \in 0..MaxInputs, now \in Nat,
           NEW q, Buffer(q), Passed(q), Gap(q), q.lastActiveAt = now,
           NEW t \in Tags, Rank(t) <= msgSeqno,
           NEW lin \in Nat, lin = Rank(t) - Origin(q),
           q.lastEjected + 1 < lin, lin <= q.lastEjected + reorderingCapacity,
           NEW e, e = arm([q EXCEPT !.slots = With(@, lin, now)])
    PROVE  Gains(q, t, e) /\ Gap(e) /\ Armed(e)
<1>1. PICK o \in Int, rank \in 1..MaxInputs :
        o = Origin(q) /\ rank = Rank(t) /\ lin = rank - o
    BY BufferFields, RankFacts
<1>2. /\ q \in ReorderingState /\ q.lastEjected \in Nat
      /\ DOMAIN q.slots \subseteq Nat /\ q.slots \in [DOMAIN q.slots -> Nat]
      /\ DOMAIN q.slots \subseteq 0..(MaxInputs + reorderingCapacity)
      /\ Edge(q) = o + q.lastEjected
      /\ q.tagBaseline \in 0..(TagModulus - 1) /\ q.windowTask \in Nat \cup {None}
      /\ q.lastActiveAt \in Nat /\ q.out \in Seq(0..(TagModulus - 1))
    BY <1>1, StateFields DEF Buffer, Edge
<1>3. lin \in 0..(MaxInputs + reorderingCapacity)
    <2>1. 1 - Half <= o
        BY <1>1, BufferFields
    <2> QED
        BY <1>1, <2>1, Constants, HalfFacts
<1>4. PICK slots : slots = With(q.slots, lin, now)
    OBVIOUS
<1>5. /\ DOMAIN slots = DOMAIN q.slots \cup {lin}
      /\ \A k \in DOMAIN slots : slots[k] = IF k = lin THEN now ELSE q.slots[k]
      /\ slots \in [DOMAIN slots -> Nat]
      /\ DOMAIN slots \subseteq 0..(MaxInputs + reorderingCapacity)
    <2>1. /\ DOMAIN slots = DOMAIN q.slots \cup {lin}
          /\ \A k \in DOMAIN slots : slots[k] = IF k = lin THEN now ELSE q.slots[k]
          /\ slots = [k \in DOMAIN slots |-> IF k = lin THEN now ELSE q.slots[k]]
        BY <1>4 DEF With
    <2>2. \A k \in DOMAIN slots : slots[k] \in Nat
        BY <1>2, <2>1
    <2>3. slots \in [DOMAIN slots -> Nat]
        BY <2>1, <2>2
    <2> QED
        BY <1>2, <1>3, <2>1, <2>3
<1>6. PICK d : d = [q EXCEPT !.slots = slots]
    OBVIOUS
<1>7. e = arm(d)
    BY <1>4, <1>6
<1>8. d = State(q.tagBaseline, q.lastEjected, slots, q.windowTask, q.lastActiveAt, q.out)
    BY <1>2, <1>6, StateExcept
<1>9. /\ d.tagBaseline = q.tagBaseline
      /\ d.lastEjected = q.lastEjected /\ d.slots = slots /\ d.windowTask = q.windowTask
      /\ d.lastActiveAt = q.lastActiveAt /\ d.out = q.out
    BY <1>8, StateParts
<1>10. d \in ReorderingState
    BY <1>2, <1>5, <1>8, <1>9, StateMade
<1>11. Origin(d) = o /\ Edge(d) = Edge(q)
    BY <1>1, <1>9 DEF Origin, Edge
<1>12. Buffer(d)
    <2> SUFFICES ASSUME NEW k \in DOMAIN d.slots
                 PROVE  /\ d.lastEjected < k /\ k <= d.lastEjected + reorderingCapacity
                        /\ 1 <= Origin(d) + k /\ Origin(d) + k <= msgSeqno
                        /\ d.slots[k] <= d.lastActiveAt
        BY <1>9, <1>10, <1>11 DEF Buffer
    <2>1. CASE k = lin
        <3>1. d.slots[k] = now
            BY <1>5, <1>9, <2>1
        <3>2. o + k = rank /\ 1 <= rank /\ rank <= msgSeqno
            BY <1>1, <2>1
        <3>3. q.lastEjected < k
            BY <1>2, <2>1
        <3> QED
            BY <1>2, <1>9, <1>11, <2>1, <3>1, <3>2, <3>3
    <2>2. CASE k # lin
        BY <1>1, <1>5, <1>9, <1>11, <2>2 DEF Buffer
    <2> QED
        BY <2>1, <2>2
<1>13. Passed(d)
    BY <1>9, <1>11 DEF Passed
<1>14. /\ Advances(d, e) /\ Armed(e) /\ e.slots = slots /\ e.lastEjected = q.lastEjected
    BY <1>7, <1>9, <1>12, <1>13, ArmFacts
<1>15. Gap(e)
    BY <1>2, <1>5, <1>14 DEF Gap
<1>16. Gains(q, t, d)
    <2>1. ASSUME NEW r \in Int PROVE Holds(d, r) <=> Holds(q, r) \/ r = Rank(t)
        <3>1. Handed(d, r) <=> Handed(q, r)
            BY <1>9 DEF Handed
        <3>2. Waits(d, r) <=> r - o \in DOMAIN q.slots \/ r - o = lin
            BY <1>5, <1>9, <1>11 DEF Waits
        <3>3. r - o = lin <=> r = Rank(t)
            BY <1>1
        <3> QED
            BY <1>1, <3>1, <3>2, <3>3 DEF Holds, Waits
    <2>2. Edge(q) <= Edge(d)
        BY <1>11, BufferFields
    <2> QED
        BY <1>9, <1>12, <1>13, <2>1, <2>2 DEF Gains
<1> QED
    BY <1>12, <1>14, <1>15, <1>16, AdvancesAndGains DEF Advances

\* The next message in order is handed over, and with it the slots it leads to.
HandOver(q, t, lin) == scan([q EXCEPT !.lastEjected = lin, !.out = Append(@, t)], FALSE)

LEMMA NextFacts ==
    ASSUME msgSeqno \in 0..MaxInputs,
           NEW q, Buffer(q), Passed(q), Gap(q),
           NEW t \in Tags, Rank(t) <= msgSeqno,
           NEW lin \in Nat, lin = Rank(t) - Origin(q), lin = q.lastEjected + 1,
           NEW e, e = HandOver(q, t, lin)
    PROVE  Gains(q, t, e) /\ Gap(e) /\ Armed(e)
<1>1. PICK o \in Int, rank \in 1..MaxInputs :
        o = Origin(q) /\ rank = Rank(t) /\ lin = rank - o
    BY BufferFields, RankFacts
<1>2. /\ q \in ReorderingState /\ q.lastEjected \in Nat
      /\ DOMAIN q.slots \subseteq Nat /\ q.slots \in [DOMAIN q.slots -> Nat]
      /\ DOMAIN q.slots \subseteq 0..(MaxInputs + reorderingCapacity)
      /\ Edge(q) = o + q.lastEjected
      /\ q.tagBaseline \in 0..(TagModulus - 1) /\ q.windowTask \in Nat \cup {None}
      /\ q.lastActiveAt \in Nat
    BY <1>1, StateFields DEF Buffer, Edge
<1>3. PICK a, b, c : a = q.out /\ b = <<t>> /\ c = Append(q.out, t)
    OBVIOUS
<1>4. /\ a \in Seq(Tags) /\ Rising(a) /\ \A i \in DOMAIN a : Rank(a[i]) <= o + q.lastEjected
    BY <1>2, <1>3 DEF Passed
<1>5. /\ b \in Seq(Tags) /\ DOMAIN b = {1} /\ b[1] = t /\ Rising(b)
    <2>1. b \in Seq(Tags) /\ DOMAIN b = {1} /\ b[1] = t
        BY <1>3
    <2>2. \A i, j \in DOMAIN b : ~(i < j)
        BY <2>1
    <2> QED
        BY <2>1, <2>2 DEF Rising
<1>6. c = a \o b
    BY <1>3, <1>4, AppendIsConcat
<1>7. Before(a, b)
    <2> SUFFICES ASSUME NEW i \in DOMAIN a, NEW j \in DOMAIN b PROVE Rank(a[i]) < Rank(b[j])
        BY DEF Before
    <2>1. Rank(a[i]) <= o + q.lastEjected /\ a[i] \in Tags
        BY <1>4
    <2>2. Rank(a[i]) \in Int
        BY <2>1, RankFacts
    <2>3. Rank(b[j]) = o + q.lastEjected + 1
        BY <1>1, <1>2, <1>5
    <2> QED
        BY <1>1, <1>2, <2>1, <2>2, <2>3
<1>8. c \in Seq(Tags) /\ MadeOf(c, a, b) /\ Rising(c)
    BY <1>4, <1>5, <1>6, <1>7, Joined
<1>9. PICK d : d = [q EXCEPT !.lastEjected = lin, !.out = Append(@, t)]
    OBVIOUS
<1>10. d = State(q.tagBaseline, lin, q.slots, q.windowTask, q.lastActiveAt, c)
    BY <1>2, <1>3, <1>9 DEF ReorderingState, State
<1>11. /\ d.tagBaseline = q.tagBaseline
       /\ d.lastEjected = lin /\ d.slots = q.slots /\ d.windowTask = q.windowTask
       /\ d.lastActiveAt = q.lastActiveAt /\ d.out = c
    BY <1>10, StateParts
<1>12. c \in Seq(0..(TagModulus - 1))
    BY <1>8, TagSequences
<1>13. d \in ReorderingState
    BY <1>2, <1>10, <1>11, <1>12, StateMade
<1>14. Origin(d) = o /\ Edge(d) = rank
    <2>1. Origin(d) = o
        BY <1>1, <1>11 DEF Origin
    <2> QED
        BY <1>1, <1>11, <2>1 DEF Edge
<1>15. Buffer(d)
    <2>1. ASSUME NEW k \in DOMAIN d.slots
          PROVE  /\ d.lastEjected < k /\ k <= d.lastEjected + reorderingCapacity
                 /\ 1 <= Origin(d) + k /\ Origin(d) + k <= msgSeqno
                 /\ d.slots[k] <= d.lastActiveAt
        <3>1. /\ k \in Nat /\ q.lastEjected < k /\ k <= q.lastEjected + reorderingCapacity
              /\ 1 <= o + k /\ o + k <= msgSeqno /\ q.slots[k] <= q.lastActiveAt
            BY <1>1, <1>2, <1>11 DEF Buffer
        <3>2. k # lin
            BY <1>11 DEF Gap
        <3>3. lin < k /\ k <= lin + reorderingCapacity
            BY <1>2, <3>1, <3>2, Constants
        <3> QED
            BY <1>11, <1>14, <3>1, <3>3
    <2>2. Plus(d.tagBaseline, Half) \in Tags /\ Edge(d) <= msgSeqno
        BY <1>1, <1>11, <1>14 DEF Buffer
    <2> QED
        BY <1>13, <2>1, <2>2 DEF Buffer
<1>16. Passed(d)
    <2> SUFFICES ASSUME NEW i \in DOMAIN c PROVE Rank(c[i]) <= rank
        BY <1>8, <1>11, <1>14 DEF Passed
    <2>1. CASE \E j \in DOMAIN a : c[i] = a[j]
        <3>1. Rank(c[i]) <= o + q.lastEjected
            BY <1>4, <2>1
        <3>2. Rank(c[i]) \in Int
            BY <1>8, RankFacts
        <3> QED
            BY <1>1, <1>2, <3>1, <3>2
    <2>2. CASE \E j \in DOMAIN b : c[i] = b[j]
        BY <1>1, <1>5, <2>2
    <2> QED
        BY <1>8, <2>1, <2>2 DEF MadeOf
<1>17. e = scan(d, FALSE)
    BY <1>9 DEF HandOver
<1>18. Advances(d, e) /\ Armed(e) /\ Gap(e)
    BY <1>15, <1>16, <1>17, ScanFacts
<1>19. Gains(q, t, d)
    <2>1. ASSUME NEW r \in Int PROVE Holds(d, r) <=> Holds(q, r) \/ r = Rank(t)
        <3>1. Handed(d, r) <=> Handed(q, r) \/ \E j \in DOMAIN b : Rank(b[j]) = r
            <4>1. (\E i \in DOMAIN c : Rank(c[i]) = r)
                    <=> \/ \E i \in DOMAIN a : Rank(a[i]) = r
                        \/ \E i \in DOMAIN b : Rank(b[i]) = r
                BY <1>8 DEF MadeOf
            <4>2. q.out = a /\ d.out = c
                BY <1>3, <1>11
            <4> QED
                BY <4>1, <4>2 DEF Handed
        <3>2. (\E j \in DOMAIN b : Rank(b[j]) = r) <=> r = Rank(t)
            BY <1>5
        <3>3. Waits(d, r) <=> Waits(q, r)
            BY <1>1, <1>11, <1>14 DEF Waits
        <3> QED
            BY <3>1, <3>2, <3>3 DEF Holds
    <2>2. Edge(q) <= Edge(d)
        BY <1>1, <1>2, <1>14
    <2> QED
        BY <1>11, <1>15, <1>16, <2>1, <2>2 DEF Gains
<1>20. Buffer(e)
    BY <1>18 DEF Advances
<1> QED
    BY <1>15, <1>18, <1>19, <1>20, AdvancesAndGains

\* How a tag is linearized: a message that lags no more than a network allows
\* and was passed comes too late, any other one is ahead of the edge.
LEMMA PushedWhere ==
    ASSUME msgSeqno \in 0..MaxInputs,
           NEW q, Buffer(q),
           NEW t \in Tags, Rank(t) <= msgSeqno, msgSeqno - Rank(t) <= MaxBackwardLag,
           NEW lin, lin = Minus(t, q.tagBaseline)
    PROVE  /\ Rank(t) > Edge(q) =>
                /\ lin = Rank(t) - Origin(q) /\ lin \in Nat /\ q.lastEjected < lin
                /\ ~(lin > TagModulus \div 2 - 1)
           /\ Rank(t) <= Edge(q) =>
                \/ lin <= q.lastEjected
                \/ lin > TagModulus \div 2 - 1 /\ Minus(q.lastEjected, lin) <= MaxBackwardLag
<1>1. PICK o \in Int, rank \in 1..MaxInputs : o = Origin(q) /\ rank = Rank(t)
    BY BufferFields, RankFacts
<1>2. PICK le \in Nat : le = q.lastEjected
    BY BufferFields
<1>3. PICK M \in Nat, H \in Nat, C \in Nat, h \in Nat :
        /\ M = TagModulus /\ H = TagModulus \div 2 /\ C = reorderingCapacity /\ h = Half
        /\ 2 * H <= M /\ MaxInputs + C < H /\ h + 2 <= C /\ MaxInputs \in Nat
        /\ 2 <= h /\ H \in Nat /\ M - 1 <= 2 * H
    BY Constants, HalfFacts
<1>4. /\ 1 - h <= o /\ o <= MaxInputs - h /\ Edge(q) = o + le /\ o + le <= msgSeqno
      /\ o <= rank => lin = rank - o
      /\ rank < o => lin = rank - o + M
    BY <1>1, <1>2, <1>3, BufferFields DEF Buffer, Edge
<1>5. ASSUME rank > o + le
      PROVE  lin = rank - o /\ lin \in Nat /\ le < lin /\ ~(lin > H - 1)
    <2>1. o <= rank
        BY <1>1, <1>2, <1>5
    <2>2. lin = rank - o /\ rank <= MaxInputs
        BY <1>4, <2>1
    <2> QED
        BY <1>1, <1>2, <1>3, <1>4, <1>5, <2>1, <2>2
<1>6. ASSUME rank <= o + le, o <= rank
      PROVE  lin <= le
    BY <1>1, <1>2, <1>4, <1>6
<1>7. ASSUME rank <= o + le, rank < o
      PROVE  lin > H - 1 /\ Minus(le, lin) <= MaxBackwardLag
    <2>1. lin = rank - o + M /\ lin \in Int
        BY <1>1, <1>3, <1>4, <1>7
    <2>2. lin > H - 1
        BY <1>1, <1>3, <1>4, <2>1
    <2>3. le - lin = (o + le - rank) - M
        BY <1>1, <1>2, <1>3, <2>1
    <2>4. o + le - rank \in 0..(M - 1) /\ o + le - rank <= MaxBackwardLag
        <3>1. msgSeqno - rank <= MaxBackwardLag /\ msgSeqno <= MaxInputs /\ MaxInputs < M
            BY <1>1, <1>3
        <3>2. MaxBackwardLag \in Nat
            BY Constants
        <3> QED
            BY <1>1, <1>2, <1>3, <1>4, <1>7, <3>1, <3>2
    <2>5. PICK z \in 0..(M - 1) : z = o + le - rank
        BY <2>4
    <2>6. le \in Int /\ lin \in Int /\ le - lin = z - M
        BY <2>1, <2>3, <2>5
    <2>7. le - lin \in (-M)..(-1)
        BY <1>3, <2>6
    <2>8. Minus(le, lin) = le - lin + M
        BY <1>3, <2>6, <2>7, TagArithmetic
    <2>9. Minus(le, lin) = z
        BY <1>3, <2>6, <2>8
    <2> QED
        BY <2>2, <2>4, <2>5, <2>9
<1> QED
    BY <1>1, <1>2, <1>3, <1>4, <1>5, <1>6, <1>7

\* A message is accepted exactly when it is beyond the edge, and then it waits
\* or is handed over.
LEMMA PushFacts ==
    ASSUME msgSeqno \in 0..MaxInputs, now \in Nat,
           NEW q, Buffer(q), Gap(q), Armed(q), q.out = <<>>, q.lastActiveAt = now,
           NEW t \in Tags, Rank(t) <= msgSeqno, msgSeqno - Rank(t) <= MaxBackwardLag,
           NEW p, p = push(q, t)
    PROVE  /\ p.accepted <=> Rank(t) > Edge(q)
           /\ Rank(t) <= Edge(q) => p.state = q
           /\ Rank(t) > Edge(q) => Gains(q, t, p.state) /\ Gap(p.state) /\ Armed(p.state)
<1>1. Passed(q)
    BY DEF Passed, Rising
<1>2. PICK lin \in Int : lin = Minus(t, q.tagBaseline)
    <2>1. q.tagBaseline \in Int /\ t \in Int
        BY RankFacts, StateFields, Constants DEF Buffer
    <2>2. PICK a \in Int, b \in Int : a = t /\ b = q.tagBaseline
        BY <2>1
    <2>3. Minus(a, b) \in 0..(TagModulus - 1) /\ TagModulus \in Nat
        BY TagArithmetic, Constants
    <2>4. Minus(a, b) \in Int
        BY <2>3
    <2> QED
        BY <2>2, <2>4
<1>3. Edge(q) \in Int /\ Rank(t) \in Int /\ q.lastEjected \in Nat /\ Origin(q) \in Int
    BY BufferFields, RankFacts
<1>4. CASE Rank(t) <= Edge(q)
    <2>1. \/ lin <= q.lastEjected
          \/ lin > TagModulus \div 2 - 1 /\ Minus(q.lastEjected, lin) <= MaxBackwardLag
        BY <1>2, <1>4, PushedWhere
    <2>2. p.accepted = FALSE /\ p.state = q
        BY <1>2, <2>1 DEF push
    <2> QED
        BY <1>3, <1>4, <2>2
<1>6. PICK e : e = p.state
    OBVIOUS
<1>5. ASSUME Rank(t) > Edge(q)
      PROVE  p.accepted /\ Gains(q, t, e) /\ Gap(e) /\ Armed(e)
    <2>1. /\ lin = Rank(t) - Origin(q) /\ lin \in Nat /\ q.lastEjected < lin
          /\ ~(lin > TagModulus \div 2 - 1)
        BY <1>2, <1>5, PushedWhere
    <2>2. PICK q2 : q2 = SlideTo(q, lin)
        OBVIOUS
    <2>3. /\ Advances(q, q2) /\ Armed(q2) /\ Gap(q2)
          /\ q2.tagBaseline = q.tagBaseline /\ q2.lastEjected < lin
          /\ DOMAIN q2.slots = {} \/ lin <= q2.lastEjected + reorderingCapacity
        BY <1>1, <2>1, <2>2, SlideFacts
    <2>4. Buffer(q2) /\ Passed(q2) /\ q2.lastActiveAt = now
        BY <2>3 DEF Advances
    <2>5. Origin(q2) = Origin(q) /\ lin = Rank(t) - Origin(q2) /\ lin = Minus(t, q2.tagBaseline)
        BY <1>2, <2>1, <2>3 DEF Origin
    <2>6. PICK q3 : q3 = IF lin > q2.lastEjected + reorderingCapacity
                         THEN resequence(q2, t) ELSE q2
        OBVIOUS
    <2>7. PICK lin3 : lin3 = Minus(t, q3.tagBaseline)
        OBVIOUS
    <2>8. /\ p.accepted
          /\ e = IF lin = q2.lastEjected + 1
                       THEN HandOver(q2, t, lin)
                       ELSE IF lin3 \in DOMAIN q3.slots THEN q3
                       ELSE arm([q3 EXCEPT !.slots = With(@, lin3, now)])
        <3>1. ~(lin <= q.lastEjected)
            BY <1>3, <2>1
        <3> QED
            BY <1>2, <1>6, <2>1, <2>2, <2>6, <2>7, <3>1 DEF push, HandOver
    <2>9. q2.lastEjected \in Nat /\ Edge(q2) \in Int /\ Origin(q2) \in Int
        BY <2>4, BufferFields
    <2>14. PICK le \in Nat, cap \in Nat :
            le = q2.lastEjected /\ cap = reorderingCapacity /\ le < lin
        BY <2>3, <2>9, Constants
    <2>10. SUFFICES Buffer(e) /\ Gains(q2, t, e) /\ Gap(e) /\ Armed(e)
        BY <1>5, <2>3, <2>4, <2>8, AdvancesAndGains
    <2>11. CASE lin = q2.lastEjected + 1
        <3>1. e = HandOver(q2, t, lin)
            BY <2>8, <2>11
        <3>2. Gains(q2, t, e) /\ Gap(e) /\ Armed(e)
            <4>1. Gap(q2) /\ Buffer(q2) /\ Passed(q2) /\ lin = Rank(t) - Origin(q2)
                BY <2>3, <2>4, <2>5
            <4>2. lin \in Nat
                BY <2>1
            <4> QED
                BY <2>11, <3>1, <4>1, <4>2, NextFacts
        <3> QED
            BY <3>2 DEF Gains
    <2>12. CASE lin # q2.lastEjected + 1 /\ lin <= q2.lastEjected + reorderingCapacity
        <3>1. q3 = q2 /\ lin3 = lin
            <4>1. ~(lin > q2.lastEjected + reorderingCapacity)
                BY <2>12, <2>14
            <4> QED
                BY <2>5, <2>6, <2>7, <4>1
        <3>2. CASE lin \in DOMAIN q2.slots
            <4>1. e = q2
                BY <2>8, <2>12, <3>1, <3>2
            <4>2. Holds(q2, Rank(t))
                BY <2>5, <3>2 DEF Holds, Waits
            <4> QED
                BY <2>3, <2>4, <2>9, <4>1, <4>2 DEF Gains
        <3>3. CASE lin \notin DOMAIN q2.slots
            <4>1. e = arm([q2 EXCEPT !.slots = With(@, lin, now)])
                BY <2>8, <2>12, <3>1, <3>3
            <4>2. q2.lastEjected + 1 < lin
                BY <2>12, <2>14
            <4>3. Gains(q2, t, e) /\ Gap(e) /\ Armed(e)
                BY <2>1, <2>3, <2>4, <2>5, <2>12, <4>1, <4>2, InsertFacts
            <4> QED
                BY <4>3 DEF Gains
        <3> QED
            BY <3>2, <3>3
    <2>13. CASE lin # q2.lastEjected + 1 /\ ~(lin <= q2.lastEjected + reorderingCapacity)
        <3>1. /\ reorderingCapacity \in Int /\ Half \in Nat /\ 2 <= Half
              /\ Half <= reorderingCapacity
            BY Constants, HalfFacts
        <3>2. lin > q2.lastEjected + reorderingCapacity /\ DOMAIN q2.slots = {}
            BY <2>3, <2>13, <2>14
        <3>3. Edge(q2) + reorderingCapacity < Rank(t)
            <4>1. PICK o \in Int, rank \in Int : o = Origin(q2) /\ rank = Rank(t) /\ lin = rank - o
                BY <1>3, <2>5, <2>9
            <4>2. Edge(q2) = o + le /\ lin > le + cap
                BY <2>14, <3>2, <4>1 DEF Edge
            <4> QED
                BY <2>14, <4>1, <4>2
        <3>4. q3 = resequence(q2, t)
            BY <2>6, <3>2
        <3>5. /\ Advances(q2, q3) /\ Gap(q3)
              /\ q3.lastEjected = 0 /\ Origin(q3) = Rank(t) - Half /\ DOMAIN q3.slots = {}
            BY <2>4, <3>2, <3>3, <3>4, ResequenceFacts
        <3>6. Buffer(q3) /\ Passed(q3) /\ q3.lastActiveAt = now
            BY <2>4, <3>5 DEF Advances
        <3>7. lin3 = Half /\ lin3 = Rank(t) - Origin(q3)
            <4>1. Minus(t, q3.tagBaseline) = Rank(t) - Origin(q3)
                <5>1. Origin(q3) <= Rank(t)
                    BY <1>3, <3>1, <3>5
                <5> QED
                    BY <3>6, <5>1, BufferFields
            <4> QED
                BY <1>3, <2>7, <3>1, <3>5, <4>1
        <3>8. e = arm([q3 EXCEPT !.slots = With(@, lin3, now)])
            BY <2>8, <2>13, <3>5
        <3>9. lin3 \in Nat /\ q3.lastEjected + 1 < lin3
                /\ lin3 <= q3.lastEjected + reorderingCapacity
            BY <3>1, <3>5, <3>7
        <3>10. Gains(q3, t, e) /\ Gap(e) /\ Armed(e)
            BY <3>5, <3>6, <3>7, <3>8, <3>9, InsertFacts
        <3>11. Buffer(e)
            BY <3>10 DEF Gains
        <3> QED
            BY <2>4, <3>5, <3>6, <3>10, <3>11, AdvancesAndGains
    <2> QED
        BY <2>11, <2>12, <2>13
<1> QED
    BY <1>3, <1>4, <1>5, <1>6

\* A new buffer, which takes the first message at once.
LEMMA NewFacts ==
    ASSUME msgSeqno \in 0..MaxInputs, now \in Nat,
           NEW t \in Tags, Rank(t) <= msgSeqno,
           NEW q, q = newReordering(t)
    PROVE  /\ Buffer(q) /\ Gap(q) /\ Armed(q) /\ q.out = <<>> /\ q.lastActiveAt = now
           /\ DOMAIN q.slots = {} /\ Edge(q) = Rank(t) - Half
<1>1. Rank(t) \in Int /\ Half \in Nat
    BY RankFacts, HalfFacts
<1>2. PICK base \in 0..(TagModulus - 1) :
        base = Minus(t, Half) /\ Plus(base, Half) = t /\ OriginOf(base) = Rank(t) - Half
    BY BaselineAround
<1>3. q = State(base, 0, Empty, None, now, <<>>)
    BY <1>2 DEF newReordering, resequence, State, Half
<1>4. /\ q.tagBaseline = base /\ q.lastEjected = 0 /\ q.slots = Empty
      /\ q.windowTask = None /\ q.lastActiveAt = now /\ q.out = <<>>
    BY <1>3, StateParts
<1>5. DOMAIN Empty = {} /\ Empty \in [DOMAIN Empty -> Nat]
    BY DEF Empty
<1>6. q \in ReorderingState
    <2>1. <<>> \in Seq(0..(TagModulus - 1))
        OBVIOUS
    <2>2. /\ q = State(q.tagBaseline, q.lastEjected, q.slots, q.windowTask, q.lastActiveAt, q.out)
          /\ q.tagBaseline \in 0..(TagModulus - 1) /\ q.lastEjected \in Nat
          /\ q.slots \in [DOMAIN q.slots -> Nat] /\ DOMAIN q.slots = {}
          /\ q.windowTask \in Nat \cup {None} /\ q.lastActiveAt \in Nat
        <3>1. q.slots \in [DOMAIN q.slots -> Nat] /\ DOMAIN q.slots = {}
            BY <1>4, <1>5
        <3> QED
            BY <1>3, <1>4, <3>1
    <2>3. q.out \in Seq(0..(TagModulus - 1))
        BY <1>4, <2>1
    <2>4. DOMAIN q.slots \subseteq 0..(MaxInputs + reorderingCapacity)
        BY <2>2
    <2> QED
        BY <2>2, <2>3, <2>4, StateMade
<1>7. Origin(q) = Rank(t) - Half /\ Edge(q) = Rank(t) - Half
    BY <1>1, <1>2, <1>4 DEF Origin, Edge
<1>8. Buffer(q)
    BY <1>1, <1>2, <1>4, <1>5, <1>6, <1>7 DEF Buffer
<1>9. Gap(q) /\ Armed(q) /\ DOMAIN q.slots = {}
    BY <1>4, <1>5 DEF Gap, Armed
<1> QED
    BY <1>4, <1>7, <1>8, <1>9

-----------------------------------------------------------------------------
(* A buffer between two steps, and what a delivery makes of it.            *)

\* What was handed over is taken out.
Silent(e) == [e EXCEPT !.out = <<>>]

LEMMA SilentFacts ==
    ASSUME NEW e, Buffer(e), NEW g, g = Silent(e)
    PROVE  /\ Buffer(g) /\ g.out = <<>> /\ g.lastActiveAt = e.lastActiveAt
           /\ g.slots = e.slots /\ Origin(g) = Origin(e) /\ Edge(g) = Edge(e)
           /\ Gap(e) => Gap(g)
           /\ Armed(e) => Armed(g)
           /\ \A r \in Int : Waits(g, r) <=> Waits(e, r)
<1>1. e \in ReorderingState
    BY DEF Buffer
<1>2. g = State(e.tagBaseline, e.lastEjected, e.slots, e.windowTask, e.lastActiveAt, <<>>)
    BY <1>1, StateExcept DEF Silent
<1>3. /\ g.tagBaseline = e.tagBaseline /\ g.lastEjected = e.lastEjected /\ g.slots = e.slots
      /\ g.windowTask = e.windowTask /\ g.lastActiveAt = e.lastActiveAt /\ g.out = <<>>
    BY <1>2, StateParts
<1>4. g \in ReorderingState
    <2>1. /\ e.tagBaseline \in 0..(TagModulus - 1) /\ e.lastEjected \in Nat
          /\ e.slots \in [DOMAIN e.slots -> Nat]
          /\ DOMAIN e.slots \subseteq 0..(MaxInputs + reorderingCapacity)
          /\ e.windowTask \in Nat \cup {None} /\ e.lastActiveAt \in Nat
        BY <1>1, StateFields
    <2>2. <<>> \in Seq(0..(TagModulus - 1))
        OBVIOUS
    <2> QED
        BY <1>2, <1>3, <2>1, <2>2, StateMade
<1>5. Origin(g) = Origin(e) /\ Edge(g) = Edge(e)
    BY <1>3 DEF Origin, Edge
<1>6. Buffer(g)
    BY <1>3, <1>4, <1>5 DEF Buffer
<1>7. (Gap(e) => Gap(g)) /\ (Armed(e) => Armed(g))
    BY <1>3 DEF Gap, Armed
<1>8. \A r \in Int : Waits(g, r) <=> Waits(e, r)
    BY <1>3, <1>5 DEF Waits
<1> QED
    BY <1>3, <1>5, <1>6, <1>7, <1>8

\* A delivery begins with noting the time.
LEMMA TouchFacts ==
    ASSUME now \in Nat, NEW q, Idle(q), NEW f, f = [q EXCEPT !.lastActiveAt = now]
    PROVE  /\ Buffer(f) /\ Gap(f) /\ Armed(f) /\ f.out = <<>> /\ f.lastActiveAt = now
           /\ Edge(f) = Edge(q) /\ Origin(f) = Origin(q) /\ f.slots = q.slots
<1>1. Buffer(q) /\ q \in ReorderingState /\ q.out = <<>> /\ q.lastActiveAt <= now
    BY DEF Idle, Buffer
<1>2. f = State(q.tagBaseline, q.lastEjected, q.slots, q.windowTask, now, q.out)
    BY <1>1, StateExcept
<1>3. /\ f.tagBaseline = q.tagBaseline /\ f.lastEjected = q.lastEjected /\ f.slots = q.slots
      /\ f.windowTask = q.windowTask /\ f.lastActiveAt = now /\ f.out = <<>>
    BY <1>1, <1>2, StateParts
<1>4. /\ q.tagBaseline \in 0..(TagModulus - 1) /\ q.lastEjected \in Nat
      /\ q.slots \in [DOMAIN q.slots -> Nat]
      /\ DOMAIN q.slots \subseteq 0..(MaxInputs + reorderingCapacity)
      /\ q.windowTask \in Nat \cup {None} /\ q.lastActiveAt \in Nat
      /\ q.out \in Seq(0..(TagModulus - 1))
    BY <1>1, StateFields
<1>5. f \in ReorderingState
    BY <1>1, <1>2, <1>3, <1>4, StateMade
<1>6. Origin(f) = Origin(q) /\ Edge(f) = Edge(q)
    BY <1>3 DEF Origin, Edge
<1>7. \A k \in DOMAIN q.slots : q.slots[k] <= now
    <2> SUFFICES ASSUME NEW k \in DOMAIN q.slots PROVE q.slots[k] <= now
        OBVIOUS
    <2>1. q.slots[k] \in Nat /\ q.slots[k] <= q.lastActiveAt
        BY <1>1, <1>4 DEF Buffer
    <2> QED
        BY <1>1, <1>4, <2>1
<1>8. Buffer(f)
    BY <1>1, <1>3, <1>5, <1>6, <1>7 DEF Buffer
<1>9. Gap(f) /\ Armed(f)
    BY <1>3 DEF Idle, Gap, Armed
<1> QED
    BY <1>3, <1>6, <1>8, <1>9

\* What the delivery of a tag to an ordered subscriber makes of the buffer it
\* finds: f is the buffer it works on, e that buffer when it is done.
Delivery(q, t, f, e) ==
    /\ Buffer(f) /\ Gap(f) /\ Armed(f) /\ f.out = <<>> /\ f.lastActiveAt = now
    /\ IF Stale(q) THEN DOMAIN f.slots = {} /\ Edge(f) < Rank(t)
       ELSE Edge(f) = Edge(q) /\ Origin(f) = Origin(q) /\ f.slots = q.slots
    /\ Buffer(e) /\ Passed(e) /\ Gap(e) /\ Armed(e) /\ e.lastActiveAt = now
    /\ Edge(f) <= Edge(e)
    /\ \A r \in Int : Holds(e, r) <=> Waits(f, r) \/ (r = Rank(t) /\ Rank(t) > Edge(f))

LEMMA DeliveryExists ==
    ASSUME msgSeqno \in 0..MaxInputs, now \in Nat,
           NEW s \in Ordered, sub[s] = "live",
           NEW t \in Tags, Rank(t) <= msgSeqno, msgSeqno - Rank(t) <= MaxBackwardLag,
           NEW q, q = None \/ Idle(q),
           NEW d, d = deliver(s, dropStaleReordering(q), t)
    PROVE  \E f, e : /\ Delivery(q, t, f, e) /\ d.state = Silent(e) /\ d.out = e.out
                     /\ d.accepted <=> Rank(t) > Edge(f)
<1>1. PICK f : f = IF Stale(q) THEN newReordering(t) ELSE [q EXCEPT !.lastActiveAt = now]
    OBVIOUS
<1>2. PICK p : p = push(f, t)
    OBVIOUS
<1>3. PICK e : e = p.state
    OBVIOUS
<1>5. dropStaleReordering(q) = IF Stale(q) THEN None ELSE q
    BY DEF dropStaleReordering
<1>6. ~Stale(q) => q # None
    BY DEF Stale
<1>7. d.accepted = p.accepted /\ d.state = Silent(e) /\ d.out = e.out
    BY <1>1, <1>2, <1>3, <1>5, <1>6 DEF deliver, Silent
<1>8. /\ Buffer(f) /\ Gap(f) /\ Armed(f) /\ f.out = <<>> /\ f.lastActiveAt = now
      /\ IF Stale(q) THEN DOMAIN f.slots = {} /\ Edge(f) < Rank(t)
         ELSE Edge(f) = Edge(q) /\ Origin(f) = Origin(q) /\ f.slots = q.slots
    <2>1. CASE Stale(q)
        <3>1. f = newReordering(t)
            BY <1>1, <2>1
        <3>2. /\ Buffer(f) /\ Gap(f) /\ Armed(f) /\ f.out = <<>> /\ f.lastActiveAt = now
              /\ DOMAIN f.slots = {} /\ Edge(f) = Rank(t) - Half
            BY <3>1, NewFacts
        <3>3. Edge(f) < Rank(t)
            BY <3>2, RankFacts, HalfFacts
        <3> QED
            BY <2>1, <3>2, <3>3
    <2>2. CASE ~Stale(q)
        <3>1. f = [q EXCEPT !.lastActiveAt = now] /\ Idle(q)
            BY <1>1, <1>6, <2>2
        <3> QED
            BY <2>2, <3>1, TouchFacts
    <2> QED
        BY <2>1, <2>2
<1>9. /\ p.accepted <=> Rank(t) > Edge(f)
      /\ Rank(t) <= Edge(f) => e = f
      /\ Rank(t) > Edge(f) => Gains(f, t, e) /\ Gap(e) /\ Armed(e)
    BY <1>2, <1>3, <1>8, PushFacts
<1>10. Rank(t) \in Int /\ Edge(f) \in Int
    BY <1>8, RankFacts, BufferFields
<1>11. ASSUME NEW r \in Int PROVE Holds(f, r) <=> Waits(f, r)
    BY <1>8 DEF Holds, Handed
<1>12. CASE Rank(t) <= Edge(f)
    <2>1. e = f /\ Passed(f)
        BY <1>8, <1>9, <1>12 DEF Passed, Rising
    <2>2. ~(Rank(t) > Edge(f)) /\ Edge(f) <= Edge(f)
        BY <1>10, <1>12
    <2>3. Delivery(q, t, f, e)
        BY <1>8, <1>11, <2>1, <2>2 DEF Delivery
    <2> QED
        BY <1>7, <1>9, <2>3
<1>13. CASE Rank(t) > Edge(f)
    <2>1. Gains(f, t, e) /\ Gap(e) /\ Armed(e)
        BY <1>9, <1>13
    <2>2. Delivery(q, t, f, e)
        BY <1>8, <1>11, <1>13, <2>1 DEF Delivery, Gains
    <2> QED
        BY <1>7, <1>9, <2>2
<1> QED
    BY <1>10, <1>12, <1>13

\* Every tag of a sequence precedes rank r.
Precedes(tags, r) == \A j \in DOMAIN tags : Rank(tags[j]) < r

\* What a buffer holds is later than what the subscriber was notified of, and
\* no copy of that on the network gets in.
Continues(old, e) ==
    /\ \A j \in DOMAIN old : Rank(old[j]) <= msgSeqno
    /\ \A r \in Int : Holds(e, r) => Precedes(old, r)
    /\ \A j \in DOMAIN old : \A m \in net : Rank(old[j]) < Rank(m.tag) \/ Rank(m.tag) <= Edge(e)

Notified(old, e, g, new) ==
    /\ new \in Seq(Tags) /\ Rising(new)
    /\ \A j \in DOMAIN new : Behind(g, Rank(new[j]))
    /\ \A j \in DOMAIN new : \/ \E i \in DOMAIN old : new[j] = old[i]
                             \/ Handed(e, Rank(new[j]))
    /\ \A r \in Int : Handed(e, r) => \E j \in DOMAIN new : Rank(new[j]) = r

\* A subscriber is notified of what a step handed over, after all the rest.
LEMMA NotifiedInOrder ==
    ASSUME msgSeqno \in 0..MaxInputs, net \subseteq Messages,
           NEW old \in Seq(Tags), Rising(old),
           NEW e, Buffer(e), Passed(e), Continues(old, e),
           NEW g, g = Silent(e), NEW new, new = old \o e.out
    PROVE  Notified(old, e, g, new)
<1>12. /\ \A j \in DOMAIN old : Rank(old[j]) <= msgSeqno
       /\ \A r \in Int : Holds(e, r) => Precedes(old, r)
       /\ \A j \in DOMAIN old : \A m \in net : Rank(old[j]) < Rank(m.tag) \/ Rank(m.tag) <= Edge(e)
    BY DEF Continues
<1>1. PICK out : out = e.out
    OBVIOUS
<1>2. out \in Seq(Tags) /\ Rising(out) /\ \A i \in DOMAIN out : Rank(out[i]) <= Edge(e)
    BY <1>1 DEF Passed
<1>3. /\ Edge(e) \in Int /\ Edge(e) <= msgSeqno /\ e.lastEjected \in Nat /\ Origin(e) \in Int
      /\ Edge(e) = Origin(e) + e.lastEjected
      /\ DOMAIN e.slots \subseteq Nat /\ \A k \in DOMAIN e.slots : e.lastEjected < k
    BY BufferFields, StateFields DEF Buffer, Edge
<1>4. \A i \in DOMAIN out : Rank(out[i]) \in Int /\ Handed(e, Rank(out[i]))
    BY <1>1, <1>2, RankFacts DEF Handed
<1>5. Before(old, out)
    BY <1>4, <1>12 DEF Before, Holds, Precedes
<1>6. new \in Seq(Tags) /\ MadeOf(new, old, out) /\ Rising(new)
    BY <1>1, <1>2, <1>5, Joined
<1>7. g.slots = e.slots /\ Origin(g) = Origin(e) /\ Edge(g) = Edge(e)
    BY SilentFacts
<1>8. ASSUME NEW i \in DOMAIN old PROVE Behind(g, Rank(old[i]))
    <2>1. ASSUME NEW k \in DOMAIN e.slots PROVE Rank(old[i]) < Origin(e) + k
        <3>1. k \in Nat /\ Origin(e) + k \in Int /\ (Origin(e) + k) - Origin(e) = k
            BY <1>3
        <3>2. PICK r \in Int : r = Origin(e) + k
            BY <3>1
        <3>3. Holds(e, r)
            BY <3>1, <3>2 DEF Holds, Waits
        <3> QED
            BY <1>12, <3>2, <3>3 DEF Precedes
    <2> QED
        BY <1>7, <1>12, <2>1 DEF Behind
<1>9. ASSUME NEW i \in DOMAIN out PROVE Behind(g, Rank(out[i]))
    <2>1. PICK d \in Int : d = Rank(out[i]) /\ d <= Edge(e)
        BY <1>2, <1>4
    <2>2. d <= msgSeqno
        BY <1>3, <2>1
    <2>3. ASSUME NEW k \in DOMAIN e.slots PROVE d < Origin(e) + k
        <3>1. PICK o \in Int : o = Origin(e)
            BY <1>3
        <3>2. PICK le \in Nat : le = e.lastEjected
            BY <1>3
        <3>3. Edge(e) = o + le
            BY <3>1, <3>2 DEF Edge
        <3>4. le < k /\ k \in Nat
            BY <1>3, <3>2
        <3>5. d <= o + le
            BY <2>1, <3>3
        <3>6. d < o + k
            BY <3>4, <3>5
        <3> QED
            BY <3>1, <3>6
    <2>4. ASSUME NEW m \in net PROVE d < Rank(m.tag) \/ Rank(m.tag) <= Edge(e)
        <3>1. Rank(m.tag) \in Int
            BY RankFacts DEF Messages
        <3> QED
            BY <1>3, <2>1, <3>1
    <2> QED
        BY <1>7, <2>1, <2>2, <2>3, <2>4 DEF Behind
<1>10. ASSUME NEW j \in DOMAIN new
       PROVE  /\ Behind(g, Rank(new[j]))
              /\ (\E i \in DOMAIN old : new[j] = old[i]) \/ Handed(e, Rank(new[j]))
    <2>1. CASE \E i \in DOMAIN old : new[j] = old[i]
        BY <1>8, <2>1
    <2>2. CASE \E i \in DOMAIN out : new[j] = out[i]
        BY <1>4, <1>9, <2>2
    <2> QED
        BY <1>6, <2>1, <2>2 DEF MadeOf
<1>11. ASSUME NEW r \in Int, Handed(e, r) PROVE \E j \in DOMAIN new : Rank(new[j]) = r
    <2>1. PICK i \in DOMAIN out : Rank(out[i]) = r
        BY <1>1, <1>11 DEF Handed
    <2>2. PICK j \in DOMAIN new : new[j] = out[i]
        BY <1>6 DEF MadeOf
    <2> QED
        BY <2>1, <2>2
<1> QED
    BY <1>6, <1>10, <1>11 DEF Notified

-----------------------------------------------------------------------------
(* The dedup window.                                                       *)

LEMMA DedupMade ==
    ASSUME NEW d, NEW tag, NEW bits, NEW at,
           d = [tag |-> tag, bitmap |-> bits, lastActiveAt |-> at]
    PROVE  /\ d.tag = tag /\ d.bitmap = bits /\ d.lastActiveAt = at
           /\ tag \in Tags /\ bits \subseteq 0..(dedupHistory - 1) /\ at \in Nat => d \in DedupState
<1>1. d.tag = tag /\ d.bitmap = bits /\ d.lastActiveAt = at
    OBVIOUS
<1>2. tag \in Tags => tag \in 0..(TagModulus - 1)
    BY RankFacts
<1> QED
    BY <1>1, <1>2 DEF DedupState

LEMMA DedupFields ==
    ASSUME NEW d \in DedupState
    PROVE  /\ d = [tag |-> d.tag, bitmap |-> d.bitmap, lastActiveAt |-> d.lastActiveAt]
           /\ d.tag \in 0..(TagModulus - 1) /\ d.lastActiveAt \in Nat
           /\ \A i \in d.bitmap : i \in Nat /\ i < dedupHistory
           /\ d.bitmap \subseteq 0..(dedupHistory - 1)
BY Constants DEF DedupState

\* A tag ahead of the window shifts it: what was remembered stays remembered,
\* as far as the window reaches.
ShiftedBits(d, fwd) ==
    {0} \cup IF fwd >= dedupHistory THEN {} ELSE bitmapShift(d.bitmap, fwd)

LEMMA ShiftFacts ==
    ASSUME NEW d \in DedupState, d.tag \in Tags, NEW t \in Tags, Rank(d.tag) < Rank(t),
           NEW fwd, fwd = Minus(t, d.tag), NEW bits, bits = ShiftedBits(d, fwd)
    PROVE  /\ bits \subseteq 0..(dedupHistory - 1) /\ 0 \in bits
           /\ \A i \in bits : Minus(t, i) = t \/ \E j \in d.bitmap : Minus(t, i) = Minus(d.tag, j)
           /\ \A u \in Tags : check(d, u) /\ Rank(t) - Rank(u) < dedupHistory => Minus(t, u) \in bits
<1>1. PICK M \in Nat \ {0}, H \in Nat \ {0} :
        M = TagModulus /\ H = dedupHistory /\ 2 * H <= M /\ 2 * MaxInputs < M /\ MaxInputs \in Nat
    BY ReceiverAssumption, Constants
<1>2. PICK x \in 1..MaxInputs, y \in 1..MaxInputs :
        x = Rank(t) /\ y = Rank(d.tag) /\ y < x /\ t \in 0..(M - 1) /\ d.tag \in 0..(M - 1)
    BY <1>1, RankFacts
<1>3. fwd = x - y
    BY <1>2, TagDistance
<1>4. PICK f \in Nat : f = fwd
    BY <1>2, <1>3
<1>5. ASSUME NEW i \in bits
      PROVE  (i = 0 \/ \E j \in d.bitmap : i = j + f) /\ i \in 0..(H - 1)
    BY <1>1, <1>4 DEF ShiftedBits, bitmapShift
<1>6. bits \subseteq 0..(H - 1) /\ 0 \in bits
    BY <1>1, <1>5 DEF ShiftedBits
<1>7. t \in Int /\ d.tag \in Int
    BY <1>1, <1>2
<1>8. Minus(t, 0) = t
    BY <1>1, <1>2, ModShort DEF Minus
<1>9. ASSUME NEW j \in d.bitmap PROVE Minus(t, j + f) = Minus(d.tag, j)
    <2>1. j \in Nat
        BY DedupFields
    <2>2. Minus(t, f) = d.tag
        BY <1>1, <1>2, <1>4, TagsBehind
    <2>3. PICK v \in Int, w \in Int : v = t - f /\ w = -j
        BY <1>7, <2>1
    <2>4. ((v % M) + w) % M = (v + w) % M
        BY <1>1, ModInner
    <2>5. v % M = d.tag
        BY <1>1, <2>2, <2>3 DEF Minus
    <2>6. d.tag + w = d.tag - j /\ v + w = t - (j + f)
        BY <1>7, <2>1, <2>3
    <2> QED
        BY <1>1, <2>4, <2>5, <2>6 DEF Minus
<1>10. ASSUME NEW i \in bits
       PROVE  Minus(t, i) = t \/ \E j \in d.bitmap : Minus(t, i) = Minus(d.tag, j)
    <2>1. CASE i = 0
        BY <1>8, <2>1
    <2>2. CASE \E j \in d.bitmap : i = j + f
        BY <1>9, <2>2
    <2> QED
        BY <1>5, <2>1, <2>2
<1>11. ASSUME NEW u \in Tags, check(d, u), Rank(t) - Rank(u) < dedupHistory
       PROVE  Minus(t, u) \in bits
    <2>1. PICK z \in 1..MaxInputs : z = Rank(u) /\ x - z < H
        BY <1>1, <1>2, <1>11, RankFacts
    <2>2. PICK i \in d.bitmap : i = Minus(d.tag, u) /\ i \in Nat /\ i < H
        BY <1>1, <1>11, DedupFields DEF check
    <2>3. /\ z <= y => i = y - z
          /\ y < z => i = y - z + M
        BY <1>1, <1>2, <2>1, <2>2, TagDistance
    <2>4. z <= y /\ i = y - z
        BY <1>1, <1>2, <2>1, <2>2, <2>3
    <2>5. Minus(t, u) = x - z
        <3>1. Rank(u) <= Rank(t)
            BY <1>2, <2>1, <2>4
        <3> QED
            BY <1>2, <2>1, <3>1, TagDistance
    <2>6. x - z = i + f /\ i + f \in 0..(H - 1) /\ ~(f >= H)
        BY <1>1, <1>2, <1>3, <1>4, <2>1, <2>4
    <2>7. i + f \in bits
        BY <1>1, <1>4, <2>2, <2>6 DEF ShiftedBits, bitmapShift
    <2> QED
        BY <2>5, <2>6, <2>7
<1> QED
    BY <1>1, <1>6, <1>10, <1>11

LEMMA CommitFacts ==
    ASSUME now \in Nat,
           NEW d \in DedupState, d.tag \in Tags, NEW t \in Tags,
           Rank(d.tag) - Rank(t) < dedupHistory,
           NEW c, c = commit(d, t)
    PROVE  /\ c \in DedupState /\ c.lastActiveAt = now /\ c.tag \in {d.tag, t} /\ check(c, t)
           /\ \A i \in c.bitmap : Minus(c.tag, i) = t
                                  \/ \E j \in d.bitmap : Minus(c.tag, i) = Minus(d.tag, j)
           /\ \A u \in Tags : check(d, u) /\ Rank(t) - Rank(u) < dedupHistory => check(c, u)
<1>1. PICK x \in Int, y \in Int : x = Rank(t) /\ y = Rank(d.tag)
    BY RankFacts
<1>2. PICK rev : rev = Minus(d.tag, t)
    OBVIOUS
<1>3. PICK fwd : fwd = Minus(t, d.tag)
    OBVIOUS
<1>4. dedupHistory \in Nat \ {0} /\ TagModulus \in Nat /\ d.bitmap \subseteq 0..(dedupHistory - 1)
        /\ t \in 0..(TagModulus - 1) /\ d.tag \in 0..(TagModulus - 1)
    BY Constants, DedupFields, RankFacts
<1>5. CASE rev < dedupHistory
    <2>1. c = [tag |-> d.tag, bitmap |-> d.bitmap \cup {rev}, lastActiveAt |-> now]
        <3>1. c = [d EXCEPT !.bitmap = @ \cup {rev}, !.lastActiveAt = now]
            BY <1>2, <1>5 DEF commit
        <3> QED
            BY <3>1 DEF DedupState
    <2>2. rev \in 0..(dedupHistory - 1)
        <3>1. rev \in 0..(TagModulus - 1)
            BY <1>2, TagDistance
        <3> QED
            BY <1>4, <1>5, <3>1
    <2>3. /\ c.tag = d.tag /\ c.bitmap = d.bitmap \cup {rev} /\ c.lastActiveAt = now
          /\ c \in DedupState
        BY <1>4, <2>1, <2>2, DedupMade
    <2>4. Minus(d.tag, rev) = t
        BY <1>2, <1>4, TagsBehind
    <2>5. check(c, t)
        BY <1>2, <2>3 DEF check
    <2>6. \A u \in Tags : check(d, u) => check(c, u)
        BY <2>3 DEF check
    <2> QED
        BY <2>3, <2>4, <2>5, <2>6
<1>6. CASE ~(rev < dedupHistory)
    <2>1. y < x
        <3>1. x <= y => rev = y - x
            BY <1>1, <1>2, TagDistance
        <3> QED
            BY <1>1, <1>4, <1>6, <3>1
    <2>2. PICK bits : bits = ShiftedBits(d, fwd)
        OBVIOUS
    <2>3. c = [tag |-> t, bitmap |-> bits, lastActiveAt |-> now]
        BY <1>2, <1>3, <1>6, <2>2 DEF commit, ShiftedBits
    <2>4. /\ bits \subseteq 0..(dedupHistory - 1) /\ 0 \in bits
          /\ \A i \in bits : Minus(t, i) = t \/ \E j \in d.bitmap : Minus(t, i) = Minus(d.tag, j)
          /\ \A u \in Tags : check(d, u) /\ Rank(t) - Rank(u) < dedupHistory => Minus(t, u) \in bits
        BY <1>1, <1>3, <2>1, <2>2, ShiftFacts
    <2>5. /\ c.tag = t /\ c.bitmap = bits /\ c.lastActiveAt = now /\ c \in DedupState
        BY <2>3, <2>4, DedupMade
    <2>6. check(c, t)
        <3>1. Minus(t, t) = 0
            BY TagDistance, RankFacts
        <3> QED
            BY <2>4, <2>5, <3>1 DEF check
    <2>7. \A u \in Tags : check(d, u) /\ Rank(t) - Rank(u) < dedupHistory => check(c, u)
        BY <2>4, <2>5 DEF check
    <2> QED
        BY <2>4, <2>5, <2>6, <2>7
<1> QED
    BY <1>5, <1>6

-----------------------------------------------------------------------------
(* The steps of the node.                                                  *)

LEMMA Bounds ==
    ASSUME Types
    PROVE  msgSeqno \in 0..MaxInputs /\ msgSeqno \in Nat /\ now \in Nat
<1>1. PICK n \in Nat, c \in Nat : n = msgSeqno /\ c = changes /\ n + 2 * c <= MaxInputs
    BY DEF Types
<1>2. n \in 0..MaxInputs
    BY <1>1, Constants
<1>3. now \in Nat
    BY ReceiverAssumption DEF Types
<1> QED
    BY <1>1, <1>2, <1>3

LEMMA MessageFacts ==
    ASSUME Types, Network, NEW m \in net
    PROVE  /\ m.tag \in Tags /\ Rank(m.tag) \in 1..MaxInputs /\ m.deadline \in Nat
           /\ Rank(m.tag) \in Int
           /\ m.reliable \in BOOLEAN
           /\ Rank(m.tag) <= msgSeqno /\ msgSeqno - Rank(m.tag) <= MaxBackwardLag
           /\ now <= m.deadline /\ m.deadline <= now + Patience
<1>1. m \in Messages
    BY DEF Types
<1> QED
    BY <1>1, RankFacts DEF Messages, Network

\* The dedup state that a reliable message finds.
LEMMA FoundFacts ==
    ASSUME Types, Network, Remembered, NEW m \in net, m.reliable,
           NEW dd, dd = dedupFindOrCreate(dedup, m.tag)
    PROVE  /\ dd \in DedupState /\ Window(dd)
           /\ ~Stale(dedup) => dd = dedup
           /\ Stale(dedup) => dd.bitmap = {}
<1>1. now \in Nat /\ m.tag \in Tags /\ Rank(m.tag) <= msgSeqno
    BY Bounds, MessageFacts
<1>2. CASE ~Stale(dedup)
    <2>1. dd = dedup /\ dedup # None
        BY <1>2 DEF dedupFindOrCreate, Stale
    <2> QED
        BY <1>2, <2>1 DEF Types, Remembered
<1>3. CASE Stale(dedup)
    <2>1. dd = [tag |-> m.tag, bitmap |-> {}, lastActiveAt |-> now]
        BY <1>3 DEF dedupFindOrCreate
    <2>2. /\ dd.tag = m.tag /\ dd.bitmap = {} /\ dd.lastActiveAt = now /\ dd \in DedupState
        BY <1>1, <2>1, DedupMade
    <2>3. \A n \in net : n.reliable => Rank(m.tag) - Rank(n.tag) < dedupHistory
        BY DEF Network
    <2>4. now <= now
        BY <1>1
    <2>5. Window(dd)
        BY <1>1, <2>2, <2>3, <2>4 DEF Window
    <2> QED
        BY <1>3, <2>2, <2>5
<1> QED
    BY <1>2, <1>3

LEMMA CommitKeepsWindow ==
    ASSUME Types, Network, NEW dd \in DedupState, Window(dd), NEW m \in net, m.reliable,
           NEW c, c = commit(dd, m.tag)
    PROVE  /\ c \in DedupState /\ c.lastActiveAt = now /\ check(c, m.tag)
           /\ c.tag \in Tags /\ Rank(c.tag) <= msgSeqno
           /\ \A i \in c.bitmap : Minus(c.tag, i) \in accepted \cup {m.tag}
           /\ \A n \in net : n.reliable => Rank(c.tag) - Rank(n.tag) < dedupHistory
           /\ \A n \in net : n.reliable /\ check(dd, n.tag) => check(c, n.tag)
<1>1. now \in Nat /\ m.tag \in Tags /\ Rank(m.tag) <= msgSeqno
    BY Bounds, MessageFacts
<1>2. /\ dd.tag \in Tags /\ Rank(dd.tag) <= msgSeqno
      /\ \A i \in dd.bitmap : Minus(dd.tag, i) \in accepted
      /\ \A n \in net : n.reliable => Rank(dd.tag) - Rank(n.tag) < dedupHistory
    BY DEF Window
<1>3. \A n \in net : n.reliable => Rank(m.tag) - Rank(n.tag) < dedupHistory
    BY DEF Network
<1>4. /\ c \in DedupState /\ c.lastActiveAt = now /\ c.tag \in {dd.tag, m.tag} /\ check(c, m.tag)
      /\ \A i \in c.bitmap : Minus(c.tag, i) = m.tag
                             \/ \E j \in dd.bitmap : Minus(c.tag, i) = Minus(dd.tag, j)
      /\ \A u \in Tags : check(dd, u) /\ Rank(m.tag) - Rank(u) < dedupHistory => check(c, u)
    BY <1>1, <1>2, CommitFacts
<1>5. \A n \in net : n.tag \in Tags
    BY MessageFacts
<1>6. \A i \in c.bitmap : Minus(c.tag, i) \in accepted \cup {m.tag}
    BY <1>2, <1>4
<1>7. \A n \in net : n.reliable /\ check(dd, n.tag) => check(c, n.tag)
    BY <1>3, <1>4, <1>5
<1>8. \A n \in net : n.reliable => Rank(c.tag) - Rank(n.tag) < dedupHistory
    BY <1>2, <1>3, <1>4
<1> QED
    BY <1>1, <1>2, <1>4, <1>6, <1>7, <1>8

\* Messages leave the network, and the dedup state may be dropped when nobody
\* listens.
LEMMA NetShrinks ==
    ASSUME RxInv,
           net' \subseteq net, acks' \subseteq accepted,
           UNCHANGED <<msgSeqno, now, sub, changes, reordering, delivered, accepted>>,
           dedup' = dedup \/ (dedup' = None /\ \A s \in Subs : sub[s] # "live")
    PROVE  RxInv'
<1>1. Types'
    BY DEF RxInv, Types
<1>2. Network'
    BY DEF RxInv, Network
<1>3. Remembered'
    BY DEF RxInv, Remembered, Window
<1>4. Buffers'
    BY DEF RxInv, Buffers, Idle, Buffer
<1>5. OrderedOnce'
    BY DEF RxInv, OrderedOnce, NothingTwice, Behind, Older
<1>6. PlainOnce'
    BY DEF RxInv, PlainOnce
<1>7. DeliveredOnceInOrder'
    BY DEF RxInv, DeliveredOnceInOrder
<1> QED
    BY <1>1, <1>2, <1>3, <1>4, <1>5, <1>6, <1>7 DEF RxInv

LEMMA OrderIsRising ==
    ASSUME Types, NEW s \in Ordered
    PROVE  DeliveredOnceInOrder => Rising(delivered[s])
<1> SUFFICES ASSUME DeliveredOnceInOrder,
                    NEW i \in DOMAIN delivered[s], NEW j \in DOMAIN delivered[s], i < j
             PROVE  Rank(delivered[s][i]) < Rank(delivered[s][j])
    BY DEF Rising
<1>1. s \in Subs
    BY ReceiverAssumption
<1>2. delivered[s] \in Seq(Tags)
    BY <1>1 DEF Types
<1>3. i \in 1..(j - 1)
    BY <1>2
<1> QED
    BY <1>1, <1>3 DEF DeliveredOnceInOrder

\* What a buffer in use knows of the messages it has taken.
LEMMA StaleFacts ==
    ASSUME Types, Network, NEW q, Idle(q)
    PROVE  /\ DOMAIN q.slots # {} => ~Stale(q)
           /\ Stale(q) => \A m \in net : m.deadline > q.lastActiveAt + Patience
<1>1. PICK at \in Nat : at = q.lastActiveAt
    BY StateFields DEF Idle, Buffer
<1>2. PICK t \in Nat : t = now
    BY Bounds
<1>3. q # None
    BY NothingAssumption DEF Idle, Buffer
<1>4. Stale(q) <=> t - at > SessionLifetime
    BY <1>1, <1>2, <1>3 DEF Stale
<1>5. DOMAIN q.slots # {} => t <= at + ReorderingWindow
    BY <1>1, <1>2 DEF Idle
<1>6. DOMAIN q.slots # {} => ~Stale(q)
    BY <1>4, <1>5, ReceiverAssumption
<1>7. ASSUME Stale(q), NEW m \in net PROVE m.deadline > q.lastActiveAt + Patience
    <2>1. PICK e \in Nat : e = m.deadline /\ t <= e
        BY <1>2, MessageFacts
    <2> QED
        BY <1>1, <1>4, <1>7, <2>1, ReceiverAssumption
<1> QED
    BY <1>6, <1>7

\* An ordered subscriber is served: its buffer and what it was notified of.
Served(q, old, g, new) ==
    /\ Idle(g) /\ new \in Seq(Tags) /\ Rising(new) /\ NothingTwice(g, new)
    /\ q # None => \A r \in Int : Waits(q, r) =>
            Waits(g, r) \/ \E j \in DOMAIN new : Rank(new[j]) = r

LEMMA DeliveryServes ==
    ASSUME Types, Network, NEW m \in net,
           NEW q, q = None \/ Idle(q),
           NEW old \in Seq(Tags), Rising(old),
           q = None => old = <<>>,
           q # None => NothingTwice(q, old),
           NEW f, NEW e, Delivery(q, m.tag, f, e)
    PROVE  Served(q, old, Silent(e), old \o e.out)
<1>1. PICK g, new : g = Silent(e) /\ new = old \o e.out
    OBVIOUS
<1>2. /\ msgSeqno \in 0..MaxInputs /\ now \in Nat /\ net \subseteq Messages /\ m.tag \in Tags
      /\ msgSeqno \in Nat
    BY Bounds, MessageFacts DEF Types
<1>3. /\ Buffer(f) /\ Gap(f) /\ f.out = <<>>
      /\ Buffer(e) /\ Passed(e) /\ Gap(e) /\ Armed(e) /\ e.lastActiveAt = now
      /\ Edge(f) <= Edge(e)
      /\ \A r \in Int : Holds(e, r) <=> Waits(f, r) \/ (r = Rank(m.tag) /\ Rank(m.tag) > Edge(f))
      /\ Stale(q) => DOMAIN f.slots = {}
      /\ ~Stale(q) => Edge(f) = Edge(q) /\ Origin(f) = Origin(q) /\ f.slots = q.slots
    BY DEF Delivery
<1>4. Edge(f) \in Int /\ Edge(e) \in Int /\ Origin(f) \in Int
    BY <1>3, BufferFields
<1>5. ASSUME NEW j \in DOMAIN old
      PROVE  /\ q # None /\ Idle(q) /\ Rank(old[j]) \in Int
             /\ Behind(q, Rank(old[j])) /\ Older(q, Rank(old[j]))
    <2>1. q # None
        BY <1>5
    <2> QED
        BY <2>1, RankFacts DEF NothingTwice
<1>6. \A j \in DOMAIN old : Rank(old[j]) <= msgSeqno
    BY <1>5 DEF Behind
<1>7. ASSUME NEW r \in Int, Holds(e, r), NEW j \in DOMAIN old
      PROVE  Rank(old[j]) < r
    <2>1. PICK d \in Int : d = Rank(old[j]) /\ Behind(q, d) /\ Older(q, d)
        BY <1>5
    <2>2. CASE Stale(q)
        <3>1. r = Rank(m.tag)
            BY <1>3, <1>7, <2>2 DEF Waits
        <3>2. m.deadline > q.lastActiveAt + Patience
            BY <1>5, <2>2, StaleFacts
        <3> QED
            BY <2>1, <3>1, <3>2 DEF Older
    <2>3. CASE ~Stale(q) /\ Waits(f, r)
        <3>1. r - Origin(q) \in DOMAIN q.slots /\ Origin(q) \in Int
            BY <1>3, <1>4, <2>3 DEF Waits
        <3>2. d < Origin(q) + (r - Origin(q))
            BY <2>1, <3>1 DEF Behind
        <3> QED
            BY <2>1, <3>1, <3>2
    <2>4. CASE ~Stale(q) /\ r = Rank(m.tag) /\ Rank(m.tag) > Edge(f)
        <3>1. d < Rank(m.tag) \/ Rank(m.tag) <= Edge(q)
            BY <2>1 DEF Behind
        <3>2. Edge(q) = Edge(f)
            BY <1>3, <2>4
        <3> QED
            BY <1>4, <2>1, <2>4, <3>1, <3>2
    <2> QED
        BY <1>3, <1>7, <2>2, <2>3, <2>4
<1>8. ASSUME NEW j \in DOMAIN old, NEW n \in net
      PROVE  Rank(old[j]) < Rank(n.tag) \/ Rank(n.tag) <= Edge(e)
    <2>1. CASE Stale(q)
        <3>1. n.deadline > q.lastActiveAt + Patience
            BY <1>5, <2>1, StaleFacts
        <3> QED
            BY <1>5, <3>1 DEF Older
    <2>2. CASE ~Stale(q)
        <3>1. Rank(old[j]) < Rank(n.tag) \/ Rank(n.tag) <= Edge(q)
            BY <1>5 DEF Behind
        <3>2. Rank(n.tag) \in Int
            BY MessageFacts
        <3> QED
            BY <1>3, <1>4, <2>2, <3>1, <3>2
    <2> QED
        BY <2>1, <2>2
<1>9. \A r \in Int : Holds(e, r) => Precedes(old, r)
    BY <1>7 DEF Precedes
<1>10. /\ new \in Seq(Tags) /\ Rising(new)
       /\ \A j \in DOMAIN new : Behind(g, Rank(new[j]))
       /\ \A r \in Int : Handed(e, r) => \E j \in DOMAIN new : Rank(new[j]) = r
    <2>1. Continues(old, e)
        BY <1>6, <1>8, <1>9 DEF Continues
    <2>2. Notified(old, e, g, new)
        BY <1>1, <1>2, <1>3, <2>1, NotifiedInOrder
    <2> QED
        BY <2>2 DEF Notified
<1>11. /\ Buffer(g) /\ g.out = <<>> /\ g.lastActiveAt = now /\ Gap(g) /\ Armed(g)
       /\ \A r \in Int : Waits(g, r) <=> Waits(e, r)
    BY <1>1, <1>3, SilentFacts
<1>12. Idle(g)
    <2>1. now <= now /\ now <= now + ReorderingWindow
        BY <1>2, ReceiverAssumption
    <2> QED
        BY <1>11, <2>1 DEF Idle
<1>13. ASSUME NEW d PROVE Older(g, d)
    <2> SUFFICES ASSUME NEW n \in net, n.deadline > g.lastActiveAt + Patience
                 PROVE  FALSE
        BY DEF Older
    <2>1. n.deadline \in Nat /\ n.deadline <= now + Patience
        BY MessageFacts
    <2> QED
        BY <1>2, <1>11, <2>1, ReceiverAssumption
<1>14. NothingTwice(g, new)
    BY <1>10, <1>13 DEF NothingTwice
<1>15. ASSUME q # None, NEW r \in Int, Waits(q, r)
       PROVE  Waits(g, r) \/ \E j \in DOMAIN new : Rank(new[j]) = r
    <2>1. ~Stale(q)
        BY <1>15, StaleFacts DEF Waits
    <2>2. Waits(f, r)
        BY <1>3, <1>15, <2>1 DEF Waits
    <2>3. Waits(e, r) \/ Handed(e, r)
        BY <1>3, <2>2 DEF Holds
    <2> QED
        BY <1>10, <1>11, <2>3
<1> QED
    BY <1>1, <1>10, <1>12, <1>14, <1>15 DEF Served

\* The window of a buffer expires.
LEMMA ExpiryMoves ==
    ASSUME Types, NEW q, Idle(q), NEW e, e = scan(q, TRUE)
    PROVE  /\ Buffer(e) /\ Passed(e) /\ e.lastActiveAt = q.lastActiveAt
           /\ Edge(q) <= Edge(e) /\ Edge(q) \in Int /\ Edge(e) \in Int
           /\ Origin(q) \in Int /\ Origin(e) \in Int
           /\ \A r \in Int : Holds(e, r) <=> Waits(q, r)
           /\ Idle(Silent(e))
<1>1. Buffer(q) /\ q.out = <<>> /\ msgSeqno \in 0..MaxInputs
    BY Bounds DEF Idle
<1>2. Passed(q)
    BY <1>1 DEF Passed, Rising
<1>3. Advances(q, e) /\ Armed(e) /\ Gap(e) /\ DOMAIN e.slots \subseteq DOMAIN q.slots
    BY <1>1, <1>2, ScanFacts
<1>4. /\ Buffer(e) /\ Passed(e) /\ e.lastActiveAt = q.lastActiveAt
      /\ Edge(q) <= Edge(e) /\ \A r \in Int : Holds(e, r) <=> Holds(q, r)
    BY <1>3 DEF Advances
<1>5. ASSUME NEW r \in Int PROVE Holds(e, r) <=> Waits(q, r)
    <2>1. ~Handed(q, r)
        BY <1>1 DEF Handed
    <2> QED
        BY <1>4, <2>1 DEF Holds
<1>6. PICK g : g = Silent(e)
    OBVIOUS
<1>7. /\ Buffer(g) /\ g.out = <<>> /\ g.lastActiveAt = e.lastActiveAt /\ Gap(g) /\ Armed(g)
      /\ g.slots = e.slots
    BY <1>3, <1>4, <1>6, SilentFacts
<1>8. Idle(g)
    <2>1. DOMAIN g.slots # {} => DOMAIN q.slots # {}
        BY <1>3, <1>7
    <2> QED
        BY <1>4, <1>7, <2>1 DEF Idle
<1> QED
    BY <1>1, <1>4, <1>5, <1>6, <1>8, BufferFields

LEMMA ExpiryServes ==
    ASSUME Types, Network, NEW q, Idle(q), NEW e, e = scan(q, TRUE),
           NEW old \in Seq(Tags), Rising(old), NothingTwice(q, old)
    PROVE  Served(q, old, Silent(e), old \o e.out)
<1>1. PICK g, new : g = Silent(e) /\ new = old \o e.out
    OBVIOUS
<1>2. /\ Buffer(e) /\ Passed(e) /\ e.lastActiveAt = q.lastActiveAt
      /\ Edge(q) <= Edge(e) /\ Edge(q) \in Int /\ Edge(e) \in Int
      /\ Origin(q) \in Int /\ Origin(e) \in Int
      /\ \A r \in Int : Holds(e, r) <=> Waits(q, r)
      /\ Idle(g)
    BY <1>1, ExpiryMoves
<1>3. msgSeqno \in 0..MaxInputs /\ net \subseteq Messages
    BY Bounds DEF Types
<1>4. \A j \in DOMAIN old :
        /\ Rank(old[j]) \in Int /\ Behind(q, Rank(old[j])) /\ Older(q, Rank(old[j]))
    BY RankFacts DEF NothingTwice
<1>5. ASSUME NEW r \in Int, Waits(q, r)
      PROVE  Older(q, r) /\ \A j \in DOMAIN old : Rank(old[j]) < r
    <2>1. PICK k \in DOMAIN q.slots : k = r - Origin(q) /\ r = Origin(q) + k
        BY <1>2, <1>5 DEF Waits
    <2> QED
        BY <1>4, <2>1 DEF NothingTwice, Behind
<1>6. Continues(old, e)
    <2>1. \A j \in DOMAIN old : Rank(old[j]) <= msgSeqno
        BY <1>4 DEF Behind
    <2>2. \A r \in Int : Holds(e, r) => Precedes(old, r)
        BY <1>2, <1>5 DEF Precedes
    <2>3. ASSUME NEW j \in DOMAIN old, NEW m \in net
          PROVE  Rank(old[j]) < Rank(m.tag) \/ Rank(m.tag) <= Edge(e)
        <3>1. Rank(old[j]) < Rank(m.tag) \/ Rank(m.tag) <= Edge(q)
            BY <1>4 DEF Behind
        <3>2. PICK r \in Int : r = Rank(m.tag)
            BY MessageFacts
        <3>3. PICK a \in Int : a = Edge(q)
            BY <1>2
        <3>4. PICK b \in Int : b = Edge(e)
            BY <1>2
        <3>5. a <= b
            BY <1>2, <3>3, <3>4
        <3>6. r <= a => r <= b
            BY <3>5
        <3> QED
            BY <3>1, <3>2, <3>3, <3>4, <3>6
    <2> QED
        BY <2>1, <2>2, <2>3 DEF Continues
<1>7. Notified(old, e, g, new)
    BY <1>1, <1>2, <1>3, <1>6, NotifiedInOrder
<1>8. /\ new \in Seq(Tags) /\ Rising(new)
      /\ \A j \in DOMAIN new : Behind(g, Rank(new[j]))
      /\ \A j \in DOMAIN new : (\E i \in DOMAIN old : new[j] = old[i]) \/ Handed(e, Rank(new[j]))
      /\ \A r \in Int : Handed(e, r) => \E j \in DOMAIN new : Rank(new[j]) = r
    BY <1>7 DEF Notified
<1>9. /\ g.lastActiveAt = q.lastActiveAt /\ g.slots = e.slots /\ Origin(g) = Origin(e)
      /\ \A r \in Int : Waits(g, r) <=> Waits(e, r)
    BY <1>1, <1>2, SilentFacts
<1>10. \A d \in Int : Older(q, d) => Older(g, d)
    BY <1>9 DEF Older
<1>11. ASSUME NEW j \in DOMAIN new PROVE Older(g, Rank(new[j]))
    <2>1. Rank(new[j]) \in Int
        BY <1>8, RankFacts
    <2>2. CASE \E i \in DOMAIN old : new[j] = old[i]
        BY <1>4, <1>10, <2>2
    <2>3. CASE Handed(e, Rank(new[j]))
        <3>1. Waits(q, Rank(new[j]))
            BY <1>2, <2>1, <2>3 DEF Holds
        <3> QED
            BY <1>5, <1>10, <2>1, <3>1
    <2> QED
        BY <1>8, <2>2, <2>3
<1>12. ASSUME NEW k \in DOMAIN g.slots PROVE Older(g, Origin(g) + k)
    <2>1. k \in Nat
        BY <1>2, <1>9, StateFields DEF Buffer
    <2>5. PICK o \in Int : o = Origin(e)
        BY <1>2
    <2>8. PICK n \in Nat : n = k
        BY <2>1
    <2>6. PICK r \in Int : r = o + n
        OBVIOUS
    <2>7. r = o + k /\ r - o = k
        BY <2>6, <2>8
    <2>2. r = Origin(g) + k /\ r - Origin(e) = k
        BY <1>9, <2>5, <2>7
    <2>3. Waits(e, r)
        BY <1>9, <2>2 DEF Waits
    <2>4. Waits(q, r)
        BY <1>2, <2>3 DEF Holds
    <2> QED
        BY <1>5, <1>10, <2>2, <2>4
<1>13. NothingTwice(g, new)
    BY <1>8, <1>11, <1>12 DEF NothingTwice
<1>14. ASSUME NEW r \in Int, Waits(q, r)
       PROVE  Waits(g, r) \/ \E j \in DOMAIN new : Rank(new[j]) = r
    <2>1. Waits(e, r) \/ Handed(e, r)
        BY <1>2, <1>14 DEF Holds
    <2> QED
        BY <1>8, <1>9, <2>1
<1> QED
    BY <1>1, <1>2, <1>8, <1>13, <1>14 DEF Served

-----------------------------------------------------------------------------
(* An unordered subscriber.                                                *)

Distinct(tags) == \A i, j \in DOMAIN tags : i < j => tags[i] # tags[j]

LEMMA InsertedFacts ==
    ASSUME NEW old \in Seq(Tags), NEW t \in Tags, NEW p \in 1..(Len(old) + 1),
           NEW new, new = InsertAt(old, p, t)
    PROVE  /\ new \in Seq(Tags)
           /\ \A j \in DOMAIN new : new[j] = t \/ \E i \in DOMAIN old : new[j] = old[i]
           /\ Distinct(old) /\ (\A i \in DOMAIN old : old[i] # t) => Distinct(new)
<1>1. PICK n \in Nat : n = Len(old) /\ DOMAIN old = 1..n /\ p \in 1..(n + 1) /\ p \in Int
    BY LenProperties
<1>2. \A i \in 1..n : old[i] \in Tags
    BY <1>1, ElementOfSeq
<1>3. PICK a : a = SubSeq(old, 1, p - 1)
    OBVIOUS
<1>4. PICK c : c = SubSeq(old, p, n)
    OBVIOUS
<1>5. PICK b : b = <<t>>
    OBVIOUS
<1>6. /\ a \in Seq(Tags) /\ Len(a) = p - 1 /\ \A i \in 1..(p - 1) : a[i] = old[i]
    <2>1. PICK k \in Nat : k = p - 1 /\ k <= n
        BY <1>1
    <2>2. \A i \in 1..k : old[i] \in Tags
        BY <1>1, <1>2, <2>1
    <2>3. /\ SubSeq(old, 1, k) \in Seq(Tags)
          /\ Len(SubSeq(old, 1, k)) = IF 1 <= k THEN k - 1 + 1 ELSE 0
          /\ \A i \in 1..(k - 1 + 1) : SubSeq(old, 1, k)[i] = old[1 + i - 1]
        BY <2>2, SubSeqProperties
    <2>4. \A i \in 1..k : i \in 1..(k - 1 + 1) /\ 1 + i - 1 = i
        BY <2>1
    <2>5. Len(SubSeq(old, 1, k)) = k
        BY <2>1, <2>3
    <2> QED
        BY <1>3, <2>1, <2>3, <2>4, <2>5
<1>7. /\ c \in Seq(Tags) /\ Len(c) = n - p + 1 /\ \A i \in 1..(n - p + 1) : c[i] = old[p + i - 1]
    <2>1. \A i \in p..n : old[i] \in Tags
        BY <1>1, <1>2
    <2>2. /\ SubSeq(old, p, n) \in Seq(Tags)
          /\ Len(SubSeq(old, p, n)) = IF p <= n THEN n - p + 1 ELSE 0
          /\ \A i \in 1..(n - p + 1) : SubSeq(old, p, n)[i] = old[p + i - 1]
        BY <1>1, <2>1, SubSeqProperties
    <2>3. Len(SubSeq(old, p, n)) = n - p + 1
        BY <1>1, <2>2
    <2> QED
        BY <1>4, <2>2, <2>3
<1>8. b \in Seq(Tags) /\ Len(b) = 1 /\ b[1] = t
    BY <1>5
<1>9. PICK d : d = a \o b
    OBVIOUS
<1>10. /\ d \in Seq(Tags) /\ Len(d) = p /\ d[p] = t
       /\ \A i \in 1..(p - 1) : d[i] = old[i]
    <2>1. /\ d \in Seq(Tags) /\ Len(d) = Len(a) + Len(b)
          /\ \A i \in 1..(Len(a) + Len(b)) : d[i] = IF i <= Len(a) THEN a[i] ELSE b[i - Len(a)]
        BY <1>6, <1>8, <1>9, ConcatProperties
    <2>2. Len(a) = p - 1 /\ Len(b) = 1
        BY <1>6, <1>8
    <2>3. \A i \in 1..p : d[i] = IF i <= p - 1 THEN a[i] ELSE b[i - (p - 1)]
        <3>1. p - 1 + 1 = p
            BY <1>1
        <3> QED
            BY <2>1, <2>2, <3>1
    <2>4. p \in 1..p /\ p - (p - 1) = 1 /\ ~(p <= p - 1)
        BY <1>1
    <2>5. \A i \in 1..(p - 1) : i \in 1..p /\ i <= p - 1
        BY <1>1
    <2>6. Len(d) = p
        BY <1>1, <2>1, <2>2
    <2>7. d[p] = t
        BY <1>8, <2>3, <2>4
    <2>8. \A i \in 1..(p - 1) : d[i] = old[i]
        BY <1>6, <2>3, <2>5
    <2> QED
        BY <2>1, <2>6, <2>7, <2>8
<1>11. new = d \o c
    BY <1>1, <1>3, <1>4, <1>5, <1>9 DEF InsertAt
<1>12. /\ new \in Seq(Tags) /\ DOMAIN new = 1..(n + 1) /\ new[p] = t
       /\ \A i \in 1..(p - 1) : new[i] = old[i]
       /\ \A i \in (p + 1)..(n + 1) : new[i] = old[i - 1]
    <2>1. /\ new \in Seq(Tags) /\ Len(new) = Len(d) + Len(c)
          /\ \A i \in 1..(Len(d) + Len(c)) : new[i] = IF i <= Len(d) THEN d[i] ELSE c[i - Len(d)]
        <3>1. c \in Seq(Tags) /\ d \in Seq(Tags)
            BY <1>7, <1>10
        <3> QED
            BY <1>11, <3>1, ConcatProperties
    <2>2. Len(d) = p /\ Len(c) = n - p + 1 /\ p + (n - p + 1) = n + 1
        BY <1>1, <1>7, <1>10
    <2>3. \A i \in 1..(n + 1) : new[i] = IF i <= p THEN d[i] ELSE c[i - p]
        BY <2>1, <2>2
    <2>4. new[p] = t
        <3>1. p \in 1..(n + 1) /\ p <= p
            BY <1>1
        <3> QED
            BY <1>10, <2>3, <3>1
    <2>5. ASSUME NEW i \in 1..(p - 1) PROVE new[i] = old[i]
        <3>1. i \in 1..(n + 1) /\ i <= p
            BY <1>1
        <3> QED
            BY <1>10, <2>3, <3>1
    <2>6. ASSUME NEW i \in (p + 1)..(n + 1) PROVE new[i] = old[i - 1]
        <3>1. i \in 1..(n + 1) /\ ~(i <= p) /\ i - p \in 1..(n - p + 1) /\ p + (i - p) - 1 = i - 1
            BY <1>1
        <3>2. new[i] = c[i - p]
            BY <2>3, <3>1
        <3> QED
            BY <1>7, <3>1, <3>2
    <2>7. DOMAIN new = 1..(n + 1)
        BY <2>1, <2>2, LenProperties
    <2> QED
        BY <2>1, <2>4, <2>5, <2>6, <2>7
<1>13. ASSUME NEW j \in 1..(n + 1)
       PROVE  \/ j = p /\ new[j] = t
              \/ j < p /\ j \in 1..n /\ new[j] = old[j]
              \/ j > p /\ j - 1 \in 1..n /\ new[j] = old[j - 1]
    <2>1. CASE j = p
        BY <1>12, <2>1
    <2>2. CASE j < p
        <3>1. j \in 1..(p - 1) /\ j \in 1..n
            BY <1>1, <2>2
        <3> QED
            BY <1>12, <2>2, <3>1
    <2>3. CASE j > p
        <3>1. j \in (p + 1)..(n + 1) /\ j - 1 \in 1..n
            BY <1>1, <2>3
        <3> QED
            BY <1>12, <2>3, <3>1
    <2> QED
        BY <1>1, <2>1, <2>2, <2>3
<1>14. \A j \in DOMAIN new : new[j] = t \/ \E i \in DOMAIN old : new[j] = old[i]
    BY <1>1, <1>12, <1>13
<1>15. ASSUME Distinct(old), \A i \in DOMAIN old : old[i] # t,
              NEW i \in 1..(n + 1), NEW j \in 1..(n + 1), i < j
       PROVE  new[i] # new[j]
    <2>1. PICK x \in Int, y \in Int : x = i - 1 /\ y = j - 1
        BY <1>1
    <2>2. \A k, l \in 1..n : k < l => old[k] # old[l]
        BY <1>1, <1>15 DEF Distinct
    <2>3. \A k \in 1..n : old[k] # t
        BY <1>1, <1>15
    <2>4. \/ i = p /\ new[i] = t
          \/ i < p /\ i \in 1..n /\ new[i] = old[i]
          \/ i > p /\ x \in 1..n /\ new[i] = old[x]
        BY <1>13, <2>1
    <2>5. \/ j = p /\ new[j] = t
          \/ j < p /\ j \in 1..n /\ new[j] = old[j]
          \/ j > p /\ y \in 1..n /\ new[j] = old[y]
        BY <1>13, <2>1
    <2>6. i \in Int /\ j \in Int /\ p \in Int /\ x < y
        BY <1>1, <1>15, <2>1
    <2>7. CASE i = p
        <3>1. new[j] = old[y] /\ y \in 1..n /\ new[i] = t
            BY <1>15, <2>4, <2>5, <2>6, <2>7
        <3> QED
            BY <2>3, <3>1
    <2>8. CASE i > p
        <3>1. new[i] = old[x] /\ x \in 1..n /\ new[j] = old[y] /\ y \in 1..n
            BY <1>15, <2>4, <2>5, <2>6, <2>8
        <3> QED
            BY <2>2, <2>6, <3>1
    <2>9. CASE i < p
        <3>1. new[i] = old[i] /\ i \in 1..n
            BY <2>4, <2>6, <2>9
        <3>2. CASE j = p
            BY <2>3, <2>5, <2>6, <3>1, <3>2
        <3>3. CASE j < p
            <4>1. new[j] = old[j] /\ j \in 1..n
                BY <2>5, <2>6, <3>3
            <4> QED
                BY <1>15, <2>2, <3>1, <4>1
        <3>4. CASE j > p
            <4>1. new[j] = old[y] /\ y \in 1..n /\ i < y
                BY <2>1, <2>5, <2>6, <2>9, <3>4
            <4> QED
                BY <2>2, <3>1, <4>1
        <3> QED
            BY <2>6, <3>2, <3>3, <3>4
    <2> QED
        BY <2>6, <2>7, <2>8, <2>9
<1> QED
    BY <1>12, <1>14, <1>15 DEF Distinct

Takes(old, t, new) ==
    /\ new \in Seq(Tags)
    /\ \A j \in DOMAIN new : new[j] = t \/ \E i \in DOMAIN old : new[j] = old[i]
    /\ Distinct(old) /\ (\A i \in DOMAIN old : old[i] # t) => Distinct(new)

LEMMA PlainNotified ==
    ASSUME Types, NEW s \in Subs \ Ordered, NEW t \in Tags
    PROVE  Takes(delivered[s], t, notify(s, <<t>>))
<1>1. PICK old \in Seq(Tags) : old = delivered[s]
    BY DEF Types
<1>2. PICK n \in Nat : n = Len(old) /\ DOMAIN old = 1..n
    BY LenProperties
<1>3. PICK lower \in SUBSET (1..n) : lower = {i \in DOMAIN old : old[i] < t}
    BY <1>2
<1>4. IsFiniteSet(1..n) /\ Cardinality(1..n) = n
    BY FS_Interval
<1>5. IsFiniteSet(lower) /\ Cardinality(lower) <= n
    BY <1>4, FS_Subset
<1>6. Cardinality(lower) \in Nat
    BY <1>5, FS_CardinalityType
<1>7. PICK p \in 1..(Len(old) + 1) : p = Cardinality(lower) + 1
    BY <1>2, <1>5, <1>6
<1>8. notify(s, <<t>>) = InsertAt(old, p, t)
    <2>1. <<t>> # <<>> /\ Head(<<t>>) = t
        OBVIOUS
    <2> QED
        BY <1>1, <1>3, <1>7, <2>1 DEF notify
<1>9. PICK new : new = InsertAt(old, p, t)
    OBVIOUS
<1>10. /\ new \in Seq(Tags)
       /\ \A j \in DOMAIN new : new[j] = t \/ \E i \in DOMAIN old : new[j] = old[i]
       /\ Distinct(old) /\ (\A i \in DOMAIN old : old[i] # t) => Distinct(new)
    BY <1>9, InsertedFacts
<1> QED
    BY <1>1, <1>8, <1>9, <1>10 DEF Takes

\* What a message that is no duplicate does to one subscriber.
LEMMA SubscriberTurn ==
    ASSUME RxInv, NEW m \in net, NEW s \in Subs,
           NEW d, d = deliver(s, dropStaleReordering(reordering[s]), m.tag)
    PROVE  /\ sub[s] # "live" =>
                /\ d.state = None \/ d.state = reordering[s]
                /\ notify(s, d.out) = delivered[s]
           /\ sub[s] = "live" /\ s \notin Ordered =>
                d.state = None /\ d.accepted /\ Takes(delivered[s], m.tag, notify(s, d.out))
           /\ sub[s] = "live" /\ s \in Ordered =>
                Served(reordering[s], delivered[s], d.state, notify(s, d.out))
<1>1. /\ Types /\ Network /\ Buffers /\ OrderedOnce /\ DeliveredOnceInOrder
    BY DEF RxInv
<1>2. msgSeqno \in 0..MaxInputs /\ now \in Nat
    BY <1>1, Bounds
<1>3. /\ m.tag \in Tags /\ Rank(m.tag) <= msgSeqno /\ msgSeqno - Rank(m.tag) <= MaxBackwardLag
    BY <1>1, MessageFacts
<1>4. PICK q, old : q = reordering[s] /\ old = delivered[s]
    OBVIOUS
<1>5. old \in Seq(Tags)
    BY <1>1, <1>4 DEF Types
<1>6. (q = None \/ Idle(q)) /\ (q # None => s \in Ordered)
    BY <1>1, <1>4 DEF Buffers
<1>7. CASE sub[s] # "live"
    <2>1. d.state = dropStaleReordering(q) /\ d.out = <<>>
        BY <1>4, <1>7 DEF deliver
    <2>2. d.state = None \/ d.state = q
        BY <2>1 DEF dropStaleReordering
    <2>3. old \o <<>> = old
        BY <1>5, ConcatEmptySeq
    <2>4. notify(s, <<>>) = old
        BY <1>4, <2>3 DEF notify
    <2> QED
        BY <1>4, <1>7, <2>1, <2>2, <2>4
<1>8. CASE sub[s] = "live" /\ s \notin Ordered
    <2>1. q = None
        BY <1>6, <1>8
    <2>2. dropStaleReordering(q) = None
        BY <2>1 DEF dropStaleReordering, Stale
    <2>3. d.state = None /\ d.accepted /\ d.out = <<m.tag>>
        BY <1>4, <1>8, <2>2 DEF deliver
    <2>4. s \in Subs \ Ordered
        BY <1>8
    <2>5. Takes(delivered[s], m.tag, notify(s, <<m.tag>>))
        BY <1>1, <1>3, <2>4, PlainNotified
    <2> QED
        BY <1>8, <2>3, <2>5
<1>9. CASE sub[s] = "live" /\ s \in Ordered
    <2>1. q = None => old = <<>>
        BY <1>1, <1>4, <1>9 DEF Buffers
    <2>2. q # None => NothingTwice(q, old)
        BY <1>1, <1>4, <1>9 DEF OrderedOnce
    <2>3. Rising(old)
        BY <1>1, <1>4, <1>9, OrderIsRising
    <2>4. PICK f, e : Delivery(q, m.tag, f, e) /\ d.state = Silent(e) /\ d.out = e.out
        BY <1>2, <1>3, <1>4, <1>6, <1>9, DeliveryExists
    <2>5. Served(q, old, Silent(e), old \o e.out)
        BY <1>1, <1>5, <1>6, <2>1, <2>2, <2>3, <2>4, DeliveryServes
    <2>6. notify(s, e.out) = old \o e.out
        BY <1>4, <1>9 DEF notify
    <2> QED
        BY <1>4, <1>9, <2>4, <2>5, <2>6
<1> QED
    BY <1>7, <1>8, <1>9

\* A copy of message n is known as one, for as long as the network may have it.
Known(d, n) == d # None /\ check(d, n.tag) /\ n.deadline <= d.lastActiveAt + Patience

LEMMA KnownNotStale ==
    ASSUME Types, Network, NEW n \in net, Known(dedup, n)
    PROVE  ~Stale(dedup)
<1>1. PICK at \in Nat : at = dedup.lastActiveAt
    BY DedupFields DEF Types, Known
<1>2. PICK t \in Nat : t = now
    BY Bounds
<1>3. PICK e \in Nat : e = n.deadline /\ t <= e
    BY <1>2, MessageFacts
<1>4. e <= at + Patience
    BY <1>1, <1>3 DEF Known
<1>5. ~(t - at > SessionLifetime)
    BY <1>3, <1>4, ReceiverAssumption
<1> QED
    BY <1>1, <1>2, <1>5 DEF Stale, Known

LEMMA DedupMoves ==
    ASSUME RxInv, NEW m \in net,
           NEW dd, dd = IF m.reliable THEN dedupFindOrCreate(dedup, m.tag) ELSE dedup,
           NEW ok \in BOOLEAN, ok => m.reliable,
           dedup' = IF ok THEN commit(dd, m.tag) ELSE dd,
           accepted' = IF ok THEN accepted \cup {m.tag} ELSE accepted,
           acks' = IF ok THEN acks \cup {m.tag} ELSE acks,
           net' \subseteq net, UNCHANGED <<msgSeqno, now>>
    PROVE  /\ dedup' \in DedupState \cup {None} /\ Remembered'
           /\ acks' \subseteq accepted' /\ acks' \subseteq Tags /\ accepted' \subseteq Tags
           /\ \A n \in net : n.reliable /\ Known(dedup, n) => Known(dedup', n)
           /\ ok => Known(dedup', m)
<1>1. /\ Types /\ Network /\ Remembered /\ acks \subseteq accepted
    BY DEF RxInv
<1>2. now \in Nat /\ m.tag \in Tags
    BY <1>1, Bounds, MessageFacts
<1>3. /\ acks' \subseteq accepted' /\ acks' \subseteq Tags /\ accepted' \subseteq Tags
    BY <1>1, <1>2 DEF Types
<1>4. ASSUME m.reliable PROVE dd \in DedupState /\ Window(dd) /\ (~Stale(dedup) => dd = dedup)
    BY <1>1, <1>4, FoundFacts
<1>5. CASE ok
    <2>1. PICK c : c = commit(dd, m.tag)
        OBVIOUS
    <2>2. /\ c \in DedupState /\ c.lastActiveAt = now /\ check(c, m.tag)
          /\ c.tag \in Tags /\ Rank(c.tag) <= msgSeqno
          /\ \A i \in c.bitmap : Minus(c.tag, i) \in accepted \cup {m.tag}
          /\ \A n \in net : n.reliable => Rank(c.tag) - Rank(n.tag) < dedupHistory
          /\ \A n \in net : n.reliable /\ check(dd, n.tag) => check(c, n.tag)
        BY <1>1, <1>4, <1>5, <2>1, CommitKeepsWindow
    <2>3. dedup' = c /\ accepted' = accepted \cup {m.tag} /\ c # None
        BY <1>5, <2>1, <2>2, NothingAssumption
    <2>4. now <= now
        BY <1>2
    <2>5. Remembered'
        BY <2>2, <2>3, <2>4 DEF Remembered, Window
    <2>6. \A n \in net : n.deadline <= now + Patience
        BY <1>1, MessageFacts
    <2>7. ASSUME NEW n \in net, n.reliable, Known(dedup, n) PROVE Known(c, n)
        <3>1. dd = dedup
            BY <1>1, <1>4, <1>5, <2>7, KnownNotStale
        <3> QED
            BY <2>2, <2>3, <2>6, <2>7, <3>1 DEF Known
    <2>8. Known(c, m)
        BY <2>2, <2>3, <2>6 DEF Known
    <2> QED
        BY <1>3, <2>2, <2>3, <2>5, <2>7, <2>8
<1>6. CASE ~ok
    <2>1. dedup' = dd /\ accepted' = accepted
        BY <1>6
    <2>2. dd \in DedupState \cup {None} /\ (dd # None => Window(dd))
        <3>1. CASE m.reliable
            BY <1>4, <3>1
        <3>2. CASE ~m.reliable
            BY <1>1, <3>2 DEF Types, Remembered
        <3> QED
            BY <3>1, <3>2
    <2>3. Remembered'
        BY <2>1, <2>2 DEF Remembered, Window
    <2>4. ASSUME NEW n \in net, Known(dedup, n) PROVE Known(dd, n)
        <3>1. dd = dedup
            BY <1>1, <1>4, <2>4, KnownNotStale
        <3> QED
            BY <2>4, <3>1
    <2> QED
        BY <1>3, <1>6, <2>1, <2>2, <2>3, <2>4
<1> QED
    BY <1>5, <1>6

\* The step that hands a message to the subscribers.
Fresh(m, dd, d, ok) ==
    /\ dd = IF m.reliable THEN dedupFindOrCreate(dedup, m.tag) ELSE dedup
    /\ ~(m.reliable /\ check(dd, m.tag))
    /\ d = [s \in Subs |-> deliver(s, dropStaleReordering(reordering[s]), m.tag)]
    /\ ok = (m.reliable /\ \E s \in Subs : d[s].accepted)
    /\ reordering' = [s \in Subs |-> d[s].state]
    /\ delivered' = [s \in Subs |-> notify(s, d[s].out)]
    /\ dedup' = IF ok THEN commit(dd, m.tag) ELSE dd
    /\ accepted' = IF ok THEN accepted \cup {m.tag} ELSE accepted
    /\ acks' = IF ok THEN acks \cup {m.tag} ELSE acks
    /\ net' = IF m.reliable THEN net ELSE net \ {m}
    /\ UNCHANGED <<msgSeqno, sub, changes, now>>

\* What that step does for each subscriber.
LEMMA FreshTurn ==
    ASSUME RxInv, NEW m \in net, NEW dd, NEW d, NEW ok, Fresh(m, dd, d, ok), NEW s \in Subs
    PROVE  /\ sub[s] # "live" =>
                    /\ reordering'[s] = None \/ reordering'[s] = reordering[s]
                    /\ delivered'[s] = delivered[s]
           /\ sub[s] = "live" /\ s \notin Ordered =>
                    /\ reordering'[s] = None /\ (m.reliable => ok)
                    /\ Takes(delivered[s], m.tag, delivered'[s])
           /\ sub[s] = "live" /\ s \in Ordered =>
                    Served(reordering[s], delivered[s], reordering'[s], delivered'[s])
<2>1. d[s] = deliver(s, dropStaleReordering(reordering[s]), m.tag)
    BY DEF Fresh
<2>2. reordering'[s] = d[s].state /\ delivered'[s] = notify(s, d[s].out)
    BY DEF Fresh
<2>3. /\ sub[s] # "live" =>
            /\ d[s].state = None \/ d[s].state = reordering[s]
            /\ notify(s, d[s].out) = delivered[s]
      /\ sub[s] = "live" /\ s \notin Ordered =>
            d[s].state = None /\ d[s].accepted
            /\ Takes(delivered[s], m.tag, notify(s, d[s].out))
      /\ sub[s] = "live" /\ s \in Ordered =>
            Served(reordering[s], delivered[s], d[s].state, notify(s, d[s].out))
    <3>1. PICK x : x = d[s]
        OBVIOUS
    <3> QED
        BY <2>1, <3>1, SubscriberTurn
<2>4. m.reliable /\ d[s].accepted => ok
    BY DEF Fresh
<2> QED
    BY <2>2, <2>3, <2>4

LEMMA FreshReceive ==
    ASSUME RxInv, NEW m \in net, NEW dd, NEW d, NEW ok, Fresh(m, dd, d, ok)
    PROVE  RxInv'
<1>0. /\ dd = IF m.reliable THEN dedupFindOrCreate(dedup, m.tag) ELSE dedup
      /\ ~(m.reliable /\ check(dd, m.tag))
      /\ ok = (m.reliable /\ \E s \in Subs : d[s].accepted)
      /\ reordering' = [s \in Subs |-> d[s].state]
      /\ delivered' = [s \in Subs |-> notify(s, d[s].out)]
      /\ dedup' = IF ok THEN commit(dd, m.tag) ELSE dd
      /\ accepted' = IF ok THEN accepted \cup {m.tag} ELSE accepted
      /\ acks' = IF ok THEN acks \cup {m.tag} ELSE acks
      /\ net' = IF m.reliable THEN net ELSE net \ {m}
      /\ UNCHANGED <<msgSeqno, sub, changes, now>>
    BY DEF Fresh
<1>1. /\ Types /\ Network /\ Buffers /\ OrderedOnce /\ PlainOnce /\ DeliveredOnceInOrder
    BY DEF RxInv
<1>2. net' \subseteq net /\ (~m.reliable => m \notin net')
    BY <1>0
<1>3. ok \in BOOLEAN /\ (ok => m.reliable)
    BY <1>0
<1>4. /\ dedup' \in DedupState \cup {None} /\ Remembered'
      /\ acks' \subseteq accepted' /\ acks' \subseteq Tags /\ accepted' \subseteq Tags
      /\ \A n \in net : n.reliable /\ Known(dedup, n) => Known(dedup', n)
      /\ ok => Known(dedup', m)
    BY <1>0, <1>2, <1>3, DedupMoves
<1>5. ASSUME NEW s \in Subs
      PROVE  /\ sub[s] # "live" =>
                    /\ reordering'[s] = None \/ reordering'[s] = reordering[s]
                    /\ delivered'[s] = delivered[s]
             /\ sub[s] = "live" /\ s \notin Ordered =>
                    /\ reordering'[s] = None /\ (m.reliable => ok)
                    /\ Takes(delivered[s], m.tag, delivered'[s])
             /\ sub[s] = "live" /\ s \in Ordered =>
                    Served(reordering[s], delivered[s], reordering'[s], delivered'[s])
    BY FreshTurn
<1>6. ASSUME NEW s \in Subs
      PROVE  /\ reordering'[s] \in ReorderingState \cup {None}
             /\ delivered'[s] \in Seq(Tags)
    <2>1. delivered[s] \in Seq(Tags) /\ reordering[s] \in ReorderingState \cup {None}
        BY <1>1 DEF Types
    <2>2. CASE sub[s] # "live"
        BY <1>5, <2>1, <2>2
    <2>3. CASE sub[s] = "live" /\ s \notin Ordered
        BY <1>5, <2>3 DEF Takes
    <2>4. CASE sub[s] = "live" /\ s \in Ordered
        BY <1>5, <2>4 DEF Served, Idle, Buffer
    <2> QED
        BY <2>2, <2>3, <2>4
<1>7. Types'
    <2>1. reordering' \in [Subs -> ReorderingState \cup {None}]
        BY <1>0, <1>6
    <2>2. delivered' \in [Subs -> Seq(Tags)]
        BY <1>0, <1>6
    <2> QED
        BY <1>0, <1>1, <1>2, <1>4, <2>1, <2>2 DEF Types
<1>8. Network'
    BY <1>0, <1>1, <1>2 DEF Network
<1>9. Buffers'
    <2> SUFFICES ASSUME NEW s \in Subs
                 PROVE  /\ reordering'[s] # None => s \in Ordered /\ Idle(reordering[s])'
                        /\ sub[s] = "none" => reordering'[s] = None
                        /\ sub[s] = "live" /\ s \in Ordered /\ reordering'[s] = None =>
                                delivered'[s] = <<>>
        BY <1>0 DEF Buffers
    <2>1. \A q : Idle(q) => Idle(q)'
        BY <1>0 DEF Idle, Buffer
    <2>2. CASE sub[s] # "live"
        <3>1. PICK q : q = reordering'[s]
            OBVIOUS
        <3>2. q = None \/ q = reordering[s]
            BY <1>5, <2>2, <3>1
        <3>3. q # None => s \in Ordered /\ Idle(q)
            BY <1>1, <3>2 DEF Buffers
        <3>4. sub[s] = "none" => q = None
            BY <1>1, <3>2 DEF Buffers
        <3> QED
            BY <2>1, <2>2, <3>1, <3>3, <3>4
    <2>3. CASE sub[s] = "live" /\ s \notin Ordered
        BY <1>5, <2>3
    <2>4. CASE sub[s] = "live" /\ s \in Ordered
        <3>1. PICK q : q = reordering'[s]
            OBVIOUS
        <3>2. Idle(q)
            BY <1>5, <2>4, <3>1 DEF Served
        <3>3. q # None
            BY <3>2, NothingAssumption DEF Idle, Buffer
        <3> QED
            BY <2>1, <2>4, <3>1, <3>2, <3>3
    <2> QED
        BY <2>2, <2>3, <2>4
<1>10. OrderedOnce'
    <2> SUFFICES ASSUME NEW s \in Ordered, sub[s] = "live"
                 PROVE  NothingTwice(reordering[s], delivered[s])'
        BY <1>0 DEF OrderedOnce
    <2>1. s \in Subs
        BY ReceiverAssumption
    <2>2. PICK q, tags : q = reordering'[s] /\ tags = delivered'[s]
        OBVIOUS
    <2>3. NothingTwice(q, tags)
        BY <1>5, <2>1, <2>2 DEF Served
    <2>4. NothingTwice(q, tags)'
        BY <1>0, <1>2, <2>3 DEF NothingTwice, Behind, Older
    <2> QED
        BY <2>2, <2>4
<1>11. ASSUME NEW s \in Subs \ Ordered, sub[s] = "live"
       PROVE  \A i \in DOMAIN delivered[s] : delivered[s][i] # m.tag
    <2> SUFFICES ASSUME NEW i \in DOMAIN delivered[s], delivered[s][i] = m.tag
                 PROVE  FALSE
        OBVIOUS
    <2>1. m.reliable /\ Known(dedup, m)
        BY <1>1, <1>11 DEF PlainOnce, Known
    <2>2. ~Stale(dedup)
        BY <1>1, <2>1, KnownNotStale
    <2>3. dd = dedup
        BY <1>0, <2>1, <2>2 DEF dedupFindOrCreate
    <2> QED
        BY <1>0, <2>1, <2>3 DEF Known
<1>12. PlainOnce'
    <2> SUFFICES ASSUME NEW s \in Subs \ Ordered, sub[s] = "live",
                        NEW j \in DOMAIN delivered'[s]
                 PROVE  /\ Rank(delivered'[s][j]) <= msgSeqno
                        /\ \A n \in net' : n.tag = delivered'[s][j] =>
                                n.reliable /\ Known(dedup', n)
        BY <1>0 DEF PlainOnce, Known
    <2>1. Takes(delivered[s], m.tag, delivered'[s]) /\ (m.reliable => ok)
        BY <1>5
    <2>2. CASE delivered'[s][j] = m.tag
        <3>1. Rank(m.tag) <= msgSeqno
            BY <1>1, MessageFacts
        <3>2. ASSUME NEW n \in net', n.tag = m.tag PROVE n.reliable /\ Known(dedup', n)
            <4>1. n = m
                BY <1>1, <1>2, <3>2 DEF Network
            <4>2. m.reliable
                BY <1>2, <4>1
            <4> QED
                BY <1>4, <2>1, <4>1, <4>2
        <3> QED
            BY <2>2, <3>1, <3>2
    <2>3. CASE \E i \in DOMAIN delivered[s] : delivered'[s][j] = delivered[s][i]
        <3>1. PICK i \in DOMAIN delivered[s] : delivered'[s][j] = delivered[s][i]
            BY <2>3
        <3>2. Rank(delivered[s][i]) <= msgSeqno
            BY <1>1 DEF PlainOnce
        <3>3. ASSUME NEW n \in net', n.tag = delivered[s][i]
              PROVE  n.reliable /\ Known(dedup', n)
            <4>1. n \in net
                BY <1>2
            <4>2. n.reliable /\ Known(dedup, n)
                BY <1>1, <3>3, <4>1 DEF PlainOnce, Known
            <4> QED
                BY <1>4, <4>1, <4>2
        <3> QED
            BY <3>1, <3>2, <3>3
    <2> QED
        BY <2>1, <2>2, <2>3 DEF Takes
<1>13. DeliveredOnceInOrder'
    <2> SUFFICES ASSUME NEW s \in Subs, NEW j \in DOMAIN delivered'[s], NEW i \in 1..(j - 1)
                 PROVE  IF s \in Ordered
                        THEN Rank(delivered'[s][i]) < Rank(delivered'[s][j])
                        ELSE delivered'[s][i] # delivered'[s][j]
        BY DEF DeliveredOnceInOrder
    <2>1. CASE sub[s] # "live"
        <3>1. delivered'[s] = delivered[s]
            BY <1>5, <2>1
        <3> QED
            BY <1>1, <3>1 DEF DeliveredOnceInOrder
    <2>2. PICK new \in Seq(Tags) : new = delivered'[s]
        BY <1>6
    <2>3. i \in DOMAIN new /\ j \in DOMAIN new /\ i < j
        BY <2>2, LenProperties
    <2>4. CASE sub[s] = "live" /\ s \in Ordered
        <3>1. Rising(new)
            BY <1>5, <2>2, <2>4 DEF Served
        <3> QED
            BY <2>2, <2>3, <2>4, <3>1 DEF Rising
    <2>5. CASE sub[s] = "live" /\ s \notin Ordered
        <3>1. Takes(delivered[s], m.tag, new)
            BY <1>5, <2>2, <2>5
        <3>2. Distinct(delivered[s])
            <4>1. delivered[s] \in Seq(Tags)
                BY <1>1 DEF Types
            <4>2. ASSUME NEW k \in DOMAIN delivered[s], NEW l \in DOMAIN delivered[s], k < l
                  PROVE  delivered[s][k] # delivered[s][l]
                <5>1. k \in 1..(l - 1)
                    BY <4>1, <4>2, LenProperties
                <5> QED
                    BY <1>1, <2>5, <5>1 DEF DeliveredOnceInOrder
            <4> QED
                BY <4>2 DEF Distinct
        <3>3. Distinct(new)
            BY <1>11, <2>5, <3>1, <3>2 DEF Takes
        <3> QED
            BY <2>2, <2>3, <2>5, <3>3 DEF Distinct
    <2> QED
        BY <2>1, <2>4, <2>5
<1> QED
    BY <1>4, <1>7, <1>8, <1>9, <1>10, <1>12, <1>13 DEF RxInv

LEMMA ReceiveKeeps == RxInv /\ Receive => RxInv'
<1> SUFFICES ASSUME RxInv, Receive PROVE RxInv'
    OBVIOUS
<1>1. PICK m \in net : /\ IF hasSubs THEN deliverTopic(m) ELSE AckPassively(m)
                       /\ net' = IF m.reliable THEN net ELSE net \ {m}
    BY DEF Receive
<1>2. UNCHANGED <<msgSeqno, sub, changes, now>>
    BY DEF Receive
<1>3. Types /\ Network /\ Remembered /\ acks \subseteq accepted
    BY DEF RxInv
<1>4. net' \subseteq net
    BY <1>1
<1>5. CASE ~hasSubs
    <2>1. AckPassively(m)
        BY <1>1, <1>5
    <2>2. PICK known : known = dedupFind(dedup)
        OBVIOUS
    <2>3. known = None \/ known = dedup
        BY <2>2 DEF dedupFind
    <2>4. dedup' = dedup \/ dedup' = None
        BY <2>1, <2>2, <2>3 DEF AckPassively
    <2>5. UNCHANGED <<reordering, delivered, accepted>>
        BY <2>1 DEF AckPassively
    <2>6. acks' \subseteq accepted
        <3>1. CASE m.reliable /\ known # None /\ check(known, m.tag)
            <4>1. known = dedup /\ Window(dedup) /\ dedup \in DedupState
                BY <1>3, <2>3, <3>1 DEF Remembered, Types
            <4>2. Minus(dedup.tag, Minus(dedup.tag, m.tag)) \in accepted
                BY <3>1, <4>1 DEF Window, check
            <4>3. m.tag \in 0..(TagModulus - 1) /\ dedup.tag \in 0..(TagModulus - 1)
                BY <1>3, <4>1, MessageFacts, RankFacts, DedupFields
            <4>4. m.tag \in accepted
                BY <4>2, <4>3, TagsBehind
            <4>5. acks' = acks \cup {m.tag}
                BY <2>1, <2>2, <3>1 DEF AckPassively
            <4> QED
                BY <1>3, <4>4, <4>5
        <3>2. CASE ~(m.reliable /\ known # None /\ check(known, m.tag))
            <4>1. acks' = acks
                BY <2>1, <2>2, <3>2 DEF AckPassively
            <4> QED
                BY <1>3, <4>1
        <3> QED
            BY <3>1, <3>2
    <2>7. \A s \in Subs : sub[s] # "live"
        BY <1>5 DEF hasSubs
    <2> QED
        BY <1>2, <1>4, <2>4, <2>5, <2>6, <2>7, NetShrinks
<1>6. CASE hasSubs
    <2>1. deliverTopic(m)
        BY <1>1, <1>6
    <2>2. PICK dd : dd = IF m.reliable THEN dedupFindOrCreate(dedup, m.tag) ELSE dedup
        OBVIOUS
    <2>3. CASE m.reliable /\ check(dd, m.tag)
        <3>1. acks' = acks \cup {m.tag} /\ UNCHANGED <<dedup, reordering, delivered, accepted>>
            BY <2>1, <2>2, <2>3 DEF deliverTopic
        <3>2. dd \in DedupState /\ Window(dd)
            BY <1>3, <2>2, <2>3, FoundFacts
        <3>3. Minus(dd.tag, Minus(dd.tag, m.tag)) \in accepted
            BY <2>3, <3>2 DEF Window, check
        <3>4. m.tag \in 0..(TagModulus - 1) /\ dd.tag \in 0..(TagModulus - 1)
            BY <1>3, <3>2, MessageFacts, RankFacts, DedupFields
        <3>5. m.tag \in accepted
            BY <3>3, <3>4, TagsBehind
        <3>6. acks' \subseteq accepted
            BY <1>3, <3>1, <3>5
        <3> QED
            BY <1>2, <1>4, <3>1, <3>6, NetShrinks
    <2>4. CASE ~(m.reliable /\ check(dd, m.tag))
        <3>1. PICK d : d = [s \in Subs |-> deliver(s, dropStaleReordering(reordering[s]), m.tag)]
            OBVIOUS
        <3>2. PICK ok : ok = (m.reliable /\ \E s \in Subs : d[s].accepted)
            OBVIOUS
        <3>3. /\ reordering' = [s \in Subs |-> d[s].state]
              /\ delivered' = [s \in Subs |-> notify(s, d[s].out)]
              /\ dedup' = IF ok THEN commit(dd, m.tag) ELSE dd
              /\ accepted' = IF ok THEN accepted \cup {m.tag} ELSE accepted
              /\ acks' = IF ok THEN acks \cup {m.tag} ELSE acks
            BY <2>1, <2>2, <2>4, <3>1, <3>2 DEF deliverTopic
        <3>4. net' = IF m.reliable THEN net ELSE net \ {m}
            BY <1>1
        <3>5. Fresh(m, dd, d, ok)
            BY <1>2, <2>2, <2>4, <3>1, <3>2, <3>3, <3>4 DEF Fresh
        <3> QED
            BY <3>5, FreshReceive
    <2> QED
        BY <2>3, <2>4
<1> QED
    BY <1>5, <1>6

\* Buffers and the rest stand while more is published.
LEMMA PublishKeeps ==
    ASSUME RxInv, NEW reliable \in BOOLEAN, Publish(reliable)
    PROVE  RxInv'
<1>1. /\ Types /\ Network /\ Remembered /\ acks \subseteq accepted
      /\ Buffers /\ OrderedOnce /\ PlainOnce /\ DeliveredOnceInOrder
    BY DEF RxInv
<1>2. PICK tag : tag = Plus(TagBaseline, msgSeqno + 1)
    OBVIOUS
<1>3. PICK new : new = [tag |-> tag, deadline |-> now + Patience, reliable |-> reliable]
    OBVIOUS
<1>4. /\ msgSeqno + 2 * changes + 1 <= MaxInputs
      /\ \A m \in net : Minus(tag, m.tag) <= MaxBackwardLag
      /\ reliable => \A m \in net : m.reliable => Minus(tag, m.tag) < dedupHistory
      /\ msgSeqno' = msgSeqno + 1
      /\ net' = net \cup {new}
      /\ UNCHANGED <<acks, sub, dedup, reordering, delivered, accepted, changes, now>>
    BY <1>2, <1>3 DEF Publish
<1>5. PICK n \in Nat, c \in Nat, t \in Nat : n = msgSeqno /\ c = changes /\ t = now
    BY <1>1, Bounds DEF Types
<1>6. n + 1 \in 1..MaxInputs /\ msgSeqno' = n + 1 /\ n + 1 + 2 * c <= MaxInputs
    BY <1>4, <1>5, Constants
<1>7. tag \in Tags /\ Rank(tag) = n + 1
    <2>1. tag = TagOf(n + 1)
        BY <1>2, <1>5 DEF TagOf
    <2> QED
        BY <1>6, <2>1, RankOf
<1>8. new.tag = tag /\ new.deadline = t + Patience /\ new.reliable = reliable /\ new \in Messages
    BY <1>3, <1>5, <1>7, ReceiverAssumption DEF Messages
<1>9. ASSUME NEW m \in net
      PROVE  /\ m.tag \in Tags /\ Rank(m.tag) \in Int /\ Rank(m.tag) <= n
             /\ Minus(tag, m.tag) = n + 1 - Rank(m.tag)
    <2>1. m.tag \in Tags /\ Rank(m.tag) \in Int /\ Rank(m.tag) <= n
        BY <1>1, <1>5, MessageFacts
    <2>2. Rank(m.tag) <= Rank(tag)
        BY <1>7, <2>1
    <2>3. Minus(tag, m.tag) = Rank(tag) - Rank(m.tag)
        BY <1>7, <2>1, <2>2, TagDistance
    <2> QED
        BY <1>7, <2>1, <2>3
<1>10. Types'
    <2>1. net' \subseteq Messages
        BY <1>1, <1>4, <1>8 DEF Types
    <2>2. msgSeqno' \in Nat /\ changes' \in Nat /\ msgSeqno' + 2 * changes' <= MaxInputs
        BY <1>4, <1>5, <1>6
    <2> QED
        BY <1>1, <1>4, <2>1, <2>2 DEF Types
<1>11. Network'
    <2>1. ASSUME NEW m \in net'
          PROVE  /\ Rank(m.tag) <= msgSeqno' /\ msgSeqno' - Rank(m.tag) <= MaxBackwardLag
                 /\ now' <= m.deadline /\ m.deadline <= now' + Patience
        <3>1. CASE m \in net
            <4>1. n + 1 - Rank(m.tag) <= MaxBackwardLag
                BY <1>4, <1>9, <3>1
            <4>2. Rank(m.tag) <= n + 1
                BY <1>9, <3>1
            <4> QED
                BY <1>1, <1>4, <1>6, <3>1, <4>1, <4>2, MessageFacts
        <3>2. CASE m = new
            <4>1. t <= t + Patience /\ t + Patience <= t + Patience
                BY ReceiverAssumption
            <4>2. n + 1 <= n + 1 /\ n + 1 - (n + 1) <= MaxBackwardLag
                BY Constants
            <4> QED
                BY <1>4, <1>5, <1>6, <1>7, <1>8, <3>2, <4>1, <4>2
        <3> QED
            BY <1>4, <2>1, <3>1, <3>2
    <2>2. ASSUME NEW m \in net', NEW k \in net'
          PROVE  /\ m.tag = k.tag => m = k
                 /\ m.reliable /\ k.reliable => Rank(k.tag) - Rank(m.tag) < dedupHistory
        <3>1. CASE m \in net /\ k \in net
            BY <1>1, <3>1 DEF Network
        <3>2. CASE m \in net /\ k = new
            <4>1. m.tag # k.tag
                BY <1>7, <1>8, <1>9, <3>2
            <4>3. PICK a : a = Rank(k.tag) /\ a = n + 1
                BY <1>7, <1>8, <3>2
            <4>4. PICK r : r = Rank(m.tag)
                OBVIOUS
            <4>2. m.reliable /\ k.reliable => a - r < dedupHistory
                <5>1. Minus(tag, m.tag) = a - r
                    BY <1>9, <3>2, <4>3, <4>4
                <5>2. m.reliable /\ k.reliable => Minus(tag, m.tag) < dedupHistory
                    <6>1. m.reliable /\ reliable => Minus(tag, m.tag) < dedupHistory
                        BY <1>4, <3>2
                    <6>2. k.reliable = reliable
                        BY <1>8, <3>2
                    <6> QED
                        BY <6>1, <6>2, Zenon
                <5> QED
                    BY <5>1, <5>2
            <4>5. m.reliable /\ k.reliable => Rank(k.tag) - Rank(m.tag) < dedupHistory
                BY <4>2, <4>3, <4>4, Zenon
            <4> QED
                BY <4>1, <4>5, Zenon
        <3>3. CASE m = new /\ k \in net
            <4>1. m.tag # k.tag
                BY <1>7, <1>8, <1>9, <3>3
            <4>3. PICK r \in Int : r = Rank(k.tag) /\ r <= n
                BY <1>9, <3>3
            <4>4. dedupHistory \in Nat \ {0}
                BY Constants
            <4>2. Rank(k.tag) - (n + 1) < dedupHistory
                BY <4>3, <4>4
            <4> QED
                BY <1>7, <1>8, <3>3, <4>1, <4>2
        <3>4. CASE m = new /\ k = new
            <4>1. n + 1 - (n + 1) < dedupHistory
                BY Constants
            <4> QED
                BY <1>7, <1>8, <3>4, <4>1
        <3> QED
            BY <1>4, <2>2, <3>1, <3>2, <3>3, <3>4
    <2> QED
        BY <2>1, <2>2 DEF Network
<1>12. Remembered'
    <2> SUFFICES ASSUME dedup # None PROVE Window(dedup)'
        BY <1>4 DEF Remembered
    <2>1. Window(dedup)
        BY <1>1 DEF Remembered
    <2>2. dedup.tag \in Tags /\ Rank(dedup.tag) \in Int /\ Rank(dedup.tag) <= n
        BY <1>5, <2>1, RankFacts DEF Window
    <2>3. Rank(dedup.tag) <= n + 1 /\ Rank(dedup.tag) - (n + 1) < dedupHistory
        BY <2>2, Constants
    <2>4. \A m \in net' : m.reliable => Rank(dedup.tag) - Rank(m.tag) < dedupHistory
        BY <1>4, <1>7, <1>8, <2>1, <2>3 DEF Window
    <2> QED
        BY <1>4, <1>6, <2>1, <2>3, <2>4 DEF Window
<1>13. ASSUME NEW q, Idle(q) PROVE Idle(q)'
    <2>1. Edge(q) <= msgSeqno' /\ \A k \in DOMAIN q.slots : Origin(q) + k <= msgSeqno'
        <3>1. Buffer(q)
            BY <1>13 DEF Idle
        <3>2. Edge(q) \in Int /\ Edge(q) <= n /\ Origin(q) \in Int
            BY <1>5, <3>1, BufferFields DEF Buffer
        <3>3. Edge(q) <= n + 1
            BY <3>2
        <3>4. ASSUME NEW k \in DOMAIN q.slots PROVE Origin(q) + k <= n + 1
            <4>1. k \in Nat
                BY <3>1, StateFields DEF Buffer
            <4>2. Origin(q) + k <= n
                BY <1>5, <3>1 DEF Buffer
            <4> QED
                BY <3>2, <4>1, <4>2
        <3> QED
            BY <1>6, <3>3, <3>4
    <2> QED
        BY <1>4, <1>13, <2>1 DEF Idle, Buffer
<1>14. Buffers'
    BY <1>1, <1>4, <1>13 DEF Buffers
<1>15. ASSUME NEW q, Idle(q), NEW d \in Int, d <= n
       PROVE  /\ Behind(q, d) => Behind(q, d)'
              /\ Older(q, d) => Older(q, d)'
    <2>1. d < n + 1 /\ d <= n + 1
        BY <1>15
    <2>2. Behind(q, d) => Behind(q, d)'
        BY <1>4, <1>6, <1>7, <1>8, <2>1 DEF Behind
    <2>3. Older(q, d) => Older(q, d)'
        BY <1>4, <1>7, <1>8, <2>1 DEF Older
    <2> QED
        BY <2>2, <2>3
<1>16. OrderedOnce'
    <2> SUFFICES ASSUME NEW s \in Ordered, sub[s] = "live", reordering[s] # None
                 PROVE  NothingTwice(reordering[s], delivered[s])'
        BY <1>4 DEF OrderedOnce
    <2>1. PICK q, tags : q = reordering[s] /\ tags = delivered[s]
        OBVIOUS
    <2>2. s \in Subs
        BY ReceiverAssumption
    <2>3. NothingTwice(q, tags) /\ Idle(q) /\ tags \in Seq(Tags)
        BY <1>1, <2>1, <2>2 DEF OrderedOnce, Buffers, Types
    <2>4. ASSUME NEW j \in DOMAIN tags PROVE Behind(q, Rank(tags[j]))' /\ Older(q, Rank(tags[j]))'
        <3>1. PICK d \in Int : d = Rank(tags[j])
            BY <2>3, RankFacts
        <3>2. Behind(q, d) /\ Older(q, d)
            BY <2>3, <3>1 DEF NothingTwice
        <3>3. d <= n
            BY <1>5, <3>2 DEF Behind
        <3> QED
            BY <1>15, <2>3, <3>1, <3>2, <3>3
    <2>5. ASSUME NEW k \in DOMAIN q.slots PROVE Older(q, Origin(q) + k)'
        <3>1. Buffer(q)
            BY <2>3 DEF Idle
        <3>2. k \in Nat /\ Origin(q) \in Int
            BY <3>1, StateFields, BufferFields DEF Buffer
        <3>3. PICK r \in Int : r = Origin(q) + k
            BY <3>2
        <3>4. r <= n /\ Older(q, r)
            BY <1>5, <2>3, <3>1, <3>3 DEF Buffer, NothingTwice
        <3> QED
            BY <1>15, <2>3, <3>3, <3>4
    <2>6. NothingTwice(q, tags)'
        BY <2>4, <2>5 DEF NothingTwice
    <2> QED
        BY <1>4, <2>1, <2>6
<1>17. PlainOnce'
    <2> SUFFICES ASSUME NEW s \in Subs \ Ordered, sub[s] = "live",
                        NEW j \in DOMAIN delivered[s]
                 PROVE  /\ Rank(delivered[s][j]) <= msgSeqno'
                        /\ \A m \in net' : m.tag = delivered[s][j] =>
                            /\ m.reliable /\ dedup # None /\ check(dedup, m.tag)
                            /\ m.deadline <= dedup.lastActiveAt + Patience
        BY <1>4 DEF PlainOnce, check
    <2>1. PICK u \in Tags : u = delivered[s][j]
        BY <1>1 DEF Types
    <2>2. Rank(u) \in Int /\ Rank(u) <= n
        BY <1>1, <1>5, <2>1, RankFacts DEF PlainOnce
    <2>3. Rank(u) <= n + 1 /\ Rank(u) # n + 1
        BY <2>2
    <2>4. u # tag
        BY <1>7, <2>3
    <2> QED
        BY <1>1, <1>4, <1>6, <1>8, <2>1, <2>3, <2>4 DEF PlainOnce
<1>18. DeliveredOnceInOrder'
    BY <1>1, <1>4 DEF DeliveredOnceInOrder
<1> QED
    BY <1>1, <1>4, <1>10, <1>11, <1>12, <1>14, <1>16, <1>17, <1>18 DEF RxInv

-----------------------------------------------------------------------------
(* The window of a subscriber.                                             *)

LEMMA WindowTurn ==
    ASSUME RxInv, NEW s \in Subs, WindowExpires(s)
    PROVE  /\ reordering' \in [Subs -> ReorderingState \cup {None}]
           /\ delivered' \in [Subs -> Seq(Tags)]
           /\ \A u \in Subs \ {s} : reordering'[u] = reordering[u] /\ delivered'[u] = delivered[u]
           /\ s \in Ordered /\ reordering[s] # None /\ reordering'[s] # None
           /\ Idle(reordering'[s])
           /\ sub[s] # "live" => delivered'[s] = delivered[s]
           /\ sub[s] = "live" =>
                Served(reordering[s], delivered[s], reordering'[s], delivered'[s])
<1>1. /\ Types /\ Network /\ Buffers /\ OrderedOnce /\ DeliveredOnceInOrder
    BY DEF RxInv
<1>2. /\ reordering \in [Subs -> ReorderingState \cup {None}]
      /\ delivered \in [Subs -> Seq(Tags)]
    BY <1>1 DEF Types
<1>3. PICK q : q = reordering[s]
    OBVIOUS
<1>4. q # None /\ s \in Ordered /\ Idle(q)
    BY <1>1, <1>3 DEF WindowExpires, WindowDue, Buffers
<1>5. PICK e : e = scan(q, TRUE)
    OBVIOUS
<1>6. PICK g : g = Silent(e)
    OBVIOUS
<1>7. Idle(g)
    BY <1>1, <1>4, <1>5, <1>6, ExpiryMoves
<1>8. g \in ReorderingState /\ g # None
    BY <1>7, NothingAssumption DEF Idle, Buffer
<1>9. /\ reordering' = [reordering EXCEPT ![s] = g]
      /\ delivered' = IF sub[s] = "live" THEN [delivered EXCEPT ![s] = notify(s, e.out)]
                      ELSE delivered
    BY <1>3, <1>5, <1>6 DEF WindowExpires, Silent
<1>10. notify(s, e.out) = delivered[s] \o e.out
    BY <1>4 DEF notify
<1>11. ASSUME sub[s] = "live" PROVE Served(q, delivered[s], g, delivered[s] \o e.out)
    <2>1. PICK old \in Seq(Tags) : old = delivered[s]
        BY <1>2
    <2>2. Rising(old)
        BY <1>1, <1>4, <2>1, OrderIsRising
    <2>3. NothingTwice(q, old)
        BY <1>1, <1>3, <1>4, <1>11, <2>1 DEF OrderedOnce
    <2> QED
        BY <1>1, <1>4, <1>5, <1>6, <2>1, <2>2, <2>3, ExpiryServes
<1>12. ASSUME sub[s] = "live" PROVE delivered[s] \o e.out \in Seq(Tags)
    BY <1>11, <1>12 DEF Served
<1>13. reordering'[s] = g /\ reordering' \in [Subs -> ReorderingState \cup {None}]
    BY <1>2, <1>8, <1>9
<1>14. CASE sub[s] = "live"
    <2>1. PICK new \in Seq(Tags) : new = delivered[s] \o e.out
        BY <1>12, <1>14
    <2>2. delivered' = [delivered EXCEPT ![s] = new]
        BY <1>9, <1>10, <1>14, <2>1
    <2>3. delivered'[s] = new /\ delivered' \in [Subs -> Seq(Tags)]
        BY <1>2, <2>2
    <2>4. \A u \in Subs \ {s} : reordering'[u] = reordering[u] /\ delivered'[u] = delivered[u]
        BY <1>2, <1>9, <2>2
    <2>5. Served(q, delivered[s], g, new)
        BY <1>11, <1>14, <2>1
    <2> QED
        BY <1>3, <1>4, <1>7, <1>8, <1>13, <1>14, <2>3, <2>4, <2>5
<1>15. CASE sub[s] # "live"
    <2>1. delivered' = delivered
        BY <1>9, <1>15
    <2>2. \A u \in Subs \ {s} : reordering'[u] = reordering[u] /\ delivered'[u] = delivered[u]
        BY <1>2, <1>9, <2>1
    <2> QED
        BY <1>2, <1>3, <1>4, <1>7, <1>8, <1>13, <1>15, <2>1, <2>2
<1> QED
    BY <1>14, <1>15

LEMMA WindowKeeps ==
    ASSUME RxInv, NEW s \in Subs, WindowExpires(s)
    PROVE  RxInv'
<1>1. /\ Types /\ Network /\ Remembered /\ acks \subseteq accepted
      /\ Buffers /\ OrderedOnce /\ PlainOnce /\ DeliveredOnceInOrder
    BY DEF RxInv
<1>2. UNCHANGED <<msgSeqno, net, acks, sub, dedup, accepted, changes, now>>
    BY DEF WindowExpires
<1>3. /\ reordering' \in [Subs -> ReorderingState \cup {None}]
      /\ delivered' \in [Subs -> Seq(Tags)]
      /\ \A u \in Subs \ {s} : reordering'[u] = reordering[u] /\ delivered'[u] = delivered[u]
      /\ s \in Ordered /\ reordering'[s] # None
      /\ Idle(reordering'[s])
      /\ sub[s] # "live" => delivered'[s] = delivered[s]
      /\ sub[s] = "live" => Served(reordering[s], delivered[s], reordering'[s], delivered'[s])
      /\ reordering[s] # None
    BY WindowTurn
<1>4. Types'
    BY <1>1, <1>2, <1>3 DEF Types
<1>5. Network'
    BY <1>1, <1>2 DEF Network
<1>6. Remembered'
    BY <1>1, <1>2 DEF Remembered, Window
<1>7. \A q : Idle(q) => Idle(q)'
    BY <1>2 DEF Idle, Buffer
<1>8. Buffers'
    <2> SUFFICES ASSUME NEW u \in Subs
                 PROVE  /\ reordering'[u] # None => u \in Ordered /\ Idle(reordering[u])'
                        /\ sub[u] = "none" => reordering'[u] = None
                        /\ sub[u] = "live" /\ u \in Ordered /\ reordering'[u] = None =>
                                delivered'[u] = <<>>
        BY <1>2 DEF Buffers
    <2>1. PICK q : q = reordering'[u]
        OBVIOUS
    <2>2. CASE u = s
        <3>1. Idle(q) /\ sub[u] # "none" /\ u \in Ordered /\ q # None
            BY <1>1, <1>3, <2>1, <2>2 DEF Buffers
        <3> QED
            BY <1>7, <2>1, <3>1
    <2>3. CASE u # s
        <3>1. q = reordering[u] /\ delivered'[u] = delivered[u]
            BY <1>3, <2>1, <2>3
        <3>2. /\ q # None => u \in Ordered /\ Idle(q)
              /\ sub[u] = "none" => q = None
              /\ sub[u] = "live" /\ u \in Ordered /\ q = None => delivered'[u] = <<>>
            BY <1>1, <3>1 DEF Buffers
        <3> QED
            BY <1>7, <2>1, <3>2
    <2> QED
        BY <2>2, <2>3
<1>9. OrderedOnce'
    <2> SUFFICES ASSUME NEW u \in Ordered, sub[u] = "live", reordering'[u] # None
                 PROVE  NothingTwice(reordering[u], delivered[u])'
        BY <1>2 DEF OrderedOnce
    <2>1. PICK q, tags : q = reordering'[u] /\ tags = delivered'[u]
        OBVIOUS
    <2>2. u \in Subs
        BY ReceiverAssumption
    <2>3. NothingTwice(q, tags)
        <3>1. CASE u = s
            BY <1>3, <2>1, <3>1 DEF Served
        <3>2. CASE u # s
            <4>1. q = reordering[u] /\ tags = delivered[u]
                BY <1>3, <2>1, <2>2, <3>2
            <4> QED
                BY <1>1, <2>1, <4>1 DEF OrderedOnce
        <3> QED
            BY <3>1, <3>2
    <2>4. NothingTwice(q, tags)'
        BY <1>2, <2>3 DEF NothingTwice, Behind, Older
    <2> QED
        BY <2>1, <2>4
<1>10. PlainOnce'
    <2>1. \A u \in Subs \ Ordered : delivered'[u] = delivered[u]
        BY <1>3
    <2> QED
        BY <1>1, <1>2, <2>1 DEF PlainOnce, check
<1>11. DeliveredOnceInOrder'
    <2> SUFFICES ASSUME NEW u \in Subs, NEW j \in DOMAIN delivered'[u], NEW i \in 1..(j - 1)
                 PROVE  IF u \in Ordered
                        THEN Rank(delivered'[u][i]) < Rank(delivered'[u][j])
                        ELSE delivered'[u][i] # delivered'[u][j]
        BY DEF DeliveredOnceInOrder
    <2>1. CASE delivered'[u] = delivered[u]
        BY <1>1, <2>1 DEF DeliveredOnceInOrder
    <2>2. CASE delivered'[u] # delivered[u]
        <3>1. u = s /\ sub[s] = "live"
            BY <1>3, <2>2
        <3>2. PICK new \in Seq(Tags) : new = delivered'[u]
            BY <1>3
        <3>3. i \in DOMAIN new /\ j \in DOMAIN new /\ i < j
            BY <3>2, LenProperties
        <3>4. Rising(new)
            BY <1>3, <3>1, <3>2 DEF Served
        <3> QED
            BY <1>3, <3>1, <3>2, <3>3, <3>4 DEF Rising
    <2> QED
        BY <2>1, <2>2
<1> QED
    BY <1>1, <1>2, <1>4, <1>5, <1>6, <1>8, <1>9, <1>10, <1>11 DEF RxInv

-----------------------------------------------------------------------------
(* Subscriptions, restarts and time.                                       *)

LEMMA ChangeFacts ==
    ASSUME Types, Change
    PROVE  msgSeqno \in Nat /\ changes' \in Nat /\ msgSeqno + 2 * changes' <= MaxInputs
<1>1. PICK n \in Nat, c \in Nat : n = msgSeqno /\ c = changes
    BY DEF Types
<1>2. n + 2 * c + 2 <= MaxInputs /\ changes' = c + 1
    BY <1>1 DEF Change
<1>3. n + 2 * (c + 1) <= MaxInputs
    BY <1>2, Constants
<1> QED
    BY <1>1, <1>2, <1>3

LEMMA SubscribeKeeps ==
    ASSUME RxInv, NEW s \in Subs, Subscribe(s)
    PROVE  RxInv'
<1>1. /\ Types /\ Network /\ Remembered /\ acks \subseteq accepted
      /\ Buffers /\ OrderedOnce /\ PlainOnce /\ DeliveredOnceInOrder
    BY DEF RxInv
<1>2. /\ UNCHANGED <<msgSeqno, net, acks, dedup, reordering, accepted, now>>
      /\ sub[s] = "none"
      /\ sub' = [sub EXCEPT ![s] = "live"]
      /\ delivered' = [delivered EXCEPT ![s] = <<>>]
      /\ Change
    BY DEF Subscribe
<1>3. /\ sub \in [Subs -> {"none", "live", "disposed"}]
      /\ delivered \in [Subs -> Seq(Tags)]
    BY <1>1 DEF Types
<1>4. /\ sub' \in [Subs -> {"none", "live", "disposed"}]
      /\ delivered' \in [Subs -> Seq(Tags)]
      /\ \A u \in Subs \ {s} : sub'[u] = sub[u] /\ delivered'[u] = delivered[u]
      /\ sub'[s] = "live" /\ delivered'[s] = <<>>
    <2>1. <<>> \in Seq(Tags)
        OBVIOUS
    <2> QED
        BY <1>2, <1>3, <2>1
<1>5. reordering[s] = None
    BY <1>1, <1>2 DEF Buffers
<1>6. Types'
    BY <1>1, <1>2, <1>4, ChangeFacts DEF Types
<1>7. Network'
    BY <1>1, <1>2 DEF Network
<1>8. Remembered'
    BY <1>1, <1>2 DEF Remembered, Window
<1>9. \A q : Idle(q) => Idle(q)'
    BY <1>2 DEF Idle, Buffer
<1>10. Buffers'
    <2> SUFFICES ASSUME NEW u \in Subs
                 PROVE  /\ reordering[u] # None => u \in Ordered /\ Idle(reordering[u])'
                        /\ sub'[u] = "none" => reordering[u] = None
                        /\ sub'[u] = "live" /\ u \in Ordered /\ reordering[u] = None =>
                                delivered'[u] = <<>>
        BY <1>2 DEF Buffers
    <2>1. PICK q : q = reordering[u]
        OBVIOUS
    <2>2. q # None => u \in Ordered /\ Idle(q)'
        BY <1>1, <1>9, <2>1 DEF Buffers
    <2>3. reordering[u]' = q
        BY <1>2, <2>1
    <2>4. /\ sub'[u] = "none" => q = None
          /\ sub'[u] = "live" /\ u \in Ordered /\ q = None => delivered'[u] = <<>>
        BY <1>1, <1>4, <1>5, <2>1 DEF Buffers
    <2> QED
        BY <2>1, <2>2, <2>3, <2>4
<1>11. OrderedOnce'
    <2> SUFFICES ASSUME NEW u \in Ordered, sub'[u] = "live", reordering[u] # None
                 PROVE  NothingTwice(reordering[u], delivered[u])'
        BY <1>2 DEF OrderedOnce
    <2>1. u \in Subs /\ u # s
        BY <1>5, ReceiverAssumption
    <2>2. PICK q, tags : q = reordering[u] /\ tags = delivered[u]
        OBVIOUS
    <2>3. NothingTwice(q, tags) /\ reordering'[u] = q /\ delivered'[u] = tags
        BY <1>1, <1>2, <1>4, <2>1, <2>2 DEF OrderedOnce
    <2>4. NothingTwice(q, tags)'
        BY <1>2, <2>3 DEF NothingTwice, Behind, Older
    <2> QED
        BY <2>3, <2>4
<1>12. PlainOnce'
    <2> SUFFICES ASSUME NEW u \in Subs \ Ordered, sub'[u] = "live",
                        NEW j \in DOMAIN delivered'[u]
                 PROVE  /\ Rank(delivered'[u][j]) <= msgSeqno
                        /\ \A m \in net : m.tag = delivered'[u][j] =>
                            /\ m.reliable /\ dedup # None /\ check(dedup, m.tag)
                            /\ m.deadline <= dedup.lastActiveAt + Patience
        BY <1>2 DEF PlainOnce, check
    <2>1. u # s
        BY <1>4
    <2> QED
        BY <1>1, <1>4, <2>1 DEF PlainOnce
<1>13. DeliveredOnceInOrder'
    <2> SUFFICES ASSUME NEW u \in Subs, NEW j \in DOMAIN delivered'[u], NEW i \in 1..(j - 1)
                 PROVE  IF u \in Ordered
                        THEN Rank(delivered'[u][i]) < Rank(delivered'[u][j])
                        ELSE delivered'[u][i] # delivered'[u][j]
        BY DEF DeliveredOnceInOrder
    <2>1. u # s
        BY <1>4
    <2> QED
        BY <1>1, <1>4, <2>1 DEF DeliveredOnceInOrder
<1> QED
    BY <1>1, <1>2, <1>6, <1>7, <1>8, <1>10, <1>11, <1>12, <1>13 DEF RxInv

\* Subscribers leave, or the node forgets: what is left of the state stands.
LEMMA ForgetKeeps ==
    ASSUME RxInv,
           UNCHANGED <<msgSeqno, net, acks, delivered, accepted, now>>,
           changes' \in Nat, msgSeqno + 2 * changes' <= MaxInputs,
           sub' \in [Subs -> {"none", "live", "disposed"}],
           dedup' = dedup \/ (dedup' = None /\ \A s \in Subs : sub'[s] # "live"),
           reordering' \in [Subs -> ReorderingState \cup {None}],
           \A s \in Subs : /\ reordering'[s] = reordering[s] \/ reordering'[s] = None
                           /\ sub'[s] = "none" => reordering'[s] = None
                           /\ sub'[s] = "live" =>
                                sub[s] = "live" /\ reordering'[s] = reordering[s]
    PROVE  RxInv'
<1>1. /\ Types /\ Network /\ Remembered /\ acks \subseteq accepted
      /\ Buffers /\ OrderedOnce /\ PlainOnce /\ DeliveredOnceInOrder
    BY DEF RxInv
<1>2. Types'
    BY <1>1 DEF Types
<1>3. Network'
    BY <1>1 DEF Network
<1>4. Remembered'
    BY <1>1 DEF Remembered, Window
<1>5. \A q : Idle(q) => Idle(q)'
    BY DEF Idle, Buffer
<1>6. Buffers'
    <2> SUFFICES ASSUME NEW u \in Subs
                 PROVE  /\ reordering'[u] # None => u \in Ordered /\ Idle(reordering[u])'
                        /\ sub'[u] = "none" => reordering'[u] = None
                        /\ sub'[u] = "live" /\ u \in Ordered /\ reordering'[u] = None =>
                                delivered'[u] = <<>>
        BY DEF Buffers
    <2>1. PICK q : q = reordering'[u]
        OBVIOUS
    <2>2. q # None => u \in Ordered /\ Idle(q)'
        <3> SUFFICES ASSUME q # None PROVE u \in Ordered /\ Idle(q)'
            OBVIOUS
        <3>1. q = reordering[u]
            BY <2>1
        <3>2. u \in Ordered /\ Idle(q)
            BY <1>1, <3>1 DEF Buffers
        <3> QED
            BY <1>5, <3>2
    <2>3. /\ sub'[u] = "none" => q = None
          /\ sub'[u] = "live" /\ u \in Ordered /\ q = None => delivered'[u] = <<>>
        BY <1>1, <2>1 DEF Buffers
    <2> QED
        BY <2>1, <2>2, <2>3
<1>7. OrderedOnce'
    <2> SUFFICES ASSUME NEW u \in Ordered, sub'[u] = "live", reordering'[u] # None
                 PROVE  NothingTwice(reordering[u], delivered[u])'
        BY DEF OrderedOnce
    <2>1. u \in Subs
        BY ReceiverAssumption
    <2>2. PICK q, tags : q = reordering'[u] /\ tags = delivered'[u]
        OBVIOUS
    <2>3. NothingTwice(q, tags)
        BY <1>1, <2>1, <2>2 DEF OrderedOnce
    <2>4. NothingTwice(q, tags)'
        BY <2>3 DEF NothingTwice, Behind, Older
    <2> QED
        BY <2>2, <2>4
<1>8. PlainOnce'
    <2> SUFFICES ASSUME NEW u \in Subs \ Ordered, sub'[u] = "live",
                        NEW j \in DOMAIN delivered[u]
                 PROVE  /\ Rank(delivered[u][j]) <= msgSeqno
                        /\ \A m \in net : m.tag = delivered[u][j] =>
                            /\ m.reliable /\ dedup' # None /\ check(dedup', m.tag)
                            /\ m.deadline <= dedup'.lastActiveAt + Patience
        BY DEF PlainOnce, check
    <2>1. sub[u] = "live" /\ dedup' = dedup
        OBVIOUS
    <2> QED
        BY <1>1, <2>1 DEF PlainOnce
<1>9. DeliveredOnceInOrder'
    BY <1>1 DEF DeliveredOnceInOrder
<1> QED
    BY <1>1, <1>2, <1>3, <1>4, <1>6, <1>7, <1>8, <1>9 DEF RxInv

LEMMA DestroyKeeps ==
    ASSUME RxInv, NEW s \in Subs, Destroy(s) \/ teardown(s)
    PROVE  RxInv'
<1>1. /\ Types /\ Buffers
    BY DEF RxInv
<1>2. /\ sub \in [Subs -> {"none", "live", "disposed"}]
      /\ reordering \in [Subs -> ReorderingState \cup {None}]
    BY <1>1 DEF Types
<1>3. UNCHANGED <<msgSeqno, net, acks, dedup, delivered, accepted, now>>
    BY DEF Destroy, teardown
<1>4. CASE Destroy(s)
    <2>1. changes' \in Nat /\ msgSeqno + 2 * changes' <= MaxInputs
        BY <1>1, <1>4, ChangeFacts DEF Destroy
    <2>2. sub[s] = "live" /\ sub' = [sub EXCEPT ![s] = "disposed"] /\ reordering' = reordering
        BY <1>4 DEF Destroy
    <2>3. sub' \in [Subs -> {"none", "live", "disposed"}]
        BY <1>2, <2>2
    <2>4. \A u \in Subs : /\ reordering'[u] = reordering[u]
                          /\ sub'[u] = "none" => reordering'[u] = None
                          /\ sub'[u] = "live" => sub[u] = "live"
        BY <1>1, <1>2, <2>2 DEF Buffers
    <2> QED
        BY <1>2, <1>3, <2>1, <2>2, <2>3, <2>4, ForgetKeeps
<1>5. CASE teardown(s)
    <2>1. changes' \in Nat /\ msgSeqno + 2 * changes' <= MaxInputs
        BY <1>1, <1>5 DEF teardown, Types
    <2>2. /\ sub[s] = "disposed" /\ sub' = [sub EXCEPT ![s] = "none"]
          /\ reordering' = [reordering EXCEPT ![s] = None]
        BY <1>5 DEF teardown
    <2>3. sub' \in [Subs -> {"none", "live", "disposed"}]
        BY <1>2, <2>2
    <2>4. reordering' \in [Subs -> ReorderingState \cup {None}]
        BY <1>2, <2>2
    <2>5. \A u \in Subs : /\ reordering'[u] = reordering[u] \/ reordering'[u] = None
                          /\ sub'[u] = "none" => reordering'[u] = None
                          /\ sub'[u] = "live" =>
                                sub[u] = "live" /\ reordering'[u] = reordering[u]
        BY <1>1, <1>2, <2>2 DEF Buffers
    <2> QED
        BY <1>3, <2>1, <2>3, <2>4, <2>5, ForgetKeeps
<1> QED
    BY <1>4, <1>5

LEMMA RestartKeeps == RxInv /\ Restart => RxInv'
<1> SUFFICES ASSUME RxInv, Restart PROVE RxInv'
    OBVIOUS
<1>1. UNCHANGED <<msgSeqno, net, acks, delivered, accepted, now>> /\ dedup' = None
    BY DEF Restart
<1>2. changes' \in Nat /\ msgSeqno + 2 * changes' <= MaxInputs
    BY ChangeFacts DEF RxInv, Restart
<1>3. /\ sub' \in [Subs -> {"none", "live", "disposed"}]
      /\ reordering' \in [Subs -> ReorderingState \cup {None}]
      /\ \A s \in Subs : sub'[s] = "none" /\ reordering'[s] = None
    BY DEF Restart
<1> QED
    BY <1>1, <1>2, <1>3, ForgetKeeps

\* While the window task of a buffer is not due, its head of line is timely.
LEMMA NotDue ==
    ASSUME Types, NEW q, Idle(q), ~WindowDue(q), DOMAIN q.slots # {}
    PROVE  /\ q.slots[Lowest(DOMAIN q.slots)] \in Nat
           /\ now < q.slots[Lowest(DOMAIN q.slots)] + ReorderingWindow
           /\ q.slots[Lowest(DOMAIN q.slots)] <= q.lastActiveAt /\ q.lastActiveAt \in Nat
<1>1. Buffer(q) /\ Armed(q) /\ q # None
    BY NothingAssumption DEF Idle, Buffer
<1>2. PICK low \in DOMAIN q.slots : low = Lowest(DOMAIN q.slots)
    <2>1. DOMAIN q.slots \subseteq Nat /\ IsFiniteSet(DOMAIN q.slots)
        BY <1>1, StateFields DEF Buffer
    <2> QED
        BY <2>1, ExtremesFacts
<1>3. PICK a \in Nat : a = q.slots[low]
    BY <1>1, StateFields DEF Buffer
<1>4. q.lastActiveAt \in Nat /\ a <= q.lastActiveAt
    BY <1>1, <1>3, StateFields DEF Buffer
<1>5. q.windowTask = a + ReorderingWindow /\ q.windowTask \in Nat
    BY <1>1, <1>2, <1>3, ReceiverAssumption DEF Armed
<1>6. ~(q.windowTask <= now)
    BY <1>1, <1>5, NothingAssumption DEF WindowDue
<1>7. now \in Nat
    BY DEF Types
<1> QED
    BY <1>2, <1>3, <1>4, <1>5, <1>6, <1>7

LEMMA TickKeeps == RxInv /\ Tick => RxInv'
<1> SUFFICES ASSUME RxInv, Tick PROVE RxInv'
    OBVIOUS
<1>1. /\ Types /\ Network /\ Remembered /\ acks \subseteq accepted
      /\ Buffers /\ OrderedOnce /\ PlainOnce /\ DeliveredOnceInOrder
    BY DEF RxInv
<1>2. /\ now < MaxTime
      /\ ~ \E s \in Subs : WindowDue(reordering[s])
      /\ now' = now + 1
      /\ net' = {m \in net : m.deadline >= now'}
      /\ UNCHANGED <<msgSeqno, acks, sub, dedup, reordering, delivered, accepted, changes>>
    BY DEF Tick
<1>3. PICK t \in Nat : t = now
    BY <1>1 DEF Types
<1>4. MaxTime \in Nat /\ ReorderingWindow \in Nat /\ Patience \in Nat
    BY ReceiverAssumption
<1>5. t + 1 \in 0..MaxTime /\ now' = t + 1
    BY <1>2, <1>3, <1>4
<1>6. net' \subseteq net
    BY <1>2
<1>7. Types'
    <2>1. net' \subseteq Messages
        BY <1>1, <1>6 DEF Types
    <2> QED
        BY <1>1, <1>2, <1>5, <2>1 DEF Types
<1>8. Network'
    <2>1. ASSUME NEW m \in net'
          PROVE  now' <= m.deadline /\ m.deadline <= now' + Patience
        <3>1. PICK a \in Nat : a = m.deadline
            BY <1>1, <1>6, MessageFacts
        <3>2. a <= t + Patience
            BY <1>1, <1>3, <1>6, <3>1 DEF Network
        <3>3. a <= t + 1 + Patience
            BY <1>4, <3>2
        <3>4. t + 1 <= a
            BY <1>2, <1>5, <3>1
        <3> QED
            BY <1>5, <3>1, <3>3, <3>4
    <2> QED
        BY <1>1, <1>2, <1>6, <2>1 DEF Network
<1>9. Remembered'
    <2> SUFFICES ASSUME dedup # None PROVE Window(dedup)'
        BY <1>2 DEF Remembered
    <2>1. Window(dedup) /\ dedup \in DedupState
        BY <1>1 DEF Remembered, Types
    <2>2. PICK a \in Nat : a = dedup.lastActiveAt
        BY <2>1, DedupFields
    <2>3. a <= t
        BY <1>3, <2>1, <2>2 DEF Window
    <2>4. a <= t + 1
        BY <2>3
    <2> QED
        BY <1>2, <1>5, <1>6, <2>1, <2>2, <2>4 DEF Window
<1>10. ASSUME NEW q, Idle(q), ~WindowDue(q) PROVE Idle(q)'
    <2>1. PICK a \in Nat : a = q.lastActiveAt
        BY <1>10, StateFields DEF Idle, Buffer
    <2>2. a <= t
        BY <1>3, <1>10, <2>1 DEF Idle
    <2>3. a <= t + 1
        BY <2>2
    <2>4. DOMAIN q.slots # {} => t + 1 <= a + ReorderingWindow
        <3> SUFFICES ASSUME DOMAIN q.slots # {} PROVE t + 1 <= a + ReorderingWindow
            OBVIOUS
        <3>1. PICK b \in Nat : b = q.slots[Lowest(DOMAIN q.slots)]
            BY <1>1, <1>10, NotDue
        <3>2. t < b + ReorderingWindow
            BY <1>1, <1>3, <1>10, <3>1, NotDue
        <3>3. b <= a
            BY <1>1, <1>10, <2>1, <3>1, NotDue
        <3> QED
            BY <1>4, <3>2, <3>3
    <2> QED
        BY <1>2, <1>5, <1>10, <2>1, <2>3, <2>4 DEF Idle, Buffer
<1>11. Buffers'
    <2> SUFFICES ASSUME NEW s \in Subs
                 PROVE  /\ reordering[s] # None => s \in Ordered /\ Idle(reordering[s])'
                        /\ sub[s] = "none" => reordering[s] = None
                        /\ sub[s] = "live" /\ s \in Ordered /\ reordering[s] = None =>
                                delivered[s] = <<>>
        BY <1>2 DEF Buffers
    <2>1. PICK q : q = reordering[s] /\ reordering'[s] = q
        BY <1>2
    <2>2. q # None => s \in Ordered /\ Idle(q)'
        BY <1>1, <1>2, <1>10, <2>1 DEF Buffers
    <2> QED
        BY <1>1, <2>1, <2>2 DEF Buffers
<1>12. OrderedOnce'
    <2> SUFFICES ASSUME NEW s \in Ordered, sub[s] = "live", reordering[s] # None
                 PROVE  NothingTwice(reordering[s], delivered[s])'
        BY <1>2 DEF OrderedOnce
    <2>1. PICK q, tags : q = reordering[s] /\ tags = delivered[s]
                            /\ reordering'[s] = q /\ delivered'[s] = tags
        BY <1>2
    <2>2. NothingTwice(q, tags)
        BY <1>1, <2>1 DEF OrderedOnce
    <2>3. NothingTwice(q, tags)'
        BY <1>2, <1>6, <2>2 DEF NothingTwice, Behind, Older
    <2> QED
        BY <2>1, <2>3
<1>13. PlainOnce'
    BY <1>1, <1>2, <1>6 DEF PlainOnce, check
<1>14. DeliveredOnceInOrder'
    BY <1>1, <1>2 DEF DeliveredOnceInOrder
<1> QED
    BY <1>1, <1>2, <1>7, <1>8, <1>9, <1>11, <1>12, <1>13, <1>14 DEF RxInv

-----------------------------------------------------------------------------
(* Together.                                                               *)

LEMMA InitHolds == Init => RxInv
<1> SUFFICES ASSUME Init PROVE RxInv
    OBVIOUS
<1>1. Types
    <2>1. <<>> \in Seq(Tags)
        OBVIOUS
    <2>2. 0 + 2 * 0 <= MaxInputs /\ 0 \in 0..MaxTime
        BY ReceiverAssumption
    <2> QED
        BY <2>1, <2>2 DEF Init, Types
<1>2. Network /\ Remembered /\ acks \subseteq accepted
    BY DEF Init, Network, Remembered
<1>3. Buffers /\ OrderedOnce /\ PlainOnce
    BY ReceiverAssumption DEF Init, Buffers, OrderedOnce, PlainOnce
<1>4. DeliveredOnceInOrder
    BY DEF Init, DeliveredOnceInOrder
<1> QED
    BY <1>1, <1>2, <1>3, <1>4 DEF RxInv

LEMMA StutterKeeps == RxInv /\ UNCHANGED vars => RxInv'
<1> SUFFICES ASSUME RxInv, UNCHANGED vars PROVE RxInv'
    OBVIOUS
<1>1. UNCHANGED <<msgSeqno, net, acks, sub, dedup, reordering, delivered, accepted, changes, now>>
    BY DEF vars
<1> QED
    BY <1>1, NetShrinks DEF RxInv

LEMMA StepKeeps == RxInv /\ [Next]_vars => RxInv'
<1> SUFFICES ASSUME RxInv, [Next]_vars PROVE RxInv'
    OBVIOUS
<1>1. ASSUME NEW reliable \in BOOLEAN, Publish(reliable) PROVE RxInv'
    BY <1>1, PublishKeeps
<1>2. CASE Receive
    BY <1>2, ReceiveKeeps
<1>3. ASSUME NEW s \in Subs, WindowExpires(s) PROVE RxInv'
    BY <1>3, WindowKeeps
<1>4. ASSUME NEW s \in Subs, Subscribe(s) PROVE RxInv'
    BY <1>4, SubscribeKeeps
<1>5. ASSUME NEW s \in Subs, Destroy(s) \/ teardown(s) PROVE RxInv'
    BY <1>5, DestroyKeeps
<1>6. CASE Restart
    BY <1>6, RestartKeeps
<1>7. CASE Tick
    BY <1>7, TickKeeps
<1>8. CASE UNCHANGED vars
    BY <1>8, StutterKeeps
<1> QED
    BY <1>1, <1>2, <1>3, <1>4, <1>5, <1>6, <1>7, <1>8 DEF Next

\* The invariant that the theorems below follow from.
THEOREM Invariance == Spec => []RxInv
<1>1. Init => RxInv
    BY InitHolds
<1>2. RxInv /\ [Next]_vars => RxInv'
    BY StepKeeps
<1> QED
    BY <1>1, <1>2, PTL DEF Spec

\* Whatever a subscriber is notified of comes once, and to an ordered one in
\* the order of publication: retransmissions, repeats, the sliding, expiry and
\* resequencing of the window (push, scan, resequence), and the expiry of the
\* soft state notwithstanding, for any tag width and window sizes.
THEOREM ReceiverOnceInOrder == Spec => []DeliveredOnceInOrder
<1>1. RxInv => DeliveredOnceInOrder
    BY DEF RxInv
<1> QED
    BY <1>1, Invariance, PTL

LEMMA WaitingWhere ==
    ASSUME Types, NEW q, Buffer(q)
    PROVE  /\ Waiting(q) \subseteq Tags
           /\ \A tag \in Waiting(q) : Waits(q, Rank(tag))
           /\ \A tag \in Tags : Waits(q, Rank(tag)) => tag \in Waiting(q)
<1>1. q \in ReorderingState /\ q # None /\ Origin(q) \in Int /\ DOMAIN q.slots \subseteq Nat
    BY BufferFields, StateFields, NothingAssumption
<1>2. \A k \in Int : Plus(k, q.tagBaseline) = TagOf(Origin(q) + k)
    BY BufferFields
<1>3. ASSUME NEW k \in DOMAIN q.slots
      PROVE  /\ Plus(k, q.tagBaseline) \in Tags
             /\ Waits(q, Rank(Plus(k, q.tagBaseline)))
    <2>1. PICK o \in Int : o = Origin(q)
        BY <1>1
    <2>2. k \in Int /\ 1 <= o + k /\ o + k <= msgSeqno
        BY <1>1, <2>1 DEF Buffer
    <2>3. PICK n \in 0..MaxInputs : n = msgSeqno
        BY Bounds
    <2>4. o + k \in 1..MaxInputs
        BY <2>2, <2>3, Constants
    <2>5. PICK r \in 1..MaxInputs : r = o + k
        BY <2>4
    <2>6. TagOf(r) \in Tags /\ Rank(TagOf(r)) = r
        BY RankOf
    <2>7. Plus(k, q.tagBaseline) = TagOf(r)
        BY <1>2, <2>1, <2>2, <2>5
    <2>8. r - o = k
        BY <2>2, <2>5
    <2> QED
        BY <2>1, <2>6, <2>7, <2>8 DEF Waits
<1>4. ASSUME NEW tag \in Tags, Waits(q, Rank(tag)) PROVE tag \in Waiting(q)
    <2>1. PICK r \in 1..MaxInputs : r = Rank(tag) /\ TagOf(r) = tag
        BY RankFacts
    <2>2. PICK o \in Int : o = Origin(q)
        BY <1>1
    <2>3. PICK k \in DOMAIN q.slots : k = r - o
        BY <1>4, <2>1, <2>2 DEF Waits
    <2>4. k \in Int /\ o + k = r
        BY <1>1, <2>3, Constants
    <2>5. Plus(k, q.tagBaseline) = tag
        BY <1>2, <2>1, <2>2, <2>4
    <2> QED
        BY <1>1, <2>5 DEF Waiting
<1> QED
    BY <1>1, <1>3, <1>4 DEF Waiting

\* The node acknowledges only what one of its subscribers accepted (deliverTopic,
\* AckPassively), and a reordering buffer holds less than its capacity and only
\* published tags: the dedup window mistakes no tag for another one.
THEOREM ReceiverAcks == Spec => []AckedWasAccepted
<1>1. ASSUME RxInv PROVE AckedWasAccepted
    <2>1. Types /\ Network /\ Remembered /\ Buffers /\ acks \subseteq accepted
        BY <1>1 DEF RxInv
    <2>2. ASSUME NEW m \in net PROVE m.tag \in Tags
        BY <2>1, MessageFacts
    <2>3. dedup # None => dedup.tag \in Tags /\ dedup.bitmap \subseteq 0..(dedupHistory - 1)
        BY <2>1, DedupFields DEF Remembered, Window, Types
    <2>4. ASSUME NEW s \in Subs PROVE Range(delivered[s]) \cup Interned(s) \subseteq Tags
        <3>1. Range(delivered[s]) \subseteq Tags
            <4>1. delivered[s] \in Seq(Tags)
                BY <2>1 DEF Types
            <4>2. \A i \in DOMAIN delivered[s] : delivered[s][i] \in Tags
                BY <4>1
            <4> QED
                BY <4>2 DEF Range
        <3>2. Interned(s) \subseteq Tags
            <4>1. CASE reordering[s] = None
                BY <4>1 DEF Interned, Waiting
            <4>2. CASE reordering[s] # None
                <5>1. Buffer(reordering[s])
                    BY <2>1, <4>2 DEF Buffers, Idle
                <5> QED
                    BY <2>1, <5>1, WaitingWhere DEF Interned
            <4> QED
                BY <4>1, <4>2
        <3> QED
            BY <3>1, <3>2
    <2>5. ASSUME NEW s \in Subs, reordering[s] # None
          PROVE  s \in Ordered /\ Cardinality(DOMAIN reordering[s].slots) < reorderingCapacity
        <3>1. PICK q : q = reordering[s]
            OBVIOUS
        <3>2. s \in Ordered /\ Buffer(q) /\ Gap(q)
            BY <2>1, <2>5, <3>1 DEF Buffers, Idle
        <3>3. PICK le \in Nat : le = q.lastEjected
            BY <3>2, StateFields DEF Buffer
        <3>4. PICK c \in Nat : c = reorderingCapacity /\ c > 3
            BY Constants
        <3>5. DOMAIN q.slots \subseteq (le + 2)..(le + c)
            <4> SUFFICES ASSUME NEW k \in DOMAIN q.slots PROVE k \in (le + 2)..(le + c)
                OBVIOUS
            <4>1. k \in Nat
                BY <3>2, StateFields DEF Buffer
            <4>2. le < k /\ k <= le + c
                BY <3>2, <3>3, <3>4 DEF Buffer
            <4>3. k # le + 1
                BY <3>2, <3>3 DEF Gap
            <4> QED
                BY <4>1, <4>2, <4>3
        <3>6. /\ IsFiniteSet((le + 2)..(le + c))
              /\ Cardinality((le + 2)..(le + c)) = c - 1
            <4>1. le + 2 \in Int /\ le + c \in Int /\ ~(le + 2 > le + c)
                BY <3>4
            <4>2. (le + c) - (le + 2) + 1 = c - 1
                OBVIOUS
            <4> QED
                BY <4>1, <4>2, FS_Interval
        <3>7. /\ Cardinality(DOMAIN q.slots) \in Nat
              /\ Cardinality(DOMAIN q.slots) <= Cardinality((le + 2)..(le + c))
            <4>1. IsFiniteSet(DOMAIN q.slots)
                BY <3>2, StateFields DEF Buffer
            <4> QED
                BY <3>5, <3>6, <4>1, FS_Subset, FS_CardinalityType
        <3>8. Cardinality(DOMAIN q.slots) < c
            BY <3>6, <3>7
        <3> QED
            BY <3>1, <3>2, <3>4, <3>8
    <2>6. TypeOK
        BY <2>1, <2>2, <2>3, <2>4, <2>5 DEF TypeOK, Types
    <2> QED
        BY <2>1, <2>6 DEF AckedWasAccepted
<1> QED
    BY <1>1, Invariance, PTL

\* The clock never passes the moment at which the head of the line of a buffer
\* has waited for a window (arm, onWindowExpiration): a gap stalls nobody.
THEOREM ReceiverTimely == Spec => HeadOfLineTimely
<1>1. ASSUME RxInv, [Next]_vars
      PROVE  [now' > now =>
                \A s \in Subs : Interned(s) # {} =>
                    LET slots == reordering[s].slots
                    IN  now < slots[Lowest(DOMAIN slots)] + ReorderingWindow]_vars
    <2> SUFFICES ASSUME now' > now, NEW s \in Subs, Interned(s) # {}
                 PROVE  now < reordering[s].slots[Lowest(DOMAIN reordering[s].slots)]
                                + ReorderingWindow
        OBVIOUS
    <2>1. Types /\ Buffers
        BY <1>1 DEF RxInv
    <2>2. now \in Nat /\ ~(now > now)
        BY <2>1 DEF Types
    <2>3. Tick
        BY <1>1, <2>2 DEF Next, Publish, Receive, WindowExpires, Subscribe, Destroy, teardown,
                          Restart, vars
    <2>4. PICK q : q = reordering[s]
        OBVIOUS
    <2>5. ~WindowDue(q)
        BY <2>3, <2>4 DEF Tick
    <2>6. q # None /\ DOMAIN q.slots # {}
        BY <2>4 DEF Interned, Waiting
    <2>7. Idle(q)
        BY <2>1, <2>4, <2>6 DEF Buffers
    <2> QED
        BY <2>1, <2>4, <2>5, <2>6, <2>7, NotDue
<1> QED
    BY <1>1, Invariance, PTL DEF Spec, HeadOfLineTimely

LEMMA ReceiveMoves ==
    ASSUME RxInv, Receive
    PROVE  \/ UNCHANGED <<reordering, delivered>>
           \/ \E m \in net : \E dd, d, ok : Fresh(m, dd, d, ok)
<1>1. PICK m \in net : /\ IF hasSubs THEN deliverTopic(m) ELSE AckPassively(m)
                       /\ net' = IF m.reliable THEN net ELSE net \ {m}
    BY DEF Receive
<1>2. UNCHANGED <<msgSeqno, sub, changes, now>>
    BY DEF Receive
<1>3. CASE ~hasSubs
    BY <1>1, <1>3 DEF AckPassively
<1>4. CASE hasSubs
    <2>1. deliverTopic(m)
        BY <1>1, <1>4
    <2>2. PICK dd : dd = IF m.reliable THEN dedupFindOrCreate(dedup, m.tag) ELSE dedup
        OBVIOUS
    <2>3. CASE m.reliable /\ check(dd, m.tag)
        BY <2>1, <2>2, <2>3 DEF deliverTopic
    <2>4. CASE ~(m.reliable /\ check(dd, m.tag))
        <3>1. PICK d : d = [s \in Subs |-> deliver(s, dropStaleReordering(reordering[s]), m.tag)]
            OBVIOUS
        <3>2. PICK ok : ok = (m.reliable /\ \E s \in Subs : d[s].accepted)
            OBVIOUS
        <3>3. /\ reordering' = [s \in Subs |-> d[s].state]
              /\ delivered' = [s \in Subs |-> notify(s, d[s].out)]
              /\ dedup' = IF ok THEN commit(dd, m.tag) ELSE dd
              /\ accepted' = IF ok THEN accepted \cup {m.tag} ELSE accepted
              /\ acks' = IF ok THEN acks \cup {m.tag} ELSE acks
            BY <2>1, <2>2, <2>4, <3>1, <3>2 DEF deliverTopic
        <3>4. net' = IF m.reliable THEN net ELSE net \ {m}
            BY <1>1
        <3>5. Fresh(m, dd, d, ok)
            BY <1>2, <2>2, <2>4, <3>1, <3>2, <3>3, <3>4 DEF Fresh
        <3> QED
            BY <3>5
    <2> QED
        BY <2>3, <2>4
<1> QED
    BY <1>3, <1>4

\* What waits in a buffer still waits or is handed over.
LEMMA ServedKeeps ==
    ASSUME Types, NEW q, NEW old, NEW g, NEW new,
           q # None => Idle(q), Served(q, old, g, new)
    PROVE  Waiting(q) \subseteq Waiting(g) \cup Range(new)
<1> SUFFICES ASSUME NEW tag \in Waiting(q), tag \notin Waiting(g) PROVE tag \in Range(new)
    OBVIOUS
<1>1. q # None /\ Buffer(q)
    BY DEF Waiting, Idle
<1>2. tag \in Tags /\ Waits(q, Rank(tag))
    BY <1>1, WaitingWhere
<1>3. Buffer(g) /\ new \in Seq(Tags)
    BY DEF Served, Idle
<1>4. PICK r \in Int : r = Rank(tag) /\ TagOf(r) = tag
    BY <1>2, RankFacts
<1>5. ~Waits(g, r)
    BY <1>2, <1>3, <1>4, WaitingWhere
<1>6. PICK j \in DOMAIN new : Rank(new[j]) = r
    BY <1>1, <1>2, <1>4, <1>5 DEF Served
<1>7. new[j] \in Tags
    BY <1>3, <1>6
<1>8. new[j] = tag
    BY <1>4, <1>6, <1>7, RankFacts
<1> QED
    BY <1>6, <1>8 DEF Range

\* A message in a reordering buffer, which was acknowledged on arrival, stays
\* there or is handed over while the subscriber lives: neither the expiry of the
\* soft state (dropStaleReordering) nor a window that slides, expires or starts
\* anew (push, scan, resequence) drops it.
THEOREM ReceiverKeeps == Spec => InternedKept
<1>1. ASSUME RxInv, [Next]_vars
      PROVE  [\A s \in Subs : sub[s] = "live" /\ sub'[s] = "live" =>
                Interned(s) \subseteq Waiting(reordering'[s]) \cup Range(delivered'[s])]_vars
    <2> SUFFICES ASSUME Next, NEW s \in Subs, sub[s] = "live", sub'[s] = "live"
                 PROVE  Waiting(reordering[s])
                            \subseteq Waiting(reordering'[s]) \cup Range(delivered'[s])
        BY <1>1 DEF Interned
    <2>1. Types /\ Buffers
        BY <1>1 DEF RxInv
    <2>2. reordering[s] # None => s \in Ordered /\ Idle(reordering[s])
        BY <2>1 DEF Buffers
    <2>3. CASE reordering'[s] = reordering[s]
        BY <2>3
    <2>4. CASE reordering[s] = None
        BY <2>4 DEF Waiting
    <2>5. CASE s \in Ordered /\ Served(reordering[s], delivered[s], reordering'[s], delivered'[s])
        <3>1. PICK q, g, old, new : /\ q = reordering[s] /\ g = reordering'[s]
                                    /\ old = delivered[s] /\ new = delivered'[s]
            OBVIOUS
        <3> QED
            BY <2>1, <2>2, <2>5, <3>1, ServedKeeps
    <2>6. CASE Receive
        <3>1. CASE UNCHANGED <<reordering, delivered>>
            BY <2>3, <3>1
        <3>2. CASE \E m \in net : \E dd, d, ok : Fresh(m, dd, d, ok)
            <4>1. PICK m \in net : \E dd, d, ok : Fresh(m, dd, d, ok)
                BY <3>2
            <4>2. PICK dd, d, ok : Fresh(m, dd, d, ok)
                BY <4>1
            <4>3. s \in Ordered =>
                    Served(reordering[s], delivered[s], reordering'[s], delivered'[s])
                BY <1>1, <4>2, FreshTurn
            <4> QED
                BY <2>2, <2>4, <2>5, <4>3
        <3> QED
            BY <1>1, <2>6, <3>1, <3>2, ReceiveMoves
    <2>7. ASSUME NEW u \in Subs, WindowExpires(u)
          PROVE  \/ reordering'[s] = reordering[s]
                 \/ /\ s \in Ordered
                    /\ Served(reordering[s], delivered[s], reordering'[s], delivered'[s])
        BY <1>1, <2>7, WindowTurn
    <2>8. ASSUME NEW u \in Subs, teardown(u) PROVE reordering'[s] = reordering[s]
        BY <2>1, <2>8 DEF teardown, Types
    <2>9. ~Restart
        BY DEF Restart
    <2>10. ASSUME \/ \E reliable \in BOOLEAN : Publish(reliable)
                  \/ \E u \in Subs : Subscribe(u)
                  \/ \E u \in Subs : Destroy(u)
                  \/ Tick
           PROVE  reordering'[s] = reordering[s]
        BY <2>10 DEF Publish, Subscribe, Destroy, Tick
    <2> QED
        BY <2>3, <2>5, <2>6, <2>7, <2>8, <2>9, <2>10 DEF Next
<1> QED
    BY <1>1, Invariance, PTL DEF Spec, InternedKept

=============================================================================
