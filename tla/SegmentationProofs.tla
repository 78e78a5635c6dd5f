-------------------------- MODULE SegmentationProofs --------------------------
(***************************************************************************)
(* Theorems about Segmentation, for every size of pictures and segments:   *)
(* the segments of a picture are numbered without a gap, and each of its   *)
(* bytes is in exactly one of them.                                        *)
(***************************************************************************)
EXTENDS Segmentation, FiniteSetTheorems, TLAPS

\* Multiplication by the segment size keeps the order.
LEMMA TimesMonotone ==
    ASSUME NEW m \in Nat, NEW a \in Int, NEW b \in Int, a <= b
    PROVE  m * a <= m * b
  BY SMT

\* The rounds of a picture that has bytes are 0, 1, ... up to a last one.
LEMMA RoundsInterval ==
    ASSUME NEW n \in Nat, n # 0
    PROVE  \E q \in Nat \ {0} : Rounds(n) = 0 .. q - 1
<1> DEFINE m == maxSegmentSize
           q == (n - 1) \div m + 1
<1>1. m \in Nat /\ m > 0
  BY SegmentationAssumption
<1> HIDE DEF m
<1>2. q - 1 \in Nat /\ m * (q - 1) <= n - 1 /\ n - 1 < m * (q - 1) + m
  BY <1>1, SMT
<1>3. ASSUME NEW i \in Nat PROVE m * i < n <=> i <= q - 1
  <2>1. i <= q - 1 => m * i <= m * (q - 1)
    BY <1>1, <1>2, TimesMonotone
  <2>2. i > q - 1 => m * i >= m * q
    BY <1>1, <1>2, TimesMonotone
  <2>3. m * q = m * (q - 1) + m
    BY <1>1, <1>2, SMT
  <2> QED
    BY <1>1, <1>2, <2>1, <2>2, <2>3
<1>4. ASSUME NEW i \in Nat, m * i < n PROVE i <= n
  BY <1>1, <1>4, SMT
<1> QED
  BY <1>2, <1>3, <1>4 DEF Rounds, m

\* As many segments as rounds, at least one.
LEMMA SegmentNumbers ==
    ASSUME NEW n \in Nat
    PROVE  /\ SegmentCount(n) \in Nat \ {0}
           /\ n # 0 => Rounds(n) = 0 .. SegmentCount(n) - 1
<1>1. CASE n = 0
  BY <1>1 DEF SegmentCount
<1>2. CASE n # 0
  <2>1. PICK q \in Nat \ {0} : Rounds(n) = 0 .. q - 1
    BY <1>2, RoundsInterval
  <2>2. Cardinality(0 .. q - 1) = q
    BY <2>1, FS_Interval
  <2> QED
    BY <1>2, <2>1, <2>2 DEF SegmentCount
<1> QED
  BY <1>1, <1>2

\* A segment begins where the one before it ends.
LEMMA SliceBounds ==
    ASSUME NEW n \in Nat, NEW i \in Nat, maxSegmentSize * i < n
    PROVE  \E last \in Nat :
              /\ Slice(n, i) = maxSegmentSize * i .. last
              /\ last < n /\ last < maxSegmentSize * (i + 1)
              /\ last = n - 1 \/ last = maxSegmentSize * (i + 1) - 1
<1> DEFINE m == maxSegmentSize
           from == m * i
<1>1. m \in Nat /\ m > 0
  BY SegmentationAssumption
<1>2. from \in Nat /\ m * (i + 1) = from + m
  BY <1>1, SMT
<1> QED
  BY <1>1, <1>2 DEF Slice

\* Every byte of a picture is in exactly one of its segments.
THEOREM Partition ==
    ASSUME NEW n \in Nat, NEW byte \in 0 .. n - 1
    PROVE  /\ \E i \in 0 .. SegmentCount(n) - 1 : byte \in Slice(n, i)
           /\ \A i, j \in 0 .. SegmentCount(n) - 1 :
                 byte \in Slice(n, i) /\ byte \in Slice(n, j) => i = j
<1> DEFINE m == maxSegmentSize
           i == byte \div m
<1>1. m \in Nat /\ m > 0
  BY SegmentationAssumption
<1>2. n # 0 /\ Rounds(n) = 0 .. SegmentCount(n) - 1
  BY SegmentNumbers
<1>3. i \in Nat /\ m * i <= byte /\ byte < m * i + m
  <2> HIDE DEF m
  <2> QED
    BY <1>1, SMT
<1>4. m * i < n /\ m * (i + 1) = m * i + m
  BY <1>1, <1>3, SMT
<1>5. i \in Rounds(n) /\ byte \in Slice(n, i)
  <2>1. i <= m * i
    BY <1>1, <1>3, SMT
  <2> QED
    BY <1>1, <1>3, <1>4, <2>1 DEF Rounds, Slice
<1>6. ASSUME NEW k \in Rounds(n), byte \in Slice(n, k)
      PROVE  m * k <= byte /\ byte < m * k + m
  <2>1. k \in Nat /\ m * k < n
    BY <1>6 DEF Rounds
  <2>2. m * (k + 1) = m * k + m
    BY <1>1, <2>1, SMT
  <2> QED
    BY <1>1, <1>6, <2>1, <2>2, SliceBounds
<1>7. ASSUME NEW k \in Rounds(n), NEW l \in Rounds(n), k < l,
             byte \in Slice(n, k), byte \in Slice(n, l)
      PROVE  FALSE
  <2>1. k \in Nat /\ l \in Nat /\ k + 1 <= l
    BY <1>7 DEF Rounds
  <2>2. m * (k + 1) <= m * l /\ m * (k + 1) = m * k + m
    BY <1>1, <2>1, TimesMonotone, SMT
  <2> QED
    BY <1>1, <1>6, <1>7, <2>1, <2>2
<1>8. \A k \in Rounds(n) : k \in Nat
  BY DEF Rounds
<1> QED
  BY <1>2, <1>5, <1>7, <1>8

\* The segments of a picture are its bytes and nothing else.
THEOREM SlicesCover ==
    ASSUME NEW n \in Nat
    PROVE  UNION {Slice(n, i) : i \in 0 .. SegmentCount(n) - 1} = 0 .. n - 1
<1>1. CASE n = 0
  <2>1. 0 .. SegmentCount(n) - 1 = {0}
    BY <1>1 DEF SegmentCount
  <2>2. Slice(n, 0) = {}
    BY <1>1, SegmentationAssumption DEF Slice
  <2> QED
    BY <1>1, <2>1, <2>2
<1>2. CASE n # 0
  <2>1. ASSUME NEW i \in 0 .. SegmentCount(n) - 1
        PROVE  Slice(n, i) \subseteq 0 .. n - 1
    <3>1. i \in Nat /\ maxSegmentSize * i < n
      BY <1>2, <2>1, SegmentNumbers DEF Rounds
    <3>2. maxSegmentSize * i \in Nat
      BY <3>1, SegmentationAssumption, SMT
    <3> QED
      BY <3>1, <3>2, SliceBounds
  <2>2. ASSUME NEW byte \in 0 .. n - 1
        PROVE  \E i \in 0 .. SegmentCount(n) - 1 : byte \in Slice(n, i)
    BY Partition
  <2> DEFINE Numbers == 0 .. SegmentCount(n) - 1
             Bytes == 0 .. n - 1
  <2> HIDE DEF Numbers, Bytes
  <2>3. /\ \A i \in Numbers : Slice(n, i) \subseteq Bytes
        /\ \A byte \in Bytes : \E i \in Numbers : byte \in Slice(n, i)
    BY <2>1, <2>2 DEF Numbers, Bytes
  <2>4. UNION {Slice(n, i) : i \in Numbers} = Bytes
    BY <2>3
  <2> QED
    BY <2>4 DEF Numbers, Bytes
<1> QED
  BY <1>1, <1>2

\* The bytes of a segment come before those of a later one.
LEMMA SlicesInOrder ==
    ASSUME NEW n \in Nat, NEW i \in 0 .. SegmentCount(n) - 1,
           NEW j \in 0 .. SegmentCount(n) - 1, i < j,
           NEW a \in Slice(n, i), NEW b \in Slice(n, j)
    PROVE  a < b
<1> DEFINE m == maxSegmentSize
<1>1. m \in Nat /\ i \in Nat /\ j \in Nat
  BY SegmentationAssumption, SegmentNumbers
<1>2. n # 0
  BY DEF SegmentCount
<1>3. m * i < n /\ m * j < n
  BY <1>2, SegmentNumbers DEF Rounds
<1>4. m * (i + 1) <= m * j
  BY <1>1, TimesMonotone
<1>5. m * (i + 1) \in Nat /\ m * j \in Nat /\ m * i \in Nat
  BY <1>1, SMT
<1>6. a \in Nat /\ a < m * (i + 1)
  <2>1. PICK last \in Nat : Slice(n, i) = m * i .. last /\ last < m * (i + 1)
    BY <1>1, <1>3, SliceBounds
  <2> HIDE DEF m
  <2> QED
    BY <1>5, <2>1
<1>7. b \in Nat /\ b >= m * j
  <2>1. PICK last \in Nat : Slice(n, j) = m * j .. last
    BY <1>1, <1>3, SliceBounds
  <2> HIDE DEF m
  <2> QED
    BY <1>5, <2>1
<1> QED
  BY <1>4, <1>5, <1>6, <1>7
=============================================================================
