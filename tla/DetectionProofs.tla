--------------------------- MODULE DetectionProofs ---------------------------
(***************************************************************************)
(* Theorems about what a detector says of a picture, for every list of     *)
(* classes and every number of rows.                                       *)
(***************************************************************************)
EXTENDS Detection, FiniteSetTheorems, WellFoundedInduction, NaturalsInduction, TLAPS

\* A set of numbers that is not empty has a least one, and one that has a bound a
\* greatest one.
LEMMA LeastNumber ==
    ASSUME NEW T \in SUBSET Nat, T # {}
    PROVE  \E k \in T : \A y \in T : k <= y
<1> DEFINE Less == {pair \in Nat \X Nat : pair[1] < pair[2]}
<1>1. IsWellFoundedOn(Less, Nat)
  BY NatLessThanWellFounded DEF OpToRel
<1>2. \A y, k \in Nat : y < k => <<y, k>> \in Less
  OBVIOUS
<1> HIDE DEF Less
<1>3. PICK k \in T : \A y \in T : <<y, k>> \notin Less
  BY <1>1, WFMin
<1>4. \A y \in T : ~(y < k)
  BY <1>2, <1>3
<1> QED
  BY <1>4

LEMMA GreatestNumber ==
    ASSUME NEW n \in Nat, NEW T \in SUBSET (0 .. n), T # {}
    PROVE  \E k \in T : \A y \in T : y <= k
<1> DEFINE U == {n - y : y \in T}
<1>1. U \in SUBSET Nat /\ U # {}
  <2>1. \A y \in T : n - y \in Nat
    OBVIOUS
  <2> QED
    BY <2>1
<1>2. PICK u \in U : \A v \in U : u <= v
  BY <1>1, LeastNumber
<1>3. PICK k \in T : u = n - k
  OBVIOUS
<1>4. \A y \in T : n - k <= n - y
  BY <1>2, <1>3
<1> QED
  BY <1>4

-----------------------------------------------------------------------------
(* The class of a row.                                                     *)

\* minMaxLoc finds a class, and none has a greater score.
LEMMA ClassFound ==
    ASSUME NEW row, row.scores \in [DOMAIN m_classes -> 0 .. 100]
    PROVE  /\ ClassId(row) \in DOMAIN m_classes
           /\ Confidence(row) \in 0 .. 100
           /\ \A k \in DOMAIN m_classes : row.scores[k] <= Confidence(row)
<1> DEFINE scores == row.scores
           T == {scores[k] : k \in DOMAIN m_classes}
           IsFirst(k) == \A j \in DOMAIN m_classes :
                             scores[j] < scores[k] \/ (scores[j] = scores[k] /\ k <= j)
<1>1. DOMAIN m_classes \in SUBSET Nat /\ 1 \in DOMAIN m_classes
  BY DetectionAssumption
<1>2. DOMAIN scores = DOMAIN m_classes
  OBVIOUS
<1>3. T \in SUBSET (0 .. 100) /\ T # {}
  BY <1>1
<1>4. PICK c \in T : \A y \in T : y <= c
  BY <1>3, GreatestNumber
<1> DEFINE K == {k \in DOMAIN m_classes : scores[k] = c}
<1>5. K \in SUBSET Nat /\ K # {}
  BY <1>1, <1>4
<1>6. PICK k0 \in K : \A k \in K : k0 <= k
  BY <1>5, LeastNumber
<1>7. \A k \in DOMAIN m_classes : scores[k] \in 0 .. 100 /\ scores[k] <= c
  BY <1>4
<1>8. IsFirst(k0)
  <2> TAKE j \in DOMAIN m_classes
  <2>1. CASE j \in K
    BY <2>1, <1>6
  <2>2. CASE j \notin K
    <3>1. scores[k0] = c
      BY <1>6
    <3>2. scores[j] # c /\ scores[j] \in 0 .. 100 /\ scores[j] <= c
      BY <2>2, <1>7
    <3>3. c \in Nat
      BY <1>4, <1>3
    <3> HIDE DEF scores, T, K
    <3>4. scores[j] < c
      BY <3>2, <3>3
    <3> QED
      BY <3>1, <3>4
  <2> QED
    BY <2>1, <2>2
<1>9. ClassId(row) \in DOMAIN m_classes /\ IsFirst(ClassId(row))
  BY <1>2, <1>6, <1>8 DEF ClassId
<1> HIDE DEF IsFirst
<1>10. \A k \in DOMAIN m_classes : scores[k] <= scores[ClassId(row)]
  <2> TAKE k \in DOMAIN m_classes
  <2>1. scores[k] < scores[ClassId(row)] \/ scores[k] = scores[ClassId(row)]
    BY <1>9 DEF IsFirst
  <2>2. scores[k] \in Nat /\ scores[ClassId(row)] \in Nat
    BY <1>7, <1>9
  <2> QED
    BY <2>1, <2>2
<1> QED
  BY <1>7, <1>9, <1>10 DEF Confidence

-----------------------------------------------------------------------------
(* The order of the rows.                                                  *)

LEMMA RowsNumbered ==
    ASSUME NEW rows \in Rows
    PROVE  Len(rows) \in Nat /\ DOMAIN rows = 1 .. Len(rows)
<1> QED
  BY DEF Rows

\* The rows of a picture have classes and scores.
LEMMA RowsScored ==
    ASSUME NEW rows \in Rows, NEW i \in DOMAIN rows
    PROVE  /\ i \in Nat
           /\ ClassId(rows[i]) \in DOMAIN m_classes
           /\ Confidence(rows[i]) \in 0 .. 100
           /\ \A k \in DOMAIN m_classes :
                  /\ rows[i].scores[k] \in 0 .. 100
                  /\ rows[i].scores[k] <= Confidence(rows[i])
<1> DEFINE Row == [x : Int, y : Int, width : Nat, height : Nat,
                   scores : [DOMAIN m_classes -> 0 .. 100]]
<1>1. rows \in Seq(Row) /\ \A r \in Row : r.scores \in [DOMAIN m_classes -> 0 .. 100]
  BY DEF Rows
<1> HIDE DEF Row
<1>2. i \in Nat /\ rows[i] \in Row
  BY <1>1
<1> QED
  BY <1>1, <1>2, ClassFound

\* NMSBoxes looks at the boxes one after the other: no two are equally sure.
LEMMA SurerIsOrder ==
    ASSUME NEW rows \in Rows
    PROVE  /\ \A i \in DOMAIN rows : ~Surer(rows, i, i)
           /\ \A i, j \in DOMAIN rows : i # j => Surer(rows, i, j) \/ Surer(rows, j, i)
           /\ \A i, j \in DOMAIN rows : Surer(rows, i, j) => ~Surer(rows, j, i)
<1>1. \A i \in DOMAIN rows : i \in Nat /\ Confidence(rows[i]) \in 0 .. 100
  BY RowsScored
<1> QED
  BY <1>1 DEF Surer

\* Of some boxes one comes last.
LEMMA LastBox ==
    ASSUME NEW rows \in Rows, NEW S \in SUBSET DOMAIN rows, S # {}
    PROVE  \E l \in S : \A i \in S : ~Surer(rows, l, i)
<1> DEFINE c(i) == Confidence(rows[i])
           C == {c(i) : i \in S}
<1>1. \A i \in S : i \in 0 .. Len(rows) /\ c(i) \in Nat
  <2>1. \A i \in DOMAIN rows : c(i) \in 0 .. 100
    BY RowsScored
  <2>2. Len(rows) \in Nat /\ DOMAIN rows = 1 .. Len(rows)
    BY RowsNumbered
  <2>3. \A i \in S : i \in 0 .. Len(rows)
    BY <2>2
  <2>4. \A i \in S : c(i) \in Nat
    <3> HIDE DEF c
    <3> QED
      BY <2>1
  <2> QED
    BY <2>3, <2>4
<1> HIDE DEF c
<1>2. C \in SUBSET Nat /\ C # {}
  BY <1>1
<1>3. PICK least \in C : \A y \in C : least <= y
  BY <1>2, LeastNumber
<1> DEFINE L == {i \in S : c(i) = least}
<1>4. L \in SUBSET (0 .. Len(rows)) /\ L # {} /\ Len(rows) \in Nat
  BY <1>1, <1>3, RowsNumbered
<1>5. PICK l \in L : \A i \in L : i <= l
  BY <1>4, GreatestNumber
<1>6. \A i \in S : c(l) < c(i) \/ (c(l) = c(i) /\ i <= l)
  <2> TAKE i \in S
  <2>1. least <= c(i) /\ c(l) = least /\ c(i) \in Nat
    BY <1>1, <1>3
  <2>2. c(i) = least => i <= l
    BY <1>5
  <2>3. least \in Nat
    BY <1>2
  <2> QED
    BY <2>1, <2>2, <2>3
<1>7. \A i \in S : ~(c(l) > c(i)) /\ ~(c(l) = c(i) /\ l < i)
  BY <1>1, <1>6
<1> QED
  BY <1>7 DEF Surer, c

-----------------------------------------------------------------------------
(* The boxes that are kept.                                                *)

\* The boxes of S that NMSBoxes keeps: each that overlaps no surer one that is kept.
Kept(rows, S, kept) ==
    /\ kept \subseteq S
    /\ \A i \in S :
           i \in kept <=> ~\E j \in kept : Surer(rows, j, i) /\ Overlap(rows[j], rows[i])

\* There always are such boxes: the last one changes nothing for the others.
LEMMA KeptExists ==
    ASSUME NEW rows \in Rows, NEW S \in SUBSET DOMAIN rows
    PROVE  \E kept : Kept(rows, S, kept)
<1> DEFINE R == StrictSubsetOrdering(S)
           Bad == {T \in SUBSET S : ~\E kept : Kept(rows, T, kept)}
<1> SUFFICES ASSUME Bad # {} PROVE FALSE
  OBVIOUS
<1>1. IsFiniteSet(S)
  BY RowsNumbered, FS_Interval, FS_Subset
<1>2. FiniteSubsetsOf(S) = SUBSET S
  BY <1>1, FS_FiniteSubsetsOfFinite
<1>3. IsWellFoundedOn(R, SUBSET S)
  BY <1>2, FS_StrictSubsetOrderingWellFounded
<1>4. Bad \subseteq SUBSET S
  OBVIOUS
<1> HIDE DEF R, Bad
<1>5. PICK T \in Bad : \A U \in Bad : <<U, T>> \notin R
  BY <1>3, <1>4, WFMin
<1>6. T \in SUBSET S /\ ~\E kept : Kept(rows, T, kept)
  BY <1>5 DEF Bad
<1>7. T # {}
  <2>1. Kept(rows, {}, {})
    BY DEF Kept
  <2> QED
    BY <2>1, <1>6
<1>8. PICK l \in T : \A i \in T : ~Surer(rows, l, i)
  BY <1>6, <1>7, LastBox
<1>9. PICK kept : Kept(rows, T \ {l}, kept)
  <2>1. T \ {l} \in SUBSET S /\ <<T \ {l}, T>> \in R
    BY <1>6 DEF R, StrictSubsetOrdering
  <2>2. T \ {l} \notin Bad
    BY <1>5, <2>1
  <2> QED
    BY <2>1, <2>2 DEF Bad
<1> DEFINE new == IF \E j \in kept : Surer(rows, j, l) /\ Overlap(rows[j], rows[l])
                  THEN kept ELSE kept \cup {l}
<1>10. kept \subseteq T \ {l}
  BY <1>9 DEF Kept
<1>11. \A i \in T \ {l} :
          i \in kept <=> ~\E j \in kept : Surer(rows, j, i) /\ Overlap(rows[j], rows[i])
  BY <1>9 DEF Kept
<1>12. \A i \in T : ~Surer(rows, l, i)
  BY <1>8
<1>13. Kept(rows, T, new)
  <2>1. \A i \in T : (\E j \in new : Surer(rows, j, i) /\ Overlap(rows[j], rows[i]))
                <=> (\E j \in kept : Surer(rows, j, i) /\ Overlap(rows[j], rows[i]))
    BY <1>12
  <2>2. new \subseteq T
    BY <1>10
  <2>3. \A i \in T \ {l} : i \in new <=> i \in kept
    OBVIOUS
  <2>4. l \in new <=> ~\E j \in kept : Surer(rows, j, l) /\ Overlap(rows[j], rows[l])
    BY <1>10
  <2> HIDE DEF new
  <2> QED
    BY <2>1, <2>2, <2>3, <2>4, <1>11 DEF Kept
<1> QED
  BY <1>6, <1>13

\* Nor can there be others: the suppression of boxes has one outcome.
LEMMA KeptIsUnique ==
    ASSUME NEW rows \in Rows, NEW S \in SUBSET DOMAIN rows,
           NEW a, NEW b, Kept(rows, S, a), Kept(rows, S, b)
    PROVE  a = b
<1> DEFINE R == StrictSubsetOrdering(S)
           Bad == {T \in SUBSET S :
                      \E k1, k2 : Kept(rows, T, k1) /\ Kept(rows, T, k2) /\ k1 # k2}
<1> SUFFICES ASSUME a # b PROVE FALSE
  OBVIOUS
<1>1. IsFiniteSet(S)
  BY RowsNumbered, FS_Interval, FS_Subset
<1>2. FiniteSubsetsOf(S) = SUBSET S
  BY <1>1, FS_FiniteSubsetsOfFinite
<1>3. IsWellFoundedOn(R, SUBSET S)
  BY <1>2, FS_StrictSubsetOrderingWellFounded
<1>4. Bad \subseteq SUBSET S /\ Bad # {}
  <2>1. S \in Bad
    OBVIOUS
  <2> QED
    BY <2>1
<1> HIDE DEF R, Bad
<1>5. PICK T \in Bad : \A U \in Bad : <<U, T>> \notin R
  BY <1>3, <1>4, WFMin
<1>6. T \in SUBSET S
  BY <1>4, <1>5
<1>7. PICK k1, k2 : Kept(rows, T, k1) /\ Kept(rows, T, k2) /\ k1 # k2
  BY <1>5 DEF Bad
<1>8. T # {}
  BY <1>7 DEF Kept
<1>9. PICK l \in T : \A i \in T : ~Surer(rows, l, i)
  BY <1>6, <1>8, LastBox
<1>10. ASSUME NEW k, Kept(rows, T, k) PROVE Kept(rows, T \ {l}, k \ {l})
  BY <1>9, <1>10 DEF Kept
<1>11. k1 \ {l} = k2 \ {l}
  <2>1. T \ {l} \in SUBSET S /\ <<T \ {l}, T>> \in R
    BY <1>6 DEF R, StrictSubsetOrdering
  <2>2. T \ {l} \notin Bad
    BY <1>5, <2>1
  <2>3. Kept(rows, T \ {l}, k1 \ {l}) /\ Kept(rows, T \ {l}, k2 \ {l})
    BY <1>7, <1>10
  <2> QED
    BY <2>1, <2>2, <2>3 DEF Bad
<1>12. ASSUME NEW k, Kept(rows, T, k)
       PROVE  l \in k <=> ~\E j \in k \ {l} : Surer(rows, j, l) /\ Overlap(rows[j], rows[l])
  BY <1>9, <1>12 DEF Kept
<1>13. l \in k1 <=> l \in k2
  BY <1>7, <1>11, <1>12
<1> QED
  BY <1>7, <1>11, <1>13

\* So NMSBoxes keeps, of any boxes, those that overlap none that it keeps and is surer.
\* That this is one set and no other is what its definition relies on.
THEOREM SuppressionIsDefinite ==
    ASSUME NEW rows \in Rows, NEW candidates \in SUBSET DOMAIN rows
    PROVE  \A kept : Kept(rows, candidates, kept) <=> kept = NMSBoxes(rows, candidates)
<1>1. Kept(rows, candidates, NMSBoxes(rows, candidates))
  <2>1. PICK kept : Kept(rows, candidates, kept)
    BY KeptExists
  <2>2. \E k \in SUBSET candidates :
           \A i \in candidates :
               i \in k <=> ~\E j \in k : Surer(rows, j, i) /\ Overlap(rows[j], rows[i])
    BY <2>1 DEF Kept
  <2> QED
    BY <2>2 DEF Kept, NMSBoxes
<1> QED
  BY <1>1, KeptIsUnique

-----------------------------------------------------------------------------
(* What the detector says.                                                 *)

\* postprocess tells the truth: a class is reported only of something that is seen
\* there, and one that is not reported is plainly seen only where another box that
\* is as sure, and is reported itself, hides it.
THEOREM DetectorTellsTruth ==
    ASSUME NEW rows \in Rows, NEW target
    PROVE  Truthful(rows, target, target \in Postprocess(rows))
<1> DEFINE kept == NMSBoxes(rows, Confident(rows))
<1>1. Kept(rows, Confident(rows), kept)
  BY SuppressionIsDefinite DEF Confident
<1>2. kept \subseteq Confident(rows) /\ Confident(rows) \subseteq DOMAIN rows
  BY <1>1 DEF Kept, Confident
<1>3. \A i \in DOMAIN rows :
         /\ ClassId(rows[i]) \in DOMAIN m_classes
         /\ Confidence(rows[i]) \in 0 .. 100
         /\ Confidence(rows[i]) = rows[i].scores[ClassId(rows[i])]
         /\ \A k \in DOMAIN m_classes :
                rows[i].scores[k] \in 0 .. 100 /\ rows[i].scores[k] <= Confidence(rows[i])
  BY RowsScored DEF Confidence
<1>4. Postprocess(rows) = {m_classes[ClassId(rows[i])] : i \in kept}
  BY DEF Postprocess
<1> HIDE DEF kept
<1>5. CASE target \in Postprocess(rows)
  <2>1. PICK i \in kept : m_classes[ClassId(rows[i])] = target
    BY <1>4, <1>5
  <2>2. i \in DOMAIN rows /\ Confidence(rows[i]) > 50
    BY <1>2 DEF Confident, m_conf_threshold
  <2>3. i \in Seen(rows, target)
    BY <2>1, <2>2, <1>3 DEF Seen
  <2> QED
    BY <2>3, <1>5 DEF Truthful
<1>6. CASE target \notin Postprocess(rows)
  <2> SUFFICES ASSUME NEW i \in PlainlySeen(rows, target)
               PROVE  \E j \in DOMAIN rows : Hides(rows, j, i)
    BY <1>6 DEF Truthful
  <2>1. i \in DOMAIN rows
    BY DEF PlainlySeen, Seen
  <2>2. PICK k \in DOMAIN m_classes :
           /\ m_classes[k] = target
           /\ rows[i].scores[k] > 50
           /\ \A j \in DOMAIN m_classes : j # k => rows[i].scores[j] < rows[i].scores[k]
    BY DEF PlainlySeen, Seen
  <2>3. k = ClassId(rows[i])
    <3> DEFINE best == ClassId(rows[i])
               score(m) == rows[i].scores[m]
    <3>1. best \in DOMAIN m_classes /\ score(best) \in 0 .. 100 /\ score(k) \in 0 .. 100
      BY <2>1, <1>3
    <3>2. score(k) <= score(best)
      BY <2>1, <1>3
    <3>3. best # k => score(best) < score(k)
      BY <2>2, <3>1
    <3> HIDE DEF best, score
    <3>4. best = k
      BY <3>1, <3>2, <3>3
    <3> QED
      BY <3>4 DEF best
  <2>4. i \in Confident(rows)
    BY <2>1, <2>2, <2>3, <1>3 DEF Confident, m_conf_threshold
  <2>5. i \notin kept
    BY <2>2, <2>3, <1>4, <1>6
  <2>6. PICK j \in kept : Surer(rows, j, i) /\ Overlap(rows[j], rows[i])
    BY <2>4, <2>5, <1>1 DEF Kept
  <2>7. j \in DOMAIN rows /\ m_classes[ClassId(rows[j])] \in Postprocess(rows)
    BY <1>2, <1>4
  <2>8. i # j /\ Confidence(rows[j]) >= Confidence(rows[i])
    BY <2>5, <2>6, <2>1, <2>7, <1>3 DEF Surer
  <2> QED
    BY <2>6, <2>7, <2>8 DEF Hides
<1> QED
  BY <1>5, <1>6
=============================================================================
