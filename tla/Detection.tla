------------------------------ MODULE Detection ------------------------------
(***************************************************************************)
(* What a detector says of a picture: the classes of the things it sees.   *)
(* The worker (edge mode) and the edge server (cloud mode) have the same   *)
(* code in their objectdetection.cpp.  The network is left out: a scene is *)
(* the sequence of rows it puts out, each a box with a score, in per cent, *)
(* for every class.  NMSBoxes is OpenCV's.                                 *)
(***************************************************************************)
EXTENDS Integers, FiniteSets, Sequences, SequencesExt

CONSTANTS
    m_classes,      \* the names of the classes, as in coco.names
    person,         \* the one that emulation leaves out
    Emulations      \* how many classes emulation reports (the code: 10)

ASSUME DetectionAssumption ==
    /\ m_classes \in Seq(ToSet(m_classes)) /\ IsInjective(m_classes)
    /\ Emulations \in 0 .. Len(m_classes) - 1

\* The rows that the network may put out for a picture.
Rows == Seq([x : Int, y : Int, width : Nat, height : Nat,
             scores : [DOMAIN m_classes -> 0 .. 100]])

m_conf_threshold == 50
m_nms_threshold  == 40

\* EmulateObjectDetection shuffles the classes and takes the first ones.
EmulatedResults ==
    {s \in SUBSET (ToSet(m_classes) \ {person}) : Cardinality(s) = Emulations}

\* minMaxLoc: the first class with the greatest score.
ClassId(row) ==
    CHOOSE k \in DOMAIN row.scores :
        \A j \in DOMAIN row.scores :
            row.scores[j] < row.scores[k] \/ (row.scores[j] = row.scores[k] /\ k <= j)

Confidence(row) == row.scores[ClassId(row)]

\* Mutant: a score of exactly the threshold is enough.
AtThreshold(rows) == {i \in DOMAIN rows : Confidence(rows[i]) >= m_conf_threshold}

Confident(rows) == {i \in DOMAIN rows : Confidence(rows[i]) > m_conf_threshold}

\* The pixels of a box, which is given by its centre and may leave the picture.
Box(row) ==
    LET left == row.x - row.width \div 2
        top  == row.y - row.height \div 2
    IN  (left .. left + row.width - 1) \X (top .. top + row.height - 1)

\* The common part of two boxes is too great a part of both together.  Two boxes
\* without area overlap, wherever they are: their jaccardDistance is 0.
Overlap(a, b) ==
    LET both == Box(a) \cup Box(b)
    IN  \/ both = {}
        \/ 100 * Cardinality(Box(a) \cap Box(b)) > m_nms_threshold * Cardinality(both)

\* The order in which boxes are looked at: the sort of NMSBoxes is stable.
Surer(rows, i, j) ==
    \/ Confidence(rows[i]) > Confidence(rows[j])
    \/ Confidence(rows[i]) = Confidence(rows[j]) /\ i < j

\* Of the candidates, the surest first, those that overlap none that was kept.
NMSBoxes(rows, candidates) ==
    CHOOSE kept \in SUBSET candidates :
        \A i \in candidates :
            i \in kept <=> ~\E j \in kept : Surer(rows, j, i) /\ Overlap(rows[j], rows[i])

\* A box is of one class, and boxes of all classes compete.
Postprocess(rows) ==
    {m_classes[ClassId(rows[i])] : i \in NMSBoxes(rows, Confident(rows))}

-----------------------------------------------------------------------------
\* What a user can see in a scene: the things that are likelier the target than
\* not and as likely as anything else, and those that are nothing else as likely.
Seen(scene, target) ==
    {i \in DOMAIN scene :
        \E k \in DOMAIN m_classes :
            /\ m_classes[k] = target
            /\ scene[i].scores[k] > 50
            /\ \A j \in DOMAIN m_classes : scene[i].scores[j] <= scene[i].scores[k]}

PlainlySeen(scene, target) ==
    {i \in Seen(scene, target) :
        \A j, k \in DOMAIN m_classes :
            m_classes[k] = target /\ j # k => scene[i].scores[j] < scene[i].scores[k]}

\* Thing j, whatever it is, hides thing i: a box of much the same place, or without
\* area as that of i, as sure, and not hidden itself.
Hides(scene, j, i) ==
    /\ i # j
    /\ m_classes[ClassId(scene[j])] \in Postprocess(scene)
    /\ Overlap(scene[j], scene[i])
    /\ Confidence(scene[j]) >= Confidence(scene[i])

\* What may be said of a scene: that the target was found only if it can be seen,
\* and that it was not found only if each that can plainly be seen is hidden.
Truthful(scene, target, found) ==
    IF found THEN Seen(scene, target) # {}
             ELSE \A i \in PlainlySeen(scene, target) :
                      \E j \in DOMAIN scene : Hides(scene, j, i)
=============================================================================
