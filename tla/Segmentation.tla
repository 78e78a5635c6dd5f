----------------------------- MODULE Segmentation -----------------------------
(***************************************************************************)
(* How a picture is cut into Data packets (worker/src/worker.cpp) and what *)
(* the edge server makes of its bytes again (edge/src/execute.cpp).  A     *)
(* picture is the number of its bytes, and a piece of it the set of the    *)
(* positions of its bytes.                                                 *)
(***************************************************************************)
EXTENDS Integers, FiniteSets

CONSTANTS
    maxSegmentSize,     \* the most bytes of a segment (8000)
    Rows                \* the rows a fetched picture is given (480)

ASSUME SegmentationAssumption ==
    /\ maxSegmentSize \in Nat \ {0}
    /\ Rows \in Nat \ {0}

\* The rounds of the loop of populateStore for a picture of n bytes.
Rounds(n) == {i \in 0 .. n : maxSegmentSize * i < n}

\* Mutant: the bytes that do not fill a segment are dropped.
FullSlices(n, i) ==
    IF maxSegmentSize * (i + 1) <= n
    THEN maxSegmentSize * i .. maxSegmentSize * (i + 1) - 1
    ELSE {}

\* The bytes copied in round i: a full segment, or what is left.
Slice(n, i) ==
    IF maxSegmentSize * (i + 1) < n
    THEN maxSegmentSize * i .. maxSegmentSize * (i + 1) - 1
    ELSE maxSegmentSize * i .. n - 1

\* One segment for each round; a picture without bytes is one empty segment.
SegmentCount(n) == IF n = 0 THEN 1 ELSE Cardinality(Rounds(n))

Channels == 3

\* Whether reshape(3, 480) takes n bytes: it throws if they do not fill the rows.
Reshapes(n) ==
    /\ n >= Rows
    /\ n % Rows = 0
    /\ (n \div Rows) % Channels = 0
=============================================================================
