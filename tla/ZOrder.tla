-------------------------------- MODULE ZOrder --------------------------------
(***************************************************************************)
(* From a location to a cell of the map (client/js/manager.js).  A         *)
(* location is a sequence of decimal digits; the page takes it for a       *)
(* number, subtracts 30000 and reads the digits of what is left as a       *)
(* Z-order number: two bits each, the low one for x and the high one for y.*)
(***************************************************************************)
EXTENDS Integers, Sequences

\* The map is 16 by 16 cells, and cellsArray is indexed from 0.
Grid == [x : 0 .. 15, y : 0 .. 15]

\* parseInt of a location.
Number(location) ==
    LET value[i \in 0 .. Len(location)] ==
            IF i = 0 THEN 0 ELSE 10 * value[i - 1] + location[i]
    IN  value[Len(location)]

\* Mutant: y is read from the bit of x.
YBitOfX(d) == d % 2

\* The last two bits of toString(2).
XBit(d) == d % 2
YBit(d) == (d \div 2) % 2

\* The digits of String(zorder), which has no zeros in front, from the first on.
ConvertZordertoXY(zorder) ==
    LET xy[n \in 0 .. zorder] ==
            LET front == IF n < 10 THEN [x |-> 0, y |-> 0] ELSE xy[n \div 10]
            IN  [x |-> 2 * front.x + XBit(n % 10), y |-> 2 * front.y + YBit(n % 10)]
    IN  xy[zorder]

Cell(location) == ConvertZordertoXY(Number(location) - 30000)

-----------------------------------------------------------------------------
\* The map as its locations mean it: behind "3", each digit halves the square
\* that is left, 1 and 3 to the right, 2 and 3 to the bottom.
InSquare(cell, location) ==
    \A i \in 2 .. Len(location) :
        LET side == <<16, 8, 4, 2, 1>>[i]
        IN  /\ (cell.x \div side) % 2 = 1 <=> location[i] \in {1, 3}
            /\ (cell.y \div side) % 2 = 1 <=> location[i] \in {2, 3}

\* The locations that stand for one cell.
Quarters == 0 .. 3
Places == {<<3, a, b, c, d>> : a, b, c, d \in Quarters}
=============================================================================
