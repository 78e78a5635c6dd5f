----------------------------- MODULE ZOrderProofs -----------------------------
(***************************************************************************)
(* That a location leads to the cell that it stands for and to no other.   *)
(* What the page computes digit by digit is, for a place of the map, as    *)
(* long as its five digits.  A longer location, within the cell of a       *)
(* place, leads to no cell at all.                                         *)
(***************************************************************************)
EXTENDS ZOrder, SequencesExt, WellFoundedInduction, NaturalsInduction, TLAPS

\* The number that a place is read as.
LEMMA NumberOfPlace ==
    ASSUME NEW a \in Quarters, NEW b \in Quarters, NEW c \in Quarters, NEW d \in Quarters
    PROVE  Number(<<3, a, b, c, d>>) = 30000 + 1000 * a + 100 * b + 10 * c + d
<1> DEFINE location == <<3, a, b, c, d>>
           value == CHOOSE v : v = [i \in 0 .. Len(location) |->
                                       IF i = 0 THEN 0 ELSE 10 * v[i - 1] + location[i]]
           known == [i \in 0 .. 5 |-> IF i = 0 THEN 0 ELSE
                                      IF i = 1 THEN 3 ELSE
                                      IF i = 2 THEN 30 + a ELSE
                                      IF i = 3 THEN 300 + 10 * a + b ELSE
                                      IF i = 4 THEN 3000 + 100 * a + 10 * b + c
                                               ELSE 30000 + 1000 * a + 100 * b + 10 * c + d]
<1>1. a \in Int /\ b \in Int /\ c \in Int /\ d \in Int
  BY DEF Quarters
<1>2. Number(location) = value[Len(location)]
  BY DEF Number
<1>3. /\ Len(location) = 5
      /\ location[1] = 3 /\ location[2] = a /\ location[3] = b
      /\ location[4] = c /\ location[5] = d
  OBVIOUS
<1> HIDE DEF location
<1>4. known = [i \in 0 .. 5 |-> IF i = 0 THEN 0 ELSE 10 * known[i - 1] + location[i]]
  BY <1>3, <1>1
<1>5. value = [i \in 0 .. 5 |-> IF i = 0 THEN 0 ELSE 10 * value[i - 1] + location[i]]
  <2> HIDE DEF known
  <2> QED
    BY <1>3, <1>4
<1> HIDE DEF value
<1>6. value[0] = 0 /\ \A i \in 1 .. 5 : value[i] = 10 * value[i - 1] + location[i]
  BY <1>5
<1>7. value[1] = 3
  BY <1>3, <1>6
<1>8. value[2] = 30 + a
  BY <1>1, <1>3, <1>6, <1>7
<1>9. value[3] = 300 + 10 * a + b
  BY <1>1, <1>3, <1>6, <1>8
<1>10. value[4] = 3000 + 100 * a + 10 * b + c
  BY <1>1, <1>3, <1>6, <1>9
<1>11. value[5] = 30000 + 1000 * a + 100 * b + 10 * c + d
  BY <1>1, <1>3, <1>6, <1>10
<1> QED
  BY <1>2, <1>3, <1>11 DEF location

\* What is left of a place's number without the 3 in front.
Numbers == {n \in Nat : n <= 9999}

\* The cell that a number of four digits leads to, and what one digit adds to it.
XOf(n) == 8 * XBit((n \div 1000) % 10) + 4 * XBit((n \div 100) % 10)
          + 2 * XBit((n \div 10) % 10) + XBit(n % 10)

YOf(n) == 8 * YBit((n \div 1000) % 10) + 4 * YBit((n \div 100) % 10)
          + 2 * YBit((n \div 10) % 10) + YBit(n % 10)

CellOf(n) == [x |-> XOf(n), y |-> YOf(n)]

Corner == [x |-> 0, y |-> 0]

OneDigit(front, n) == [x |-> 2 * front.x + XBit(n % 10), y |-> 2 * front.y + YBit(n % 10)]

\* One digit more is one bit more, and zeros in front add nothing.
LEMMA OneDigitMore ==
    ASSUME NEW n \in Numbers
    PROVE  CellOf(n) = OneDigit(IF n < 10 THEN Corner ELSE CellOf(n \div 10), n)
<1>1. n \in Nat
  BY DEF Numbers
<1>2. (n \div 10) \div 10 = n \div 100
  BY DEF Numbers
<1>3. (n \div 10) \div 100 = n \div 1000
  BY DEF Numbers
<1>4. (n \div 10) \div 1000 = 0
  BY DEF Numbers
<1>5. n < 10 => n \div 10 = 0
  BY DEF Numbers
<1>6. n < 10 => n \div 100 = 0
  BY DEF Numbers
<1>7. n < 10 => n \div 1000 = 0
  BY DEF Numbers
<1>8. XBit(0 % 10) = 0 /\ YBit(0 % 10) = 0
  BY DEF XBit, YBit
<1>9. \A k \in Nat : XBit(k % 10) \in 0 .. 1 /\ YBit(k % 10) \in 0 .. 1
  BY DEF XBit, YBit
<1>10. n \div 10 \in Nat
  BY DEF Numbers
<1>11. n \div 100 \in Nat
  BY DEF Numbers
<1>12. n \div 1000 \in Nat
  BY DEF Numbers
<1>13. n < 10 => XOf(n) = XBit(n % 10) /\ YOf(n) = YBit(n % 10)
  BY <1>1, <1>5, <1>6, <1>7, <1>8, <1>9 DEF XOf, YOf
<1>14. /\ XOf(n) = 2 * XOf(n \div 10) + XBit(n % 10)
       /\ YOf(n) = 2 * YOf(n \div 10) + YBit(n % 10)
  BY <1>2, <1>3, <1>4, <1>8, <1>9, <1>10, <1>11, <1>12, <1>1 DEF XOf, YOf
<1>15. OneDigit(Corner, n) = [x |-> XBit(n % 10), y |-> YBit(n % 10)]
  BY <1>9, <1>1 DEF OneDigit, Corner
<1>16. OneDigit(CellOf(n \div 10), n)
       = [x |-> 2 * XOf(n \div 10) + XBit(n % 10), y |-> 2 * YOf(n \div 10) + YBit(n % 10)]
  BY DEF OneDigit, CellOf
<1>17. CASE n < 10
  <2>1. CellOf(n) = OneDigit(Corner, n)
    BY <1>13, <1>15, <1>17 DEF CellOf
  <2> QED
    BY <2>1, <1>17
<1>18. CASE n >= 10
  <2>1. CellOf(n) = OneDigit(CellOf(n \div 10), n)
    BY <1>14, <1>16 DEF CellOf
  <2> QED
    BY <2>1, <1>18, <1>1
<1> QED
  BY <1>17, <1>18, <1>1

LEMMA SmallerNumber ==
    ASSUME NEW m \in Numbers, NEW n \in 0 .. m
    PROVE  n \in Numbers
<1>1. m \in Nat /\ m <= 9999
  BY DEF Numbers
<1>2. n \in Nat /\ n <= m
  BY <1>1
<1> QED
  BY <1>1, <1>2 DEF Numbers

\* The page reads a number digit by digit, from the first on.
LEMMA BitsOfNumber ==
    ASSUME NEW zorder \in Numbers
    PROVE  ConvertZordertoXY(zorder) = CellOf(zorder)
<1> DEFINE xy == CHOOSE f : f = [n \in 0 .. zorder |->
                                    OneDigit(IF n < 10 THEN Corner ELSE f[n \div 10], n)]
           known == [n \in 0 .. zorder |-> CellOf(n)]
<1>1. ConvertZordertoXY(zorder) = xy[zorder]
  BY DEF ConvertZordertoXY, OneDigit, Corner
<1>2. zorder \in Nat /\ zorder <= 9999
  BY DEF Numbers
<1>3. \A n \in 0 .. zorder : n \in Numbers
  BY SmallerNumber
<1>4. \A n \in 0 .. zorder : n \div 10 \in 0 .. zorder
  BY DEF Numbers
<1>5. known = [n \in 0 .. zorder |-> OneDigit(IF n < 10 THEN Corner ELSE known[n \div 10], n)]
  <2>1. \A n \in 0 .. zorder :
           CellOf(n) = OneDigit(IF n < 10 THEN Corner ELSE CellOf(n \div 10), n)
    BY <1>3, OneDigitMore
  <2> QED
    BY <2>1, <1>4
<1>6. xy = [n \in 0 .. zorder |-> OneDigit(IF n < 10 THEN Corner ELSE xy[n \div 10], n)]
  <2> HIDE DEF known
  <2> QED
    BY <1>5
<1> HIDE DEF xy, known
<1>7. ASSUME NEW n \in 0 .. zorder, n >= 10 => xy[n \div 10] = known[n \div 10]
      PROVE  xy[n] = known[n]
  BY <1>5, <1>6, <1>7, <1>2
<1> DEFINE n1 == zorder \div 10
           n2 == n1 \div 10
           n3 == n2 \div 10
<1>8. zorder \in 0 .. zorder /\ n1 \in 0 .. zorder /\ n2 \in 0 .. zorder /\ n3 \in 0 .. zorder
  BY <1>4, <1>2
<1>9. n3 < 10
  BY <1>2
<1>10. xy[n3] = known[n3]
  BY <1>7, <1>8, <1>9
<1>11. xy[n2] = known[n2]
  BY <1>7, <1>8, <1>10
<1>12. xy[n1] = known[n1]
  BY <1>7, <1>8, <1>11
<1>13. xy[zorder] = known[zorder]
  BY <1>7, <1>8, <1>12
<1> QED
  BY <1>1, <1>8, <1>13 DEF known

-----------------------------------------------------------------------------
(* Places.                                                                 *)

LEMMA CellOfPlace ==
    ASSUME NEW a \in Quarters, NEW b \in Quarters, NEW c \in Quarters, NEW d \in Quarters
    PROVE  Cell(<<3, a, b, c, d>>) =
               [x |-> 8 * XBit(a) + 4 * XBit(b) + 2 * XBit(c) + XBit(d),
                y |-> 8 * YBit(a) + 4 * YBit(b) + 2 * YBit(c) + YBit(d)]
<1> DEFINE zorder == 1000 * a + 100 * b + 10 * c + d
<1>1. zorder \in Numbers /\ Number(<<3, a, b, c, d>>) - 30000 = zorder
  <2>1. Number(<<3, a, b, c, d>>) = 30000 + 1000 * a + 100 * b + 10 * c + d
    BY NumberOfPlace
  <2>2. zorder \in Numbers
    <3>1. a \in 0 .. 3 /\ b \in 0 .. 3 /\ c \in 0 .. 3 /\ d \in 0 .. 3
      BY DEF Quarters
    <3>2. zorder \in Nat /\ zorder <= 3333
      BY <3>1
    <3> HIDE DEF zorder
    <3> QED
      BY <3>2 DEF Numbers
  <2> QED
    BY <2>1, <2>2 DEF Quarters
<1>2. (zorder \div 1000) % 10 = a
  BY DEF Quarters
<1>3. (zorder \div 100) % 10 = b
  BY DEF Quarters
<1>4. (zorder \div 10) % 10 = c
  BY DEF Quarters
<1>5. zorder % 10 = d
  BY DEF Quarters
<1>6. Cell(<<3, a, b, c, d>>) = CellOf(zorder)
  BY <1>1, BitsOfNumber DEF Cell
<1> QED
  BY <1>2, <1>3, <1>4, <1>5, <1>6 DEF CellOf, XOf, YOf

\* The bits of a number of four bits.
LEMMA FourBits ==
    ASSUME NEW p \in 0 .. 1, NEW q \in 0 .. 1, NEW r \in 0 .. 1, NEW s \in 0 .. 1
    PROVE  LET n == 8 * p + 4 * q + 2 * r + s
           IN  /\ n \in 0 .. 15
               /\ (n \div 8) % 2 = p
               /\ (n \div 4) % 2 = q
               /\ (n \div 2) % 2 = r
               /\ (n \div 1) % 2 = s
<1> DEFINE n == 8 * p + 4 * q + 2 * r + s
<1>1. n \in 0 .. 15
  OBVIOUS
<1>2. (n \div 8) % 2 = p
  OBVIOUS
<1>3. (n \div 4) % 2 = q
  OBVIOUS
<1>4. (n \div 2) % 2 = r
  OBVIOUS
<1>5. (n \div 1) % 2 = s
  OBVIOUS
<1> QED
  BY <1>1, <1>2, <1>3, <1>4, <1>5

\* A location of the map leads to a cell of the map, which lies in the square of that
\* location and of no other.
THEOREM PlacesHaveTheirCells ==
    ASSUME NEW place \in Places
    PROVE  /\ Cell(place) \in Grid
           /\ \A other \in Places : InSquare(Cell(place), other) <=> other = place
<1>1. PICK a, b, c, d \in Quarters : place = <<3, a, b, c, d>>
  BY DEF Places
<1> DEFINE x == 8 * XBit(a) + 4 * XBit(b) + 2 * XBit(c) + XBit(d)
           y == 8 * YBit(a) + 4 * YBit(b) + 2 * YBit(c) + YBit(d)
<1>2. Cell(place) = [x |-> x, y |-> y]
  <2>1. Cell(<<3, a, b, c, d>>) = [x |-> x, y |-> y]
    BY CellOfPlace
  <2> QED
    BY <1>1, <2>1
<1>3. /\ XBit(a) \in 0 .. 1 /\ XBit(b) \in 0 .. 1 /\ XBit(c) \in 0 .. 1 /\ XBit(d) \in 0 .. 1
      /\ YBit(a) \in 0 .. 1 /\ YBit(b) \in 0 .. 1 /\ YBit(c) \in 0 .. 1 /\ YBit(d) \in 0 .. 1
  <2>1. \A k \in Quarters : XBit(k) \in 0 .. 1 /\ YBit(k) \in 0 .. 1
    BY DEF XBit, YBit, Quarters
  <2> QED
    BY <2>1
<1>4. /\ x \in 0 .. 15
      /\ (x \div 8) % 2 = XBit(a) /\ (x \div 4) % 2 = XBit(b)
      /\ (x \div 2) % 2 = XBit(c) /\ (x \div 1) % 2 = XBit(d)
  BY <1>3, FourBits
<1>5. /\ y \in 0 .. 15
      /\ (y \div 8) % 2 = YBit(a) /\ (y \div 4) % 2 = YBit(b)
      /\ (y \div 2) % 2 = YBit(c) /\ (y \div 1) % 2 = YBit(d)
  BY <1>3, FourBits
<1> HIDE DEF x, y
<1>6. ASSUME NEW other \in Places
      PROVE  InSquare(Cell(place), other) <=> other = place
  <2>1. PICK e, f, g, h \in Quarters : other = <<3, e, f, g, h>>
    BY DEF Places
  <2>2. InSquare(Cell(place), other) <=>
            /\ (XBit(a) = 1 <=> e \in {1, 3}) /\ (YBit(a) = 1 <=> e \in {2, 3})
            /\ (XBit(b) = 1 <=> f \in {1, 3}) /\ (YBit(b) = 1 <=> f \in {2, 3})
            /\ (XBit(c) = 1 <=> g \in {1, 3}) /\ (YBit(c) = 1 <=> g \in {2, 3})
            /\ (XBit(d) = 1 <=> h \in {1, 3}) /\ (YBit(d) = 1 <=> h \in {2, 3})
    <3> DEFINE Agrees(i) ==
                   LET side == <<16, 8, 4, 2, 1>>[i]
                   IN  /\ (x \div side) % 2 = 1 <=> other[i] \in {1, 3}
                       /\ (y \div side) % 2 = 1 <=> other[i] \in {2, 3}
    <3>1. Cell(place).x = x /\ Cell(place).y = y
      BY <1>2
    <3>2. /\ Len(other) = 5
          /\ other[2] = e /\ other[3] = f /\ other[4] = g /\ other[5] = h
      BY <2>1
    <3>3. InSquare(Cell(place), other) <=> \A i \in 2 .. 5 : Agrees(i)
      BY <3>1, <3>2 DEF InSquare
    <3>4. Agrees(2) <=> (XBit(a) = 1 <=> e \in {1, 3}) /\ (YBit(a) = 1 <=> e \in {2, 3})
      BY <1>4, <1>5, <3>2
    <3>5. Agrees(3) <=> (XBit(b) = 1 <=> f \in {1, 3}) /\ (YBit(b) = 1 <=> f \in {2, 3})
      BY <1>4, <1>5, <3>2
    <3>6. Agrees(4) <=> (XBit(c) = 1 <=> g \in {1, 3}) /\ (YBit(c) = 1 <=> g \in {2, 3})
      BY <1>4, <1>5, <3>2
    <3>7. Agrees(5) <=> (XBit(d) = 1 <=> h \in {1, 3}) /\ (YBit(d) = 1 <=> h \in {2, 3})
      BY <1>4, <1>5, <3>2
    <3> HIDE DEF Agrees
    <3>8. (\A i \in 2 .. 5 : Agrees(i)) <=> Agrees(2) /\ Agrees(3) /\ Agrees(4) /\ Agrees(5)
      OBVIOUS
    <3> QED
      BY <3>3, <3>4, <3>5, <3>6, <3>7, <3>8
  <2>3. \A k, l \in Quarters :
           (XBit(k) = 1 <=> l \in {1, 3}) /\ (YBit(k) = 1 <=> l \in {2, 3}) <=> k = l
    BY DEF XBit, YBit, Quarters
  <2>4. other = place <=> a = e /\ b = f /\ c = g /\ d = h
    BY <1>1, <2>1
  <2> QED
    BY <2>2, <2>3, <2>4
<1> QED
  BY <1>2, <1>4, <1>5, <1>6 DEF Grid

\* A number of four bits is that of its bits.
LEMMA FromFourBits ==
    ASSUME NEW n \in 0 .. 15
    PROVE  n = 8 * ((n \div 8) % 2) + 4 * ((n \div 4) % 2)
               + 2 * ((n \div 2) % 2) + ((n \div 1) % 2)
<1>1. (n \div 8) % 2 = n \div 8
  OBVIOUS
<1>2. (n \div 4) % 2 = n \div 4 - 2 * (n \div 8)
  OBVIOUS
<1>3. (n \div 2) % 2 = n \div 2 - 2 * (n \div 4)
  OBVIOUS
<1>4. (n \div 1) % 2 = n - 2 * (n \div 2)
  OBVIOUS
<1> QED
  BY <1>1, <1>2, <1>3, <1>4

\* The square of a location has no other cell in it than the one it leads to.
THEOREM SquaresHaveOneCell ==
    ASSUME NEW place \in Places, NEW cell \in Grid, InSquare(cell, place)
    PROVE  cell = Cell(place)
<1>1. PICK a, b, c, d \in Quarters : place = <<3, a, b, c, d>>
  BY DEF Places
<1> DEFINE Bits(n, side) == (n \div side) % 2
           x == cell.x
           y == cell.y
<1>2. x \in 0 .. 15 /\ y \in 0 .. 15 /\ cell = [x |-> x, y |-> y]
  BY DEF Grid
<1> HIDE DEF x, y
<1>3. \A n \in 0 .. 15 : /\ Bits(n, 8) \in 0 .. 1 /\ Bits(n, 4) \in 0 .. 1
                         /\ Bits(n, 2) \in 0 .. 1 /\ Bits(n, 1) \in 0 .. 1
  OBVIOUS
<1>4. \A k \in Quarters :
         /\ XBit(k) \in 0 .. 1 /\ (XBit(k) = 1 <=> k \in {1, 3})
         /\ YBit(k) \in 0 .. 1 /\ (YBit(k) = 1 <=> k \in {2, 3})
  BY DEF XBit, YBit, Quarters
<1>5. /\ Bits(x, 8) = 1 <=> a \in {1, 3}
      /\ Bits(x, 4) = 1 <=> b \in {1, 3}
      /\ Bits(x, 2) = 1 <=> c \in {1, 3}
      /\ Bits(x, 1) = 1 <=> d \in {1, 3}
      /\ Bits(y, 8) = 1 <=> a \in {2, 3}
      /\ Bits(y, 4) = 1 <=> b \in {2, 3}
      /\ Bits(y, 2) = 1 <=> c \in {2, 3}
      /\ Bits(y, 1) = 1 <=> d \in {2, 3}
  <2> DEFINE Agrees(i) ==
                 LET side == <<16, 8, 4, 2, 1>>[i]
                 IN  /\ Bits(x, side) = 1 <=> place[i] \in {1, 3}
                     /\ Bits(y, side) = 1 <=> place[i] \in {2, 3}
  <2>1. /\ Len(place) = 5
        /\ place[2] = a /\ place[3] = b /\ place[4] = c /\ place[5] = d
    BY <1>1
  <2>2. \A i \in 2 .. 5 : Agrees(i)
    BY <2>1 DEF InSquare, x, y
  <2> HIDE DEF Bits
  <2>3. Agrees(2) /\ Agrees(3) /\ Agrees(4) /\ Agrees(5)
    <3> HIDE DEF Agrees
    <3> QED
      BY <2>2
  <2> QED
    BY <2>1, <2>3
<1>6. /\ x = 8 * Bits(x, 8) + 4 * Bits(x, 4) + 2 * Bits(x, 2) + Bits(x, 1)
      /\ y = 8 * Bits(y, 8) + 4 * Bits(y, 4) + 2 * Bits(y, 2) + Bits(y, 1)
  BY <1>2, FromFourBits
<1> HIDE DEF Bits
<1>7. /\ Bits(x, 8) = XBit(a) /\ Bits(x, 4) = XBit(b)
      /\ Bits(x, 2) = XBit(c) /\ Bits(x, 1) = XBit(d)
  BY <1>2, <1>3, <1>4, <1>5
<1>8. /\ Bits(y, 8) = YBit(a) /\ Bits(y, 4) = YBit(b)
      /\ Bits(y, 2) = YBit(c) /\ Bits(y, 1) = YBit(d)
  BY <1>2, <1>3, <1>4, <1>5
<1>9. Cell(<<3, a, b, c, d>>) = [x |-> x, y |-> y]
  BY <1>6, <1>7, <1>8, CellOfPlace
<1> QED
  BY <1>1, <1>2, <1>9
-----------------------------------------------------------------------------
(* Places within the cell of another.                                      *)

\* Numbers that have the first one, and with each the next, are all numbers up to n.
LEMMA Induction ==
    ASSUME NEW n \in Nat, NEW S, 0 \in S, \A k \in 0 .. n - 1 : k \in S => k + 1 \in S
    PROVE  0 .. n \subseteq S
<1> DEFINE T == {k \in 0 .. n : k \notin S}
<1> SUFFICES ASSUME T # {} PROVE FALSE
  OBVIOUS
<1>1. PICK k \in T : \A y \in T : k <= y
  <2> DEFINE Less == {pair \in Nat \X Nat : pair[1] < pair[2]}
  <2>1. T \in SUBSET Nat
    OBVIOUS
  <2>2. IsWellFoundedOn(Less, Nat)
    BY NatLessThanWellFounded DEF OpToRel
  <2>3. \A y, k \in Nat : y < k => <<y, k>> \in Less
    OBVIOUS
  <2> HIDE DEF T, Less
  <2>4. PICK k \in T : \A y \in T : <<y, k>> \notin Less
    BY <2>1, <2>2, WFMin
  <2>5. \A y \in T : ~(y < k)
    BY <2>1, <2>3, <2>4
  <2> QED
    BY <2>1, <2>5
<1>2. k # 0 /\ k - 1 \in 0 .. n - 1 /\ k - 1 \in 0 .. n
  BY <1>1
<1>3. k - 1 \in S
  BY <1>1, <1>2
<1> QED
  BY <1>1, <1>2, <1>3

\* A prefix of a sequence has its characters.
LEMMA PrefixesAgree ==
    ASSUME NEW S, NEW T, NEW w \in Seq(S), NEW q \in Seq(T), IsPrefix(w, q)
    PROVE  Len(w) <= Len(q) /\ \A i \in 1 .. Len(w) : w[i] = q[i]
<1> DEFINE n == Len(w)
<1>1. n \in Nat /\ Len(q) \in Nat /\ n <= Len(q) /\ SubSeq(w, 1, n) = SubSeq(q, 1, n)
  BY DEF IsPrefix
<1>2. ASSUME NEW i \in 1 .. n PROVE w[i] = q[i]
  <2>1. i \in 1 .. Len(w) /\ i \in 1 .. Len(q)
    BY <1>1
  <2>2. SubSeq(w, 1, n)[i] = w[i]
    BY <1>1, <2>1
  <2>3. SubSeq(q, 1, n)[i] = q[i]
    BY <1>1, <2>1
  <2> QED
    BY <1>1, <2>2, <2>3
<1> QED
  BY <1>1, <1>2

\* No location is within two places.
LEMMA OnePlace ==
    ASSUME NEW place \in Places, NEW other \in Places, NEW location \in Seq(0 .. 9),
           IsPrefix(place, location), IsPrefix(other, location)
    PROVE  place = other
<1>1. \A w \in Places : w \in Seq(0 .. 9) /\ Len(w) = 5 /\ w = <<w[1], w[2], w[3], w[4], w[5]>>
  <2> TAKE w \in Places
  <2>1. PICK a, b, c, d \in Quarters : w = <<3, a, b, c, d>>
    BY DEF Places
  <2>2. a \in 0 .. 3 /\ b \in 0 .. 3 /\ c \in 0 .. 3 /\ d \in 0 .. 3
    BY DEF Quarters
  <2> QED
    BY <2>1, <2>2
<1> DEFINE S == 0 .. 9
<1>2. place \in Seq(S) /\ other \in Seq(S) /\ location \in Seq(S)
  BY <1>1
<1> HIDE DEF S
<1>3. \A i \in 1 .. Len(place) : place[i] = location[i]
  BY <1>2, PrefixesAgree
<1>4. \A i \in 1 .. Len(other) : other[i] = location[i]
  BY <1>2, PrefixesAgree
<1>5. \A i \in 1 .. 5 : place[i] = other[i]
  BY <1>1, <1>3, <1>4
<1>6. place[1] = other[1] /\ place[2] = other[2] /\ place[3] = other[3] /\ place[4] = other[4]
      /\ place[5] = other[5]
  BY <1>5
<1> QED
  BY <1>1, <1>6

\* A location is read digit by digit.
LEMMA NumberByDigits ==
    ASSUME NEW location \in Seq(Nat)
    PROVE  \E value : /\ Number(location) = value[Len(location)]
                      /\ value[0] = 0
                      /\ \A i \in 1 .. Len(location) : value[i] = 10 * value[i - 1] + location[i]
<1> DEFINE n == Len(location)
           Reads(f, k) == f = [i \in 0 .. k |-> IF i = 0 THEN 0 ELSE 10 * f[i - 1] + location[i]]
           S == {k \in 0 .. n : \E f : Reads(f, k)}
           value == CHOOSE f : Reads(f, n)
<1>1. n \in Nat
  OBVIOUS
<1>2. Number(location) = value[n]
  BY DEF Number
<1> HIDE DEF n
<1>3. 0 \in S
  <2>1. Reads([i \in 0 .. 0 |-> 0], 0)
    OBVIOUS
  <2> HIDE DEF Reads
  <2> QED
    BY <1>1, <2>1
<1>4. ASSUME NEW k \in 0 .. n - 1, k \in S PROVE k + 1 \in S
  <2>1. PICK f : Reads(f, k)
    BY <1>4
  <2> DEFINE g == [i \in 0 .. k + 1 |->
                      IF i = k + 1 THEN 10 * f[k] + location[k + 1] ELSE f[i]]
  <2>2. ASSUME NEW i \in 0 .. k + 1
        PROVE  g[i] = IF i = 0 THEN 0 ELSE 10 * g[i - 1] + location[i]
    <3>1. CASE i = k + 1
      BY <1>1, <3>1
    <3>2. CASE i # k + 1
      <4>1. i \in 0 .. k /\ g[i] = f[i] /\ (i # 0 => g[i - 1] = f[i - 1])
        BY <1>1, <3>2
      <4> QED
        BY <2>1, <4>1
    <3> QED
      BY <3>1, <3>2
  <2>3. Reads(g, k + 1)
    <3>1. g = [i \in 0 .. k + 1 |-> g[i]]
      OBVIOUS
    <3> HIDE DEF g
    <3> QED
      BY <2>2, <3>1
  <2> HIDE DEF Reads
  <2> QED
    BY <1>1, <2>3
<1>5. Reads(value, n)
  <2>1. 0 .. n \subseteq S
    <3> HIDE DEF S
    <3> QED
      BY <1>1, <1>3, <1>4, Induction
  <2> HIDE DEF Reads
  <2> QED
    BY <1>1, <2>1
<1> HIDE DEF value
<1>6. value[0] = 0 /\ \A i \in 1 .. n : value[i] = 10 * value[i - 1] + location[i]
  BY <1>1, <1>5
<1> HIDE DEF Reads
<1> QED
  BY <1>2, <1>6 DEF n

\* And so is what is left of its number.
LEMMA BitsByDigits ==
    ASSUME NEW zorder \in Nat
    PROVE  \E xy : /\ ConvertZordertoXY(zorder) = xy[zorder]
                   /\ \A n \in 0 .. zorder :
                         xy[n] = OneDigit(IF n < 10 THEN Corner ELSE xy[n \div 10], n)
<1> DEFINE Reads(f, k) == f = [n \in 0 .. k |-> OneDigit(IF n < 10 THEN Corner ELSE f[n \div 10], n)]
           S == {k \in 0 .. zorder : \E f : Reads(f, k)}
           xy == CHOOSE f : Reads(f, zorder)
<1>1. ConvertZordertoXY(zorder) = xy[zorder]
  BY DEF ConvertZordertoXY, OneDigit, Corner
<1>2. 0 \in S
  <2>1. Reads([n \in 0 .. 0 |-> OneDigit(Corner, 0)], 0)
    OBVIOUS
  <2> HIDE DEF Reads
  <2> QED
    BY <2>1
<1>3. ASSUME NEW k \in 0 .. zorder - 1, k \in S PROVE k + 1 \in S
  <2>1. PICK f : Reads(f, k)
    BY <1>3
  <2> DEFINE g == [n \in 0 .. k + 1 |->
                      IF n = k + 1 THEN OneDigit(IF n < 10 THEN Corner ELSE f[n \div 10], n) ELSE f[n]]
  <2>2. ASSUME NEW n \in 0 .. k + 1
        PROVE  g[n] = OneDigit(IF n < 10 THEN Corner ELSE g[n \div 10], n)
    <3>1. n >= 10 => n \div 10 \in 0 .. k /\ n \div 10 # k + 1
      OBVIOUS
    <3>2. n >= 10 => g[n \div 10] = f[n \div 10]
      BY <3>1
    <3>3. CASE n = k + 1
      BY <3>2, <3>3
    <3>4. CASE n # k + 1
      <4>1. n \in 0 .. k /\ g[n] = f[n]
        BY <3>4
      <4>2. f[n] = OneDigit(IF n < 10 THEN Corner ELSE f[n \div 10], n)
        BY <2>1, <4>1
      <4> HIDE DEF g
      <4> QED
        BY <3>2, <4>1, <4>2
    <3> QED
      BY <3>3, <3>4
  <2>3. Reads(g, k + 1)
    <3>1. g = [n \in 0 .. k + 1 |-> g[n]]
      OBVIOUS
    <3> HIDE DEF g
    <3> QED
      BY <2>2, <3>1
  <2> HIDE DEF Reads
  <2> QED
    BY <2>3
<1>4. Reads(xy, zorder)
  <2>1. 0 .. zorder \subseteq S
    <3> HIDE DEF S
    <3> QED
      BY <1>2, <1>3, Induction
  <2> HIDE DEF Reads
  <2> QED
    BY <2>1
<1> HIDE DEF xy
<1>5. \A n \in 0 .. zorder : xy[n] = OneDigit(IF n < 10 THEN Corner ELSE xy[n \div 10], n)
  BY <1>4
<1> HIDE DEF Reads
<1> QED
  BY <1>1, <1>5

\* The numbers with as many digits as p that begin with 2 or 3 lead below row c.
Below(xy, zorder, p, c) ==
    \A n \in 0 .. zorder : 2 * p <= n /\ n < 4 * p => xy[n].y \in Nat /\ xy[n].y >= c

\* With one digit more they lead twice as far down.
LEMMA TwiceAsFar ==
    ASSUME NEW zorder \in Nat, NEW xy,
           \A n \in 0 .. zorder : xy[n] = OneDigit(IF n < 10 THEN Corner ELSE xy[n \div 10], n),
           NEW p \in Nat, p >= 1, NEW c \in Nat, Below(xy, zorder, p, c)
    PROVE  Below(xy, zorder, 10 * p, 2 * c)
<1> SUFFICES ASSUME NEW n \in 0 .. zorder, 2 * (10 * p) <= n, n < 4 * (10 * p)
             PROVE  xy[n].y \in Nat /\ xy[n].y >= 2 * c
  BY DEF Below
<1> DEFINE m == n \div 10
<1>1. m \in 0 .. zorder /\ 2 * p <= m /\ m < 4 * p /\ n >= 10
  OBVIOUS
<1>2. xy[m].y \in Nat /\ xy[m].y >= c
  BY <1>1 DEF Below
<1>3. xy[n] = OneDigit(xy[m], n)
  BY <1>1
<1> HIDE DEF m
<1>4. xy[n].y = 2 * xy[m].y + YBit(n % 10)
  BY <1>3 DEF OneDigit
<1>5. YBit(n % 10) \in 0 .. 1
  BY DEF YBit
<1> QED
  BY <1>2, <1>4, <1>5

\* A number with as many digits as p that begins with 3, and the one digit longer.
Between(v, p) == v \in Nat /\ 3 * p <= v /\ v < 4 * p

LEMMA NextDigit ==
    ASSUME NEW p \in Nat, NEW v \in Nat, NEW d \in 0 .. 9, Between(v, p)
    PROVE  Between(10 * v + d, 10 * p)
<1> QED
  BY DEF Between

\* A location within the cell of a place has more digits, and leads to no row.
THEOREM PlacesWithinHaveNoRow ==
    ASSUME NEW place \in Places, NEW location \in Seq(0 .. 9),
           IsPrefix(place, location), location # place
    PROVE  Cell(location).y > 15
<1> DEFINE n == Len(location)
<1>1. /\ place \in Seq(0 .. 9) /\ Len(place) = 5 /\ place[1] = 3
      /\ place[2] \in 0 .. 3 /\ place[3] \in 0 .. 3 /\ place[4] \in 0 .. 3 /\ place[5] \in 0 .. 3
  <2>1. PICK a, b, c, d \in Quarters : place = <<3, a, b, c, d>>
    BY DEF Places
  <2>2. a \in 0 .. 3 /\ b \in 0 .. 3 /\ c \in 0 .. 3 /\ d \in 0 .. 3
    BY DEF Quarters
  <2> QED
    BY <2>1, <2>2
<1>2. n \in Nat /\ 5 <= n /\ \A i \in 1 .. 5 : location[i] = place[i]
  <2>1. Len(place) <= Len(location) /\ \A i \in 1 .. Len(place) : place[i] = location[i]
    <3> DEFINE S == 0 .. 9
    <3>1. place \in Seq(S) /\ location \in Seq(S)
      BY <1>1
    <3> HIDE DEF S
    <3> QED
      BY <3>1, PrefixesAgree
  <2>2. n \in Nat
    OBVIOUS
  <2> HIDE DEF n
  <2>3. 5 <= n
    BY <1>1, <2>1 DEF n
  <2>4. ASSUME NEW i \in 1 .. 5 PROVE location[i] = place[i]
    BY <1>1, <2>1
  <2> QED
    BY <2>2, <2>3, <2>4
<1>3. n # 5
  <2> SUFFICES ASSUME n = 5 PROVE FALSE
    OBVIOUS
  <2>1. location = [i \in 1 .. 5 |-> location[i]]
    OBVIOUS
  <2>2. place = [i \in 1 .. 5 |-> place[i]]
    BY <1>1
  <2>3. location = place
    BY <1>2, <2>1, <2>2
  <2> QED
    BY <2>3
<1>4. location \in Seq(Nat) /\ \A i \in 1 .. n : location[i] \in 0 .. 9
  OBVIOUS
<1>5. PICK value : /\ Number(location) = value[n]
                   /\ value[0] = 0
                   /\ \A i \in 1 .. n : value[i] = 10 * value[i - 1] + location[i]
  BY <1>4, NumberByDigits
<1> HIDE DEF n
<1>6. ASSUME NEW i \in 2 .. n, NEW p \in Nat, NEW q, q = 10 * p, Between(value[i - 1], p)
      PROVE  Between(value[i], q)
  <2> DEFINE v == value[i - 1]
             d == location[i]
  <2>1. i \in 1 .. n
    BY <1>2
  <2>2. value[i] = 10 * v + d /\ d \in 0 .. 9
    BY <1>4, <1>5, <2>1
  <2>3. v \in Nat /\ Between(v, p)
    BY <1>6 DEF Between
  <2> HIDE DEF v, d
  <2>4. Between(10 * v + d, 10 * p)
    BY <2>2, <2>3, NextDigit
  <2> QED
    BY <1>6, <2>2, <2>4
<1>7. Between(value[6], 100000)
  <2>1. 2 \in 2 .. n /\ 3 \in 2 .. n /\ 4 \in 2 .. n /\ 5 \in 2 .. n /\ 6 \in 2 .. n
    BY <1>2, <1>3
  <2> DEFINE p4 == 10000
             p3 == 1000
  <2>2. p4 \in Nat /\ p3 \in Nat /\ p4 = 10 * p3 /\ p3 = 10 * 100 /\ 10 * p4 = 100000
    OBVIOUS
  <2> HIDE DEF p3, p4
  <2>3. Between(value[1], 1)
    <3>1. value[1] = 10 * value[0] + location[1] /\ location[1] = 3
      BY <1>1, <1>2, <1>5
    <3> QED
      BY <1>5, <3>1 DEF Between
  <2>4. Between(value[2], 10)
    BY <1>6, <2>1, <2>3
  <2>5. Between(value[3], 100)
    BY <1>6, <2>1, <2>4
  <2>6. Between(value[4], p3)
    BY <1>6, <2>1, <2>2, <2>5
  <2>7. Between(value[5], p4)
    BY <1>6, <2>1, <2>2, <2>6
  <2>8. Between(value[6], 10 * p4)
    BY <1>6, <2>1, <2>2, <2>7
  <2> QED
    BY <2>2, <2>8
<1> DEFINE Lead(p) == \A zorder \in Nat : \A xy :
                         (\A k \in 0 .. zorder :
                             xy[k] = OneDigit(IF k < 10 THEN Corner ELSE xy[k \div 10], k))
                         => Below(xy, zorder, p, 32)
           S == {k \in 0 .. n - 6 : \E p \in Nat : p >= 100000 /\ Between(value[k + 6], p) /\ Lead(p)}
<1>8. Lead(100000)
  <2> SUFFICES ASSUME NEW zorder \in Nat, NEW xy,
                      \A k \in 0 .. zorder :
                         xy[k] = OneDigit(IF k < 10 THEN Corner ELSE xy[k \div 10], k)
               PROVE  Below(xy, zorder, 100000, 32)
    OBVIOUS
  <2>1. Below(xy, zorder, 1, 1)
    <3> SUFFICES ASSUME NEW k \in 0 .. zorder, k \in {2, 3}
                 PROVE  xy[k].y \in Nat /\ xy[k].y >= 1
      BY DEF Below
    <3>1. xy[k] = OneDigit(Corner, k)
      OBVIOUS
    <3>2. YBit(k % 10) = 1
      BY DEF YBit
    <3> QED
      BY <3>1, <3>2 DEF OneDigit, Corner
  <2>2. Below(xy, zorder, 10, 2)
    BY <2>1, TwiceAsFar
  <2>3. Below(xy, zorder, 100, 4)
    BY <2>2, TwiceAsFar
  <2>4. Below(xy, zorder, 1000, 8)
    BY <2>3, TwiceAsFar
  <2>5. Below(xy, zorder, 10000, 16)
    BY <2>4, TwiceAsFar
  <2> QED
    BY <2>5, TwiceAsFar
<1>9. ASSUME NEW p \in Nat, p >= 1, Lead(p) PROVE Lead(10 * p)
  <2> SUFFICES ASSUME NEW zorder \in Nat, NEW xy,
                      \A k \in 0 .. zorder :
                         xy[k] = OneDigit(IF k < 10 THEN Corner ELSE xy[k \div 10], k)
               PROVE  Below(xy, zorder, 10 * p, 32)
    OBVIOUS
  <2>1. Below(xy, zorder, p, 32)
    BY <1>9
  <2>2. p >= 1
    BY <1>9
  <2>3. Below(xy, zorder, 10 * p, 2 * 32)
    BY <2>1, <2>2, TwiceAsFar
  <2> QED
    BY <2>3 DEF Below
<1> HIDE DEF Lead
<1>10. 0 \in S
  BY <1>2, <1>3, <1>7, <1>8
<1>11. ASSUME NEW k \in 0 .. (n - 6) - 1, k \in S PROVE k + 1 \in S
  <2>1. PICK p \in Nat : p >= 100000 /\ Between(value[k + 6], p) /\ Lead(p)
    BY <1>11
  <2>2. k + 7 \in 2 .. n /\ (k + 7) - 1 = k + 6 /\ (k + 1) + 6 = k + 7 /\ k + 1 \in 0 .. n - 6
    BY <1>2
  <2>3. Between(value[k + 7], 10 * p)
    BY <1>6, <2>1, <2>2
  <2>4. Lead(10 * p) /\ 10 * p \in Nat /\ 10 * p >= 100000
    BY <1>9, <2>1
  <2> QED
    BY <2>2, <2>3, <2>4
<1>12. PICK p \in Nat : p >= 100000 /\ Between(Number(location), p) /\ Lead(p)
  <2>1. n - 6 \in Nat /\ (n - 6) + 6 = n
    BY <1>2, <1>3
  <2>2. 0 .. n - 6 \subseteq S
    <3> HIDE DEF S
    <3> QED
      BY <1>10, <1>11, <2>1, Induction
  <2>3. n - 6 \in S
    <3> HIDE DEF S
    <3> QED
      BY <2>1, <2>2
  <2> QED
    BY <1>5, <2>1, <2>3
<1> DEFINE zorder == Number(location) - 30000
<1>13. zorder \in Nat /\ 2 * p <= zorder /\ zorder < 4 * p
  BY <1>12 DEF Between
<1> HIDE DEF zorder
<1>14. PICK xy : /\ ConvertZordertoXY(zorder) = xy[zorder]
                 /\ \A k \in 0 .. zorder :
                       xy[k] = OneDigit(IF k < 10 THEN Corner ELSE xy[k \div 10], k)
  BY <1>13, BitsByDigits
<1>15. Below(xy, zorder, p, 32)
  BY <1>12, <1>13, <1>14 DEF Lead
<1>16. xy[zorder].y \in Nat /\ xy[zorder].y >= 32
  BY <1>13, <1>15 DEF Below
<1> QED
  BY <1>14, <1>16 DEF Cell, zorder
=============================================================================
