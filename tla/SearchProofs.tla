----------------------------- MODULE SearchProofs -----------------------------
(***************************************************************************)
(* Theorems about Search, for any workers, scenes and requests.  What the  *)
(* detector says they take from DetectionProofs, and the cells of the map  *)
(* from ZOrderProofs.                                                      *)
(***************************************************************************)
EXTENDS Search, DetectionProofs, ZOrderProofs, SequenceTheorems

-----------------------------------------------------------------------------
(* What becomes of the characters of an item.                              *)

\* Sequences are put together one after the other.
LEMMA Flattening ==
    ASSUME NEW T, NEW seqs \in Seq(Seq(T)), Len(seqs) # 0
    PROVE  \E f \in [1 .. Len(seqs) -> Seq(T)] :
              /\ FlattenSeq(seqs) = f[Len(seqs)]
              /\ f[1] = seqs[1]
              /\ \A i \in 2 .. Len(seqs) : f[i] = f[i - 1] \o seqs[i]
<1> DEFINE n == Len(seqs)
           Flat(f, k) == /\ f \in [1 .. k -> Seq(T)]
                         /\ \A i \in 1 .. k : f[i] = IF i = 1 THEN seqs[1] ELSE f[i - 1] \o seqs[i]
           S == {k \in 0 .. n : \E f : Flat(f, k)}
<1>1. n \in Nat /\ n # 0 /\ \A i \in 1 .. n : seqs[i] \in Seq(T)
  OBVIOUS
<1> HIDE DEF n
<1>2. 0 \in S
  <2>1. Flat([i \in 1 .. 0 |-> <<>>], 0)
    OBVIOUS
  <2> HIDE DEF Flat
  <2> QED
    BY <2>1, <1>1
<1>3. ASSUME NEW k \in 0 .. n - 1, k \in S PROVE k + 1 \in S
  <2>1. PICK f : Flat(f, k)
    BY <1>3
  <2> DEFINE next == IF k = 0 THEN seqs[1] ELSE f[k] \o seqs[k + 1]
             g == [i \in 1 .. k + 1 |-> IF i = k + 1 THEN next ELSE f[i]]
  <2>2. next \in Seq(T)
    BY <1>1, <2>1
  <2>3. g \in [1 .. k + 1 -> Seq(T)]
    <3> HIDE DEF next
    <3> QED
      BY <2>1, <2>2
  <2>4. \A i \in 1 .. k + 1 : g[i] = IF i = 1 THEN seqs[1] ELSE g[i - 1] \o seqs[i]
    <3> TAKE i \in 1 .. k + 1
    <3>1. CASE i = k + 1
      <4>1. g[i] = next /\ (k # 0 => g[i - 1] = f[k])
        BY <3>1, <1>1
      <4> QED
        BY <3>1, <4>1
    <3>2. CASE i # k + 1
      <4>1. i \in 1 .. k /\ g[i] = f[i] /\ (i # 1 => g[i - 1] = f[i - 1])
        BY <3>2, <1>1
      <4> QED
        BY <4>1, <2>1
    <3> QED
      BY <3>1, <3>2
  <2>5. Flat(g, k + 1)
    <3> HIDE DEF g
    <3> QED
      BY <2>3, <2>4
  <2> HIDE DEF Flat
  <2> QED
    BY <1>1, <1>3, <2>5
<1>4. PICK f : Flat(f, n)
  <2>1. 0 .. n \subseteq S
    <3> HIDE DEF S
    <3> QED
      BY <1>1, <1>2, <1>3, Induction
  <2>2. n \in S
    <3> HIDE DEF S
    <3> QED
      BY <2>1, <1>1
  <2> HIDE DEF Flat
  <2> QED
    BY <2>2
<1> DEFINE flatten == CHOOSE h : h = [i \in 1 .. n |-> IF i = 1 THEN seqs[i] ELSE h[i - 1] \o seqs[i]]
<1>5. FlattenSeq(seqs) = flatten[n]
  BY <1>1 DEF FlattenSeq, n
<1>6. f = [i \in 1 .. n |-> IF i = 1 THEN seqs[i] ELSE f[i - 1] \o seqs[i]]
  BY <1>4
<1>7. flatten = [i \in 1 .. n |-> IF i = 1 THEN seqs[i] ELSE flatten[i - 1] \o seqs[i]]
  BY <1>6
<1> HIDE DEF flatten
<1>8. 1 .. n \subseteq {i \in 0 .. n : i # 0 => flatten[i] = f[i]}
  <2> DEFINE Same == {i \in 0 .. n : i # 0 => flatten[i] = f[i]}
  <2>1. 0 \in Same
    BY <1>1
  <2>2. ASSUME NEW k \in 0 .. n - 1, k \in Same PROVE k + 1 \in Same
    <3>1. k + 1 \in 1 .. n /\ (k + 1) - 1 = k
      BY <1>1
    <3>2. flatten[k + 1] = IF k + 1 = 1 THEN seqs[k + 1] ELSE flatten[(k + 1) - 1] \o seqs[k + 1]
      BY <1>7, <3>1
    <3>3. f[k + 1] = IF k + 1 = 1 THEN seqs[k + 1] ELSE f[(k + 1) - 1] \o seqs[k + 1]
      BY <1>6, <3>1
    <3> QED
      BY <1>1, <2>2, <3>1, <3>2, <3>3
  <2>3. 0 .. n \subseteq Same
    <3> HIDE DEF Same
    <3> QED
      BY <1>1, <2>1, <2>2, Induction
  <2> QED
    BY <2>3
<1>9. flatten[n] = f[n]
  BY <1>1, <1>8
<1>10. f[1] = seqs[1]
  BY <1>1, <1>6
<1>11. ASSUME NEW i \in 2 .. n PROVE f[i] = f[i - 1] \o seqs[i]
  <2>1. i \in 1 .. n /\ i # 1
    BY <1>1
  <2> QED
    BY <1>6, <2>1
<1> QED
  BY <1>4, <1>5, <1>9, <1>10, <1>11 DEF n

\* What a character is read as.
Escape(c) == IF c \in Foreign THEN <<Percent, c>> ELSE <<c>>

\* An item is read character by character.
LEMMA Decoding ==
    ASSUME NEW item \in Seq(Nat)
    PROVE  \E f \in [0 .. Len(item) -> Seq(Int)] :
              /\ DecodeURI(item) = f[Len(item)]
              /\ f[0] = <<>>
              /\ \A i \in 1 .. Len(item) : f[i] = f[i - 1] \o Escape(item[i])
<1> DEFINE n == Len(item)
           seqs == [i \in 1 .. n |-> Escape(item[i])]
<1>1. n \in Nat /\ DOMAIN item = 1 .. n
  OBVIOUS
<1>2. \A i \in 1 .. n : Escape(item[i]) \in Seq(Int)
  BY DEF Escape, Percent
<1>3. DecodeURI(item) = FlattenSeq(seqs)
  BY <1>1 DEF DecodeURI, Escape
<1> HIDE DEF n
<1>4. seqs \in Seq(Seq(Int)) /\ Len(seqs) = n
  BY <1>1, <1>2
<1>5. CASE n = 0
  <2> DEFINE f == [i \in 0 .. n |-> <<>>]
  <2>1. FlattenSeq(seqs) = seqs /\ seqs = <<>>
    BY <1>4, <1>5 DEF FlattenSeq
  <2>2. f \in [0 .. n -> Seq(Int)] /\ f[n] = <<>> /\ f[0] = <<>>
    BY <1>5
  <2> HIDE DEF f
  <2> QED
    BY <1>3, <1>5, <2>1, <2>2 DEF n
<1>6. CASE n # 0
  <2> HIDE DEF seqs
  <2>1. PICK f \in [1 .. n -> Seq(Int)] :
           /\ FlattenSeq(seqs) = f[n]
           /\ f[1] = seqs[1]
           /\ \A i \in 2 .. n : f[i] = f[i - 1] \o seqs[i]
    BY <1>4, <1>6, Flattening
  <2> DEFINE g == [i \in 0 .. n |-> IF i = 0 THEN <<>> ELSE f[i]]
  <2>2. g \in [0 .. n -> Seq(Int)] /\ g[n] = f[n] /\ g[0] = <<>>
    BY <1>1, <1>6
  <2>3. ASSUME NEW i \in 1 .. n PROVE g[i] = g[i - 1] \o Escape(item[i])
    <3>1. seqs[i] = Escape(item[i]) /\ seqs[i] \in Seq(Int)
      BY <1>2 DEF seqs
    <3>2. CASE i = 1
      BY <1>1, <2>1, <3>1, <3>2
    <3>3. CASE i # 1
      <4>1. i \in 2 .. n /\ g[i] = f[i] /\ g[i - 1] = f[i - 1]
        BY <1>1, <3>3
      <4> QED
        BY <2>1, <3>1, <4>1
    <3> QED
      BY <3>2, <3>3
  <2> HIDE DEF g
  <2> QED
    BY <1>3, <2>1, <2>2, <2>3 DEF n
<1> QED
  BY <1>5, <1>6

\* An item without characters that stay escaped is read as it was typed.
LEMMA PlainItems ==
    ASSUME NEW item \in Seq(Nat), \A i \in 1 .. Len(item) : item[i] \notin Foreign
    PROVE  DecodeURI(item) = item
<1> DEFINE n == Len(item)
<1>1. PICK f \in [0 .. n -> Seq(Int)] :
         /\ DecodeURI(item) = f[n]
         /\ f[0] = <<>>
         /\ \A i \in 1 .. n : f[i] = f[i - 1] \o Escape(item[i])
  BY Decoding
<1> DEFINE S == {i \in 0 .. n : f[i] = SubSeq(item, 1, i)}
<1>2. n \in Nat
  OBVIOUS
<1>3. 0 \in S
  BY <1>1
<1>4. ASSUME NEW k \in 0 .. n - 1, k \in S PROVE k + 1 \in S
  <2>1. f[k + 1] = SubSeq(item, 1, k) \o <<item[k + 1]>>
    <3>1. k + 1 \in 1 .. n /\ (k + 1) - 1 = k
      OBVIOUS
    <3>2. f[k + 1] = f[k] \o Escape(item[k + 1])
      BY <1>1, <3>1
    <3> QED
      BY <1>4, <3>1, <3>2 DEF Escape
  <2>2. SubSeq(item, 1, k) \o <<item[k + 1]>> = SubSeq(item, 1, k + 1)
    OBVIOUS
  <2> QED
    BY <2>1, <2>2
<1>5. 0 .. n \subseteq S
  <2> HIDE DEF S, n
  <2> QED
    BY <1>2, <1>3, <1>4, Induction
<1>6. SubSeq(item, 1, n) = item
  OBVIOUS
<1>7. f[n] = SubSeq(item, 1, n)
  <2>1. n \in 0 .. n
    BY <1>2
  <2> QED
    BY <1>5, <2>1
<1> QED
  BY <1>1, <1>6, <1>7

\* An item with one is not.
LEMMA EscapedItems ==
    ASSUME NEW item \in Seq(Nat), NEW j \in 1 .. Len(item), item[j] \in Foreign
    PROVE  DecodeURI(item) # item
<1> DEFINE n == Len(item)
<1>1. PICK f \in [0 .. n -> Seq(Int)] :
         /\ DecodeURI(item) = f[n]
         /\ f[0] = <<>>
         /\ \A i \in 1 .. n : f[i] = f[i - 1] \o Escape(item[i])
  BY Decoding
<1> DEFINE S == {i \in 0 .. n : Len(f[i]) >= i /\ (j <= i => Len(f[i]) > i)}
<1>2. n \in Nat
  OBVIOUS
<1>3. 0 \in S
  BY <1>1
<1>4. ASSUME NEW k \in 0 .. n - 1, k \in S PROVE k + 1 \in S
  <2>1. k + 1 \in 1 .. n /\ (k + 1) - 1 = k /\ k \in 0 .. n
    OBVIOUS
  <2>2. f[k + 1] = f[k] \o Escape(item[k + 1]) /\ f[k] \in Seq(Int)
    BY <1>1, <2>1
  <2>3. /\ Escape(item[k + 1]) \in Seq(Int)
        /\ Len(Escape(item[k + 1])) >= 1
        /\ k + 1 = j => Len(Escape(item[k + 1])) = 2
    BY <2>1 DEF Escape, Percent
  <2>4. Len(f[k + 1]) = Len(f[k]) + Len(Escape(item[k + 1]))
    BY <2>2, <2>3
  <2> DEFINE p == Len(f[k])
             e == Len(Escape(item[k + 1]))
  <2>5. p \in Nat /\ e \in Nat /\ e >= 1 /\ (k + 1 = j => e = 2)
    BY <2>2, <2>3
  <2>6. p >= k /\ (j <= k => p > k)
    BY <1>4
  <2> HIDE DEF p, e
  <2>7. p + e >= k + 1 /\ (j <= k + 1 => p + e > k + 1)
    BY <2>5, <2>6
  <2> QED
    BY <2>1, <2>4, <2>7 DEF p, e
<1>5. 0 .. n \subseteq S
  <2> HIDE DEF S, n
  <2> QED
    BY <1>2, <1>3, <1>4, Induction
<1> QED
  BY <1>1, <1>2, <1>5

\* An escaped character is a percent and itself, any other is itself.
LEMMA Escaping ==
    ASSUME NEW c \in Nat
    PROVE  /\ Escape(c) \in Seq(Int)
           /\ Len(Escape(c)) \in {1, 2}
           /\ Escape(c)[1] \in {c, Percent}
<1>1. c \in Int /\ Percent \in Int
  BY DEF Percent
<1> HIDE DEF Percent
<1>2. CASE c \in Foreign
  <2>1. Escape(c) = <<Percent, c>>
    BY <1>2 DEF Escape
  <2>2. <<Percent, c>> \in Seq(Int)
    BY <1>1
  <2> QED
    BY <2>1, <2>2
<1>3. CASE c \notin Foreign
  <2>1. Escape(c) = <<c>>
    BY <1>3 DEF Escape
  <2>2. <<c>> \in Seq(Int)
    BY <1>1
  <2> QED
    BY <2>1, <2>2
<1> QED
  BY <1>2, <1>3

\* What does not begin with a digit is not read as if it did, and so no worker's place
\* is the beginning of it.
LEMMA NoPlace ==
    ASSUME NEW item \in Terms, NEW w \in Workers
    PROVE  ~IsPrefix(w, DecodeURI(item))
<1> DEFINE n == Len(item)
           Wordy(q) == q \in Seq(Int) /\ Len(q) >= 1 /\ q[1] \notin Digits
<1>1. item \in Seq(Nat) /\ n \in Nat /\ n >= 1 /\ item[1] \notin Digits
  BY DEF Terms
<1>2. PICK f \in [0 .. n -> Seq(Int)] :
         /\ DecodeURI(item) = f[n]
         /\ f[0] = <<>>
         /\ \A i \in 1 .. n : f[i] = f[i - 1] \o Escape(item[i])
  BY <1>1, Decoding
<1> DEFINE S == {i \in 0 .. n : i >= 1 => Wordy(f[i])}
<1> HIDE DEF n
<1>3. 0 \in S
  BY <1>1
<1>4. ASSUME NEW k \in 0 .. n - 1, k \in S PROVE k + 1 \in S
  <2> DEFINE c == item[k + 1]
             p == f[k]
             e == Escape(c)
  <2>1. k + 1 \in 1 .. n /\ (k + 1) - 1 = k /\ k \in 0 .. n
    BY <1>1
  <2>2. f[k + 1] = p \o e /\ p \in Seq(Int) /\ (k >= 1 => Wordy(p)) /\ (k = 0 => p = <<>>)
    BY <1>2, <1>4, <2>1
  <2>3. c \in Nat /\ (k = 0 => c \notin Digits)
    BY <1>1, <2>1 DEF n
  <2> HIDE DEF c, p
  <2>4. e \in Seq(Int) /\ Len(e) \in {1, 2} /\ e[1] \in {c, Percent}
    BY <2>3, Escaping
  <2>5. Percent \notin Digits
    BY DEF Percent, Digits
  <2> HIDE DEF e
  <2>6. CASE k = 0
    <3>1. e[1] \notin Digits
      BY <2>3, <2>4, <2>5, <2>6, Zenon
    <3>2. p \o e = e
      BY <2>2, <2>4, <2>6
    <3>3. Len(e) >= 1
      BY <2>4
    <3>4. Wordy(f[k + 1])
      <4>1. f[k + 1] = e
        BY <2>2, <3>2
      <4> QED
        BY <2>4, <3>1, <3>3, <4>1
    <3> HIDE DEF Wordy
    <3> QED
      BY <2>1, <3>4
  <2>7. CASE k # 0
    <3>1. Wordy(p)
      BY <2>2, <2>7
    <3>2. p \o e \in Seq(Int) /\ Len(p \o e) >= 1 /\ (p \o e)[1] = p[1]
      BY <2>2, <2>4, <3>1
    <3>3. Wordy(f[k + 1])
      <4>1. Wordy(p \o e)
        <5>1. p[1] \notin Digits
          BY <3>1
        <5> QED
          BY <3>2, <5>1, Zenon
      <4>2. f[k + 1] = p \o e
        BY <2>2
      <4> HIDE DEF Wordy
      <4> QED
        BY <4>1, <4>2, Zenon
    <3> HIDE DEF Wordy
    <3> QED
      BY <2>1, <3>3
  <2> QED
    BY <2>6, <2>7
<1>5. Wordy(f[n])
  <2>1. 0 .. n \subseteq S
    <3> HIDE DEF S
    <3> QED
      BY <1>1, <1>3, <1>4, Induction
  <2> HIDE DEF Wordy
  <2> QED
    BY <1>1, <2>1
<1>6. w \in Seq(Digits) /\ w # <<>> /\ w[1] \in Digits
  BY DigitsAssumption
<1> SUFFICES ASSUME IsPrefix(w, f[n]) PROVE FALSE
  BY <1>2
<1>7. w[1] = f[n][1]
  <2>1. Len(w) >= 1
    BY <1>6
  <2> QED
    BY <1>5, <1>6, <2>1, PrefixesAgree
<1> QED
  BY <1>5, <1>6, <1>7

-----------------------------------------------------------------------------
(* What becomes of the words that a user types.                            *)

\* One target more: as many words more as it has spaces.
LEMMA OneTargetMore ==
    ASSUME NEW Item, NEW words \in Seq(Seq(Item)) \ {<<>>},
           NEW target \in Seq(Item) \ {<<>>}
    PROVE  /\ WithTarget(words, target) \in Seq(Seq(Item)) \ {<<>>}
           /\ Len(WithTarget(words, target)) = Len(words) + Len(target) - 1
<1> DEFINE front == Front(words)
           joined == Append(Last(words), Head(target))
           rest == [i \in 1 .. Len(target) - 1 |-> <<target[i + 1]>>]
<1>1. Len(words) \in Nat \ {0} /\ Len(target) \in Nat \ {0}
  OBVIOUS
<1>2. front \in Seq(Seq(Item)) /\ Len(front) = Len(words) - 1
  <2> DEFINE Word == Seq(Item)
  <2>1. words \in Seq(Word)
    OBVIOUS
  <2> HIDE DEF Word
  <2>2. \A i \in 1 .. Len(words) - 1 : words[i] \in Word
    BY <1>1, <2>1
  <2>3. front \in Seq(Word) /\ Len(front) = Len(words) - 1
    <3> DEFINE k == Len(words) - 1
    <3>1. k \in Nat /\ 1 \in Int /\ k \in Int
      BY <1>1
    <3> HIDE DEF k
    <3>2. /\ SubSeq(words, 1, k) \in Seq(Word)
          /\ Len(SubSeq(words, 1, k)) = IF 1 <= k THEN k - 1 + 1 ELSE 0
      BY <2>2, <3>1, SubSeqProperties DEF k
    <3>3. Len(SubSeq(words, 1, k)) = k
      BY <3>1, <3>2
    <3> QED
      BY <3>2, <3>3 DEF Front, k
  <2> QED
    BY <2>3 DEF Word
<1>3. joined \in Seq(Item)
  <2>1. Last(words) \in Seq(Item)
    BY <1>1 DEF Last
  <2>2. Head(target) \in Item
    BY <1>1
  <2> QED
    BY <2>1, <2>2
<1>4. rest \in Seq(Seq(Item)) /\ Len(rest) = Len(target) - 1
  <2>1. \A i \in 1 .. Len(target) - 1 : target[i + 1] \in Item
    BY <1>1
  <2> QED
    BY <1>1, <2>1
<1> HIDE DEF front, joined, rest
<1>5. /\ front \o <<joined>> \o rest \in Seq(Seq(Item))
      /\ Len(front \o <<joined>> \o rest) = Len(words) + Len(target) - 1
  <2>1. <<joined>> \in Seq(Seq(Item)) /\ Len(<<joined>>) = 1
    BY <1>3
  <2> DEFINE both == front \o <<joined>>
  <2>2. both \in Seq(Seq(Item)) /\ Len(both) = Len(words)
    BY <1>1, <1>2, <2>1
  <2> HIDE DEF both
  <2>3. both \o rest \in Seq(Seq(Item)) /\ Len(both \o rest) = Len(both) + Len(rest)
    BY <1>4, <2>2, ConcatProperties
  <2>4. Len(both \o rest) = Len(words) + Len(target) - 1
    BY <1>1, <1>4, <2>2, <2>3
  <2> QED
    BY <2>3, <2>4 DEF both
<1>6. WithTarget(words, target) = front \o <<joined>> \o rest
  BY DEF WithTarget, front, joined, rest
<1> QED
  BY <1>1, <1>5, <1>6

\* What is typed as targets, and what it makes.
Typed(Item) == Seq(Seq(Item) \ {<<>>})
Texts(Item) == Seq(Seq(Item)) \ {<<>>}

\* The words w[i] are those of the first i targets.
Words(w, locations, targets) ==
    /\ Keyword(locations, targets) = <<locations>> \o w[Len(targets)]
    /\ w[0] = <<<<>>>>
    /\ \A i \in 1 .. Len(targets) : w[i] = WithTarget(w[i - 1], targets[i])

\* The words of a keyword are put together target by target.
LEMMA Wording ==
    ASSUME NEW Item, NEW targets \in Typed(Item), NEW locations
    PROVE  \E w \in [0 .. Len(targets) -> Texts(Item)] : Words(w, locations, targets)
<1> DEFINE n == Len(targets)
           Made == Texts(Item)
           Rule(h) == [i \in 0 .. n |-> IF i = 0 THEN <<<<>>>>
                                                 ELSE WithTarget(h[i - 1], targets[i])]
           Worded(f, k) == /\ f \in [0 .. k -> Made]
                           /\ f[0] = <<<<>>>>
                           /\ \A i \in 1 .. k : f[i] = WithTarget(f[i - 1], targets[i])
           S == {k \in 0 .. n : \E f : Worded(f, k)}
<1>1. n \in Nat /\ \A i \in 1 .. n : targets[i] \in Seq(Item) \ {<<>>}
  BY DEF Typed
<1>2. <<<<>>>> \in Made
  BY DEF Texts
<1>3. \A words \in Made, i \in 1 .. n : WithTarget(words, targets[i]) \in Made
  BY <1>1, OneTargetMore DEF Texts
<1> HIDE DEF n, Made
<1>4. 0 \in S
  <2>1. Worded([i \in 0 .. 0 |-> <<<<>>>>], 0)
    BY <1>2
  <2> HIDE DEF Worded
  <2> QED
    BY <2>1, <1>1
<1>5. ASSUME NEW k \in 0 .. n - 1, k \in S PROVE k + 1 \in S
  <2>1. PICK f : Worded(f, k)
    BY <1>5
  <2> DEFINE next == WithTarget(f[k], targets[k + 1])
             g == [i \in 0 .. k + 1 |-> IF i = k + 1 THEN next ELSE f[i]]
  <2>2. next \in Made
    <3>1. k + 1 \in 1 .. n /\ k \in 0 .. k
      BY <1>1
    <3>2. f[k] \in Made
      BY <2>1, <3>1
    <3> QED
      BY <1>3, <3>1, <3>2
  <2>3. g \in [0 .. k + 1 -> Made] /\ g[0] = <<<<>>>>
    <3> HIDE DEF next
    <3> QED
      BY <2>1, <2>2
  <2>4. ASSUME NEW i \in 1 .. k + 1 PROVE g[i] = WithTarget(g[i - 1], targets[i])
    <3>1. CASE i = k + 1
      <4>1. g[i] = next /\ g[i - 1] = f[k]
        BY <3>1
      <4> QED
        BY <3>1, <4>1
    <3>2. CASE i # k + 1
      <4>1. i \in 1 .. k /\ g[i] = f[i] /\ g[i - 1] = f[i - 1]
        BY <3>2
      <4> QED
        BY <4>1, <2>1
    <3> QED
      BY <3>1, <3>2
  <2>5. Worded(g, k + 1)
    <3> HIDE DEF g
    <3> QED
      BY <2>3, <2>4
  <2> HIDE DEF Worded
  <2> QED
    BY <1>1, <1>5, <2>5
<1>6. PICK f : Worded(f, n)
  <2>1. 0 .. n \subseteq S
    <3> HIDE DEF S
    <3> QED
      BY <1>1, <1>4, <1>5, Induction
  <2>2. n \in S
    <3> HIDE DEF S
    <3> QED
      BY <2>1, <1>1
  <2> HIDE DEF Worded
  <2> QED
    BY <2>2
<1> DEFINE words == CHOOSE h : h = Rule(h)
<1>7. Keyword(locations, targets) = <<locations>> \o words[n]
  BY DEF Keyword, n
<1>8. f = Rule(f)
  <2>1. ASSUME NEW i \in 0 .. n
        PROVE  f[i] = IF i = 0 THEN <<<<>>>> ELSE WithTarget(f[i - 1], targets[i])
    <3>1. i = 0 \/ i \in 1 .. n
      BY <1>1
    <3> QED
      BY <1>6, <3>1
  <2>2. f = [i \in 0 .. n |-> f[i]]
    BY <1>6
  <2> QED
    BY <2>1, <2>2
<1>9. words = Rule(words)
  <2> HIDE DEF Rule
  <2> QED
    BY <1>8
<1> HIDE DEF words
<1>10. 0 .. n \subseteq {i \in 0 .. n : words[i] = f[i]}
  <2> DEFINE Same == {i \in 0 .. n : words[i] = f[i]}
  <2>1. 0 \in Same
    BY <1>1, <1>6, <1>9
  <2>2. ASSUME NEW k \in 0 .. n - 1, k \in Same PROVE k + 1 \in Same
    <3>1. k + 1 \in 0 .. n /\ (k + 1) - 1 = k /\ k + 1 # 0
      BY <1>1
    <3>2. words[k + 1] = WithTarget(words[(k + 1) - 1], targets[k + 1])
      BY <1>9, <3>1
    <3>3. f[k + 1] = WithTarget(f[(k + 1) - 1], targets[k + 1])
      BY <1>8, <3>1
    <3> QED
      BY <1>1, <2>2, <3>1, <3>2, <3>3
  <2>3. 0 .. n \subseteq Same
    <3> HIDE DEF Same
    <3> QED
      BY <1>1, <2>1, <2>2, Induction
  <2> QED
    BY <2>3
<1>11. words[n] = f[n]
  BY <1>1, <1>10
<1> QED
  BY <1>6, <1>7, <1>11 DEF n, Made, Words

\* Targets of one item each make one word, of as many items.
LEMMA OneWord ==
    ASSUME NEW Item, NEW targets \in Typed(Item), targets # <<>>, NEW locations,
           \A i \in 1 .. Len(targets) : Len(targets[i]) = 1
    PROVE  \E word \in Seq(Item) : /\ Keyword(locations, targets) = <<locations, word>>
                                   /\ word # <<>>
                                   /\ word[1] = targets[1][1]
<1> DEFINE n == Len(targets)
           One(words, i) == \E word \in Seq(Item) :
                               words = <<word>> /\ (i # 0 => word # <<>> /\ word[1] = targets[1][1])
<1>1. n \in Nat \ {0} /\ \A i \in 1 .. n : targets[i] \in Seq(Item) \ {<<>>} /\ Len(targets[i]) = 1
  BY DEF Typed
<1>2. PICK w \in [0 .. n -> Texts(Item)] : Words(w, locations, targets)
  BY Wording
<1> DEFINE S == {i \in 0 .. n : One(w[i], i)}
<1>3. /\ Keyword(locations, targets) = <<locations>> \o w[n]
      /\ w[0] = <<<<>>>>
      /\ \A i \in 1 .. n : w[i] = WithTarget(w[i - 1], targets[i])
  BY <1>2 DEF Words
<1> HIDE DEF n
<1>8. 0 \in S
  <2>1. <<>> \in Seq(Item) /\ w[0] = <<<<>>>>
    BY <1>3
  <2>2. One(w[0], 0)
    BY <2>1
  <2> HIDE DEF One
  <2> QED
    BY <1>1, <2>2
<1>4. ASSUME NEW k \in 0 .. n - 1, k \in S PROVE k + 1 \in S
  <2>1. k + 1 \in 1 .. n /\ (k + 1) - 1 = k /\ k \in Nat
    BY <1>1
  <2>2. PICK word \in Seq(Item) :
           w[k] = <<word>> /\ (k # 0 => word # <<>> /\ word[1] = targets[1][1])
    BY <1>4
  <2> DEFINE target == targets[k + 1]
             next == Append(word, Head(target))
  <2>3. target \in Seq(Item) /\ target # <<>> /\ Len(target) = 1 /\ Head(target) = target[1]
        /\ target[1] \in Item
    BY <1>1, <2>1
  <2>4. next \in Seq(Item) /\ next # <<>> /\ next[1] = targets[1][1]
    <3> DEFINE first == Head(target)
    <3>1. first \in Item /\ (k = 0 => first = targets[1][1])
      BY <2>3
    <3>2. k = 0 => word = <<>>
      BY <1>3, <2>2
    <3> HIDE DEF first
    <3>3. Append(word, first) \in Seq(Item) /\ Len(Append(word, first)) = Len(word) + 1
      BY <2>2, <3>1
    <3>4. k # 0 => Append(word, first)[1] = word[1]
      BY <2>2, <3>1
    <3>5. k = 0 => Append(word, first)[1] = first
      BY <3>1, <3>2
    <3> QED
      BY <2>2, <3>1, <3>3, <3>4, <3>5 DEF first
  <2>6. w[k + 1] = <<next>>
    <3>1. w[k + 1] = WithTarget(<<word>>, target)
      BY <1>3, <2>1, <2>2
    <3>2. Front(<<word>>) = <<>> /\ Last(<<word>>) = word
      BY DEF Front, Last
    <3> DEFINE rest == [i \in 1 .. Len(target) - 1 |-> <<target[i + 1]>>]
    <3>3. rest = <<>>
      BY <2>3
    <3> HIDE DEF rest
    <3>4. WithTarget(<<word>>, target) = <<>> \o <<next>> \o rest
      BY <3>2 DEF WithTarget, rest
    <3> HIDE DEF next
    <3> QED
      BY <3>1, <3>3, <3>4
  <2> HIDE DEF next
  <2>7. One(w[k + 1], k + 1)
    BY <2>4, <2>6
  <2> HIDE DEF One
  <2> QED
    BY <2>1, <2>7
<1>5. One(w[n], n)
  <2>1. 0 .. n \subseteq S
    <3> HIDE DEF S
    <3> QED
      BY <1>1, <1>8, <1>4, Induction
  <2>2. n \in S
    <3> HIDE DEF S
    <3> QED
      BY <1>1, <2>1
  <2> HIDE DEF One
  <2> QED
    BY <2>2
<1>6. PICK word \in Seq(Item) : w[n] = <<word>> /\ word # <<>> /\ word[1] = targets[1][1]
  BY <1>1, <1>5
<1>7. <<locations>> \o <<word>> = <<locations, word>>
  <2> DEFINE T == {locations, word}
  <2>1. <<locations>> \in Seq(T) /\ <<word>> \in Seq(T)
    OBVIOUS
  <2>2. locations \in T /\ word \in T
    OBVIOUS
  <2> HIDE DEF T
  <2> DEFINE both == <<locations>> \o <<word>>
             pair == <<locations, word>>
  <2>3. pair \in Seq(T) /\ Len(pair) = 2 /\ pair[1] = locations /\ pair[2] = word
    BY <2>2
  <2>4. both \in Seq(T) /\ Len(both) = 2 /\ both[1] = locations /\ both[2] = word
    BY <2>1, ConcatProperties
  <2> HIDE DEF both, pair
  <2>5. both = pair
    BY <2>3, <2>4, SeqEqual
  <2> QED
    BY <2>5 DEF both, pair
<1> QED
  BY <1>3, <1>6, <1>7

\* A target of more items splits the targets into words.
LEMMA MoreWords ==
    ASSUME NEW Item, NEW targets \in Typed(Item), NEW locations,
           NEW j \in 1 .. Len(targets), Len(targets[j]) # 1
    PROVE  \E words \in Seq(Seq(Item)) : /\ Keyword(locations, targets) = <<locations>> \o words
                                         /\ Len(words) >= 2
<1> DEFINE n == Len(targets)
<1>1. n \in Nat /\ \A i \in 1 .. n : targets[i] \in Seq(Item) \ {<<>>}
  BY DEF Typed
<1>2. PICK w \in [0 .. n -> Texts(Item)] : Words(w, locations, targets)
  BY Wording
<1> DEFINE S == {i \in 0 .. n : j <= i => Len(w[i]) >= 2}
<1>3. j \in 1 .. n
  OBVIOUS
<1>8. /\ Keyword(locations, targets) = <<locations>> \o w[n]
      /\ \A i \in 1 .. n : w[i] = WithTarget(w[i - 1], targets[i])
  BY <1>2 DEF Words
<1> HIDE DEF n
<1>4. 0 \in S
  BY <1>1, <1>3
<1>5. ASSUME NEW k \in 0 .. n - 1, k \in S PROVE k + 1 \in S
  <2>1. k + 1 \in 1 .. n /\ (k + 1) - 1 = k /\ k \in 0 .. n
    BY <1>1
  <2> DEFINE words == w[k]
             target == targets[k + 1]
  <2>2. words \in Seq(Seq(Item)) \ {<<>>} /\ target \in Seq(Item) \ {<<>>}
    BY <1>1, <1>2, <2>1 DEF Texts
  <2>3. w[k + 1] = WithTarget(words, target)
    BY <1>8, <2>1
  <2>4. Len(w[k + 1]) = Len(words) + Len(target) - 1
    <3> HIDE DEF words, target
    <3> QED
      BY <2>2, <2>3, OneTargetMore
  <2>5. Len(words) \in Nat \ {0} /\ Len(target) \in Nat \ {0}
    BY <2>2
  <2>6. k + 1 = j => Len(target) >= 2
    <3>1. k + 1 = j => Len(target) # 1
      BY DEF n
    <3> DEFINE q == Len(target)
    <3>2. q \in Nat \ {0} /\ (k + 1 = j => q # 1)
      BY <2>5, <3>1
    <3> HIDE DEF q
    <3>3. k + 1 = j => q >= 2
      BY <3>2
    <3> QED
      BY <3>3 DEF q
  <2>7. j <= k => Len(words) >= 2
    BY <1>5
  <2> DEFINE p == Len(words)
             q == Len(target)
  <2> HIDE DEF words, target
  <2>8. j <= k + 1 => p + q - 1 >= 2
    <3>1. p \in Nat \ {0} /\ q \in Nat \ {0} /\ (k + 1 = j => q >= 2) /\ (j <= k => p >= 2)
      BY <2>5, <2>6, <2>7
    <3> HIDE DEF p, q
    <3> QED
      BY <1>3, <3>1
  <2> QED
    BY <2>1, <2>4, <2>8
<1>6. Len(w[n]) >= 2
  <2>1. 0 .. n \subseteq S
    <3> HIDE DEF S
    <3> QED
      BY <1>1, <1>4, <1>5, Induction
  <2>2. n \in S
    <3> HIDE DEF S
    <3> QED
      BY <1>1, <2>1
  <2> QED
    BY <1>1, <1>3, <2>2
<1>7. w[n] \in Seq(Seq(Item))
  BY <1>1, <1>2 DEF Texts
<1> QED
  BY <1>6, <1>7, <1>8

-----------------------------------------------------------------------------
(* What the edge server reads.                                             *)

\* The places that it asks for and that have a worker or lie within it, their workers,
\* and what it looks for there.
Reached(r) == {l \in ToSet(LocationKey(Received(r))) : \E w \in Workers : IsPrefix(w, l)}
Reaching(r) == {w \in Workers : \E l \in Reached(r) : IsPrefix(w, l)}
Sought(r) == ExtractTargets(Received(r))[1]

\* No target has a space in it.
Unsplit(r) == \A i \in DOMAIN r.targets : Len(r.targets[i]) = 1

\* Some character of the first target stays escaped, as in Search!Escaped.
EscapedIn(r) == \E i \in DOMAIN r.targets[1] : ToSet(r.targets[1][i]) \cap Foreign # {}

LEMMA RequestsTyped ==
    ASSUME NEW r \in Requests
    PROVE  /\ r.locations \in Seq(Seq(Digits))
           /\ r.targets \in Typed(Terms)
           /\ r.targets # <<>>
<1> QED
  BY SearchAssumption, DigitsAssumption DEF Typed, Terms

\* Places are read as they were typed.
LEMMA PlacesAreRead ==
    ASSUME NEW locations \in Seq(Seq(Digits))
    PROVE  [j \in DOMAIN locations |-> DecodeURI(locations[j])] = locations
<1>1. ASSUME NEW j \in DOMAIN locations PROVE DecodeURI(locations[j]) = locations[j]
  <2> DEFINE location == locations[j]
  <2>1. location \in Seq(Digits)
    OBVIOUS
  <2>2. Digits \subseteq Nat
    BY DEF Digits
  <2> HIDE DEF location
  <2>3. location \in Seq(Nat) /\ \A i \in 1 .. Len(location) : location[i] \in Digits
    <3>1. \A i \in 1 .. Len(location) : location[i] \in Digits
      BY <2>1
    <3>2. Len(location) \in Nat /\ location = [i \in 1 .. Len(location) |-> location[i]]
      BY <2>1
    <3>3. \A i \in 1 .. Len(location) : location[i] \in Nat
      BY <2>2, <3>1
    <3> DEFINE n == Len(location)
    <3> HIDE DEF n
    <3>4. [i \in 1 .. n |-> location[i]] \in Seq(Nat)
      BY <3>2, <3>3 DEF n
    <3> QED
      BY <3>1, <3>2, <3>4 DEF n
  <2>4. \A i \in 1 .. Len(location) : location[i] \notin Foreign
    BY <2>3, DigitsAssumption
  <2>5. DecodeURI(location) = location
    BY <2>3, <2>4, PlainItems
  <2> QED
    BY <2>5 DEF location
<1> QED
  BY <1>1

\* Without a space the keyword is read as two words: the places that were asked for,
\* and the targets.
LEMMA OneWordRead ==
    ASSUME NEW r \in Requests, Unsplit(r)
    PROVE  /\ LocationKey(Received(r)) = r.locations
           /\ Sought(r) = DecodeURI(r.targets[1][1])
<1>1. PICK word \in Seq(Terms) : /\ Keyword(r.locations, r.targets) = <<r.locations, word>>
                                /\ word # <<>>
                                /\ word[1] = r.targets[1][1]
  <2> DEFINE targets == r.targets
  <2>1. targets \in Typed(Terms) /\ targets # <<>>
    BY RequestsTyped
  <2>2. \A i \in 1 .. Len(targets) : Len(targets[i]) = 1
    BY <2>1 DEF Unsplit, Typed
  <2> HIDE DEF targets
  <2>3. \E word \in Seq(Terms) : /\ Keyword(r.locations, targets) = <<r.locations, word>>
                                /\ word # <<>>
                                /\ word[1] = targets[1][1]
    BY <2>1, <2>2, OneWord
  <2> QED
    BY <2>3 DEF targets
<1> DEFINE read(items) == [j \in DOMAIN items |-> DecodeURI(items[j])]
<1>2. Received(r) = <<read(r.locations), read(word)>>
  BY <1>1 DEF Received, DecodeKeyword
<1>3. read(r.locations) = r.locations
  BY RequestsTyped, PlacesAreRead
<1>4. read(word)[1] = DecodeURI(r.targets[1][1])
  <2>1. 1 \in DOMAIN word
    BY <1>1
  <2> QED
    BY <1>1, <2>1
<1> HIDE DEF read
<1> QED
  BY <1>2, <1>3, <1>4 DEF LocationKey, Sought, ExtractTargets, Last

\* With a space the last word but one is of targets, and that is no worker's place.
LEMMA MoreWordsRead ==
    ASSUME NEW r \in Requests, ~Unsplit(r)
    PROVE  Reached(r) = {}
<1> DEFINE targets == r.targets
<1>1. targets \in Typed(Terms)
  BY RequestsTyped
<1>2. PICK j \in 1 .. Len(targets) : Len(targets[j]) # 1
  BY <1>1 DEF Unsplit, Typed
<1>3. PICK words \in Seq(Seq(Terms)) : /\ Keyword(r.locations, targets) = <<r.locations>> \o words
                                      /\ Len(words) >= 2
  <2> HIDE DEF targets
  <2> QED
    BY <1>1, <1>2, MoreWords
<1> DEFINE read(items) == [i \in DOMAIN items |-> DecodeURI(items[i])]
           keyword == <<r.locations>> \o words
           n == Len(words)
<1>4. n \in Nat /\ n >= 2 /\ words[n - 1] \in Seq(Terms)
  <2> DEFINE Word == Seq(Terms)
  <2>1. words \in Seq(Word) /\ Len(words) >= 2
    BY <1>3
  <2> HIDE DEF Word
  <2>2. n \in Nat /\ n >= 2 /\ n - 1 \in 1 .. n /\ words[n - 1] \in Word
    BY <2>1
  <2> QED
    BY <2>2 DEF Word
<1>5. DOMAIN keyword = 1 .. n + 1 /\ keyword[n] = words[n - 1]
  <2> DEFINE T == {r.locations} \cup Seq(Terms)
  <2>1. r.locations \in T /\ Seq(Terms) \subseteq T
    OBVIOUS
  <2> HIDE DEF T
  <2>2. <<r.locations>> \in Seq(T) /\ words \in Seq(T)
    BY <1>3, <2>1
  <2>3. keyword \in Seq(T) /\ Len(keyword) = n + 1 /\ keyword[n] = words[n - 1]
    BY <1>4, <2>2, ConcatProperties
  <2> HIDE DEF keyword, n
  <2> QED
    BY <2>3
<1>6. Received(r) = [i \in 1 .. n + 1 |-> read(keyword[i])]
  BY <1>3, <1>5 DEF Received, DecodeKeyword
<1> DEFINE items == words[n - 1]
<1>7. LocationKey(Received(r)) = read(items)
  <2> HIDE DEF keyword, n, read
  <2>1. n + 1 \in Nat /\ n \in 1 .. n + 1 /\ (n + 1) - 1 = n
    BY <1>4
  <2>2. Len(Received(r)) = n + 1
    BY <1>6, <2>1
  <2> QED
    BY <1>5, <1>6, <2>1, <2>2 DEF LocationKey
<1>8. ASSUME NEW i \in DOMAIN items, NEW w \in Workers PROVE ~IsPrefix(w, DecodeURI(items[i]))
  <2>1. items[i] \in Terms
    BY <1>4
  <2> QED
    BY <2>1, NoPlace
<1> HIDE DEF items
<1> QED
  BY <1>7, <1>8 DEF Reached, ToSet

\* So the places that have a worker or lie within one were typed as such.
LEMMA ReachedIsTyped ==
    ASSUME NEW r \in Requests, NEW l \in Reached(r)
    PROVE  Unsplit(r) /\ l \in ToSet(r.locations) /\ l \in Seq(Digits)
<1>1. Unsplit(r)
  BY MoreWordsRead
<1>2. l \in ToSet(r.locations)
  BY <1>1, OneWordRead DEF Reached
<1>3. l \in Seq(Digits)
  BY <1>2, RequestsTyped DEF ToSet
<1> QED
  BY <1>1, <1>2, <1>3

\* A worker's place is within itself, and on the map within no other's.
LEMMA WithinItself ==
    ASSUME NEW w \in Workers
    PROVE  IsPrefix(w, w)
<1> QED
  BY DigitsAssumption DEF IsPrefix

LEMMA WithinOne ==
    ASSUME Workers \subseteq Places, NEW w \in Workers, NEW v \in Workers, NEW l \in Seq(Digits),
           IsPrefix(w, l), IsPrefix(v, l)
    PROVE  w = v
<1>1. l \in Seq(0 .. 9)
  BY DEF Digits
<1> QED
  BY <1>1, OnePlace

\* The page has an element for what is looked for, unless characters of it stay escaped.
LEMMA SoughtIsListed ==
    ASSUME NEW r \in Requests, Unsplit(r)
    PROVE  <<Sought(r)>> = r.targets[1] <=> ~EscapedIn(r)
<1> DEFINE target == r.targets[1]
           item == r.targets[1][1]
<1>1. target \in Seq(Terms) /\ Len(target) = 1
  <2>1. r.targets \in Seq(Seq(Terms) \ {<<>>}) /\ 1 \in DOMAIN r.targets
    BY RequestsTyped DEF Typed
  <2> QED
    BY <2>1 DEF Unsplit
<1>2. DOMAIN target = {1} /\ target = <<item>> /\ item \in Seq(Nat)
  BY <1>1 DEF Terms
<1>3. Sought(r) = DecodeURI(item)
  BY OneWordRead
<1>4. EscapedIn(r) <=> \E i \in 1 .. Len(item) : item[i] \in Foreign
  BY <1>2 DEF EscapedIn, ToSet
<1>5. DecodeURI(item) = item <=> ~EscapedIn(r)
  <2> HIDE DEF item
  <2> QED
    BY <1>2, <1>4, PlainItems, EscapedItems
<1> QED
  BY <1>2, <1>3, <1>5

\* Every name has in its keyword the location that routes it, alone.
LEMMA NamesAgree ==
    ASSUME NEW keyword, NEW name \in ToSet(ConvertInterestName(keyword))
    PROVE  /\ ExtractLocname(name.keyword)[1] = name.routable
           /\ name.routable \in ToSet(LocationKey(keyword))
<1> DEFINE locations == LocationKey(keyword)
           target == ExtractTargets(keyword)
<1>1. PICK i \in DOMAIN locations :
         name = [routable |-> locations[i], keyword |-> <<<<locations[i]>>, target>>]
  BY DEF ConvertInterestName, ToSet
<1>2. locations[i] \in ToSet(locations)
  BY DEF ToSet
<1> HIDE DEF locations, target
<1>3. LocationKey(name.keyword) = <<locations[i]>>
  BY <1>1 DEF LocationKey
<1> QED
  BY <1>1, <1>2, <1>3 DEF ExtractLocname, locations

\* Whatever worker answers, it names its place, and in cloud mode the edge server the
\* one that it asked for; and the truth is told of what the worker saw.
LEMMA AnswersAreTrue ==
    ASSUME NEW name \in ToSet(ConvertInterestName(Asked)),
           NEW prefix \in Workers, IsPrefix(prefix, name.routable),
           NEW result \in IF m_edge_mode = "e" THEN EdgeResults(name, prefix)
                                               ELSE CloudResults(name, prefix)
    PROVE  /\ result.location = IF m_edge_mode = "e" THEN prefix ELSE name.routable
           /\ IsPrefix(prefix, result.location)
           /\ result.found \in BOOLEAN
           /\ MayBeSaid(prefix, result.target, result.found)
<1> DEFINE Pictured(target) == Truthful(Scene[prefix], target, target \in Postprocess(Scene[prefix]))
<1>1. \A target : Pictured(target)
  BY SearchAssumption, DetectorTellsTruth
<1>2. ExtractLocname(name.keyword)[1] = name.routable /\ IsPrefix(prefix, prefix)
  BY NamesAgree, WithinItself
<1>3. \A seen \in EmulatedResults : person \notin seen
  BY DEF EmulatedResults
<1>4. CASE m_edge_mode = "e" /\ prefix \in Emulated
  <2>1. PICK seen \in EmulatedResults :
           result = [location |-> prefix, target |-> TargetAtWorker(name),
                     found |-> TargetAtWorker(name) \in seen]
    BY <1>4 DEF EdgeResults
  <2>2. result.location = prefix /\ result.found \in BOOLEAN
    BY <2>1
  <2>3. result.found => result.target # person
    BY <2>1, <1>3
  <2> QED
    BY <2>2, <2>3, <1>2, <1>4 DEF MayBeSaid
<1>5. CASE m_edge_mode = "e" /\ prefix \notin Emulated
  <2>1. result = [location |-> prefix, target |-> TargetAtWorker(name),
                  found |-> TargetAtWorker(name) \in Postprocess(Scene[prefix])]
    BY <1>5 DEF EdgeResults
  <2> QED
    BY <2>1, <1>1, <1>2, <1>5 DEF MayBeSaid
<1>6. CASE m_edge_mode # "e"
  <2> DEFINE target == ExtractTargets(Asked)[1]
  <2>1. /\ prefix \notin Emulated
        /\ result = [location |-> ExtractLocname(name.keyword)[1], target |-> target,
                     found |-> target \in Postprocess(Scene[prefix])]
    BY <1>6 DEF CloudResults
  <2> HIDE DEF target
  <2> QED
    BY <2>1, <1>1, <1>2, <1>6 DEF MayBeSaid
<1> QED
  BY <1>4, <1>5, <1>6

-----------------------------------------------------------------------------
(* What is on its way, in every step.                                      *)

\* The names are those of the request, and there are none before it.
NamesInv ==
    /\ request \in Requests \cup {NoRequest}
    /\ reinvoked \subseteq ToSet(ConvertInterestName(Asked))
    /\ request = NoRequest => reinvoked = {}

\* A result says yes or no, and is true.
ResultsInv ==
    /\ m_edge_mode \in {"e", "c"}
    /\ \A result \in results : result.found \in BOOLEAN
    /\ ResultsAreTrue

LEMMA NamesStep ==
    ASSUME NamesInv, [Next]_vars
    PROVE  NamesInv'
<1>1. ASSUME NEW r \in Requests, OnInterest(r) PROVE NamesInv'
  <2>1. r # NoRequest
    BY SearchAssumption DEF NoRequest
  <2> QED
    BY <1>1, <2>1 DEF OnInterest, NamesInv, Asked
<1>2. ASSUME request' = request, reinvoked' \subseteq reinvoked PROVE NamesInv'
  BY <1>2 DEF NamesInv, Asked
<1>3. ASSUME NEW name \in reinvoked, WorkerAnswers(name) \/ NobodyAnswers(name) PROVE NamesInv'
  BY <1>2, <1>3 DEF WorkerAnswers, NobodyAnswers
<1>4. ASSUME NEW result \in results, MarkingXY(result) \/ Throw(result) PROVE NamesInv'
  BY <1>2, <1>4 DEF MarkingXY, Throw
<1>5. ASSUME UNCHANGED vars PROVE NamesInv'
  BY <1>2, <1>5 DEF vars
<1> QED
  BY <1>1, <1>3, <1>4, <1>5 DEF Next

LEMMA ResultsStep ==
    ASSUME NamesInv, ResultsInv, [Next]_vars
    PROVE  ResultsInv'
<1>1. ASSUME NEW name \in reinvoked, WorkerAnswers(name) PROVE ResultsInv'
  <2>1. PICK prefix \in Workers :
           /\ IsPrefix(prefix, name.routable)
           /\ \E result \in IF m_edge_mode = "e" THEN EdgeResults(name, prefix)
                                                  ELSE CloudResults(name, prefix) :
                 results' = results \cup {result}
    BY <1>1 DEF WorkerAnswers
  <2>2. PICK result \in IF m_edge_mode = "e" THEN EdgeResults(name, prefix)
                                              ELSE CloudResults(name, prefix) :
           results' = results \cup {result}
    BY <2>1
  <2>3. /\ IsPrefix(prefix, result.location)
        /\ result.found \in BOOLEAN
        /\ MayBeSaid(prefix, result.target, result.found)
    <3>1. name \in ToSet(ConvertInterestName(Asked))
      BY DEF NamesInv
    <3> QED
      BY <2>1, <3>1, AnswersAreTrue
  <2>4. m_edge_mode' = m_edge_mode
    BY <1>1 DEF WorkerAnswers
  <2> QED
    BY <2>2, <2>3, <2>4 DEF ResultsInv, ResultsAreTrue
<1>2. ASSUME m_edge_mode' = m_edge_mode, results' \subseteq results PROVE ResultsInv'
  BY <1>2 DEF ResultsInv, ResultsAreTrue
<1>3. ASSUME NEW r \in Requests, OnInterest(r) PROVE ResultsInv'
  BY <1>2, <1>3 DEF OnInterest
<1>4. ASSUME NEW name \in reinvoked, NobodyAnswers(name) PROVE ResultsInv'
  BY <1>2, <1>4 DEF NobodyAnswers
<1>5. ASSUME NEW result \in results, MarkingXY(result) \/ Throw(result) PROVE ResultsInv'
  BY <1>2, <1>5 DEF MarkingXY, Throw
<1>6. ASSUME UNCHANGED vars PROVE ResultsInv'
  BY <1>2, <1>6 DEF vars
<1> QED
  BY <1>1, <1>3, <1>4, <1>5, <1>6 DEF Next

-----------------------------------------------------------------------------
(* What is marked, in every step.                                          *)

MarksInv ==
    /\ \A m \in marked : m.cell \in Grid
    /\ MarksAreTrue

LEMMA MarksStep ==
    ASSUME Workers \subseteq Places, MarksInv, ResultsInv, OwnCell,
           \A result \in results : result.location \in Seq(Digits), [Next]_vars
    PROVE  MarksInv'
<1>1. ASSUME NEW result \in results, MarkingXY(result) PROVE MarksInv'
  <2> DEFINE mark == [cell |-> Cell(result.location), target |-> result.target,
                      found |-> result.found]
  <2>1. marked' = marked \cup {m \in {mark} : m.cell \in Grid}
    BY <1>1 DEF MarkingXY
  <2>2. mark.cell = Cell(result.location)
    OBVIOUS
  <2>3. \A w \in Workers : InSquare(Cell(result.location), w) => w = result.location
    BY <1>1 DEF OwnCell, MarkingXY, Throws
  <2>4. ASSUME NEW w \in Workers, w = result.location
        PROVE  MayBeSaid(w, mark.target, mark.found)
    <3>1. PICK v \in Workers : IsPrefix(v, result.location)
                               /\ MayBeSaid(v, result.target, result.found)
      BY DEF ResultsInv, ResultsAreTrue
    <3>2. IsPrefix(w, w)
      BY WithinItself
    <3>3. v = w
      BY <2>4, <3>1, <3>2, WithinOne
    <3> QED
      BY <3>1, <3>3
  <2> HIDE DEF mark
  <2> QED
    BY <2>1, <2>2, <2>3, <2>4 DEF MarksInv, MarksAreTrue
<1>2. ASSUME marked' = marked PROVE MarksInv'
  BY <1>2 DEF MarksInv, MarksAreTrue
<1>3. ASSUME NEW r \in Requests, OnInterest(r) PROVE MarksInv'
  BY <1>2, <1>3 DEF OnInterest
<1>4. ASSUME NEW name \in reinvoked, WorkerAnswers(name) \/ NobodyAnswers(name) PROVE MarksInv'
  BY <1>2, <1>4 DEF WorkerAnswers, NobodyAnswers
<1>5. ASSUME NEW result \in results, Throw(result) PROVE MarksInv'
  BY <1>2, <1>5 DEF Throw
<1>6. ASSUME UNCHANGED vars PROVE MarksInv'
  BY <1>2, <1>6 DEF vars
<1> QED
  BY <1>1, <1>3, <1>4, <1>5, <1>6 DEF Next

-----------------------------------------------------------------------------
(* What is answered and marked, in every step.                             *)

\* The page has an element for what is looked for.
SoughtListed == <<Sought(request)>> = request.targets[1]

\* The places that the results name: in edge mode those of the workers.
Named(r) == IF m_edge_mode = "e" THEN Reaching(r) ELSE Reached(r)

\* The name of a place that was asked for.
NameOf(location) ==
    [routable |-> location, keyword |-> <<<<location>>, ExtractTargets(Asked)>>]

\* A result on its way is of a place that was reached and of what is looked for there;
\* and so is a mark, which there is only if the page throws on neither.
AnswerInv ==
    /\ request \in Requests \cup {NoRequest}
    /\ request = NoRequest => reinvoked = {} /\ results = {} /\ marked = {}
    /\ \A name \in reinvoked : name = NameOf(name.routable)
    /\ \A result \in results :
          result.location \in Named(request) /\ result.target = Sought(request)
    /\ \A m \in marked :
          SoughtListed /\ \E l \in Named(request) : m.cell = Cell(l) /\ ~(Cell(l).y > 15)

\* Of each worker that was reached, the Interest, the result or the mark is there; in
\* cloud mode, if all places are those of workers.
PlaceInv ==
    /\ request # NoRequest /\ SoughtListed
    /\ m_edge_mode = "e" \/ Reached(request) \subseteq Workers
    => \A w \in Reaching(request) :
            \/ \E name \in reinvoked : IsPrefix(w, name.routable)
            \/ \E result \in results : result.location = w
            \/ \E m \in marked : m.cell = Cell(w)

\* The names are those of the places that were asked for.
LEMMA NamesOfPlaces ==
    ASSUME NEW keyword
    PROVE  /\ \A name \in ToSet(ConvertInterestName(keyword)) :
                 name = [routable |-> name.routable,
                         keyword |-> <<<<name.routable>>, ExtractTargets(keyword)>>]
           /\ \A l \in ToSet(LocationKey(keyword)) :
                 \E name \in ToSet(ConvertInterestName(keyword)) : name.routable = l
<1> DEFINE locations == LocationKey(keyword)
           target == ExtractTargets(keyword)
           made(l) == [routable |-> l, keyword |-> <<<<l>>, target>>]
<1> HIDE DEF locations, target
<1>1. ToSet(ConvertInterestName(keyword)) = {made(locations[i]) : i \in DOMAIN locations}
  BY DEF ConvertInterestName, ToSet, locations, target
<1>2. ToSet(locations) = {locations[i] : i \in DOMAIN locations}
  BY DEF ToSet
<1>3. \A l : made(l).routable = l
  OBVIOUS
<1>4. \A name \in ToSet(ConvertInterestName(keyword)) : name = made(name.routable)
  BY <1>1, <1>3
<1>5. \A l \in ToSet(locations) :
         \E name \in ToSet(ConvertInterestName(keyword)) : name.routable = l
  BY <1>1, <1>2, <1>3
<1> QED
  BY <1>4, <1>5 DEF locations, target

\* In both modes the answer to a name is of the place of the name, and of what is
\* looked for.
LEMMA AnswersFit ==
    ASSUME NamesInv, AnswerInv, NEW name \in reinvoked,
           NEW prefix \in Workers, IsPrefix(prefix, name.routable),
           NEW result \in IF m_edge_mode = "e" THEN EdgeResults(name, prefix)
                                               ELSE CloudResults(name, prefix)
    PROVE  /\ name.routable \in Reached(request)
           /\ result.location = IF m_edge_mode = "e" THEN prefix ELSE name.routable
           /\ result.location \in Named(request)
           /\ result.target = Sought(request)
<1>1. /\ name = NameOf(name.routable)
      /\ name \in ToSet(ConvertInterestName(Asked))
  BY DEF AnswerInv, NamesInv
<1>2. name.routable \in Reached(request)
  <2>1. name.routable \in ToSet(LocationKey(Asked))
    BY <1>1, NamesAgree
  <2> QED
    BY <2>1 DEF Reached, Asked
<1>3. TargetAtWorker(name) = Sought(request)
  <2> DEFINE target == ExtractTargets(Asked)
             location == name.routable
  <2>1. name.keyword = <<<<location>>, target>>
    BY <1>1 DEF NameOf
  <2> HIDE DEF target, location
  <2>2. ExtractTargets(name.keyword) = target
    BY <2>1 DEF ExtractTargets, Last
  <2> QED
    BY <2>2 DEF TargetAtWorker, Sought, Asked, target
<1>4. result.location = IF m_edge_mode = "e" THEN prefix ELSE name.routable
  BY <1>1, AnswersAreTrue
<1>5. result.target = Sought(request)
  <2>1. CASE m_edge_mode = "e"
    BY <1>3, <2>1 DEF EdgeResults
  <2>2. CASE m_edge_mode # "e"
    BY <2>2 DEF CloudResults, Sought, Asked
  <2> QED
    BY <2>1, <2>2
<1> QED
  BY <1>2, <1>4, <1>5 DEF Named, Reaching

LEMMA AnswerStep ==
    ASSUME NamesInv, AnswerInv, [Next]_vars
    PROVE  AnswerInv'
<1>1. ASSUME NEW r \in Requests, OnInterest(r) PROVE AnswerInv'
  <2>1. /\ request = NoRequest /\ request' = r
        /\ reinvoked' = ToSet(ConvertInterestName(Received(r)))
        /\ results' = {} /\ marked' = {}
    BY <1>1 DEF OnInterest, AnswerInv
  <2>2. r # NoRequest
    BY SearchAssumption DEF NoRequest
  <2>3. \A name \in reinvoked' :
           name = [routable |-> name.routable,
                   keyword |-> <<<<name.routable>>, ExtractTargets(Received(r))>>]
    BY <2>1, NamesOfPlaces
  <2> QED
    BY <2>1, <2>2, <2>3 DEF AnswerInv, NameOf, Asked
<1>2. ASSUME NEW name \in reinvoked, WorkerAnswers(name) PROVE AnswerInv'
  <2>1. PICK prefix \in Workers :
           /\ IsPrefix(prefix, name.routable)
           /\ \E result \in IF m_edge_mode = "e" THEN EdgeResults(name, prefix)
                                                  ELSE CloudResults(name, prefix) :
                 results' = results \cup {result}
    BY <1>2 DEF WorkerAnswers
  <2>2. PICK result \in IF m_edge_mode = "e" THEN EdgeResults(name, prefix)
                                              ELSE CloudResults(name, prefix) :
           results' = results \cup {result}
    BY <2>1
  <2>3. result.location \in Named(request) /\ result.target = Sought(request)
    BY <2>1, AnswersFit
  <2>4. request' = request /\ reinvoked' \subseteq reinvoked /\ marked' = marked
        /\ m_edge_mode' = m_edge_mode
    BY <1>2 DEF WorkerAnswers
  <2>5. request # NoRequest
    BY DEF AnswerInv
  <2> QED
    BY <2>2, <2>3, <2>4, <2>5 DEF AnswerInv, NameOf, Asked, SoughtListed, Named
<1>3. ASSUME NEW result \in results, MarkingXY(result) PROVE AnswerInv'
  <2>1. result.location \in Named(request) /\ SoughtListed /\ ~(Cell(result.location).y > 15)
    BY <1>3 DEF AnswerInv, MarkingXY, Throws, Listed, SoughtListed
  <2>2. request # NoRequest
    BY DEF AnswerInv
  <2>3. /\ request' = request /\ reinvoked' = reinvoked /\ results' \subseteq results
        /\ m_edge_mode' = m_edge_mode
        /\ \A m \in marked' : m \in marked \/ m.cell = Cell(result.location)
    BY <1>3 DEF MarkingXY
  <2> QED
    BY <2>1, <2>2, <2>3 DEF AnswerInv, NameOf, Asked, SoughtListed, Named
<1>4. ASSUME request' = request, reinvoked' \subseteq reinvoked, results' \subseteq results,
             marked' = marked, m_edge_mode' = m_edge_mode
      PROVE  AnswerInv'
  BY <1>4 DEF AnswerInv, NameOf, Asked, SoughtListed, Named
<1>5. ASSUME NEW name \in reinvoked, NobodyAnswers(name) PROVE AnswerInv'
  BY <1>4, <1>5 DEF NobodyAnswers
<1>6. ASSUME NEW result \in results, Throw(result) PROVE AnswerInv'
  BY <1>4, <1>6 DEF Throw
<1>7. ASSUME UNCHANGED vars PROVE AnswerInv'
  BY <1>4, <1>7 DEF vars
<1> QED
  BY <1>1, <1>2, <1>3, <1>5, <1>6, <1>7 DEF Next

LEMMA PlaceStep ==
    ASSUME Workers \subseteq Places, NamesInv, AnswerInv, PlaceInv, [Next]_vars
    PROVE  PlaceInv'
<1>1. ASSUME NEW r \in Requests, OnInterest(r) PROVE PlaceInv'
  <2>1. request' = r /\ reinvoked' = ToSet(ConvertInterestName(Received(r)))
    BY <1>1 DEF OnInterest
  <2>2. \A l \in Reached(r) : \E name \in reinvoked' : name.routable = l
    BY <2>1, NamesOfPlaces DEF Reached
  <2>3. \A w \in Reaching(r) : \E name \in reinvoked' : IsPrefix(w, name.routable)
    BY <2>2 DEF Reaching
  <2> QED
    BY <2>1, <2>3 DEF PlaceInv
<1>2. ASSUME NEW name \in reinvoked, WorkerAnswers(name) PROVE PlaceInv'
  <2>1. PICK prefix \in Workers :
           /\ IsPrefix(prefix, name.routable)
           /\ \E result \in IF m_edge_mode = "e" THEN EdgeResults(name, prefix)
                                                  ELSE CloudResults(name, prefix) :
                 results' = results \cup {result}
    BY <1>2 DEF WorkerAnswers
  <2>2. PICK result \in IF m_edge_mode = "e" THEN EdgeResults(name, prefix)
                                              ELSE CloudResults(name, prefix) :
           results' = results \cup {result}
    BY <2>1
  <2>3. /\ name.routable \in Reached(request)
        /\ result.location = IF m_edge_mode = "e" THEN prefix ELSE name.routable
    BY <2>1, AnswersFit
  <2>4. /\ request' = request /\ reinvoked' = reinvoked \ {name} /\ marked' = marked
        /\ m_edge_mode' = m_edge_mode
    BY <1>2 DEF WorkerAnswers
  <2>5. request \in Requests
    BY DEF NamesInv, AnswerInv
  <2>6. name.routable \in Seq(Digits)
    BY <2>3, <2>5, ReachedIsTyped
  <2>7. ASSUME m_edge_mode = "e" \/ Reached(request) \subseteq Workers,
               NEW w \in Reaching(request), IsPrefix(w, name.routable)
        PROVE  result.location = w
    <3>1. w \in Workers
      BY DEF Reaching
    <3>2. w = prefix
      BY <2>1, <2>6, <2>7, <3>1, WithinOne
    <3>3. CASE m_edge_mode # "e"
      <4>1. name.routable \in Workers
        BY <2>3, <2>7, <3>3
      <4>2. IsPrefix(name.routable, name.routable)
        BY <4>1, WithinItself
      <4>3. w = name.routable
        BY <2>6, <2>7, <3>1, <4>1, <4>2, WithinOne
      <4> QED
        BY <2>3, <3>3, <4>3
    <3> QED
      BY <2>3, <3>2, <3>3
  <2> QED
    BY <2>2, <2>4, <2>7 DEF PlaceInv, SoughtListed
<1>3. ASSUME NEW name \in reinvoked, NobodyAnswers(name) PROVE PlaceInv'
  <2>1. \A w \in Reaching(request) : ~IsPrefix(w, name.routable)
    BY <1>3 DEF NobodyAnswers, Reaching
  <2>2. /\ request' = request /\ reinvoked' = reinvoked \ {name}
        /\ results' = results /\ marked' = marked /\ m_edge_mode' = m_edge_mode
    BY <1>3 DEF NobodyAnswers
  <2> QED
    BY <2>1, <2>2 DEF PlaceInv, SoughtListed
<1>4. ASSUME NEW result \in results, MarkingXY(result) PROVE PlaceInv'
  <2> DEFINE mark == [cell |-> Cell(result.location), target |-> result.target,
                      found |-> result.found]
  <2>1. /\ request' = request /\ reinvoked' = reinvoked /\ results' = results \ {result}
        /\ marked' = marked \cup {m \in {mark} : m.cell \in Grid}
        /\ m_edge_mode' = m_edge_mode
    BY <1>4 DEF MarkingXY
  <2>2. mark.cell = Cell(result.location)
    OBVIOUS
  <2>3. ASSUME result.location \in Workers
        PROVE  \E m \in marked' : m.cell = Cell(result.location)
    <3>1. Cell(result.location) \in Grid
      BY <2>3, PlacesHaveTheirCells
    <3> HIDE DEF mark
    <3> QED
      BY <2>1, <2>2, <3>1
  <2>4. \A w \in Reaching(request) : w \in Workers
    BY DEF Reaching
  <2> HIDE DEF mark
  <2> QED
    BY <2>1, <2>3, <2>4 DEF PlaceInv, SoughtListed
<1>5. ASSUME NEW result \in results, Throw(result) PROVE PlaceInv'
  <2>1. request' = request /\ m_edge_mode' = m_edge_mode
    BY <1>5 DEF Throw
  <2>2. ASSUME SoughtListed, m_edge_mode = "e" \/ Reached(request) \subseteq Workers PROVE FALSE
    <3>1. result.location \in Workers
      BY <2>2 DEF AnswerInv, Named, Reaching
    <3>2. Cell(result.location) \in Grid
      BY <3>1, PlacesHaveTheirCells
    <3>3. ~(Cell(result.location).y > 15)
      BY <3>2 DEF Grid
    <3> QED
      BY <1>5, <2>2, <3>3 DEF Throw, Throws, Listed, AnswerInv, SoughtListed
  <2> QED
    BY <2>1, <2>2 DEF PlaceInv, SoughtListed
<1>6. ASSUME UNCHANGED vars PROVE PlaceInv'
  BY <1>6 DEF vars, PlaceInv, SoughtListed
<1> QED
  BY <1>1, <1>2, <1>3, <1>4, <1>5, <1>6 DEF Next

\* The places asked for in a search are those that the edge server reached, and so are
\* their workers.
LEMMA ReachedIsWatched ==
    ASSUME AnswerInv, request # NoRequest
    PROVE  /\ Unsplit(request) => Reached(request) = Watched /\ Reaching(request) = Answering
           /\ ~Unsplit(request) => Reached(request) = {} /\ Reaching(request) = {}
<1>1. request \in Requests
  BY DEF AnswerInv
<1>2. Unsplit(request) => Reached(request) = Watched
  BY <1>1, OneWordRead DEF Reached, Watched
<1>3. Reached(request) = Watched => Reaching(request) = Answering
  <2>1. ASSUME NEW w \in Workers, NEW l \in ToSet(request.locations), IsPrefix(w, l)
        PROVE  l \in Watched
    BY <2>1 DEF Watched
  <2>2. Watched \subseteq ToSet(request.locations)
    BY DEF Watched
  <2> QED
    BY <2>1, <2>2 DEF Reaching, Answering
<1>4. ~Unsplit(request) => Reached(request) = {}
  BY <1>1, MoreWordsRead
<1> QED
  BY <1>2, <1>3, <1>4 DEF Reaching

-----------------------------------------------------------------------------
(* Theorems.                                                               *)

LEMMA NamesInvariance == Spec => []NamesInv
<1>1. Init => NamesInv
  BY DEF Init, NamesInv
<1> QED
  BY <1>1, NamesStep, PTL DEF Spec

LEMMA ResultsInvariance == Spec => []ResultsInv
<1>1. Init => ResultsInv
  BY DEF Init, ResultsInv, ResultsAreTrue
<1> QED
  BY <1>1, ResultsStep, NamesInvariance, PTL DEF Spec

\* What a page is sent is true of a worker whose place is the one that it names or has
\* it within, whatever is asked and seen: in edge mode the worker itself says it, in
\* cloud mode the edge server of its picture.
THEOREM ResultsTellTruth == Spec => []ResultsAreTrue
<1>1. ResultsInv => ResultsAreTrue
  BY DEF ResultsInv
<1> QED
  BY <1>1, ResultsInvariance, PTL

LEMMA AnswerInvariance == Spec => []AnswerInv
<1>1. Init => AnswerInv
  BY DEF Init, AnswerInv
<1> QED
  BY <1>1, AnswerStep, NamesInvariance, PTL DEF Spec

\* Whatever places the users ask for, no name is split so that a wrong worker answers,
\* or the right one for something else than was meant.
THEOREM ResultsAnswerRequests == Spec => []ResultsAnswer
<1>1. AnswerInv => ResultsAnswer
  <2> SUFFICES ASSUME AnswerInv, NEW result \in results
               PROVE  /\ result.location \in IF m_edge_mode = "e" THEN Answering ELSE Watched
                      /\ Listed(result) \/ Escaped
    BY DEF ResultsAnswer
  <2>1. request \in Requests /\ request # NoRequest
    BY DEF AnswerInv
  <2>2. result.location \in Named(request) /\ result.target = Sought(request)
    BY DEF AnswerInv
  <2>3. Unsplit(request)
    BY <2>1, <2>2, ReachedIsWatched DEF Named
  <2>4. result.location \in IF m_edge_mode = "e" THEN Answering ELSE Watched
    BY <2>1, <2>2, <2>3, ReachedIsWatched DEF Named
  <2>5. Listed(result) \/ Escaped
    BY <2>1, <2>2, <2>3, SoughtIsListed DEF Listed, Escaped, EscapedIn
  <2> QED
    BY <2>4, <2>5
<1> QED
  BY <1>1, AnswerInvariance, PTL

LEMMA NamedIsTyped ==
    ASSUME AnswerInv, NEW result \in results
    PROVE  result.location \in Seq(Digits)
<1>1. request \in Requests
  BY DEF AnswerInv
<1>2. result.location \in Named(request)
  BY DEF AnswerInv
<1>3. CASE m_edge_mode = "e"
  BY <1>2, <1>3, DigitsAssumption DEF Named, Reaching
<1>4. CASE m_edge_mode # "e"
  BY <1>1, <1>2, <1>4, ReachedIsTyped DEF Named
<1> QED
  BY <1>3, <1>4

\* Wherever the workers are on the map, a result is marked in the square of the worker
\* that it names and in no other's; and if it names a place within that of a worker,
\* however long it is, it leads to no row of the map.
THEOREM ResultsHaveTheirCells ==
    ASSUME Workers \subseteq Places
    PROVE  Spec => []OwnCell
<1>1. ResultsInv /\ AnswerInv => OwnCell
  <2> SUFFICES ASSUME ResultsInv, AnswerInv, NEW result \in results
               PROVE  \/ /\ Cell(result.location) \in Grid
                         /\ \A w \in Workers : InSquare(Cell(result.location), w)
                                                <=> w = result.location
                      \/ /\ m_edge_mode = "c" /\ result.location \notin Workers
                         /\ Cell(result.location).y > 15
    BY DEF OwnCell
  <2>1. result.location \in Named(request) /\ result.location \in Seq(Digits)
    BY NamedIsTyped DEF AnswerInv
  <2>2. CASE result.location \in Workers
    BY <2>2, PlacesHaveTheirCells
  <2>3. CASE result.location \notin Workers
    <3>1. m_edge_mode = "c" /\ result.location \in Reached(request)
      BY <2>1, <2>3 DEF ResultsInv, Named, Reaching
    <3>2. PICK w \in Workers : IsPrefix(w, result.location)
      BY <3>1 DEF Reached
    <3>3. w \in Places /\ result.location \in Seq(0 .. 9) /\ result.location # w
      BY <2>1, <2>3 DEF Digits
    <3>4. Cell(result.location).y > 15
      BY <3>2, <3>3, PlacesWithinHaveNoRow
    <3> QED
      BY <2>3, <3>1, <3>4
  <2> QED
    BY <2>2, <2>3
<1> QED
  BY <1>1, ResultsInvariance, AnswerInvariance, PTL

LEMMA MarksInvariance ==
    ASSUME Workers \subseteq Places
    PROVE  Spec => []MarksInv
<1>1. Init => MarksInv
  BY DEF Init, MarksInv, MarksAreTrue
<1>2. Spec => []OwnCell
  BY ResultsHaveTheirCells
<1>3. MarksInv /\ ResultsInv /\ OwnCell /\ AnswerInv /\ [Next]_vars => MarksInv'
  BY NamedIsTyped, MarksStep
<1> QED
  BY <1>1, <1>2, <1>3, ResultsInvariance, AnswerInvariance, PTL DEF Spec

\* Every variable of a search has its type, and what is marked is on the map.
THEOREM TypeCorrect ==
    ASSUME Workers \subseteq Places
    PROVE  Spec => []TypeOK
<1>1. NamesInv /\ ResultsInv /\ AnswerInv /\ MarksInv => TypeOK
  BY NamedIsTyped DEF NamesInv, ResultsInv, MarksInv, TypeOK
<1>2. Spec => []MarksInv
  BY MarksInvariance
<1> QED
  BY <1>1, <1>2, NamesInvariance, ResultsInvariance, AnswerInvariance, PTL

\* What the page marks is true of the place where it marks it, in both modes, for all
\* scenes and wherever the workers are on the map.
THEOREM MapTellsTruth ==
    ASSUME Workers \subseteq Places
    PROVE  Spec => []MarksAreTrue
<1>1. MarksInv => MarksAreTrue
  BY DEF MarksInv
<1>2. Spec => []MarksInv
  BY MarksInvariance
<1> QED
  BY <1>1, <1>2, PTL

\* What may be marked is marked by one worker's place.
LEMMA NamedOnMap ==
    ASSUME Workers \subseteq Places, AnswerInv, request # NoRequest,
           NEW l \in Named(request), ~(Cell(l).y > 15)
    PROVE  l \in Reaching(request)
<1>1. request \in Requests
  BY DEF AnswerInv
<1>2. CASE m_edge_mode = "e"
  BY <1>2 DEF Named
<1>3. CASE m_edge_mode # "e"
  <2>1. l \in Reached(request) /\ l \in Seq(Digits)
    BY <1>1, <1>3, ReachedIsTyped DEF Named
  <2>2. PICK w \in Workers : IsPrefix(w, l)
    BY <2>1 DEF Reached
  <2>3. l = w
    <3>1. w \in Places /\ l \in Seq(0 .. 9)
      BY <2>1 DEF Digits
    <3> QED
      BY <2>2, <3>1, PlacesWithinHaveNoRow
  <2> QED
    BY <2>1, <2>2, <2>3 DEF Reaching
<1> QED
  BY <1>2, <1>3

\* When all is done the map shows the workers that were asked: whatever places the users
\* ask for and wherever the workers are, no cell is another's, none is marked for a
\* target that the page does not know, and none is missing unless the page throws on a
\* place within that of a worker.
THEOREM MapAgreesWithRequest ==
    ASSUME Workers \subseteq Places
    PROVE  Spec => []MapAgrees
<1>1. Spec => []PlaceInv
  <2>1. Init => PlaceInv
    BY DEF Init, PlaceInv
  <2> QED
    BY <2>1, PlaceStep, NamesInvariance, AnswerInvariance, PTL DEF Spec
<1>2. AnswerInv /\ PlaceInv => MapAgrees
  <2> SUFFICES ASSUME AnswerInv, PlaceInv,
                      reinvoked = {}, results = {}, request # NoRequest
               PROVE  MapAgrees
    BY DEF MapAgrees
  <2> DEFINE single == \A i \in DOMAIN request.targets : Len(request.targets[i]) = 1
             places == IF ~Escaped /\ single THEN Answering ELSE {}
             cells == {cell \in Grid : \E w \in places : InSquare(cell, w)}
             shown == {m.cell : m \in marked}
  <2>1. request \in Requests
    BY DEF AnswerInv
  <2>2. places = IF SoughtListed THEN Reaching(request) ELSE {}
    <3>1. CASE single
      <4>1. Unsplit(request)
        BY <3>1 DEF Unsplit
      <4>2. Reaching(request) = Answering
        BY <4>1, ReachedIsWatched
      <4>3. SoughtListed <=> ~Escaped
        BY <2>1, <4>1, SoughtIsListed DEF SoughtListed, Escaped, EscapedIn
      <4> QED
        BY <3>1, <4>2, <4>3
    <3>2. CASE ~single
      BY <3>2, ReachedIsWatched DEF Unsplit
    <3> QED
      BY <3>1, <3>2
  <2>3. places \subseteq Places
    BY <2>2 DEF Reaching
  <2> HIDE DEF places
  <2>4. cells = {Cell(w) : w \in places}
    <3>1. \A w \in places : Cell(w) \in Grid /\ InSquare(Cell(w), w)
      BY <2>3, PlacesHaveTheirCells
    <3>2. \A w \in places : \A cell \in Grid : InSquare(cell, w) => cell = Cell(w)
      BY <2>3, SquaresHaveOneCell
    <3> QED
      BY <3>1, <3>2
  <2>5. shown \subseteq {Cell(w) : w \in places}
    <3>1. ASSUME NEW m \in marked PROVE \E w \in places : m.cell = Cell(w)
      <4>1. PICK l \in Named(request) : SoughtListed /\ m.cell = Cell(l) /\ ~(Cell(l).y > 15)
        BY DEF AnswerInv
      <4>2. l \in Reaching(request)
        BY <4>1, NamedOnMap
      <4> QED
        BY <2>2, <4>1, <4>2
    <3> QED
      BY <3>1
  <2>6. ASSUME m_edge_mode = "e" \/ Watched \subseteq Workers
        PROVE  {Cell(w) : w \in places} \subseteq shown
    <3>1. Reached(request) \subseteq Watched
      BY ReachedIsWatched
    <3>2. ASSUME NEW w \in places PROVE \E m \in marked : m.cell = Cell(w)
      BY <2>2, <2>6, <3>1 DEF PlaceInv
    <3> QED
      BY <3>2
  <2>7. shown \subseteq cells /\ (m_edge_mode = "e" \/ Watched \subseteq Workers => shown = cells)
    BY <2>4, <2>5, <2>6
  <2> HIDE DEF cells, shown
  <2>8. MapAgrees <=> shown \subseteq cells
                      /\ (m_edge_mode = "e" \/ Watched \subseteq Workers => shown = cells)
    BY DEF MapAgrees, cells, shown, places
  <2> QED
    BY <2>7, <2>8
<1> QED
  BY <1>1, <1>2, AnswerInvariance, PTL
=============================================================================
