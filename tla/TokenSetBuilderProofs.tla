------------------------ MODULE TokenSetBuilderProofs ------------------------
(***************************************************************************)
(* lunr's token sets, for every alphabet and any number of words of any    *)
(* length, inserted in order: the automaton has exactly these words, at    *)
(* every moment; when it is finished, no two of its nodes stand for the    *)
(* same endings; a term with wildcards, of any length, finds exactly the   *)
(* words that it matches; and a term with an edit distance, whatever it    *)
(* is, only words within it, and all those one edit away that do not       *)
(* merely end in one more character.                                       *)
(***************************************************************************)
EXTENDS TokenSetBuilder, FiniteSetTheorems, SequenceTheorems, WellFoundedInduction, TLAPS

-----------------------------------------------------------------------------
(* Sets of naturals, and functions along them. *)

(* A set of naturals has a least element. *)
LEMMA LeastPosition ==
  ASSUME NEW T, T \subseteq Nat, T # {}
  PROVE  \E x \in T : \A y \in T : x <= y
  <1>1. IsWellFoundedOn(OpToRel(<, Nat), Nat)
    BY NatLessThanWellFounded
  <1>2. PICK x \in T : \A y \in T : ~ (<<y, x>> \in OpToRel(<, Nat))
    BY <1>1, WFMin
  <1>3. ASSUME NEW y \in Nat, NEW z \in Nat, <<y, z>> \notin OpToRel(<, Nat)
        PROVE  z <= y
    BY <1>3 DEF OpToRel
  <1>4. QED
    BY <1>2, <1>3, Zenon

-----------------------------------------------------------------------------
(* Functions defined along the naturals. *)

HasRecursion(N, S, base, g) ==
    \E f \in [0 .. N -> S] : f[0] = base /\ \A n \in 1 .. N : f[n] = g[n][f[n - 1]]

(* Where each value follows from the one before, there is such a function. *)
LEMMA RecursionExists ==
  ASSUME NEW N \in Nat, NEW S, NEW base \in S, NEW g \in [1 .. N -> [S -> S]]
  PROVE  HasRecursion(N, S, base, g)
  <1> DEFINE Fits(f, m) == f[0] = base /\ \A n \in 1 .. m : f[n] = g[n][f[n - 1]]
             Missing == {m \in 0 .. N : ~ \E f \in [0 .. m -> S] : Fits(f, m)}
  <1>1. SUFFICES ASSUME Missing # {} PROVE FALSE
    <2>1. N \in 0 .. N
      OBVIOUS
    <2>2. QED
      BY <2>1 DEF HasRecursion
  <1>2. PICK m \in Missing : \A k \in Missing : m <= k
    <2>1. Missing \subseteq Nat
      OBVIOUS
    <2>2. QED
      BY <1>1, <2>1, LeastPosition
  <1>3. CASE m = 0
    <2> DEFINE f == [n \in 0 .. 0 |-> base]
    <2>1. f \in [0 .. 0 -> S] /\ f[0] = base /\ 1 .. 0 = {}
      OBVIOUS
    <2>2. QED
      BY <1>2, <1>3, <2>1
  <1>4. CASE m # 0
    <2>1. m - 1 \in 0 .. N /\ m - 1 \notin Missing /\ m \in 1 .. N
      <3>1. m \in 0 .. N
        BY <1>2
      <3>2. m - 1 \in 0 .. N /\ m \in 1 .. N /\ ~ (m <= m - 1)
        BY <1>4, <3>1
      <3> HIDE DEF Missing
      <3>3. QED
        BY <1>2, <3>2
    <2>2. PICK f \in [0 .. m - 1 -> S] : Fits(f, m - 1)
      BY <2>1
    <2> DEFINE h == [n \in 0 .. m |-> IF n = m THEN g[m][f[m - 1]] ELSE f[n]]
    <2>3. f[m - 1] \in S /\ g[m] \in [S -> S]
      BY <2>1
    <2>4. g[m][f[m - 1]] \in S
      BY <2>3
    <2>5. h \in [0 .. m -> S]
      <3>1. \A n \in 0 .. m : n # m => n \in 0 .. m - 1
        BY <2>1
      <3>2. QED
        BY <2>4, <3>1
    <2>6. h[m] = g[m][f[m - 1]] /\ \A n \in 0 .. m - 1 : h[n] = f[n]
      BY <2>1
    <2> HIDE DEF h
    <2>7. h[0] = base
      BY <2>1, <2>2, <2>6
    <2>8. ASSUME NEW n \in 1 .. m PROVE h[n] = g[n][h[n - 1]]
      <3>1. CASE n = m
        BY <2>1, <2>6, <3>1
      <3>2. CASE n # m
        <4>1. n \in 1 .. m - 1 /\ n - 1 \in 0 .. m - 1 /\ n \in 0 .. m - 1
          BY <2>1, <3>2
        <4>2. QED
          BY <2>2, <2>6, <4>1
      <3>3. QED
        BY <3>1, <3>2
    <2>9. QED
      BY <1>2, <2>5, <2>7, <2>8
  <1>5. QED
    BY <1>3, <1>4

-----------------------------------------------------------------------------
(* The digits of a number. *)

Digit == {Digits[i] : i \in 1 .. 10}

NoDigits == Letters \cap Digit = {}

LEMMA Tenth ==
  ASSUME NEW n \in Nat
  PROVE  /\ n \div 10 \in Nat /\ (n % 10) \in 0 .. 9 /\ n = 10 * (n \div 10) + (n % 10)
         /\ n >= 10 => n \div 10 < n
  OBVIOUS

FirstDigits(f, n) ==
    IF n < 10 THEN <<Digits[n + 1]>> ELSE Append(f[n \div 10], Digits[(n % 10) + 1])

HasDigits(f, N) == \A n \in 0 .. N : f[n] = FirstDigits(f, n)

LEMMA SomeDigits ==
  ASSUME NEW N \in Nat
  PROVE  \E f : HasDigits(f, N)
  <1> DEFINE Good(f, m) == \A n \in 0 .. m : f[n] = FirstDigits(f, n)
             Missing == {m \in Nat : ~ \E f : Good(f, m)}
  <1>1. SUFFICES ASSUME Missing # {} PROVE FALSE
    BY DEF HasDigits
  <1>2. PICK m \in Missing : \A k \in Missing : m <= k
    BY <1>1, LeastPosition
  <1>3. PICK f : \A n \in 0 .. m - 1 : f[n] = FirstDigits(f, n)
    <2>1. CASE m = 0
      BY <2>1
    <2>2. CASE m # 0
      <3>1. m - 1 \in Nat /\ ~ (m <= m - 1)
        BY <2>2
      <3>2. QED
        BY <1>2, <3>1
    <2>3. QED
      BY <2>1, <2>2
  <1> DEFINE h == [n \in 0 .. m |-> IF n = m THEN FirstDigits(f, m) ELSE f[n]]
  <1>4. ASSUME NEW n \in 0 .. m PROVE FirstDigits(h, n) = FirstDigits(f, n)
    <2>1. CASE n < 10
      BY <2>1 DEF FirstDigits
    <2>2. CASE ~ (n < 10)
      <3>1. n \div 10 \in 0 .. m /\ n \div 10 # m
        BY <2>2, Tenth
      <3>2. h[n \div 10] = f[n \div 10]
        BY <3>1
      <3> HIDE DEF h
      <3>3. QED
        BY <3>2 DEF FirstDigits
    <2>3. QED
      BY <2>1, <2>2
  <1>5. Good(h, m)
    <2>1. ASSUME NEW n \in 0 .. m PROVE h[n] = FirstDigits(f, n)
      <3>1. CASE n = m
        BY <3>1
      <3>2. CASE n # m
        <4>1. n \in 0 .. m - 1
          BY <3>2
        <4>2. h[n] = f[n]
          BY <3>2
        <4>3. QED
          BY <1>3, <4>1, <4>2
      <3>3. QED
        BY <3>1, <3>2
    <2> HIDE DEF h
    <2>2. QED
      BY <1>4, <2>1
  <1>6. QED
    BY <1>2, <1>5

LEMMA SameDigits ==
  ASSUME NEW N \in Nat, NEW M \in Nat, NEW f, NEW g,
         HasDigits(f, N), HasDigits(g, M),
         NEW n \in Nat, n <= N, n <= M
  PROVE  f[n] = g[n]
  <1> DEFINE Differ == {k \in Nat : k <= N /\ k <= M /\ f[k] # g[k]}
  <1>1. SUFFICES ASSUME Differ # {} PROVE FALSE
    OBVIOUS
  <1>2. PICK m \in Differ : \A k \in Differ : m <= k
    BY <1>1, LeastPosition
  <1>3. f[m] = FirstDigits(f, m) /\ g[m] = FirstDigits(g, m)
    BY <1>2 DEF HasDigits
  <1>4. CASE m < 10
    BY <1>2, <1>3, <1>4 DEF FirstDigits
  <1>5. CASE ~ (m < 10)
    <2>1. /\ m \div 10 \in Nat /\ m \div 10 <= N /\ m \div 10 <= M /\ ~ (m <= m \div 10)
      BY <1>5, Tenth
    <2>2. f[m \div 10] = g[m \div 10]
      BY <1>2, <2>1
    <2>3. QED
      BY <1>2, <1>3, <1>5, <2>2 DEF FirstDigits
  <1>6. QED
    BY <1>4, <1>5

(* DecimalDigits is what its definition says. *)
LEMMA DigitsDefined == \A n \in Nat : DecimalDigits[n] = FirstDigits(DecimalDigits, n)
  <1> DEFINE Some(N) == CHOOSE f : HasDigits(f, N)
             h == [n \in Nat |-> Some(n)[n]]
             Body(f) == [n \in Nat |-> FirstDigits(f, n)]
  <1>1. ASSUME NEW N \in Nat PROVE HasDigits(Some(N), N)
    BY SomeDigits
  <1> HIDE DEF Some
  <1>2. ASSUME NEW n \in Nat PROVE h[n] = FirstDigits(h, n)
    <2>1. h[n] = FirstDigits(Some(n), n)
      BY <1>1 DEF HasDigits
    <2>2. CASE n < 10
      BY <2>1, <2>2 DEF FirstDigits
    <2>3. CASE ~ (n < 10)
      <3>1. n \div 10 \in Nat /\ n \div 10 <= n
        BY <2>3, Tenth
      <3>2. PICK t \in Nat : t = n \div 10
        BY <3>1
      <3>3. HasDigits(Some(n), n) /\ HasDigits(Some(t), t) /\ t <= n
        BY <1>1, <3>1, <3>2
      <3>4. Some(n)[t] = Some(t)[t]
        BY <3>3, SameDigits
      <3>5. h[t] = Some(n)[t]
        BY <3>4
      <3> HIDE DEF h
      <3>6. QED
        BY <2>1, <3>2, <3>5 DEF FirstDigits
    <2>4. QED
      BY <2>2, <2>3
  <1>3. h = Body(h)
    <2>1. h = [n \in Nat |-> h[n]]
      OBVIOUS
    <2> HIDE DEF h
    <2>2. QED
      BY <1>2, <2>1
  <1>4. DecimalDigits = CHOOSE f : f = Body(f)
    BY DEF DecimalDigits, FirstDigits
  <1> HIDE DEF h
  <1>5. DecimalDigits = Body(DecimalDigits)
    BY <1>3, <1>4
  <1>6. QED
    BY <1>5, Zenon

LEMMA TenDigits == \A i, j \in 1 .. 10 : Digits[i] \in Digit /\ (Digits[i] = Digits[j] => i = j)
  <1>1. \A i \in 1 .. 10 : Digits[i] \in Digit
    BY DEF Digit
  <1>2. ASSUME NEW i \in 1 .. 10, NEW j \in 1 .. 10, Digits[i] = Digits[j] PROVE i = j
    <2>1. \/ i = 1 \/ i = 2 \/ i = 3 \/ i = 4 \/ i = 5 \/ i = 6 \/ i = 7 \/ i = 8 \/ i = 9 \/ i = 10
      OBVIOUS
    <2>2. \/ j = 1 \/ j = 2 \/ j = 3 \/ j = 4 \/ j = 5 \/ j = 6 \/ j = 7 \/ j = 8 \/ j = 9 \/ j = 10
      OBVIOUS
    <2>3. QED
      BY <1>2, <2>1, <2>2 DEF Digits
  <1>3. QED
    BY <1>1, <1>2

LEMMA DigitsTyped ==
  ASSUME NEW n \in Nat
  PROVE  /\ DecimalDigits[n] \in Seq(Digit) /\ Len(DecimalDigits[n]) >= 1
         /\ n >= 10 => Len(DecimalDigits[n]) >= 2
  <1> DEFINE d == DecimalDigits
             Bad == {k \in Nat : ~ (d[k] \in Seq(Digit) /\ Len(d[k]) >= 1 /\ (k >= 10 => Len(d[k]) >= 2))}
  <1>1. SUFFICES ASSUME Bad # {} PROVE FALSE
    OBVIOUS
  <1>2. PICK m \in Bad : \A k \in Bad : m <= k
    BY <1>1, LeastPosition
  <1>3. d[m] = FirstDigits(d, m)
    BY <1>2, DigitsDefined
  <1> HIDE DEF d
  <1>4. CASE m < 10
    <2>1. Digits[m + 1] \in Digit
      <3>1. m + 1 \in 1 .. 10
        BY <1>4
      <3>2. QED
        BY <3>1, TenDigits
    <2>2. d[m] = <<Digits[m + 1]>>
      BY <1>3, <1>4 DEF FirstDigits
    <2>3. d[m] \in Seq(Digit) /\ Len(d[m]) = 1
      <3>1. PICK x \in Digit : d[m] = <<x>>
        BY <2>1, <2>2
      <3>2. QED
        BY <3>1
    <2>4. QED
      BY <1>2, <1>4, <2>3
  <1>5. CASE ~ (m < 10)
    <2>1. m \div 10 \in Nat /\ ~ (m <= m \div 10) /\ (m % 10) + 1 \in 1 .. 10
      BY <1>5, Tenth
    <2>2. PICK t \in Nat : t = m \div 10
      BY <2>1
    <2>3. t \notin Bad
      BY <1>2, <2>1, <2>2
    <2>4. d[t] \in Seq(Digit) /\ Len(d[t]) >= 1
      BY <2>2, <2>3
    <2>5. PICK x \in Digit : x = Digits[(m % 10) + 1]
      BY <2>1, TenDigits
    <2>6. d[m] = Append(d[t], x)
      BY <1>3, <1>5, <2>2, <2>5 DEF FirstDigits
    <2>7. d[m] \in Seq(Digit) /\ Len(d[m]) >= 2
      BY <2>4, <2>6, AppendProperties
    <2>8. QED
      BY <1>2, <2>7
  <1>6. QED
    BY <1>4, <1>5

(* Different numbers have different digits. *)
LEMMA DigitsDiffer ==
  ASSUME NEW m \in Nat, NEW n \in Nat, DecimalDigits[m] = DecimalDigits[n]
  PROVE  m = n
  <1> DEFINE d == DecimalDigits
             Bad == {k \in Nat : \E j \in Nat : d[k] = d[j] /\ k # j}
  <1>1. SUFFICES ASSUME Bad # {} PROVE FALSE
    OBVIOUS
  <1>2. PICK k \in Bad : \A i \in Bad : k <= i
    BY <1>1, LeastPosition
  <1>3. PICK j \in Nat : d[k] = d[j] /\ k # j
    OBVIOUS
  <1>4. /\ d[k] = FirstDigits(d, k) /\ d[j] = FirstDigits(d, j)
    BY DigitsDefined
  <1>5. /\ d[k] \in Seq(Digit) /\ (k >= 10 => Len(d[k]) >= 2)
        /\ (j >= 10 => Len(d[j]) >= 2)
    BY DigitsTyped
  <1> HIDE DEF d
  <1>6. CASE k < 10
    <2>1. d[k] = <<Digits[k + 1]>> /\ k + 1 \in 1 .. 10
      BY <1>4, <1>6 DEF FirstDigits
    <2>2. Len(d[k]) = 1
      BY <2>1
    <2>3. j < 10
      BY <1>3, <1>5, <2>2
    <2>4. d[j] = <<Digits[j + 1]>> /\ j + 1 \in 1 .. 10
      BY <1>4, <2>3 DEF FirstDigits
    <2>5. Digits[k + 1] = Digits[j + 1]
      <3>1. PICK a, b : a = Digits[k + 1] /\ b = Digits[j + 1]
        OBVIOUS
      <3>2. <<a>> = <<b>>
        BY <1>3, <2>1, <2>4, <3>1
      <3>3. <<a>>[1] = <<b>>[1]
        BY <3>2
      <3>4. QED
        BY <3>1, <3>3
    <2>6. k + 1 = j + 1
      BY <2>1, <2>4, <2>5, TenDigits
    <2>7. QED
      BY <1>3, <2>6
  <1>7. CASE ~ (k < 10)
    <2>1. ~ (j < 10)
      <3>1. SUFFICES ASSUME j < 10 PROVE FALSE
        OBVIOUS
      <3>2. d[j] = <<Digits[j + 1]>>
        BY <1>4, <3>1 DEF FirstDigits
      <3>3. Len(d[j]) = 1
        BY <3>2
      <3>4. QED
        BY <1>3, <1>5, <1>7, <3>3
    <2>2. PICK s \in Nat, t \in Nat, x \in 0 .. 9, y \in 0 .. 9 :
              /\ s = k \div 10 /\ t = j \div 10 /\ x = k % 10 /\ y = j % 10
              /\ k = 10 * s + x /\ j = 10 * t + y /\ ~ (k <= s)
      <3>1. PICK s \in Nat, x \in 0 .. 9 :
                s = k \div 10 /\ x = k % 10 /\ k = 10 * s + x /\ (k >= 10 => s < k)
        BY Tenth
      <3>2. PICK t \in Nat, y \in 0 .. 9 : t = j \div 10 /\ y = j % 10 /\ j = 10 * t + y
        BY Tenth
      <3>3. ~ (k <= s)
        BY <1>7, <3>1
      <3>4. QED
        BY <3>1, <3>2, <3>3
    <2>3. d[k] = Append(d[s], Digits[x + 1]) /\ d[j] = Append(d[t], Digits[y + 1])
      BY <1>4, <1>7, <2>1, <2>2 DEF FirstDigits
    <2>4. d[s] \in Seq(Digit) /\ d[t] \in Seq(Digit) /\ Digits[x + 1] \in Digit /\ Digits[y + 1] \in Digit
      <3>1. x + 1 \in 1 .. 10 /\ y + 1 \in 1 .. 10
        OBVIOUS
      <3>2. QED
        BY <3>1, TenDigits, DigitsTyped DEF d
    <2>5. d[s] = d[t] /\ Digits[x + 1] = Digits[y + 1]
      <3>1. PICK p \in Seq(Digit), q \in Seq(Digit), a \in Digit, b \in Digit :
                p = d[s] /\ q = d[t] /\ a = Digits[x + 1] /\ b = Digits[y + 1]
        BY <2>4
      <3>2. Append(p, a) = Append(q, b)
        BY <1>3, <2>3, <3>1
      <3>3. Len(p) = Len(q)
        <4>1. Len(Append(p, a)) = Len(p) + 1 /\ Len(Append(q, b)) = Len(q) + 1
          BY AppendProperties
        <4>2. QED
          BY <3>2, <4>1, LenProperties
      <3>4. a = b /\ \A i \in 1 .. Len(p) : p[i] = q[i]
        BY <3>2, <3>3, AppendProperties
      <3>5. p = q
        BY <3>3, <3>4, SeqEqual
      <3>6. QED
        BY <3>1, <3>4, <3>5
    <2>6. x + 1 = y + 1
      <3>1. x + 1 \in 1 .. 10 /\ y + 1 \in 1 .. 10
        OBVIOUS
      <3>2. QED
        BY <2>5, <3>1, TenDigits
    <2>7. s # t
      BY <1>3, <2>2, <2>6
    <2>8. s \in Bad
      BY <2>5, <2>7
    <2>9. QED
      BY <1>2, <2>2, <2>8
  <1>8. QED
    BY <1>6, <1>7

-----------------------------------------------------------------------------
(* The key of a node. *)

EdgeMaps == UNION {[S -> Nat] : S \in SUBSET Letters}
Nodes == [final : BOOLEAN, edges : EdgeMaps]

Characters == Letters \union Digit

Finality(node) == IF node.final THEN "1" ELSE "0"
HasLabel(node, i) == Alphabet[i] \in DOMAIN node.edges
Target(node, i) == node.edges[Alphabet[i]]
WithLabel(node, s, i) ==
    IF HasLabel(node, i) THEN s \o <<Alphabet[i]>> \o DecimalDigits[Target(node, i)] ELSE s

(* The key as it grows along the alphabet. *)
IsKey(node, key) ==
    /\ \A i \in 0 .. Len(Alphabet) : key[i] \in Seq(Characters)
    /\ key[0] = <<Finality(node)>>
    /\ \A i \in 1 .. Len(Alphabet) : key[i] = WithLabel(node, key[i - 1], i)

LEMMA NodeFields ==
  ASSUME NEW node \in Nodes
  PROVE  /\ node.final \in BOOLEAN /\ DOMAIN node.edges \subseteq Letters
         /\ node.edges = [c \in DOMAIN node.edges |-> node.edges[c]]
         /\ \A c \in DOMAIN node.edges : c \in Letters /\ node.edges[c] \in Nat
         /\ node = [final |-> node.final, edges |-> node.edges]
  <1>1. node.final \in BOOLEAN /\ node.edges \in EdgeMaps
    BY DEF Nodes
  <1>2. PICK S \in SUBSET Letters : node.edges \in [S -> Nat]
    BY <1>1 DEF EdgeMaps
  <1>3. node = [final |-> node.final, edges |-> node.edges]
    BY DEF Nodes
  <1>4. QED
    BY <1>1, <1>2, <1>3

LEMMA LettersAre ==
  /\ Len(Alphabet) \in Nat /\ DOMAIN Alphabet = 1 .. Len(Alphabet)
  /\ \A i \in 1 .. Len(Alphabet) : Alphabet[i] \in Letters /\ Alphabet[i] \in Characters
  /\ \A c \in Letters : \E i \in 1 .. Len(Alphabet) : Alphabet[i] = c
  BY AlphabetAssumption DEF Letters, Characters

(* A character makes a text of one. *)
LEMMA OneCharacter ==
  ASSUME NEW S, NEW c \in S
  PROVE  <<c>> \in Seq(S) /\ Len(<<c>>) = 1 /\ <<c>>[1] = c
  OBVIOUS

LEMMA DigitsAreText ==
  ASSUME NEW n \in Nat
  PROVE  DecimalDigits[n] \in Seq(Characters)
  <1>1. DecimalDigits[n] \in Seq(Digit)
    BY DigitsTyped
  <1>2. \A x \in Digit : x \in Characters
    BY DEF Characters
  <1>3. QED
    <2> HIDE DEF Digit, Characters
    <2>1. PICK d \in Seq(Digit) : d = DecimalDigits[n]
      BY <1>1
    <2>2. d \in [1 .. Len(d) -> Characters] /\ Len(d) \in Nat
      BY <1>2, LenProperties
    <2>3. d \in Seq(Characters)
      BY <2>2, IsASeq
    <2>4. QED
      BY <2>1, <2>3

LEMMA FinalityIsText ==
  ASSUME NEW node
  PROVE  Finality(node) \in Digit /\ <<Finality(node)>> \in Seq(Characters)
  <1>1. Digits[1] = "0" /\ Digits[2] = "1"
    BY DEF Digits
  <1>2. Finality(node) \in Digit
    BY <1>1 DEF Digit, Finality
  <1>3. Finality(node) \in Characters
    BY <1>2 DEF Characters
  <1>4. QED
    BY <1>2, <1>3, OneCharacter

LEMMA LabelIsText ==
  ASSUME NEW node \in Nodes, NEW i \in 1 .. Len(Alphabet), NEW s \in Seq(Characters)
  PROVE  /\ HasLabel(node, i) =>
               /\ Target(node, i) \in Nat
               /\ <<Alphabet[i]>> \in Seq(Characters)
               /\ s \o <<Alphabet[i]>> \in Seq(Characters)
               /\ DecimalDigits[Target(node, i)] \in Seq(Characters)
         /\ WithLabel(node, s, i) \in Seq(Characters)
  <1>1. ASSUME HasLabel(node, i)
        PROVE  /\ Target(node, i) \in Nat
               /\ <<Alphabet[i]>> \in Seq(Characters)
               /\ s \o <<Alphabet[i]>> \in Seq(Characters)
               /\ DecimalDigits[Target(node, i)] \in Seq(Characters)
    <2>1. Alphabet[i] \in Characters /\ Target(node, i) \in Nat
      BY <1>1, LettersAre, NodeFields DEF HasLabel, Target
    <2>2. <<Alphabet[i]>> \in Seq(Characters)
      BY <2>1, OneCharacter
    <2>3. QED
      BY <2>1, <2>2, DigitsAreText, ConcatProperties
  <1>2. WithLabel(node, s, i) \in Seq(Characters)
    BY <1>1, ConcatProperties DEF WithLabel
  <1>3. QED
    BY <1>1, <1>2

LEMMA KeyGrows ==
  ASSUME NEW node \in Nodes
  PROVE  \E key : IsKey(node, key) /\ NodeKey(node) = key[Len(Alphabet)]
  <1> DEFINE L == Len(Alphabet)
             base == <<Finality(node)>>
             g == [i \in 1 .. L |-> [s \in Seq(Characters) |-> WithLabel(node, s, i)]]
             Step(k) == [i \in 0 .. L |-> IF i = 0 THEN base ELSE WithLabel(node, k[i - 1], i)]
             key == CHOOSE k : k = Step(k)
  <1>1. L \in Nat /\ base \in Seq(Characters)
    BY LettersAre, FinalityIsText
  <1>2. ASSUME NEW i \in 1 .. L, NEW s \in Seq(Characters)
        PROVE  WithLabel(node, s, i) \in Seq(Characters)
    BY LabelIsText
  <1>3. NodeKey(node) = key[L]
    BY DEF NodeKey, WithLabel, HasLabel, Target, Finality
  <1> HIDE DEF L, base
  <1>4. g \in [1 .. L -> [Seq(Characters) -> Seq(Characters)]]
    BY <1>2
  <1>5. PICK f \in [0 .. L -> Seq(Characters)] :
            f[0] = base /\ \A i \in 1 .. L : f[i] = g[i][f[i - 1]]
    <2> HIDE DEF g
    <2>1. HasRecursion(L, Seq(Characters), base, g)
      BY <1>1, <1>4, RecursionExists
    <2>2. QED
      BY <2>1 DEF HasRecursion
  <1>6. ASSUME NEW i \in 1 .. L PROVE f[i] = WithLabel(node, f[i - 1], i)
    <2>1. f[i - 1] \in Seq(Characters)
      BY <1>1
    <2>2. QED
      BY <1>5, <2>1
  <1>7. f = Step(f)
    <2>1. \A i \in 0 .. L : i = 0 \/ i \in 1 .. L
      BY <1>1
    <2>2. \A i \in 0 .. L : f[i] = IF i = 0 THEN base ELSE WithLabel(node, f[i - 1], i)
      BY <1>5, <1>6, <2>1
    <2>3. QED
      BY <2>2
  <1>8. key = Step(key)
    BY <1>7
  <1> HIDE DEF key
  <1>9. \A i \in 0 .. L : key[i] = IF i = 0 THEN base ELSE WithLabel(node, key[i - 1], i)
    BY <1>8, Zenon
  <1>10. key[0] = base /\ \A i \in 1 .. L : key[i] = WithLabel(node, key[i - 1], i)
    <2>1. 0 \in 0 .. L /\ \A i \in 1 .. L : i \in 0 .. L /\ i # 0
      BY <1>1
    <2>2. QED
      BY <1>9, <2>1, Zenon
  <1>11. ASSUME NEW n \in 0 .. L PROVE key[n] \in Seq(Characters)
    <2> DEFINE Bad == {i \in 0 .. L : key[i] \notin Seq(Characters)}
    <2>1. SUFFICES ASSUME Bad # {} PROVE FALSE
      OBVIOUS
    <2>2. PICK m \in Bad : \A k \in Bad : m <= k
      <3>1. Bad \subseteq Nat
        BY <1>1
      <3>2. QED
        BY <2>1, <3>1, LeastPosition
    <2>3. m \in 0 .. L /\ key[m] \notin Seq(Characters)
      BY <2>2
    <2>4. m # 0
      BY <1>1, <1>10, <2>3
    <2>5. m \in 1 .. L /\ m - 1 \in 0 .. L /\ ~ (m <= m - 1)
      BY <1>1, <2>3, <2>4
    <2>6. m - 1 \notin Bad
      BY <2>2, <2>5
    <2>7. key[m - 1] \in Seq(Characters)
      BY <2>5, <2>6
    <2>8. QED
      BY <1>2, <1>10, <2>3, <2>5, <2>7
  <1>12. QED
    BY <1>3, <1>10, <1>11 DEF IsKey, L, base

(* A text of digits and of the first letters of the alphabet. *)
Spells(s, i) == \A p \in 1 .. Len(s) : s[p] \in Digit \/ \E j \in 1 .. i : s[p] = Alphabet[j]

IsJoined(s, p, c, d) ==
    /\ s \in Seq(Characters) /\ Len(s) = Len(p) + 1 + Len(d)
    /\ \A k \in 1 .. Len(p) : s[k] = p[k]
    /\ s[Len(p) + 1] = c
    /\ \A k \in 1 .. Len(d) : s[Len(p) + 1 + k] = d[k]

LEMMA Joined ==
  ASSUME NEW p \in Seq(Characters), NEW c \in Characters, NEW d \in Seq(Characters)
  PROVE  IsJoined(p \o <<c>> \o d, p, c, d)
  <1>1. PICK b : b = <<c>>
    OBVIOUS
  <1>2. b \in Seq(Characters) /\ Len(b) = 1 /\ b[1] = c
    BY <1>1, OneCharacter
  <1>3. PICK q : q = p \o b
    OBVIOUS
  <1>4. /\ q \in Seq(Characters) /\ Len(q) = Len(p) + 1
        /\ \A k \in 1 .. Len(p) : q[k] = p[k]
        /\ q[Len(p) + 1] = c
    <2>1. /\ p \o b \in Seq(Characters) /\ Len(p \o b) = Len(p) + Len(b)
          /\ \A k \in 1 .. Len(p) + Len(b) : (p \o b)[k] = IF k <= Len(p) THEN p[k] ELSE b[k - Len(p)]
      BY <1>2, ConcatProperties
    <2>2. /\ q \in Seq(Characters) /\ Len(q) = Len(p) + 1
          /\ \A k \in 1 .. Len(p) + 1 : q[k] = IF k <= Len(p) THEN p[k] ELSE b[k - Len(p)]
      BY <1>2, <1>3, <2>1
    <2>3. Len(p) \in Nat
      BY LenProperties
    <2>4. \A k \in 1 .. Len(p) : q[k] = p[k]
      BY <2>2, <2>3
    <2>5. q[Len(p) + 1] = b[(Len(p) + 1) - Len(p)] /\ (Len(p) + 1) - Len(p) = 1
      BY <2>2, <2>3
    <2>6. QED
      BY <1>2, <2>2, <2>4, <2>5
  <1>5. PICK s : s = q \o d
    OBVIOUS
  <1>6. /\ s \in Seq(Characters) /\ Len(s) = Len(q) + Len(d)
        /\ \A k \in 1 .. Len(s) : s[k] = IF k <= Len(q) THEN q[k] ELSE d[k - Len(q)]
    <2>1. /\ q \o d \in Seq(Characters) /\ Len(q \o d) = Len(q) + Len(d)
          /\ \A k \in 1 .. Len(q) + Len(d) : (q \o d)[k] = IF k <= Len(q) THEN q[k] ELSE d[k - Len(q)]
      BY <1>4, ConcatProperties
    <2>2. QED
      BY <1>5, <2>1
  <1>7. Len(p) \in Nat /\ Len(d) \in Nat
    BY LenProperties
  <1>8. \A k \in 1 .. Len(p) : s[k] = p[k]
    BY <1>4, <1>6, <1>7
  <1>9. s[Len(p) + 1] = c
    BY <1>4, <1>6, <1>7
  <1>10. ASSUME NEW k \in 1 .. Len(d) PROVE s[Len(p) + 1 + k] = d[k]
    <2>1. PICK n \in Nat : n = Len(p) + 1 + k
      BY <1>7
    <2>2. n \in 1 .. Len(s) /\ ~ (n <= Len(q)) /\ n - Len(q) = k
      BY <1>4, <1>6, <1>7, <2>1
    <2>3. s[n] = d[n - Len(q)]
      BY <1>6, <2>2
    <2>4. QED
      BY <2>1, <2>2, <2>3
  <1>11. QED
    <2>1. IsJoined(s, p, c, d)
      BY <1>4, <1>6, <1>8, <1>9, <1>10 DEF IsJoined
    <2>2. QED
      BY <1>1, <1>3, <1>5, <2>1

Lacks(s, c) == \A k \in 1 .. Len(s) : s[k] # c

(* A character that is nowhere else cuts a text in two. *)
LEMMA CutInTwo ==
  ASSUME NEW p \in Seq(Characters), NEW q \in Seq(Characters), NEW c \in Characters,
         NEW d \in Seq(Characters), NEW e \in Seq(Characters),
         Lacks(p, c), Lacks(q, c), Lacks(d, c), Lacks(e, c),
         p \o <<c>> \o d = q \o <<c>> \o e
  PROVE  p = q /\ d = e
  <1>1. PICK s : s = p \o <<c>> \o d /\ IsJoined(s, p, c, d) /\ IsJoined(s, q, c, e)
    <2>1. IsJoined(p \o <<c>> \o d, p, c, d) /\ IsJoined(q \o <<c>> \o e, q, c, e)
      BY Joined
    <2>2. QED
      BY <2>1
  <1>2. /\ s \in Seq(Characters) /\ Len(s) = Len(p) + 1 + Len(d)
        /\ \A k \in 1 .. Len(p) : s[k] = p[k]
        /\ s[Len(p) + 1] = c
        /\ \A k \in 1 .. Len(d) : s[Len(p) + 1 + k] = d[k]
    BY <1>1 DEF IsJoined
  <1>3. /\ Len(s) = Len(q) + 1 + Len(e)
        /\ \A k \in 1 .. Len(q) : s[k] = q[k]
        /\ s[Len(q) + 1] = c
        /\ \A k \in 1 .. Len(e) : s[Len(q) + 1 + k] = e[k]
    BY <1>1 DEF IsJoined
  <1>4. Len(p) \in Nat /\ Len(d) \in Nat /\ Len(q) \in Nat /\ Len(e) \in Nat
    BY LenProperties
  <1>5. ~ (Len(p) < Len(q))
    <2>1. SUFFICES ASSUME Len(p) < Len(q) PROVE FALSE
      OBVIOUS
    <2>2. Len(p) + 1 \in 1 .. Len(q)
      BY <1>4, <2>1
    <2>3. QED
      BY <1>2, <1>3, <2>2 DEF Lacks
  <1>6. ~ (Len(q) < Len(p))
    <2>1. SUFFICES ASSUME Len(q) < Len(p) PROVE FALSE
      OBVIOUS
    <2>2. Len(q) + 1 \in 1 .. Len(p)
      BY <1>4, <2>1
    <2>3. QED
      BY <1>2, <1>3, <2>2 DEF Lacks
  <1>7. Len(p) = Len(q) /\ Len(d) = Len(e)
    BY <1>2, <1>3, <1>4, <1>5, <1>6
  <1>8. p = q
    BY <1>2, <1>3, <1>7, SeqEqual
  <1>9. d = e
    BY <1>2, <1>3, <1>7, SeqEqual
  <1>10. QED
    BY <1>8, <1>9

LEMMA LabelSpells ==
  ASSUME NEW node \in Nodes, NEW i \in 1 .. Len(Alphabet), NEW s \in Seq(Characters),
         Spells(s, i - 1)
  PROVE  Spells(WithLabel(node, s, i), i)
  <1>1. \A p \in 1 .. Len(s) : s[p] \in Digit \/ \E j \in 1 .. i : s[p] = Alphabet[j]
    <2>1. \A j \in 1 .. i - 1 : j \in 1 .. i
      BY LettersAre
    <2>2. QED
      BY <2>1 DEF Spells
  <1>2. CASE ~ HasLabel(node, i)
    BY <1>1, <1>2 DEF WithLabel, Spells
  <1>3. CASE HasLabel(node, i)
    <2>1. PICK c \in Characters, d \in Seq(Characters), t \in Nat :
              c = Alphabet[i] /\ t = Target(node, i) /\ d = DecimalDigits[t]
      BY <1>3, LettersAre, LabelIsText
    <2>2. PICK w : w = s \o <<c>> \o d /\ w = WithLabel(node, s, i)
      BY <1>3, <2>1 DEF WithLabel
    <2>3. /\ Len(w) = Len(s) + 1 + Len(d)
          /\ \A k \in 1 .. Len(s) : w[k] = s[k]
          /\ w[Len(s) + 1] = c
          /\ \A k \in 1 .. Len(d) : w[Len(s) + 1 + k] = d[k]
      <3>1. IsJoined(s \o <<c>> \o d, s, c, d)
        BY Joined
      <3>2. QED
        BY <2>2, <3>1 DEF IsJoined
    <2>4. Len(s) \in Nat /\ Len(d) \in Nat
      BY LenProperties
    <2>5. \A k \in 1 .. Len(d) : d[k] \in Digit
      <3>1. DecimalDigits[t] \in Seq(Digit)
        BY DigitsTyped
      <3>2. d \in Seq(Digit)
        BY <2>1, <3>1
      <3>3. QED
        BY <3>2
    <2>6. ASSUME NEW p \in 1 .. Len(w)
          PROVE  w[p] \in Digit \/ \E j \in 1 .. i : w[p] = Alphabet[j]
      <3>1. CASE p \in 1 .. Len(s)
        BY <1>1, <2>3, <3>1
      <3>2. CASE p = Len(s) + 1
        <4>1. i \in 1 .. i
          BY LettersAre
        <4>2. QED
          BY <2>1, <2>3, <3>2, <4>1
      <3>3. CASE p > Len(s) + 1
        <4>1. PICK k \in 1 .. Len(d) : p = Len(s) + 1 + k
          <5>1. p - (Len(s) + 1) \in 1 .. Len(d)
            BY <2>3, <2>4, <3>3
          <5>2. p = Len(s) + 1 + (p - (Len(s) + 1))
            BY <2>4
          <5>3. QED
            BY <5>1, <5>2
        <4>2. QED
          BY <2>3, <2>5, <4>1
      <3>4. QED
        BY <2>3, <2>4, <3>1, <3>2, <3>3
    <2>7. QED
      BY <2>2, <2>6 DEF Spells
  <1>4. QED
    BY <1>2, <1>3

LEMMA KeySpells ==
  ASSUME NEW node \in Nodes, NEW key, IsKey(node, key), NEW n \in 0 .. Len(Alphabet)
  PROVE  Spells(key[n], n)
  <1> DEFINE L == Len(Alphabet)
             Bad == {i \in 0 .. L : ~ Spells(key[i], i)}
  <1>1. L \in Nat
    BY LettersAre
  <1>2. SUFFICES ASSUME Bad # {} PROVE FALSE
    OBVIOUS
  <1>3. PICK m \in Bad : \A k \in Bad : m <= k
    <2>1. Bad \subseteq Nat
      BY <1>1
    <2>2. QED
      BY <1>2, <2>1, LeastPosition
  <1>4. m \in 0 .. L /\ ~ Spells(key[m], m)
    BY <1>3
  <1>5. m # 0
    <2>1. SUFFICES ASSUME m = 0 PROVE FALSE
      OBVIOUS
    <2>2. PICK c \in Digit : c = Finality(node)
      BY FinalityIsText
    <2>3. key[m] = <<c>>
      BY <2>1, <2>2 DEF IsKey
    <2>4. \A p \in 1 .. Len(<<c>>) : <<c>>[p] \in Digit
      BY OneCharacter
    <2>5. QED
      BY <1>4, <2>3, <2>4 DEF Spells
  <1>6. m \in 1 .. L /\ m - 1 \in 0 .. L /\ ~ (m <= m - 1)
    BY <1>1, <1>4, <1>5
  <1>7. m - 1 \notin Bad
    BY <1>3, <1>6
  <1>8. Spells(key[m - 1], m - 1)
    BY <1>6, <1>7
  <1>9. key[m - 1] \in Seq(Characters) /\ key[m] = WithLabel(node, key[m - 1], m)
    BY <1>6 DEF IsKey
  <1>10. QED
    BY <1>4, <1>6, <1>8, <1>9, LabelSpells

(* Without digits among the letters a key tells its node. *)
LEMMA KeyTells ==
  ASSUME NoDigits, NEW a \in Nodes, NEW b \in Nodes, NodeKey(a) = NodeKey(b)
  PROVE  a = b
  <1> DEFINE L == Len(Alphabet)
  <1>1. L \in Nat
    BY LettersAre
  <1>2. PICK ka : IsKey(a, ka) /\ NodeKey(a) = ka[L]
    BY KeyGrows
  <1>3. PICK kb : IsKey(b, kb) /\ NodeKey(b) = kb[L]
    BY KeyGrows
  <1>4. ASSUME NEW i \in 1 .. L, ka[i] = kb[i]
        PROVE  /\ ka[i - 1] = kb[i - 1]
               /\ HasLabel(a, i) <=> HasLabel(b, i)
               /\ HasLabel(a, i) => Target(a, i) = Target(b, i)
    <2>1. i - 1 \in 0 .. L
      BY <1>1
    <2>2. PICK p \in Seq(Characters), q \in Seq(Characters), c \in Characters :
              p = ka[i - 1] /\ q = kb[i - 1] /\ c = Alphabet[i]
      <3>1. ka[i - 1] \in Seq(Characters) /\ kb[i - 1] \in Seq(Characters)
        BY <1>2, <1>3, <2>1 DEF IsKey
      <3>2. QED
        BY <3>1, LettersAre
    <2>3. ka[i] = WithLabel(a, p, i) /\ kb[i] = WithLabel(b, q, i)
      BY <1>2, <1>3, <2>2 DEF IsKey
    <2>4. Spells(p, i - 1) /\ Spells(q, i - 1)
      BY <1>2, <1>3, <2>1, <2>2, KeySpells
    <2>5. c \notin Digit /\ \A j \in 1 .. i - 1 : Alphabet[j] # c
      <3>1. c \in Letters
        BY <2>2, LettersAre
      <3>2. ASSUME NEW j \in 1 .. i - 1 PROVE Alphabet[j] # Alphabet[i]
        <4>1. j \in 1 .. L /\ j # i
          BY <1>1
        <4>2. QED
          BY <4>1, AlphabetAssumption, LettersAre
      <3>3. QED
        BY <2>2, <3>1, <3>2 DEF NoDigits
    <2>6. Lacks(p, c) /\ Lacks(q, c)
      BY <2>4, <2>5 DEF Spells, Lacks
    <2>7. ASSUME NEW t \in Nat
          PROVE  DecimalDigits[t] \in Seq(Characters) /\ Lacks(DecimalDigits[t], c)
      <3>1. PICK d : d = DecimalDigits[t]
        OBVIOUS
      <3>2. d \in Seq(Digit)
        BY <3>1, DigitsTyped
      <3>3. \A k \in 1 .. Len(d) : d[k] \in Digit
        BY <3>2
      <3>4. \A k \in 1 .. Len(d) : d[k] # c
        BY <2>5, <3>3
      <3>5. QED
        BY <3>1, <3>4, DigitsAreText DEF Lacks
    <2>8. ASSUME NEW x \in Seq(Characters), NEW y \in Seq(Characters), NEW t \in Nat, Lacks(y, c)
          PROVE  x \o <<c>> \o DecimalDigits[t] # y
      <3>1. PICK d \in Seq(Characters) : d = DecimalDigits[t]
        BY <2>7
      <3>2. PICK s : s = x \o <<c>> \o d /\ IsJoined(s, x, c, d)
        BY Joined
      <3>3. s[Len(x) + 1] = c /\ Len(x) + 1 \in 1 .. Len(s)
        <4>1. Len(d) \in Nat /\ Len(x) \in Nat
          BY LenProperties
        <4>2. s[Len(x) + 1] = c /\ Len(s) = Len(x) + 1 + Len(d)
          BY <3>2 DEF IsJoined
        <4>3. QED
          BY <4>1, <4>2
      <3>4. QED
        BY <2>8, <3>1, <3>2, <3>3 DEF Lacks
    <2>9. CASE HasLabel(a, i) /\ HasLabel(b, i)
      <3>1. PICK s \in Nat, t \in Nat : s = Target(a, i) /\ t = Target(b, i)
        BY <2>2, <2>9, LabelIsText
      <3>2. p \o <<c>> \o DecimalDigits[s] = q \o <<c>> \o DecimalDigits[t]
        BY <1>4, <2>2, <2>3, <2>9, <3>1 DEF WithLabel
      <3>3. p = q /\ DecimalDigits[s] = DecimalDigits[t]
        <4>1. PICK d \in Seq(Characters), e \in Seq(Characters) :
                  /\ d = DecimalDigits[s] /\ e = DecimalDigits[t]
                  /\ Lacks(d, c) /\ Lacks(e, c)
          BY <2>7
        <4>2. p \o <<c>> \o d = q \o <<c>> \o e
          BY <3>2, <4>1
        <4>3. QED
          BY <2>6, <4>1, <4>2, CutInTwo
      <3>4. s = t
        BY <3>3, DigitsDiffer
      <3>5. QED
        BY <2>2, <2>9, <3>1, <3>3, <3>4
    <2>10. CASE HasLabel(a, i) /\ ~ HasLabel(b, i)
      <3>1. PICK t \in Nat : t = Target(a, i)
        BY <2>2, <2>10, LabelIsText
      <3>2. p \o <<c>> \o DecimalDigits[t] = q
        BY <1>4, <2>2, <2>3, <2>10, <3>1 DEF WithLabel
      <3>3. QED
        BY <2>6, <2>8, <3>2
    <2>11. CASE ~ HasLabel(a, i) /\ HasLabel(b, i)
      <3>1. PICK t \in Nat : t = Target(b, i)
        BY <2>2, <2>11, LabelIsText
      <3>2. q \o <<c>> \o DecimalDigits[t] = p
        BY <1>4, <2>2, <2>3, <2>11, <3>1 DEF WithLabel
      <3>3. QED
        BY <2>6, <2>8, <3>2
    <2>12. CASE ~ HasLabel(a, i) /\ ~ HasLabel(b, i)
      BY <1>4, <2>2, <2>3, <2>12 DEF WithLabel
    <2>13. QED
      BY <2>9, <2>10, <2>11, <2>12
  <1> HIDE DEF L
  <1>5. ASSUME NEW n \in 0 .. L PROVE ka[n] = kb[n]
    <2> DEFINE Bad == {k \in 0 .. L : ka[L - k] # kb[L - k]}
    <2>1. SUFFICES ASSUME Bad # {} PROVE FALSE
      <3>1. L - n \in 0 .. L /\ L - (L - n) = n
        BY <1>1
      <3>2. QED
        BY <3>1
    <2>2. PICK m \in Bad : \A k \in Bad : m <= k
      <3>1. Bad \subseteq Nat
        BY <1>1
      <3>2. QED
        BY <2>1, <3>1, LeastPosition
    <2>3. m \in 0 .. L /\ ka[L - m] # kb[L - m]
      BY <2>2
    <2>4. m # 0
      <3>1. L - 0 = L
        BY <1>1
      <3>2. QED
        BY <1>2, <1>3, <2>3, <3>1
    <2>5. /\ m - 1 \in 0 .. L /\ ~ (m <= m - 1) /\ L - (m - 1) \in 1 .. L
          /\ (L - (m - 1)) - 1 = L - m
      BY <1>1, <2>3, <2>4
    <2>6. m - 1 \notin Bad
      BY <2>2, <2>5
    <2>7. ka[L - (m - 1)] = kb[L - (m - 1)]
      BY <2>5, <2>6
    <2>8. PICK i \in 1 .. L : i = L - (m - 1) /\ i - 1 = L - m
      BY <2>5
    <2>9. ka[i - 1] = kb[i - 1]
      BY <1>4, <2>7, <2>8
    <2>10. QED
      BY <2>3, <2>8, <2>9
  <1>6. ASSUME NEW i \in 1 .. L
        PROVE  /\ HasLabel(a, i) <=> HasLabel(b, i)
               /\ HasLabel(a, i) => Target(a, i) = Target(b, i)
    <2>1. \A j \in 1 .. L : j \in 0 .. L
      BY <1>1
    <2>2. QED
      BY <1>4, <1>5, <2>1
  <1>7. ASSUME NEW c \in Letters
        PROVE  /\ c \in DOMAIN a.edges <=> c \in DOMAIN b.edges
               /\ c \in DOMAIN a.edges => a.edges[c] = b.edges[c]
    <2>1. PICK i \in 1 .. L : Alphabet[i] = c
      BY LettersAre DEF L
    <2>2. /\ HasLabel(a, i) <=> c \in DOMAIN a.edges
          /\ HasLabel(b, i) <=> c \in DOMAIN b.edges
          /\ Target(a, i) = a.edges[c] /\ Target(b, i) = b.edges[c]
      BY <2>1, Zenon DEF HasLabel, Target
    <2>3. /\ HasLabel(a, i) <=> HasLabel(b, i)
          /\ HasLabel(a, i) => Target(a, i) = Target(b, i)
      BY <1>6
    <2>4. QED
      BY <2>2, <2>3, Zenon
  <1>8. a.edges = b.edges
    <2>1. DOMAIN a.edges = DOMAIN b.edges
      <3>1. DOMAIN a.edges \subseteq Letters /\ DOMAIN b.edges \subseteq Letters
        BY NodeFields
      <3>2. QED
        BY <1>7, <3>1
    <2>2. \A c \in DOMAIN a.edges : a.edges[c] = b.edges[c]
      BY <1>7, NodeFields
    <2>3. a.edges = [c \in DOMAIN a.edges |-> a.edges[c]] /\ b.edges = [c \in DOMAIN b.edges |-> b.edges[c]]
      BY NodeFields
    <2>4. QED
      BY <2>1, <2>2, <2>3
  <1>9. a.final = b.final
    <2>1. 0 \in 0 .. L
      BY <1>1
    <2>2. <<Finality(a)>> = <<Finality(b)>>
      BY <1>2, <1>3, <1>5, <2>1 DEF IsKey
    <2>3. PICK x, y : x = Finality(a) /\ y = Finality(b)
      OBVIOUS
    <2>4. <<x>>[1] = <<y>>[1]
      BY <2>2, <2>3
    <2>5. Finality(a) = Finality(b)
      BY <2>3, <2>4
    <2>6. a.final \in BOOLEAN /\ b.final \in BOOLEAN
      BY NodeFields
    <2>7. QED
      BY <2>5, <2>6 DEF Finality
  <1>10. QED
    <2>1. a = [final |-> a.final, edges |-> a.edges] /\ b = [final |-> b.final, edges |-> b.edges]
      BY NodeFields
    <2>2. QED
      BY <1>8, <1>9, <2>1

-----------------------------------------------------------------------------
(* The builder.  The nodes not yet checked make a path from the root that  *)
(* spells the beginning of the last word; no edge but those of the path    *)
(* leads to a node of it, and the nodes met before are off the path.       *)

UncheckedNode == [parent : Nat, char : Letters, child : Nat]
KeyMaps == UNION {[S -> Nat] : S \in SUBSET Seq(Characters)}
Builders == [nodes : Seq(Nodes), unchecked : Seq(UncheckedNode), minimized : KeyMaps,
             previousWord : Seq(Letters)]

Path(un, d) == IF d = 0 THEN 1 ELSE un[d].child

PathOK(nodes, un) ==
    /\ \A d \in 0 .. Len(un) : Path(un, d) \in 1 .. Len(nodes) /\ d < Path(un, d)
    /\ \A d, e \in 0 .. Len(un) : d < e => Path(un, d) < Path(un, e)
    /\ \A d \in 1 .. Len(un) :
           /\ un[d].parent = Path(un, d - 1)
           /\ un[d].char \in DOMAIN nodes[Path(un, d - 1)].edges
           /\ nodes[Path(un, d - 1)].edges[un[d].char] = Path(un, d)

IntoOK(nodes, un) ==
    \A n \in 1 .. Len(nodes) : \A c \in DOMAIN nodes[n].edges :
        /\ nodes[n].edges[c] \in 2 .. Len(nodes)
        /\ \A d \in 1 .. Len(un) :
               nodes[n].edges[c] = Path(un, d) => n = Path(un, d - 1) /\ c = un[d].char

OffOK(nodes, un, mini) ==
    \A k \in DOMAIN mini :
        /\ mini[k] \in 2 .. Len(nodes) /\ NodeKey(nodes[mini[k]]) = k
        /\ \A d \in 0 .. Len(un) : mini[k] # Path(un, d)

(* The labels of a node on the path are at most the next character of the  *)
(* word, so that in-order words only ever add edges.                       *)
WordOK(nodes, un, w) ==
    /\ Len(un) <= Len(w) /\ \A d \in 1 .. Len(un) : un[d].char = w[d]
    /\ \A d \in 0 .. Len(un) : \A c \in DOMAIN nodes[Path(un, d)].edges :
           d < Len(w) /\ Code(c) <= Code(w[d + 1])

(* A run of the automaton that reads a word. *)
IsRun(nodes, from, r, w) ==
    /\ r \in [0 .. Len(w) -> 1 .. Len(nodes)] /\ r[0] = from
    /\ \A i \in 1 .. Len(w) :
           w[i] \in DOMAIN nodes[r[i - 1]].edges /\ r[i] = nodes[r[i - 1]].edges[w[i]]

Accepts(nodes, from, w) == \E r : IsRun(nodes, from, r, w) /\ nodes[r[Len(w)]].final

(* One edge leads elsewhere. *)
IsReplaced(nodes, new, p, c, e) ==
    /\ new \in Seq(Nodes) /\ Len(new) = Len(nodes)
    /\ \A n \in 1 .. Len(nodes) : n # p => new[n] = nodes[n]
    /\ new[p].final = nodes[p].final /\ DOMAIN new[p].edges = DOMAIN nodes[p].edges
    /\ \A x \in DOMAIN nodes[p].edges : new[p].edges[x] = IF x = c THEN e ELSE nodes[p].edges[x]

LEMMA Replaced ==
  ASSUME NEW nodes \in Seq(Nodes), NEW p \in 1 .. Len(nodes), NEW c \in DOMAIN nodes[p].edges,
         NEW e \in Nat
  PROVE  IsReplaced(nodes, [nodes EXCEPT ![p].edges[c] = e], p, c, e)
  <1> DEFINE new == [nodes EXCEPT ![p].edges[c] = e]
             edges == [nodes[p].edges EXCEPT ![c] = e]
             node == [nodes[p] EXCEPT !.edges = edges]
  <1>1. nodes[p] \in Nodes
    BY ElementOfSeq
  <1>2. PICK old : old = nodes[p].edges
    OBVIOUS
  <1>3. DOMAIN old \subseteq Letters /\ old = [x \in DOMAIN old |-> old[x]] /\ \A x \in DOMAIN old : old[x] \in Nat
    BY <1>1, <1>2, NodeFields
  <1>4. edges \in [DOMAIN old -> Nat] /\ DOMAIN edges = DOMAIN old
        /\ \A x \in DOMAIN old : edges[x] = IF x = c THEN e ELSE old[x]
    BY <1>2, <1>3
  <1>5. edges \in EdgeMaps
    BY <1>3, <1>4 DEF EdgeMaps
  <1> HIDE DEF edges
  <1>6. node \in Nodes /\ node.final = nodes[p].final /\ node.edges = edges
    BY <1>1, <1>5 DEF Nodes
  <1>7. new = [nodes EXCEPT ![p] = node]
    BY DEF edges
  <1> HIDE DEF node, new
  <1>8. new \in Seq(Nodes) /\ Len(new) = Len(nodes) /\ new[p] = node
        /\ \A n \in 1 .. Len(nodes) : n # p => new[n] = nodes[n]
    BY <1>6, <1>7
  <1>9. IsReplaced(nodes, new, p, c, e)
    BY <1>2, <1>4, <1>6, <1>8 DEF IsReplaced
  <1>10. QED
    BY <1>9 DEF new

(* The last edge of the path. *)
LEMMA LastEdge ==
  ASSUME NEW nodes \in Seq(Nodes), NEW un \in Seq(UncheckedNode), un # <<>>, PathOK(nodes, un)
  PROVE  LET m == Len(un)  p == un[m].parent  c == un[m].char  x == un[m].child IN
         /\ m \in Nat /\ m >= 1 /\ p = Path(un, m - 1) /\ x = Path(un, m)
         /\ p \in 1 .. Len(nodes) /\ x \in 2 .. Len(nodes) /\ p # x
         /\ c \in DOMAIN nodes[p].edges /\ nodes[p].edges[c] = x
  <1> DEFINE m == Len(un)
             p == un[m].parent
             c == un[m].char
             x == un[m].child
  <1>1. m \in Nat /\ m >= 1 /\ Len(nodes) \in Nat
    BY EmptySeq, LenProperties
  <1>2. m \in 0 .. m /\ m - 1 \in 0 .. m /\ m \in 1 .. m /\ 0 \in 0 .. m /\ m - 1 < m /\ 0 < m
    BY <1>1
  <1>3. x = Path(un, m)
    BY <1>1 DEF Path
  <1>4. /\ p = Path(un, m - 1)
        /\ c \in DOMAIN nodes[Path(un, m - 1)].edges
        /\ nodes[Path(un, m - 1)].edges[c] = Path(un, m)
    BY <1>2 DEF PathOK
  <1>5. /\ Path(un, m) \in 1 .. Len(nodes) /\ m < Path(un, m)
        /\ Path(un, m - 1) \in 1 .. Len(nodes) /\ Path(un, m - 1) < Path(un, m)
    BY <1>2 DEF PathOK
  <1>6. x \in 2 .. Len(nodes) /\ p # x
    BY <1>1, <1>3, <1>4, <1>5
  <1>7. QED
    BY <1>1, <1>3, <1>4, <1>5, <1>6

(* Where an edge leads to an equal node instead, the words stay. *)
LEMMA ReplaceKeepsWords ==
  ASSUME NEW nodes \in Seq(Nodes), NEW un \in Seq(UncheckedNode), un # <<>>,
         PathOK(nodes, un), IntoOK(nodes, un), NEW new, NEW e \in 1 .. Len(nodes),
         e # un[Len(un)].child, e # un[Len(un)].parent, nodes[e] = nodes[un[Len(un)].child],
         IsReplaced(nodes, new, un[Len(un)].parent, un[Len(un)].char, e),
         NEW w \in Seq(Letters)
  PROVE  Accepts(nodes, 1, w) <=> Accepts(new, 1, w)
  <1> DEFINE m == Len(un)
             p == un[m].parent
             c == un[m].char
             x == un[m].child
             L == Len(w)
             N == Len(nodes)
  <1>1. /\ m \in Nat /\ m >= 1 /\ p = Path(un, m - 1) /\ x = Path(un, m)
        /\ p \in 1 .. N /\ x \in 2 .. N /\ p # x
        /\ c \in DOMAIN nodes[p].edges /\ nodes[p].edges[c] = x
    BY LastEdge
  <1>2. L \in Nat /\ N \in Nat
    BY LenProperties
  (* Only this edge leads to x. *)
  <1>3. ASSUME NEW n \in 1 .. N, NEW a \in DOMAIN nodes[n].edges, nodes[n].edges[a] = x
        PROVE  n = p /\ a = c
    <2>1. m \in 1 .. m
      BY <1>1
    <2>2. QED
      BY <1>1, <1>3, <2>1 DEF IntoOK
  <1>4. /\ Len(new) = N /\ \A n \in 1 .. N : n # p => new[n] = nodes[n]
        /\ new[p].final = nodes[p].final /\ DOMAIN new[p].edges = DOMAIN nodes[p].edges
        /\ \A a \in DOMAIN nodes[p].edges : new[p].edges[a] = IF a = c THEN e ELSE nodes[p].edges[a]
    BY DEF IsReplaced
  <1>5. e # x /\ e # p /\ nodes[e] = nodes[x]
    OBVIOUS
  <1>6. new[e] = nodes[x] /\ new[x] = nodes[x]
    BY <1>1, <1>4, <1>5
  <1> HIDE DEF m, p, c, x, L, N
  <1>7. ASSUME Accepts(nodes, 1, w) PROVE Accepts(new, 1, w)
    <2>1. PICK r : IsRun(nodes, 1, r, w) /\ nodes[r[L]].final
      BY <1>7 DEF Accepts, L
    <2>2. /\ r \in [0 .. L -> 1 .. N] /\ r[0] = 1
          /\ \A i \in 1 .. L : w[i] \in DOMAIN nodes[r[i - 1]].edges /\ r[i] = nodes[r[i - 1]].edges[w[i]]
      BY <2>1 DEF IsRun, L, N
    <2> DEFINE s == [i \in 0 .. L |-> IF r[i] = x THEN e ELSE r[i]]
    <2>3. s \in [0 .. L -> 1 .. N]
      BY <2>2 DEF N
    <2>4. \A i \in 0 .. L : s[i] = IF r[i] = x THEN e ELSE r[i]
      OBVIOUS
    <2> HIDE DEF s
    <2>5. s[0] = 1
      BY <1>1, <1>2, <2>2, <2>4
    <2>6. ASSUME NEW i \in 1 .. L
          PROVE  w[i] \in DOMAIN new[s[i - 1]].edges /\ s[i] = new[s[i - 1]].edges[w[i]]
      <3>1. i \in 0 .. L /\ i - 1 \in 0 .. L
        BY <1>2
      <3>2. PICK n, t, a : n \in 1 .. N /\ t \in 1 .. N /\ n = r[i - 1] /\ t = r[i] /\ a = w[i]
        BY <2>2, <3>1
      <3>3. a \in DOMAIN nodes[n].edges /\ t = nodes[n].edges[a]
        BY <2>2, <3>2
      <3>4. s[i - 1] = (IF n = x THEN e ELSE n) /\ s[i] = (IF t = x THEN e ELSE t)
        BY <2>4, <3>1, <3>2
      <3>5. t = x => n = p /\ a = c
        BY <1>3, <3>2, <3>3
      <3>6. CASE n = x
        <4>1. t # x
          BY <1>1, <3>5, <3>6
        <4>2. QED
          BY <1>6, <3>2, <3>3, <3>4, <3>6, <4>1
      <3>7. CASE n = p /\ n # x
        <4>1. s[i - 1] = p /\ a \in DOMAIN new[p].edges
          BY <1>4, <3>3, <3>4, <3>7
        <4>2. CASE a = c
          BY <1>1, <1>4, <3>2, <3>3, <3>4, <3>7, <4>1, <4>2
        <4>3. CASE a # c
          BY <1>4, <3>2, <3>3, <3>4, <3>5, <3>7, <4>1, <4>3
        <4>4. QED
          BY <4>2, <4>3
      <3>8. CASE n # p /\ n # x
        BY <1>4, <3>2, <3>3, <3>4, <3>5, <3>8
      <3>9. QED
        BY <3>6, <3>7, <3>8
    <2>7. IsRun(new, 1, s, w)
      BY <1>4, <2>3, <2>5, <2>6 DEF IsRun, L
    <2>8. new[s[L]].final
      <3>1. L \in 0 .. L
        BY <1>2
      <3>2. PICK t \in 1 .. N : t = r[L] /\ nodes[t].final
        BY <2>1, <2>2, <3>1
      <3>3. CASE t = x
        BY <1>6, <2>4, <3>1, <3>2, <3>3
      <3>4. CASE t # x
        BY <1>4, <2>4, <3>1, <3>2, <3>4
      <3>5. QED
        BY <3>3, <3>4
    <2>9. QED
      BY <2>7, <2>8 DEF Accepts, L
  <1>8. ASSUME Accepts(new, 1, w) PROVE Accepts(nodes, 1, w)
    <2>1. PICK r : IsRun(new, 1, r, w) /\ new[r[L]].final
      BY <1>8 DEF Accepts, L
    <2>2. /\ r \in [0 .. L -> 1 .. N] /\ r[0] = 1
          /\ \A i \in 1 .. L : w[i] \in DOMAIN new[r[i - 1]].edges /\ r[i] = new[r[i - 1]].edges[w[i]]
      BY <1>4, <2>1 DEF IsRun, L
    <2> DEFINE Here(i) == i # 0 /\ r[i - 1] = p /\ w[i] = c
               s == [i \in 0 .. L |-> IF Here(i) THEN x ELSE r[i]]
    <2>3. s \in [0 .. L -> 1 .. N]
      <3>1. x \in 1 .. N
        BY <1>1
      <3>2. QED
        BY <2>2, <3>1
    <2>4. \A i \in 0 .. L : s[i] = IF Here(i) THEN x ELSE r[i]
      OBVIOUS
    <2>5. \A i \in 1 .. L : Here(i) => r[i] = e
      BY <1>1, <1>4, <2>2
    <2> HIDE DEF s
    <2>6. s[0] = 1
      BY <1>2, <2>2, <2>4
    <2>7. ASSUME NEW i \in 1 .. L
          PROVE  w[i] \in DOMAIN nodes[s[i - 1]].edges /\ s[i] = nodes[s[i - 1]].edges[w[i]]
      <3>1. i \in 0 .. L /\ i - 1 \in 0 .. L /\ i # 0
        BY <1>2
      <3>2. PICK n, t, a : n \in 1 .. N /\ t \in 1 .. N /\ n = r[i - 1] /\ t = r[i] /\ a = w[i]
        BY <2>2, <3>1
      <3>3. a \in DOMAIN new[n].edges /\ t = new[n].edges[a]
        BY <2>2, <3>2
      <3>4. s[i] = IF n = p /\ a = c THEN x ELSE t
        BY <2>4, <3>1, <3>2
      <3>5. CASE Here(i - 1)
        <4>1. s[i - 1] = x /\ n = e
          <5>1. i - 1 \in 1 .. L
            BY <3>1, <3>5
          <5>2. QED
            BY <2>4, <2>5, <3>1, <3>2, <3>5, <5>1
        <4>2. n # p /\ new[n] = nodes[x]
          BY <1>5, <1>6, <4>1
        <4>3. QED
          BY <3>2, <3>3, <3>4, <4>1, <4>2
      <3>6. CASE ~ Here(i - 1)
        <4>1. s[i - 1] = n
          BY <2>4, <3>1, <3>2, <3>6
        <4>2. CASE n # p
          BY <1>4, <3>2, <3>3, <3>4, <4>1, <4>2
        <4>3. CASE n = p /\ a = c
          BY <1>1, <3>2, <3>4, <4>1, <4>3
        <4>4. CASE n = p /\ a # c
          BY <1>4, <3>2, <3>3, <3>4, <4>1, <4>4
        <4>5. QED
          BY <4>2, <4>3, <4>4
      <3>7. QED
        BY <3>5, <3>6
    <2>8. IsRun(nodes, 1, s, w)
      BY <2>3, <2>6, <2>7 DEF IsRun, L, N
    <2>9. nodes[s[L]].final
      <3>1. L \in 0 .. L
        BY <1>2
      <3>2. PICK t \in 1 .. N : t = r[L] /\ new[t].final
        BY <2>1, <2>2, <3>1
      <3>3. CASE Here(L)
        <4>1. t = e /\ s[L] = x
          <5>1. L \in 1 .. L
            BY <1>2, <3>3
          <5>2. QED
            BY <2>4, <2>5, <3>1, <3>2, <3>3, <5>1
        <4>2. QED
          BY <1>6, <3>2, <4>1
      <3>4. CASE ~ Here(L)
        <4>1. s[L] = t
          BY <2>4, <3>1, <3>2, <3>4
        <4>2. new[t].final = nodes[t].final
          BY <1>4
        <4>3. QED
          BY <3>2, <4>1, <4>2
      <3>5. QED
        BY <3>3, <3>4
    <2>10. QED
      BY <2>8, <2>9 DEF Accepts, L
  <1>9. QED
    BY <1>7, <1>8

LEMMA ShorterPath ==
  ASSUME NEW un \in Seq(UncheckedNode), un # <<>>
  PROVE  /\ Front(un) \in Seq(UncheckedNode) /\ Len(Front(un)) = Len(un) - 1
         /\ Len(un) \in Nat /\ Len(un) >= 1
         /\ \A d \in 1 .. Len(un) - 1 : Front(un)[d] = un[d]
         /\ \A d \in 0 .. Len(un) - 1 : Path(Front(un), d) = Path(un, d)
  <1>1. Len(un) \in Nat /\ Len(un) >= 1
    BY EmptySeq, LenProperties
  <1>2. /\ Front(un) \in Seq(UncheckedNode) /\ Len(Front(un)) = Len(un) - 1
        /\ \A d \in 1 .. Len(un) - 1 : Front(un)[d] = un[d]
    <2>1. PICK n \in Nat : n = Len(un) - 1
      BY <1>1
    <2>2. \A i \in 1 .. n : un[i] \in UncheckedNode
      BY <1>1, <2>1
    <2>3. PICK f : f = SubSeq(un, 1, n)
      OBVIOUS
    <2>4. /\ f \in Seq(UncheckedNode) /\ Len(f) = (IF 1 <= n THEN n - 1 + 1 ELSE 0)
          /\ \A i \in 1 .. n - 1 + 1 : f[i] = un[1 + i - 1]
      <3> HIDE DEF UncheckedNode
      <3>1. QED
        BY <2>2, <2>3, SubSeqProperties
    <2>5. Len(f) = n /\ \A i \in 1 .. n : f[i] = un[i]
      <3>1. n - 1 + 1 = n /\ \A i \in 1 .. n : 1 + i - 1 = i
        OBVIOUS
      <3>2. QED
        BY <2>4, <3>1
    <2>6. f = Front(un)
      BY <2>1, <2>3 DEF Front
    <2>7. QED
      BY <2>1, <2>4, <2>5, <2>6
  <1>3. \A d \in 0 .. Len(un) - 1 : Path(Front(un), d) = Path(un, d)
    <2>1. \A d \in 0 .. Len(un) - 1 : d = 0 \/ d \in 1 .. Len(un) - 1
      BY <1>1
    <2>2. QED
      BY <1>2, <2>1 DEF Path
  <1>4. QED
    BY <1>1, <1>2, <1>3

(* What holds of a path holds of its beginning. *)
LEMMA ShorterPathOK ==
  ASSUME NEW nodes \in Seq(Nodes), NEW un \in Seq(UncheckedNode), un # <<>>, NEW w \in Seq(Letters),
         NEW mini, PathOK(nodes, un), IntoOK(nodes, un), OffOK(nodes, un, mini), WordOK(nodes, un, w)
  PROVE  /\ PathOK(nodes, Front(un)) /\ IntoOK(nodes, Front(un))
         /\ OffOK(nodes, Front(un), mini) /\ WordOK(nodes, Front(un), w)
  <1> DEFINE f == Front(un)
             m == Len(un)
  <1>1. /\ f \in Seq(UncheckedNode) /\ Len(f) = m - 1 /\ m \in Nat /\ m >= 1
        /\ \A d \in 1 .. m - 1 : f[d] = un[d]
        /\ \A d \in 0 .. m - 1 : Path(f, d) = Path(un, d)
    BY ShorterPath
  <1>2. (\A d \in 0 .. m - 1 : d \in 0 .. m) /\ \A d \in 1 .. m - 1 : d \in 1 .. m /\ d \in 0 .. m - 1 /\ d - 1 \in 0 .. m - 1
    BY <1>1
  <1> HIDE DEF f, m
  <1>3. PathOK(nodes, f)
    <2>1. /\ \A d \in 0 .. m : Path(un, d) \in 1 .. Len(nodes) /\ d < Path(un, d)
          /\ \A d, e \in 0 .. m : d < e => Path(un, d) < Path(un, e)
          /\ \A d \in 1 .. m :
                /\ un[d].parent = Path(un, d - 1)
                /\ un[d].char \in DOMAIN nodes[Path(un, d - 1)].edges
                /\ nodes[Path(un, d - 1)].edges[un[d].char] = Path(un, d)
      BY DEF PathOK, m
    <2>2. /\ \A d \in 0 .. m - 1 : Path(f, d) \in 1 .. Len(nodes) /\ d < Path(f, d)
          /\ \A d, e \in 0 .. m - 1 : d < e => Path(f, d) < Path(f, e)
      BY <1>1, <1>2, <2>1
    <2>3. ASSUME NEW d \in 1 .. m - 1
          PROVE  /\ f[d].parent = Path(f, d - 1)
                 /\ f[d].char \in DOMAIN nodes[Path(f, d - 1)].edges
                 /\ nodes[Path(f, d - 1)].edges[f[d].char] = Path(f, d)
      <3>1. f[d] = un[d] /\ Path(f, d - 1) = Path(un, d - 1) /\ Path(f, d) = Path(un, d) /\ d \in 1 .. m
        BY <1>1, <1>2
      <3>2. QED
        BY <2>1, <3>1
    <2>4. QED
      BY <1>1, <2>2, <2>3 DEF PathOK
  <1>4. IntoOK(nodes, f)
    <2> SUFFICES ASSUME NEW n \in 1 .. Len(nodes), NEW c \in DOMAIN nodes[n].edges
                 PROVE  /\ nodes[n].edges[c] \in 2 .. Len(nodes)
                        /\ \A d \in 1 .. m - 1 :
                               nodes[n].edges[c] = Path(f, d) => n = Path(f, d - 1) /\ c = f[d].char
      BY <1>1 DEF IntoOK
    <2>1. /\ nodes[n].edges[c] \in 2 .. Len(nodes)
          /\ \A d \in 1 .. m : nodes[n].edges[c] = Path(un, d) => n = Path(un, d - 1) /\ c = un[d].char
      BY DEF IntoOK, m
    <2>2. QED
      BY <1>1, <1>2, <2>1
  <1>5. OffOK(nodes, f, mini)
    BY <1>1, <1>2 DEF OffOK, m
  <1>6. WordOK(nodes, f, w)
    <2>1. /\ m <= Len(w) /\ \A d \in 1 .. m : un[d].char = w[d]
          /\ \A d \in 0 .. m : \A c \in DOMAIN nodes[Path(un, d)].edges :
                d < Len(w) /\ Code(c) <= Code(w[d + 1])
      BY DEF WordOK, m
    <2>2. m - 1 <= Len(w)
      BY <1>1, <2>1, LenProperties
    <2>3. \A d \in 1 .. m - 1 : f[d].char = w[d]
      BY <1>1, <1>2, <2>1
    <2>4. \A d \in 0 .. m - 1 : \A c \in DOMAIN nodes[Path(f, d)].edges :
              d < Len(w) /\ Code(c) <= Code(w[d + 1])
      BY <1>1, <1>2, <2>1
    <2>5. QED
      BY <1>1, <2>2, <2>3, <2>4 DEF WordOK
  <1>7. QED
    BY <1>3, <1>4, <1>5, <1>6 DEF f

(* An edge at the end of the path, and off it, may lead elsewhere. *)
LEMMA ReplaceKeepsPath ==
  ASSUME NEW nodes \in Seq(Nodes), NEW un \in Seq(UncheckedNode), NEW w \in Seq(Letters), NEW mini,
         PathOK(nodes, un), IntoOK(nodes, un), OffOK(nodes, un, mini), WordOK(nodes, un, w),
         NEW new, NEW c, NEW e \in 2 .. Len(nodes), \A d \in 0 .. Len(un) : e # Path(un, d),
         IsReplaced(nodes, new, Path(un, Len(un)), c, e)
  PROVE  PathOK(new, un) /\ IntoOK(new, un) /\ OffOK(new, un, mini) /\ WordOK(new, un, w)
  <1> DEFINE m == Len(un)
             N == Len(nodes)
             p == Path(un, m)
  <1>1. m \in Nat /\ N \in Nat
    BY LenProperties
  <1>2. /\ Len(new) = N /\ \A n \in 1 .. N : n # p => new[n] = nodes[n]
        /\ DOMAIN new[p].edges = DOMAIN nodes[p].edges
        /\ \A a \in DOMAIN nodes[p].edges : new[p].edges[a] = IF a = c THEN e ELSE nodes[p].edges[a]
    BY DEF IsReplaced
  <1>3. m \in 0 .. m
    BY <1>1
  <1>4. \A n \in 1 .. N : DOMAIN new[n].edges = DOMAIN nodes[n].edges
    BY <1>2
  <1> HIDE DEF p, m, N
  <1>5. PathOK(new, un)
    <2>1. /\ \A d \in 0 .. m : Path(un, d) \in 1 .. N /\ d < Path(un, d)
          /\ \A d, k \in 0 .. m : d < k => Path(un, d) < Path(un, k)
          /\ \A d \in 1 .. m :
                /\ un[d].parent = Path(un, d - 1)
                /\ un[d].char \in DOMAIN nodes[Path(un, d - 1)].edges
                /\ nodes[Path(un, d - 1)].edges[un[d].char] = Path(un, d)
      BY DEF PathOK, m, N
    <2>2. ASSUME NEW d \in 1 .. m PROVE new[Path(un, d - 1)] = nodes[Path(un, d - 1)]
      <3>1. d - 1 \in 0 .. m /\ d - 1 < m
        BY <1>1
      <3>2. Path(un, d - 1) \in 1 .. N /\ Path(un, d - 1) < p
        BY <1>3, <2>1, <3>1 DEF p
      <3>3. Path(un, d - 1) # p
        BY <1>1, <3>2
      <3>4. QED
        BY <1>2, <3>2, <3>3
    <2>3. QED
      BY <1>2, <2>1, <2>2 DEF PathOK, m
  <1>6. IntoOK(new, un)
    <2> SUFFICES ASSUME NEW n \in 1 .. N, NEW a \in DOMAIN new[n].edges
                 PROVE  /\ new[n].edges[a] \in 2 .. N
                        /\ \A d \in 1 .. m :
                               new[n].edges[a] = Path(un, d) => n = Path(un, d - 1) /\ a = un[d].char
      BY <1>2 DEF IntoOK, m
    <2>1. a \in DOMAIN nodes[n].edges
      BY <1>4
    <2>2. /\ nodes[n].edges[a] \in 2 .. N
          /\ \A d \in 1 .. m : nodes[n].edges[a] = Path(un, d) => n = Path(un, d - 1) /\ a = un[d].char
      BY <2>1 DEF IntoOK, m, N
    <2>3. CASE n = p /\ a = c
      <3>1. new[n].edges[a] = e /\ e \in 2 .. N
        BY <1>2, <2>1, <2>3 DEF N
      <3>2. \A d \in 1 .. m : e # Path(un, d)
        <4>1. \A d \in 1 .. m : d \in 0 .. m
          BY <1>1
        <4>2. QED
          BY <4>1 DEF m
      <3>3. QED
        BY <3>1, <3>2
    <2>4. CASE ~ (n = p /\ a = c)
      <3>1. new[n].edges[a] = nodes[n].edges[a]
        BY <1>2, <2>1, <2>4
      <3>2. QED
        BY <2>2, <3>1
    <2>5. QED
      BY <2>3, <2>4
  <1>7. OffOK(new, un, mini)
    <2> SUFFICES ASSUME NEW k \in DOMAIN mini
                 PROVE  /\ mini[k] \in 2 .. N /\ NodeKey(new[mini[k]]) = k
                        /\ \A d \in 0 .. m : mini[k] # Path(un, d)
      BY <1>2 DEF OffOK, m
    <2>1. /\ mini[k] \in 2 .. N /\ NodeKey(nodes[mini[k]]) = k
          /\ \A d \in 0 .. m : mini[k] # Path(un, d)
      BY DEF OffOK, m, N
    <2>2. mini[k] # p /\ mini[k] \in 1 .. N
      BY <1>1, <1>3, <2>1 DEF p
    <2>3. new[mini[k]] = nodes[mini[k]]
      BY <1>2, <2>2
    <2>4. QED
      BY <2>1, <2>3
  <1>8. WordOK(new, un, w)
    <2>1. \A d \in 0 .. m : DOMAIN new[Path(un, d)].edges = DOMAIN nodes[Path(un, d)].edges
      BY <1>4 DEF PathOK, m, N
    <2>2. QED
      BY <2>1 DEF WordOK, m
  <1>9. QED
    BY <1>5, <1>6, <1>7, <1>8

-----------------------------------------------------------------------------
(* The nodes met before have ranks below K, and their edges lead to nodes  *)
(* met before of a lower rank.  So do the edges of the path's nodes, those *)
(* of the path excepted.                                                   *)

Live(node) == node.final \/ DOMAIN node.edges # {}

Lower(nodes, mini, rank, k, c) ==
    \E j \in DOMAIN mini : nodes[mini[k]].edges[c] = mini[j] /\ rank[mini[j]] < rank[mini[k]]

MetBefore(nodes, mini, K, rank, k) ==
    /\ rank[mini[k]] < K /\ Live(nodes[mini[k]])
    /\ \A c \in DOMAIN nodes[mini[k]].edges : Lower(nodes, mini, rank, k, c)

PathEdge(un, d, c) == d < Len(un) /\ c = un[d + 1].char

LeadsOff(nodes, mini, n, c) == \E j \in DOMAIN mini : nodes[n].edges[c] = mini[j]

HasRanks(nodes, un, mini, K, rank) ==
    /\ K + Len(un) < Len(nodes)
    /\ \A k \in DOMAIN mini : MetBefore(nodes, mini, K, rank, k)
    /\ \A d \in 0 .. Len(un) : \A c \in DOMAIN nodes[Path(un, d)].edges :
           PathEdge(un, d, c) \/ LeadsOff(nodes, mini, Path(un, d), c)

Ranked(nodes, un, mini) ==
    \E K \in Nat, rank \in [Nat -> Nat] : HasRanks(nodes, un, mini, K, rank)

(* Where the nodes met before stay, so do their ranks. *)
LEMMA MetStays ==
  ASSUME NEW nodes, NEW new, NEW mini, NEW K, NEW rank, NEW k \in DOMAIN mini,
         new[mini[k]] = nodes[mini[k]], MetBefore(nodes, mini, K, rank, k)
  PROVE  MetBefore(new, mini, K, rank, k)
  BY DEF MetBefore, Lower

LEMMA RanksShared ==
  ASSUME NEW nodes \in Seq(Nodes), NEW un \in Seq(UncheckedNode), un # <<>>, NEW mini,
         PathOK(nodes, un), OffOK(nodes, un, mini), Ranked(nodes, un, mini),
         NEW key \in DOMAIN mini, NEW new,
         IsReplaced(nodes, new, un[Len(un)].parent, un[Len(un)].char, mini[key])
  PROVE  Ranked(new, Front(un), mini)
  <1> DEFINE m == Len(un)
             N == Len(nodes)
             f == Front(un)
  <1>1. PICK p, a, e : p = un[m].parent /\ a = un[m].char /\ e = mini[key]
    OBVIOUS
  <1>2. /\ p = Path(un, m - 1) /\ p \in 1 .. N /\ a \in DOMAIN nodes[p].edges
    BY <1>1, LastEdge
  <1>3. /\ m \in Nat /\ m >= 1 /\ N \in Nat
    BY LastEdge, LenProperties
  <1>4. /\ f \in Seq(UncheckedNode) /\ Len(f) = m - 1
        /\ \A d \in 1 .. m - 1 : f[d] = un[d]
        /\ \A d \in 0 .. m - 1 : Path(f, d) = Path(un, d)
    BY ShorterPath
  <1>5. /\ Len(new) = N /\ \A n \in 1 .. N : n # p => new[n] = nodes[n]
        /\ DOMAIN new[p].edges = DOMAIN nodes[p].edges
        /\ \A x \in DOMAIN nodes[p].edges : new[p].edges[x] = IF x = a THEN e ELSE nodes[p].edges[x]
    BY <1>1 DEF IsReplaced
  <1>6. PICK K \in Nat, rank \in [Nat -> Nat] : HasRanks(nodes, un, mini, K, rank)
    BY DEF Ranked
  <1>7. /\ K + m < N
        /\ \A k \in DOMAIN mini : MetBefore(nodes, mini, K, rank, k)
        /\ \A d \in 0 .. m : \A c \in DOMAIN nodes[Path(un, d)].edges :
              PathEdge(un, d, c) \/ LeadsOff(nodes, mini, Path(un, d), c)
    BY <1>6 DEF HasRanks
  <1>8. ASSUME NEW k \in DOMAIN mini PROVE MetBefore(new, mini, K, rank, k)
    <2>1. m - 1 \in 0 .. m
      BY <1>3
    <2>2. mini[k] \in 2 .. N /\ mini[k] # p
      BY <1>2, <2>1 DEF OffOK
    <2>3. mini[k] \in 1 .. N
      BY <1>3, <2>2
    <2>4. new[mini[k]] = nodes[mini[k]]
      BY <1>5, <2>2, <2>3
    <2>5. QED
      BY <1>7, <2>4, MetStays
  <1>9. \A d \in 0 .. m : Path(un, d) \in 1 .. N
    BY DEF PathOK
  <1> HIDE DEF m, N, f
  <1>10. ASSUME NEW d \in 0 .. m - 1, NEW c \in DOMAIN new[Path(f, d)].edges
         PROVE  PathEdge(f, d, c) \/ LeadsOff(new, mini, Path(f, d), c)
    <2>1. d \in 0 .. m
      BY <1>3
    <2>2. PICK n \in 1 .. N : n = Path(un, d) /\ n = Path(f, d)
      BY <1>4, <1>9, <2>1
    <2>3. c \in DOMAIN nodes[n].edges
      BY <1>5, <2>2
    <2>4. PathEdge(un, d, c) \/ LeadsOff(nodes, mini, n, c)
      BY <1>7, <2>1, <2>2, <2>3
    <2>5. CASE n = p /\ c = a
      <3>1. new[n].edges[c] = mini[key]
        BY <1>1, <1>5, <2>3, <2>5
      <3>2. QED
        BY <2>2, <3>1 DEF LeadsOff
    <2>6. CASE ~ (n = p /\ c = a) /\ LeadsOff(nodes, mini, n, c)
      <3>1. new[n].edges[c] = nodes[n].edges[c]
        BY <1>5, <2>3, <2>6
      <3>2. QED
        BY <2>2, <2>6, <3>1 DEF LeadsOff
    <2>7. CASE ~ (n = p /\ c = a) /\ PathEdge(un, d, c)
      <3>1. d < m /\ c = un[d + 1].char
        BY <2>7 DEF PathEdge, m
      <3>2. d # m - 1
        <4>1. SUFFICES ASSUME d = m - 1 PROVE FALSE
          OBVIOUS
        <4>2. d + 1 = m
          BY <1>3, <4>1
        <4>3. n = p /\ c = a
          BY <1>1, <1>2, <2>2, <3>1, <4>1, <4>2
        <4>4. QED
          BY <2>7, <4>3
      <3>3. d < m - 1 /\ d + 1 \in 1 .. m - 1
        BY <1>3, <3>2
      <3>4. PathEdge(f, d, c)
        BY <1>4, <3>1, <3>3 DEF PathEdge
      <3>5. QED
        BY <3>4
    <2>8. QED
      BY <2>4, <2>5, <2>6, <2>7
  <1>11. K + Len(f) < Len(new)
    BY <1>3, <1>4, <1>5, <1>7
  <1>12. HasRanks(new, f, mini, K, rank)
    BY <1>4, <1>8, <1>10, <1>11 DEF HasRanks
  <1>13. QED
    BY <1>12 DEF Ranked, f

(* A property of an object is set. *)
IsPut(g, f, k, n) ==
    /\ g \in KeyMaps /\ DOMAIN g = {k} \union DOMAIN f
    /\ \A j \in {k} \union DOMAIN f : g[j] = IF j = k THEN n ELSE f[j]

LEMMA RanksAdded ==
  ASSUME NEW nodes \in Seq(Nodes), NEW un \in Seq(UncheckedNode), un # <<>>, NEW mini,
         PathOK(nodes, un), OffOK(nodes, un, mini), Ranked(nodes, un, mini),
         NEW key, key \notin DOMAIN mini, NEW new, IsPut(new, mini, key, un[Len(un)].child),
         Live(nodes[un[Len(un)].child])
  PROVE  Ranked(nodes, Front(un), new)
  <1> DEFINE m == Len(un)
             N == Len(nodes)
             f == Front(un)
  <1>1. PICK x, p, a : x = un[m].child /\ p = un[m].parent /\ a = un[m].char
    OBVIOUS
  <1>2. x = Path(un, m) /\ x \in 2 .. N /\ p = Path(un, m - 1) /\ nodes[p].edges[a] = x
    BY <1>1, LastEdge
  <1>3. m \in Nat /\ m >= 1 /\ N \in Nat
    BY LastEdge, LenProperties
  <1>4. /\ f \in Seq(UncheckedNode) /\ Len(f) = m - 1
        /\ \A d \in 1 .. m - 1 : f[d] = un[d]
        /\ \A d \in 0 .. m - 1 : Path(f, d) = Path(un, d)
    BY ShorterPath
  <1>5. DOMAIN new = {key} \union DOMAIN mini /\ new[key] = x
    BY <1>1 DEF IsPut
  <1>6. ASSUME NEW k \in DOMAIN mini PROVE k # key /\ k \in DOMAIN new /\ new[k] = mini[k]
    BY DEF IsPut
  <1>7. PICK K \in Nat, rank \in [Nat -> Nat] : HasRanks(nodes, un, mini, K, rank)
    BY DEF Ranked
  <1>8. /\ K + m < N
        /\ \A k \in DOMAIN mini : MetBefore(nodes, mini, K, rank, k)
        /\ \A d \in 0 .. m : \A c \in DOMAIN nodes[Path(un, d)].edges :
              PathEdge(un, d, c) \/ LeadsOff(nodes, mini, Path(un, d), c)
    BY <1>7 DEF HasRanks
  <1>9. Live(nodes[x])
    BY <1>1
  <1>10. ASSUME NEW k \in DOMAIN mini PROVE mini[k] # x /\ mini[k] \in Nat
    <2>1. m \in 0 .. m
      BY <1>3
    <2>2. mini[k] \in 2 .. N /\ mini[k] # x
      BY <1>2, <2>1 DEF OffOK
    <2>3. QED
      BY <1>3, <2>2
  <1>11. x \in Nat
    BY <1>2, <1>3
  <1> DEFINE higher == [n \in Nat |-> IF n = x THEN K ELSE rank[n]]
  <1>12. higher \in [Nat -> Nat] /\ higher[x] = K
    BY <1>11
  <1>13. ASSUME NEW k \in DOMAIN mini PROVE higher[mini[k]] = rank[mini[k]] /\ rank[mini[k]] \in Nat
    BY <1>10
  <1> HIDE DEF m, N, f, higher
  <1>14. ASSUME NEW k \in DOMAIN new PROVE MetBefore(nodes, new, K + 1, higher, k)
    <2>1. CASE k = key
      <3>1. new[k] = x /\ higher[new[k]] = K
        BY <1>5, <1>12, <2>1
      <3>2. ASSUME NEW c \in DOMAIN nodes[x].edges PROVE Lower(nodes, new, higher, k, c)
        <4>1. m \in 0 .. m /\ ~ PathEdge(un, m, c)
          BY <1>3 DEF PathEdge, m
        <4>2. LeadsOff(nodes, mini, x, c)
          BY <1>2, <1>8, <4>1
        <4>3. PICK j \in DOMAIN mini : nodes[x].edges[c] = mini[j]
          BY <4>2 DEF LeadsOff
        <4>4. rank[mini[j]] < K
          BY <1>8 DEF MetBefore
        <4>5. j \in DOMAIN new /\ new[j] = mini[j] /\ higher[new[j]] < K
          BY <1>6, <1>13, <4>4
        <4>6. QED
          BY <3>1, <4>3, <4>5 DEF Lower
      <3>3. K < K + 1
        OBVIOUS
      <3>4. QED
        BY <1>9, <3>1, <3>2, <3>3 DEF MetBefore
    <2>2. CASE k \in DOMAIN mini
      <3>1. new[k] = mini[k] /\ higher[new[k]] = rank[mini[k]] /\ rank[mini[k]] \in Nat
        BY <1>6, <1>13, <2>2
      <3>2. /\ rank[mini[k]] < K /\ Live(nodes[mini[k]])
            /\ \A c \in DOMAIN nodes[mini[k]].edges : Lower(nodes, mini, rank, k, c)
        BY <1>8, <2>2 DEF MetBefore
      <3>3. ASSUME NEW c \in DOMAIN nodes[mini[k]].edges PROVE Lower(nodes, new, higher, k, c)
        <4>1. PICK j \in DOMAIN mini : nodes[mini[k]].edges[c] = mini[j] /\ rank[mini[j]] < rank[mini[k]]
          BY <3>2 DEF Lower
        <4>2. j \in DOMAIN new /\ new[j] = mini[j] /\ higher[new[j]] = rank[mini[j]]
          BY <1>6, <1>13
        <4>3. QED
          BY <3>1, <4>1, <4>2 DEF Lower
      <3>4. higher[new[k]] < K + 1
        <4>1. PICK r \in Nat : r = rank[mini[k]]
          BY <3>1
        <4>2. r < K
          BY <3>2, <4>1
        <4>3. r < K + 1
          BY <4>2
        <4>4. QED
          BY <3>1, <4>1, <4>3
      <3>5. QED
        BY <3>1, <3>2, <3>3, <3>4 DEF MetBefore
    <2>3. QED
      BY <1>5, <2>1, <2>2
  <1>15. ASSUME NEW d \in 0 .. m - 1, NEW c \in DOMAIN nodes[Path(f, d)].edges
         PROVE  PathEdge(f, d, c) \/ LeadsOff(nodes, new, Path(f, d), c)
    <2>1. d \in 0 .. m
      BY <1>3
    <2>2. PICK n : n = Path(un, d) /\ n = Path(f, d)
      BY <1>4
    <2>3. PathEdge(un, d, c) \/ LeadsOff(nodes, mini, n, c)
      BY <1>8, <2>1, <2>2
    <2>4. CASE LeadsOff(nodes, mini, n, c)
      BY <1>6, <2>2, <2>4 DEF LeadsOff
    <2>5. CASE d = m - 1 /\ PathEdge(un, d, c)
      <3>1. d + 1 = m
        BY <1>3, <2>5
      <3>2. c = a /\ n = p
        BY <1>1, <1>2, <2>2, <2>5, <3>1 DEF PathEdge
      <3>3. nodes[n].edges[c] = new[key] /\ key \in DOMAIN new
        BY <1>2, <1>5, <3>2
      <3>4. QED
        BY <2>2, <3>3 DEF LeadsOff
    <2>6. CASE d # m - 1 /\ PathEdge(un, d, c)
      <3>1. d < m - 1 /\ d + 1 \in 1 .. m - 1
        <4>1. d # m - 1
          BY <2>6
        <4>2. PICK i \in Nat : i = m - 1
          BY <1>3
        <4>3. PICK j \in 0 .. i : j = d /\ j # i
          BY <4>1, <4>2
        <4>4. j < i /\ j + 1 \in 1 .. i
          BY <4>3
        <4>5. QED
          BY <4>2, <4>3, <4>4
      <3>2. PathEdge(f, d, c)
        BY <1>4, <2>6, <3>1 DEF PathEdge
      <3>3. QED
        BY <3>2
    <2>7. QED
      BY <2>3, <2>4, <2>5, <2>6
  <1>16. K + 1 \in Nat /\ (K + 1) + Len(f) < N
    BY <1>3, <1>4, <1>8
  <1>17. HasRanks(nodes, f, new, K + 1, higher)
    BY <1>4, <1>14, <1>15, <1>16 DEF HasRanks, N
  <1>18. QED
    BY <1>12, <1>16, <1>17 DEF Ranked, f

-----------------------------------------------------------------------------
(* A step of minimize. *)

BuilderOK(b, w) ==
    /\ b \in Builders /\ w \in Seq(Letters)
    /\ PathOK(b.nodes, b.unchecked) /\ IntoOK(b.nodes, b.unchecked)
    /\ OffOK(b.nodes, b.unchecked, b.minimized) /\ WordOK(b.nodes, b.unchecked, w)
    /\ Ranked(b.nodes, b.unchecked, b.minimized) /\ Len(b.nodes) >= 1

(* The last node of the path is no dead end. *)
EndsLive(nodes, un) == un # <<>> => Live(nodes[Path(un, Len(un))])

(* Two builders with the same number of nodes, last word and, if no letter *)
(* is a digit, words.                                                      *)
SameWords(b, d) ==
    /\ d.previousWord = b.previousWord /\ Len(d.nodes) = Len(b.nodes)
    /\ NoDigits => \A v \in Seq(Letters) : Accepts(d.nodes, 1, v) <=> Accepts(b.nodes, 1, v)

LEMMA BuilderFields ==
  ASSUME NEW b \in Builders
  PROVE  /\ b.nodes \in Seq(Nodes) /\ b.unchecked \in Seq(UncheckedNode)
         /\ b.minimized \in KeyMaps /\ b.previousWord \in Seq(Letters)
  BY DEF Builders

LEMMA MapFields ==
  ASSUME NEW f \in KeyMaps
  PROVE  /\ f = [k \in DOMAIN f |-> f[k]] /\ DOMAIN f \subseteq Seq(Characters)
         /\ \A k \in DOMAIN f : f[k] \in Nat
  <1>1. PICK S \in SUBSET Seq(Characters) : f \in [S -> Nat]
    BY DEF KeyMaps
  <1>2. QED
    BY <1>1

LEMMA MapWith ==
  ASSUME NEW f \in KeyMaps, NEW k \in Seq(Characters), NEW n \in Nat
  PROVE  IsPut(Put(f, k, n), f, k, n)
  <1> DEFINE S == {k} \union DOMAIN f
  <1>1. f = [j \in DOMAIN f |-> f[j]] /\ DOMAIN f \subseteq Seq(Characters) /\ \A j \in DOMAIN f : f[j] \in Nat
    BY MapFields
  <1>2. PICK h : h = Put(f, k, n) /\ h = [j \in S |-> IF j = k THEN n ELSE f[j]]
    BY DEF Put
  <1>3. h \in [S -> Nat] /\ S \in SUBSET Seq(Characters)
    BY <1>1, <1>2
  <1>4. h \in KeyMaps
    BY <1>3 DEF KeyMaps
  <1>5. DOMAIN h = S /\ \A j \in S : h[j] = IF j = k THEN n ELSE f[j]
    BY <1>2
  <1>6. QED
    BY <1>2, <1>4, <1>5 DEF IsPut

LEMMA KeyIsText ==
  ASSUME NEW node \in Nodes
  PROVE  NodeKey(node) \in Seq(Characters)
  <1>1. PICK key : IsKey(node, key) /\ NodeKey(node) = key[Len(Alphabet)]
    BY KeyGrows
  <1>2. Len(Alphabet) \in 0 .. Len(Alphabet)
    BY LettersAre
  <1>3. QED
    BY <1>1, <1>2 DEF IsKey

LEMMA NewFields ==
  ASSUME NEW N, NEW U, NEW M, NEW W,
         NEW b \in [nodes : N, unchecked : U, minimized : M, previousWord : W],
         NEW n \in N, NEW u \in U, NEW m \in M, NEW w \in W
  PROVE  /\ \A d : d = [b EXCEPT !.nodes = n, !.unchecked = u] =>
                /\ d \in [nodes : N, unchecked : U, minimized : M, previousWord : W]
                /\ d.nodes = n /\ d.unchecked = u
                /\ d.minimized = b.minimized /\ d.previousWord = b.previousWord
         /\ \A d : d = [b EXCEPT !.minimized = m, !.unchecked = u] =>
                /\ d \in [nodes : N, unchecked : U, minimized : M, previousWord : W]
                /\ d.nodes = b.nodes /\ d.unchecked = u
                /\ d.minimized = m /\ d.previousWord = b.previousWord
         /\ \A d : d = [b EXCEPT !.nodes = n, !.previousWord = w] =>
                /\ d \in [nodes : N, unchecked : U, minimized : M, previousWord : W]
                /\ d.nodes = n /\ d.unchecked = b.unchecked
                /\ d.minimized = b.minimized /\ d.previousWord = w
  OBVIOUS

LEMMA CheckIs ==
  ASSUME NEW b, NEW w, BuilderOK(b, w), b.unchecked # <<>>, EndsLive(b.nodes, b.unchecked)
  PROVE  LET d == CheckLast(b) IN
         /\ BuilderOK(d, w) /\ d.unchecked = Front(b.unchecked) /\ SameWords(b, d)
         /\ EndsLive(d.nodes, d.unchecked)
  <1>1. PICK nodes, un, mini : nodes = b.nodes /\ un = b.unchecked /\ mini = b.minimized
    OBVIOUS
  <1>2. /\ nodes \in Seq(Nodes) /\ un \in Seq(UncheckedNode) /\ w \in Seq(Letters)
        /\ mini \in KeyMaps /\ b.previousWord \in Seq(Letters)
        /\ PathOK(nodes, un) /\ IntoOK(nodes, un) /\ OffOK(nodes, un, mini) /\ WordOK(nodes, un, w)
        /\ Ranked(nodes, un, mini)
        /\ Len(nodes) >= 1 /\ Len(nodes) \in Nat /\ un # <<>> /\ b \in Builders
        /\ b = [nodes |-> nodes, unchecked |-> un, minimized |-> mini, previousWord |-> b.previousWord]
    <2>1. b \in Builders
      BY DEF BuilderOK
    <2>2. b = [nodes |-> nodes, unchecked |-> un, minimized |-> mini, previousWord |-> b.previousWord]
      BY <1>1, <2>1 DEF Builders
    <2>3. nodes \in Seq(Nodes)
      BY <1>1, <2>1, BuilderFields
    <2>4. Len(nodes) \in Nat
      BY <2>3, LenProperties
    <2>5. QED
      BY <1>1, <2>1, <2>2, <2>3, <2>4, BuilderFields DEF BuilderOK
  <1>3. PICK f, m, u : f = Front(un) /\ m = Len(un) /\ u = un[m] /\ u = Last(b.unchecked)
    BY <1>1 DEF Last
  <1>4. /\ m \in Nat /\ m >= 1 /\ u.parent = Path(un, m - 1) /\ u.child = Path(un, m)
        /\ u.parent \in 1 .. Len(nodes) /\ u.child \in 2 .. Len(nodes) /\ u.parent # u.child
        /\ u.char \in DOMAIN nodes[u.parent].edges /\ nodes[u.parent].edges[u.char] = u.child
    BY <1>2, <1>3, LastEdge
  <1>5. /\ f \in Seq(UncheckedNode) /\ Len(f) = m - 1
        /\ \A i \in 0 .. m - 1 : Path(f, i) = Path(un, i)
    BY <1>2, <1>3, ShorterPath
  <1>6. PathOK(nodes, f) /\ IntoOK(nodes, f) /\ OffOK(nodes, f, mini) /\ WordOK(nodes, f, w)
    BY <1>2, <1>3, ShorterPathOK
  <1>7. PICK key : key = NodeKey(nodes[u.child])
    OBVIOUS
  <1>8. nodes[u.child] \in Nodes /\ key \in Seq(Characters)
    <2>1. u.child \in 1 .. Len(nodes)
      BY <1>2, <1>4
    <2>2. nodes[u.child] \in Nodes
      BY <1>2, <2>1, ElementOfSeq
    <2>3. QED
      BY <1>7, <2>2, KeyIsText
  <1>9. PICK d : d = CheckLast(b)
    OBVIOUS
  <1>12. Path(f, Len(f)) = u.parent
    <2>1. m - 1 \in 0 .. m - 1
      BY <1>4
    <2>2. QED
      BY <1>4, <1>5, <2>1
  <1>10. CASE key \in DOMAIN mini
    <2>1. PICK e : e = mini[key]
      OBVIOUS
    <2>2. /\ e \in 2 .. Len(nodes) /\ e \in 1 .. Len(nodes) /\ e \in Nat /\ NodeKey(nodes[e]) = key
          /\ \A i \in 0 .. m : e # Path(un, i)
      <3>1. /\ e \in 2 .. Len(nodes) /\ NodeKey(nodes[e]) = key
            /\ \A i \in 0 .. m : e # Path(un, i)
        BY <1>2, <1>3, <1>10, <2>1 DEF OffOK
      <3>2. QED
        BY <1>2, <3>1
    <2>3. PICK new : new = [nodes EXCEPT ![u.parent].edges[u.char] = e]
      OBVIOUS
    <2>4. d = [b EXCEPT !.nodes = new, !.unchecked = f]
      <3>1. d = [b EXCEPT !.nodes[u.parent].edges[u.char] = e, !.unchecked = f]
        BY <1>1, <1>3, <1>7, <1>9, <1>10, <2>1 DEF CheckLast
      <3>2. QED
        BY <1>1, <2>3, <3>1
    <2>5. e # u.child /\ e # u.parent /\ \A i \in 0 .. Len(f) : e # Path(f, i)
      <3>1. m \in 0 .. m /\ m - 1 \in 0 .. m /\ \A i \in 0 .. m - 1 : i \in 0 .. m
        BY <1>4
      <3>2. QED
        BY <1>4, <1>5, <2>2, <3>1
    <2>6. ASSUME NoDigits PROVE nodes[e] = nodes[u.child]
      <3>1. nodes[e] \in Nodes
        BY <1>2, <2>2, ElementOfSeq
      <3>2. QED
        BY <1>7, <1>8, <2>2, <2>6, <3>1, KeyTells
    <2>7. IsReplaced(nodes, new, u.parent, u.char, e)
      BY <1>2, <1>4, <2>2, <2>3, Replaced
    <2>8. new \in Seq(Nodes) /\ Len(new) = Len(nodes)
      BY <2>7 DEF IsReplaced
    <2>9. /\ d.nodes = new /\ d.unchecked = f /\ d.minimized = mini
          /\ d.previousWord = b.previousWord /\ d \in Builders
      <3>1. QED
        BY <1>1, <1>2, <1>5, <2>4, <2>8, NewFields DEF Builders
    <2>10. PathOK(new, f) /\ IntoOK(new, f) /\ OffOK(new, f, mini) /\ WordOK(new, f, w)
      <3>1. Path(f, Len(f)) = u.parent
        BY <1>12
      <3>2. IsReplaced(nodes, new, Path(f, Len(f)), u.char, e)
        BY <2>7, <3>1
      <3>3. QED
        BY <1>2, <1>5, <1>6, <2>2, <2>5, <3>2, ReplaceKeepsPath
    <2>11. ASSUME NoDigits, NEW v \in Seq(Letters) PROVE Accepts(new, 1, v) <=> Accepts(nodes, 1, v)
      <3>1. /\ e # un[Len(un)].child /\ e # un[Len(un)].parent /\ nodes[e] = nodes[un[Len(un)].child]
            /\ IsReplaced(nodes, new, un[Len(un)].parent, un[Len(un)].char, e)
        BY <1>3, <2>5, <2>6, <2>7, <2>11
      <3>2. QED
        BY <1>2, <2>2, <3>1, ReplaceKeepsWords
    <2>12. BuilderOK(d, w)
      <3>1. IsReplaced(nodes, new, un[Len(un)].parent, un[Len(un)].char, mini[key])
        BY <1>3, <2>1, <2>7
      <3>2. Ranked(new, f, mini)
        BY <1>2, <1>3, <1>10, <3>1, RanksShared
      <3>3. QED
        BY <1>2, <2>8, <2>9, <2>10, <3>2 DEF BuilderOK
    <2>13. SameWords(b, d)
      BY <1>1, <2>8, <2>9, <2>11 DEF SameWords
    <2>14. EndsLive(d.nodes, d.unchecked)
      <3>1. u.char \in DOMAIN new[u.parent].edges
        BY <1>4, <2>7 DEF IsReplaced
      <3>2. Path(f, Len(f)) = u.parent
        BY <1>12
      <3>3. QED
        BY <2>9, <3>1, <3>2 DEF EndsLive, Live
    <2>15. QED
      BY <1>1, <1>3, <1>9, <2>9, <2>12, <2>13, <2>14
  <1>11. CASE key \notin DOMAIN mini
    <2>1. PICK new : new = Put(mini, key, u.child)
      OBVIOUS
    <2>2. d = [b EXCEPT !.minimized = new, !.unchecked = f]
      BY <1>1, <1>3, <1>7, <1>9, <1>11, <2>1 DEF CheckLast
    <2>3. /\ new \in KeyMaps /\ DOMAIN new = {key} \union DOMAIN mini
          /\ \A j \in {key} \union DOMAIN mini : new[j] = IF j = key THEN u.child ELSE mini[j]
      <3>1. PICK c \in Nat : c = u.child
        BY <1>2, <1>4
      <3>2. new = Put(mini, key, c)
        BY <2>1, <3>1
      <3>3. IsPut(Put(mini, key, c), mini, key, c)
        BY <1>2, <1>8, MapWith
      <3>4. QED
        BY <3>1, <3>2, <3>3 DEF IsPut
    <2>4. /\ d.nodes = nodes /\ d.unchecked = f /\ d.minimized = new
          /\ d.previousWord = b.previousWord /\ d \in Builders
      <3>1. QED
        BY <1>1, <1>2, <1>5, <2>2, <2>3, NewFields DEF Builders
    <2>5. OffOK(nodes, f, new)
      <3> SUFFICES ASSUME NEW j \in DOMAIN new
                   PROVE  /\ new[j] \in 2 .. Len(nodes) /\ NodeKey(nodes[new[j]]) = j
                          /\ \A i \in 0 .. Len(f) : new[j] # Path(f, i)
        BY DEF OffOK
      <3>1. CASE j = key
        <4>1. new[j] = u.child /\ NodeKey(nodes[u.child]) = key
          BY <1>7, <2>3, <3>1
        <4>2. ASSUME NEW i \in 0 .. Len(f) PROVE u.child # Path(f, i)
          <5>1. i \in 0 .. m /\ m \in 0 .. m /\ i < m /\ i \in 0 .. m - 1
            BY <1>4, <1>5
          <5>2. Path(un, i) < Path(un, m) /\ Path(un, i) \in 1 .. Len(nodes) /\ Path(f, i) = Path(un, i)
            BY <1>2, <1>3, <1>5, <5>1 DEF PathOK
          <5>3. QED
            BY <1>2, <1>4, <5>2
        <4>3. QED
          BY <1>4, <3>1, <4>1, <4>2
      <3>2. CASE j # key
        BY <1>6, <2>3, <3>2 DEF OffOK
      <3>3. QED
        BY <3>1, <3>2
    <2>6. BuilderOK(d, w)
      <3>1. IsPut(new, mini, key, un[Len(un)].child) /\ Live(nodes[un[Len(un)].child])
        <4>1. IsPut(new, mini, key, u.child)
          BY <2>3 DEF IsPut
        <4>2. Live(nodes[u.child])
          BY <1>1, <1>2, <1>3, <1>4 DEF EndsLive
        <4>3. QED
          BY <1>3, <4>1, <4>2
      <3>2. Ranked(nodes, f, new)
        BY <1>2, <1>3, <1>11, <3>1, RanksAdded
      <3>3. QED
        BY <1>2, <1>6, <2>4, <2>5, <3>2 DEF BuilderOK
    <2>7. SameWords(b, d)
      BY <1>1, <2>4 DEF SameWords
    <2>8. EndsLive(d.nodes, d.unchecked)
      BY <1>4, <1>12, <2>4 DEF EndsLive, Live
    <2>9. QED
      BY <1>1, <1>3, <1>9, <2>4, <2>6, <2>7, <2>8
  <1>13. QED
    BY <1>10, <1>11

(* Along the naturals up to N. *)
LEMMA Upwards ==
  ASSUME NEW N \in Nat, NEW T, 0 \in T, \A k \in 1 .. N : k - 1 \in T => k \in T
  PROVE  \A k \in 0 .. N : k \in T
  <1> DEFINE Bad == {k \in 0 .. N : k \notin T}
  <1>1. SUFFICES ASSUME Bad # {} PROVE FALSE
    OBVIOUS
  <1>2. PICK m \in Bad : \A k \in Bad : m <= k
    <2>1. Bad \subseteq Nat
      OBVIOUS
    <2>2. QED
      BY <1>1, <2>1, LeastPosition
  <1>3. m \in 0 .. N /\ m \notin T /\ m # 0
    BY <1>2
  <1>4. m \in 1 .. N /\ m - 1 \in 0 .. N /\ ~ (m <= m - 1)
    BY <1>3
  <1>5. m - 1 \in T
    BY <1>2, <1>4
  <1>6. QED
    BY <1>3, <1>4, <1>5

(* A builder that b becomes when k of its nodes are checked. *)
CheckedFrom(b, w, d, k) ==
    /\ BuilderOK(d, w) /\ SameWords(b, d) /\ Len(d.unchecked) = Len(b.unchecked) - k
    /\ EndsLive(d.nodes, d.unchecked)

LEMMA CheckOne ==
  ASSUME NEW b, NEW w, NEW d, NEW k \in Nat, BuilderOK(b, w),
         CheckedFrom(b, w, d, k), k < Len(b.unchecked)
  PROVE  CheckedFrom(b, w, CheckLast(d), k + 1)
  <1>1. d.unchecked \in Seq(UncheckedNode) /\ b.unchecked \in Seq(UncheckedNode)
    BY BuilderFields DEF CheckedFrom, BuilderOK
  <1>2. Len(d.unchecked) = Len(b.unchecked) - k /\ Len(b.unchecked) \in Nat
    BY <1>1, LenProperties DEF CheckedFrom
  <1>3. d.unchecked # <<>>
    <2>1. Len(d.unchecked) # 0
      BY <1>2
    <2>2. QED
      BY <2>1, EmptySeq
  <1>4. PICK e : /\ e = CheckLast(d) /\ BuilderOK(e, w) /\ e.unchecked = Front(d.unchecked)
                 /\ SameWords(d, e) /\ EndsLive(e.nodes, e.unchecked)
    BY <1>3, CheckIs DEF CheckedFrom
  <1>5. Len(e.unchecked) = Len(b.unchecked) - (k + 1)
    <2>1. Len(e.unchecked) = Len(d.unchecked) - 1
      BY <1>1, <1>3, <1>4, ShorterPath
    <2>2. QED
      BY <1>2, <2>1
  <1>6. SameWords(b, e)
    BY <1>4 DEF SameWords, CheckedFrom
  <1>7. QED
    BY <1>4, <1>5, <1>6 DEF CheckedFrom

(* Minimization changes no word and shortens the path. *)
LEMMA MinimizeIs ==
  ASSUME NEW b, NEW w, BuilderOK(b, w), EndsLive(b.nodes, b.unchecked), NEW downTo \in Nat
  PROVE  LET d == Minimize(b, downTo) IN
         /\ BuilderOK(d, w) /\ SameWords(b, d) /\ EndsLive(d.nodes, d.unchecked)
         /\ Len(d.unchecked) = IF Len(b.unchecked) <= downTo THEN Len(b.unchecked) ELSE downTo
  <1> DEFINE L == Len(b.unchecked)
             Step(f) == [k \in 0 .. L |-> IF k = 0 THEN b ELSE CheckLast(f[k - 1])]
             checked == CHOOSE f : f = Step(f)
  <1>1. Minimize(b, downTo) = IF L <= downTo THEN b ELSE checked[L - downTo]
    BY DEF Minimize
  <1>2. L \in Nat
    <2>1. b.unchecked \in Seq(UncheckedNode)
      BY BuilderFields DEF BuilderOK
    <2>2. QED
      BY <2>1, LenProperties
  <1> HIDE DEF L
  <1>3. \E f : f = Step(f)
    <2> DEFINE Fits(f, m) == f[0] = b /\ \A k \in 1 .. m : f[k] = CheckLast(f[k - 1])
               T == {m \in Nat : \E f : Fits(f, m)}
    <2>1. 0 \in T
      <3>1. Fits([k \in {0} |-> b], 0)
        OBVIOUS
      <3>2. QED
        BY <3>1
    <2>2. ASSUME NEW m \in 1 .. L, m - 1 \in T PROVE m \in T
      <3>1. PICK f : Fits(f, m - 1)
        BY <2>2
      <3> DEFINE h == [k \in 0 .. m |-> IF k = m THEN CheckLast(f[m - 1]) ELSE f[k]]
      <3>2. h[m] = CheckLast(f[m - 1]) /\ \A k \in 0 .. m - 1 : h[k] = f[k]
        BY <1>2
      <3>3. m \in Nat /\ 0 \in 0 .. m - 1 /\ m - 1 \in 0 .. m - 1
        BY <1>2
      <3> HIDE DEF h
      <3>4. ASSUME NEW k \in 1 .. m PROVE h[k] = CheckLast(h[k - 1])
        <4>1. k - 1 \in 0 .. m - 1 /\ (k = m \/ (k \in 1 .. m - 1 /\ k \in 0 .. m - 1))
          BY <1>2
        <4>2. h[k - 1] = f[k - 1]
          BY <3>2, <4>1
        <4>3. CASE k = m
          BY <3>2, <4>2, <4>3
        <4>4. CASE k \in 1 .. m - 1 /\ k \in 0 .. m - 1
          BY <3>1, <3>2, <4>2, <4>4
        <4>5. QED
          BY <4>1, <4>3, <4>4
      <3>5. Fits(h, m)
        BY <3>1, <3>2, <3>3, <3>4
      <3>6. QED
        BY <3>3, <3>5
    <2>3. L \in T
      <3> HIDE DEF T
      <3>1. \A k \in 0 .. L : k \in T
        BY <1>2, <2>1, <2>2, Upwards
      <3>2. QED
        BY <1>2, <3>1
    <2>4. PICK f : Fits(f, L)
      BY <2>3
    <2> DEFINE h == [k \in 0 .. L |-> f[k]]
    <2>5. \A k \in 0 .. L : h[k] = IF k = 0 THEN b ELSE CheckLast(h[k - 1])
      <3>1. \A k \in 0 .. L : h[k] = f[k]
        OBVIOUS
      <3>2. \A k \in 0 .. L : k = 0 \/ (k \in 1 .. L /\ k - 1 \in 0 .. L)
        BY <1>2
      <3>3. h = [k \in 0 .. L |-> h[k]]
        OBVIOUS
      <3> HIDE DEF h
      <3>4. QED
        BY <2>4, <3>1, <3>2
    <2>6. h = [k \in 0 .. L |-> h[k]]
      OBVIOUS
    <2> HIDE DEF h
    <2>7. h = Step(h)
      BY <2>5, <2>6
    <2>8. QED
      BY <2>7
  <1>4. checked = Step(checked)
    BY <1>3
  <1> HIDE DEF checked
  <1>5. \A k \in 0 .. L : checked[k] = IF k = 0 THEN b ELSE CheckLast(checked[k - 1])
    BY <1>4, Zenon
  <1> DEFINE T == {k \in Nat : CheckedFrom(b, w, checked[k], k)}
  <1>6. 0 \in T
    <2>1. checked[0] = b
      BY <1>2, <1>5
    <2>2. CheckedFrom(b, w, b, 0)
      BY <1>2 DEF CheckedFrom, SameWords, L
    <2>3. QED
      BY <2>1, <2>2
  <1>7. ASSUME NEW k \in 1 .. L, k - 1 \in T PROVE k \in T
    <2>1. PICK j \in Nat : j = k - 1 /\ j < L /\ k = j + 1
      BY <1>2
    <2>2. checked[k] = CheckLast(checked[j])
      BY <1>2, <1>5, <2>1
    <2>3. CheckedFrom(b, w, checked[j], j)
      BY <1>7, <2>1
    <2>4. CheckedFrom(b, w, checked[k], j + 1)
      BY <2>1, <2>2, <2>3, CheckOne DEF L
    <2>5. QED
      BY <2>1, <2>4
  <1>8. \A k \in 0 .. L : CheckedFrom(b, w, checked[k], k)
    <2> HIDE DEF T
    <2>1. \A k \in 0 .. L : k \in T
      BY <1>2, <1>6, <1>7, Upwards
    <2>2. QED
      BY <2>1 DEF T
  <1>9. CASE L <= downTo
    BY <1>1, <1>9 DEF SameWords, L
  <1>10. CASE ~ (L <= downTo)
    <2>1. L - downTo \in 0 .. L /\ L - (L - downTo) = downTo
      BY <1>2, <1>10
    <2>2. CheckedFrom(b, w, checked[L - downTo], L - downTo)
      BY <1>8, <2>1
    <2>3. QED
      BY <1>1, <1>10, <2>1, <2>2 DEF CheckedFrom, L
  <1>11. QED
    BY <1>9, <1>10

-----------------------------------------------------------------------------
(* The next word. *)

LEMMA CodeIs ==
  ASSUME NEW c \in Letters
  PROVE  Code(c) \in Nat /\ Code(c) \in DOMAIN Alphabet /\ Alphabet[Code(c)] = c
  <1>1. \E i \in DOMAIN Alphabet : Alphabet[i] = c
    BY DEF Letters
  <1>2. Code(c) \in DOMAIN Alphabet /\ Alphabet[Code(c)] = c
    BY <1>1 DEF Code
  <1>3. QED
    BY <1>2, LettersAre

IsCommon(n, v, w) ==
    /\ n \in 0 .. Len(v) /\ n <= Len(w) /\ \A i \in 1 .. n : v[i] = w[i]
    /\ n < Len(v) /\ n < Len(w) => v[n + 1] # w[n + 1]

LEMMA CommonPrefixIs ==
  ASSUME NEW S, NEW v \in Seq(S), NEW w \in Seq(S)
  PROVE  IsCommon(CommonPrefix(v, w), v, w)
  <1> DEFINE T == {n \in Nat : n <= Len(v) /\ (n = Len(v) \/ n = Len(w) \/ v[n + 1] # w[n + 1])}
  <1>1. Len(v) \in Nat /\ Len(w) \in Nat
    BY LenProperties
  <1>2. PICK m \in T : \A k \in T : m <= k
    <2>1. T \subseteq Nat /\ T # {}
      BY <1>1
    <2>2. QED
      BY <2>1, LeastPosition
  <1>3. m \in Nat /\ m <= Len(v) /\ (m = Len(v) \/ m = Len(w) \/ v[m + 1] # w[m + 1])
    BY <1>2
  <1>4. m <= Len(w)
    <2>1. SUFFICES ASSUME ~ (m <= Len(w)) PROVE FALSE
      OBVIOUS
    <2>2. Len(w) \in T
      BY <1>1, <1>3, <2>1
    <2>3. QED
      BY <1>1, <1>2, <1>3, <2>1, <2>2
  <1>5. ASSUME NEW i \in 1 .. m PROVE v[i] = w[i]
    <2>1. PICK k \in Nat : k = i - 1 /\ i = k + 1 /\ k < m
      BY <1>3
    <2>2. k \notin T
      <3> HIDE DEF T
      <3>1. QED
        BY <1>2, <1>3, <2>1
    <2>3. QED
      BY <1>1, <1>3, <2>1, <2>2
  <1>6. IsCommon(m, v, w)
    BY <1>1, <1>3, <1>4, <1>5 DEF IsCommon
  <1>7. \E n \in 0 .. Len(v) :
            /\ n <= Len(w) /\ \A i \in 1 .. n : v[i] = w[i]
            /\ n < Len(v) /\ n < Len(w) => v[n + 1] # w[n + 1]
    BY <1>6 DEF IsCommon
  <1>8. QED
    BY <1>7, Zenon DEF CommonPrefix, IsCommon

LEMMA SameBeginning ==
  ASSUME NEW S, NEW v \in Seq(S), NEW w \in Seq(S), NEW n \in Nat, n <= Len(v), n <= Len(w),
         \A i \in 1 .. n : v[i] = w[i]
  PROVE  SubSeq(v, 1, n) = SubSeq(w, 1, n)
  <1>1. Len(v) \in Nat /\ Len(w) \in Nat
    BY LenProperties
  <1>2. ASSUME NEW u \in Seq(S), n <= Len(u), NEW s, s = SubSeq(u, 1, n)
        PROVE  s \in Seq(S) /\ Len(s) = n /\ \A i \in 1 .. n : s[i] = u[i]
    <2>1. \A i \in 1 .. n : u[i] \in S
      BY <1>2
    <2>2. /\ s \in Seq(S) /\ Len(s) = (IF 1 <= n THEN n - 1 + 1 ELSE 0)
          /\ \A i \in 1 .. n - 1 + 1 : s[i] = u[1 + i - 1]
      BY <1>2, <2>1, SubSeqProperties
    <2>3. n - 1 + 1 = n /\ \A i \in 1 .. n : 1 + i - 1 = i
      OBVIOUS
    <2>4. QED
      BY <2>2, <2>3
  <1>3. PICK s, t : s = SubSeq(v, 1, n) /\ t = SubSeq(w, 1, n)
    OBVIOUS
  <1>4. s \in Seq(S) /\ t \in Seq(S) /\ Len(s) = Len(t) /\ \A i \in 1 .. Len(s) : s[i] = t[i]
    BY <1>2, <1>3
  <1>5. QED
    BY <1>3, <1>4, SeqEqual

(* The path spells the first i characters of the word, and the next one    *)
(* labels no edge yet.                                                     *)
ReadyFor(b, w, i) ==
    /\ BuilderOK(b, w) /\ Len(b.unchecked) = i /\ i <= Len(w)
    /\ i < Len(w) => w[i + 1] \notin DOMAIN b.nodes[Path(b.unchecked, i)].edges

LEMMA NextWord ==
  ASSUME NEW b, NEW v, NEW w \in Seq(Letters), BuilderOK(b, v), ~ Before(w, v),
         Len(b.unchecked) = CommonPrefix(w, v)
  PROVE  ReadyFor(b, w, CommonPrefix(w, v))
  <1>1. PICK n, nodes, un : n = CommonPrefix(w, v) /\ nodes = b.nodes /\ un = b.unchecked
    OBVIOUS
  <1>2. v \in Seq(Letters) /\ nodes \in Seq(Nodes) /\ un \in Seq(UncheckedNode) /\ Len(un) = n
    BY <1>1, BuilderFields DEF BuilderOK
  <1>3. /\ n \in Nat /\ n <= Len(w) /\ n <= Len(v) /\ Len(v) \in Nat /\ Len(w) \in Nat
        /\ \A i \in 1 .. n : w[i] = v[i]
        /\ n < Len(w) /\ n < Len(v) => w[n + 1] # v[n + 1]
    <2>1. IsCommon(n, w, v) /\ Len(v) \in Nat /\ Len(w) \in Nat
      BY <1>1, <1>2, CommonPrefixIs, LenProperties
    <2>2. QED
      BY <2>1 DEF IsCommon
  <1>4. /\ n <= Len(v) /\ \A i \in 1 .. n : un[i].char = v[i]
        /\ \A i \in 0 .. n : \A c \in DOMAIN nodes[Path(un, i)].edges :
               i < Len(v) /\ Code(c) <= Code(v[i + 1])
    BY <1>1, <1>2 DEF BuilderOK, WordOK
  <1>5. ASSUME NEW i \in 0 .. n, NEW c \in DOMAIN nodes[Path(un, i)].edges
        PROVE  c \in Letters
    <2>1. Path(un, i) \in 1 .. Len(nodes)
      BY <1>1, <1>2 DEF BuilderOK, PathOK
    <2>2. nodes[Path(un, i)] \in Nodes
      BY <1>2, <2>1, ElementOfSeq
    <2>3. QED
      BY <2>2, NodeFields
  (* The word is not before v. *)
  <1>6. ASSUME n < Len(v)
        PROVE  n < Len(w) /\ w[n + 1] \in Letters /\ v[n + 1] \in Letters
               /\ Code(v[n + 1]) < Code(w[n + 1])
    <2>1. PICK i \in Nat : i = n + 1 /\ i - 1 = n /\ i \in 1 .. Len(v)
      BY <1>3, <1>6
    <2>2. SubSeq(w, 1, n) = SubSeq(v, 1, n)
      BY <1>2, <1>3, SameBeginning
    <2>3. i - 1 <= Len(w) /\ SubSeq(w, 1, i - 1) = SubSeq(v, 1, i - 1)
      BY <1>3, <2>1, <2>2
    <2>4. i <= Len(w) /\ ~ (Code(w[i]) < Code(v[i]))
      BY <2>1, <2>3, Zenon DEF Before
    <2>5. n < Len(w) /\ w[i] \in Letters /\ v[i] \in Letters /\ w[i] # v[i]
      BY <1>2, <1>3, <1>6, <2>1, <2>4
    <2>6. Code(w[i]) # Code(v[i]) /\ Code(w[i]) \in Nat /\ Code(v[i]) \in Nat
      BY <2>5, CodeIs
    <2>7. QED
      BY <2>1, <2>4, <2>5, <2>6
  <1>7. WordOK(nodes, un, w)
    <2>1. \A i \in 1 .. n : un[i].char = w[i]
      BY <1>3, <1>4
    <2>2. ASSUME NEW i \in 0 .. n, NEW c \in DOMAIN nodes[Path(un, i)].edges
          PROVE  i < Len(w) /\ Code(c) <= Code(w[i + 1])
      <3>1. i < Len(v) /\ Code(c) <= Code(v[i + 1]) /\ Code(c) \in Nat
        BY <1>4, <1>5, CodeIs
      <3>2. CASE i = n
        <4>1. n < Len(w) /\ Code(v[n + 1]) < Code(w[n + 1]) /\ Code(v[n + 1]) \in Nat /\ Code(w[n + 1]) \in Nat
          BY <1>6, <3>1, <3>2, CodeIs
        <4>2. QED
          BY <3>1, <3>2, <4>1
      <3>3. CASE i # n
        <4>1. i + 1 \in 1 .. n /\ i < Len(w)
          BY <1>3, <3>3
        <4>2. QED
          BY <1>3, <3>1, <4>1
      <3>4. QED
        BY <3>2, <3>3
    <2>3. QED
      BY <1>2, <1>3, <2>1, <2>2 DEF WordOK
  <1>8. ASSUME n < Len(w), w[n + 1] \in DOMAIN nodes[Path(un, n)].edges PROVE FALSE
    <2>1. n \in 0 .. n
      BY <1>3
    <2>2. n < Len(v) /\ Code(w[n + 1]) <= Code(v[n + 1])
      BY <1>4, <1>8, <2>1
    <2>3. Code(v[n + 1]) < Code(w[n + 1]) /\ Code(v[n + 1]) \in Nat /\ Code(w[n + 1]) \in Nat
      BY <1>6, <2>2, CodeIs
    <2>4. QED
      BY <2>2, <2>3
  <1>9. BuilderOK(b, w)
    BY <1>1, <1>7 DEF BuilderOK
  <1>10. QED
    BY <1>1, <1>2, <1>3, <1>8, <1>9 DEF ReadyFor

-----------------------------------------------------------------------------
(* One more node. *)

IsExtended(nodes, new, p, c) ==
    /\ new \in Seq(Nodes) /\ Len(new) = Len(nodes) + 1
    /\ \A n \in 1 .. Len(nodes) : n # p => new[n] = nodes[n]
    /\ new[p].final = nodes[p].final /\ DOMAIN new[p].edges = {c} \union DOMAIN nodes[p].edges
    /\ new[p].edges[c] = Len(nodes) + 1
    /\ \A x \in DOMAIN nodes[p].edges : new[p].edges[x] = nodes[p].edges[x]
    /\ ~ new[Len(nodes) + 1].final /\ DOMAIN new[Len(nodes) + 1].edges = {}

LEMMA EmptyNode == Node(FALSE) \in Nodes /\ ~ Node(FALSE).final /\ DOMAIN Node(FALSE).edges = {}
  <1>1. PICK f : f = [c \in {} |-> 0]
    OBVIOUS
  <1>2. f \in [{} -> Nat] /\ {} \in SUBSET Letters /\ DOMAIN f = {}
    BY <1>1
  <1>3. f \in EdgeMaps
    BY <1>2 DEF EdgeMaps
  <1>4. PICK n : n = [final |-> FALSE, edges |-> f]
    OBVIOUS
  <1>5. n \in Nodes /\ ~ n.final /\ n.edges = f
    <2>1. n \in Nodes
      BY <1>3, <1>4 DEF Nodes
    <2>2. n.final = FALSE /\ n.edges = f
      BY <1>4
    <2>3. QED
      BY <2>1, <2>2
  <1>6. Node(FALSE) = n
    BY <1>1, <1>4 DEF Node
  <1>7. QED
    BY <1>2, <1>5, <1>6

LEMMA Extended ==
  ASSUME NEW nodes \in Seq(Nodes), NEW p \in 1 .. Len(nodes), NEW c \in Letters,
         c \notin DOMAIN nodes[p].edges
  PROVE  IsExtended(nodes, Append([nodes EXCEPT ![p].edges = Put(@, c, Len(nodes) + 1)], Node(FALSE)), p, c)
  <1>1. nodes[p] \in Nodes /\ Len(nodes) \in Nat
    BY ElementOfSeq, LenProperties
  <1>2. PICK old, e, f : old = nodes[p].edges /\ e = Len(nodes) + 1 /\ f = Put(old, c, e)
    OBVIOUS
  <1>3. /\ DOMAIN old \subseteq Letters /\ old = [x \in DOMAIN old |-> old[x]]
        /\ \A x \in DOMAIN old : old[x] \in Nat
    BY <1>1, <1>2, NodeFields
  <1>4. f = [k \in {c} \union DOMAIN old |-> IF k = c THEN e ELSE old[k]]
    BY <1>2 DEF Put
  <1>5. /\ DOMAIN f = {c} \union DOMAIN old /\ f[c] = e
        /\ \A x \in DOMAIN old : f[x] = old[x]
    <2>1. c \notin DOMAIN old
      BY <1>2
    <2>2. QED
      BY <1>4, <2>1
  <1>6. f \in EdgeMaps
    <2>1. {c} \union DOMAIN old \in SUBSET Letters /\ e \in Nat
      BY <1>1, <1>2, <1>3
    <2>2. f \in [{c} \union DOMAIN old -> Nat]
      BY <1>3, <1>4, <2>1
    <2>3. QED
      BY <2>1, <2>2 DEF EdgeMaps
  <1>7. PICK node : node = [nodes[p] EXCEPT !.edges = f]
    OBVIOUS
  <1>8. node \in Nodes /\ node.final = nodes[p].final /\ node.edges = f
    BY <1>1, <1>6, <1>7 DEF Nodes
  <1>9. PICK some, leaf, new : /\ some = [nodes EXCEPT ![p] = node] /\ leaf = Node(FALSE)
                               /\ new = Append(some, leaf)
    OBVIOUS
  <1>10. /\ some \in Seq(Nodes) /\ Len(some) = Len(nodes) /\ some[p] = node
         /\ \A n \in 1 .. Len(nodes) : n # p => some[n] = nodes[n]
    BY <1>8, <1>9
  <1>11. leaf \in Nodes /\ ~ leaf.final /\ DOMAIN leaf.edges = {}
    BY <1>9, EmptyNode
  <1>12. /\ new \in Seq(Nodes) /\ Len(new) = Len(nodes) + 1 /\ new[Len(nodes) + 1] = leaf
         /\ \A n \in 1 .. Len(nodes) : new[n] = some[n]
    <2>1. /\ new \in Seq(Nodes) /\ Len(new) = Len(some) + 1
          /\ \A n \in 1 .. Len(some) : new[n] = some[n]
          /\ new[Len(some) + 1] = leaf
      <3>1. some \in Seq(Nodes) /\ leaf \in Nodes
        BY <1>10, <1>11
      <3>2. /\ Append(some, leaf) \in Seq(Nodes) /\ Len(Append(some, leaf)) = Len(some) + 1
            /\ \A n \in 1 .. Len(some) : Append(some, leaf)[n] = some[n]
            /\ Append(some, leaf)[Len(some) + 1] = leaf
        BY <3>1, AppendProperties
      <3>3. QED
        BY <1>9, <3>2
    <2>2. QED
      BY <1>10, <2>1
  <1>13. IsExtended(nodes, new, p, c)
    <2>1. new[p] = node
      BY <1>10, <1>12
    <2>2. \A n \in 1 .. Len(nodes) : n # p => new[n] = nodes[n]
      BY <1>10, <1>12
    <2>3. /\ new[p].final = nodes[p].final /\ DOMAIN new[p].edges = {c} \union DOMAIN nodes[p].edges
          /\ new[p].edges[c] = Len(nodes) + 1
          /\ \A x \in DOMAIN nodes[p].edges : new[p].edges[x] = nodes[p].edges[x]
      BY <1>2, <1>5, <1>8, <2>1
    <2>4. QED
      BY <1>11, <1>12, <2>2, <2>3 DEF IsExtended
  <1>14. new = Append([nodes EXCEPT ![p].edges = Put(@, c, Len(nodes) + 1)], Node(FALSE))
    <2>1. some = [nodes EXCEPT ![p].edges = Put(@, c, Len(nodes) + 1)]
      BY <1>2, <1>7, <1>9
    <2>2. QED
      BY <1>9, <2>1
  <1>15. QED
    BY <1>13, <1>14

(* A leaf that is not final adds no word. *)
LEMMA ExtendKeepsWords ==
  ASSUME NEW nodes \in Seq(Nodes), NEW un, IntoOK(nodes, un), NEW new, NEW p \in 1 .. Len(nodes),
         NEW c, c \notin DOMAIN nodes[p].edges, IsExtended(nodes, new, p, c), NEW w \in Seq(Letters)
  PROVE  Accepts(nodes, 1, w) <=> Accepts(new, 1, w)
  <1> DEFINE L == Len(w)
             N == Len(nodes)
  <1>1. L \in Nat /\ N \in Nat
    BY LenProperties
  <1>2. /\ Len(new) = N + 1
        /\ \A n \in 1 .. N : n # p => new[n] = nodes[n]
        /\ new[p].final = nodes[p].final /\ DOMAIN new[p].edges = {c} \union DOMAIN nodes[p].edges
        /\ new[p].edges[c] = N + 1
        /\ \A x \in DOMAIN nodes[p].edges : new[p].edges[x] = nodes[p].edges[x]
        /\ ~ new[N + 1].final /\ DOMAIN new[N + 1].edges = {}
    BY DEF IsExtended
  <1> HIDE DEF L, N
  <1>3. ASSUME NEW n \in 1 .. N
        PROVE  /\ new[n].final = nodes[n].final
               /\ \A a \in DOMAIN nodes[n].edges : a \in DOMAIN new[n].edges /\ new[n].edges[a] = nodes[n].edges[a]
               /\ \A a \in DOMAIN new[n].edges : new[n].edges[a] # N + 1 => a \in DOMAIN nodes[n].edges
    BY <1>2
  <1>4. ASSUME Accepts(nodes, 1, w) PROVE Accepts(new, 1, w)
    <2>1. PICK r : IsRun(nodes, 1, r, w) /\ nodes[r[L]].final
      BY <1>4 DEF Accepts, L
    <2>2. /\ r \in [0 .. L -> 1 .. N] /\ r[0] = 1
          /\ \A i \in 1 .. L : w[i] \in DOMAIN nodes[r[i - 1]].edges /\ r[i] = nodes[r[i - 1]].edges[w[i]]
      BY <2>1 DEF IsRun, L, N
    <2>3. r \in [0 .. L -> 1 .. N + 1]
      <3>1. \A n \in 1 .. N : n \in 1 .. N + 1
        BY <1>1
      <3>2. QED
        BY <2>2, <3>1
    <2>4. ASSUME NEW i \in 1 .. L
          PROVE  w[i] \in DOMAIN new[r[i - 1]].edges /\ r[i] = new[r[i - 1]].edges[w[i]]
      <3>1. i - 1 \in 0 .. L
        BY <1>1
      <3>2. PICK n \in 1 .. N : n = r[i - 1]
        BY <2>2, <3>1
      <3>3. QED
        BY <1>3, <2>2, <3>2
    <2>5. IsRun(new, 1, r, w)
      BY <1>2, <2>2, <2>3, <2>4 DEF IsRun, L
    <2>6. L \in 0 .. L
      BY <1>1
    <2>7. new[r[L]].final
      BY <1>3, <2>1, <2>2, <2>6
    <2>8. QED
      BY <2>5, <2>7 DEF Accepts, L
  <1>5. ASSUME Accepts(new, 1, w) PROVE Accepts(nodes, 1, w)
    <2>1. PICK r : IsRun(new, 1, r, w) /\ new[r[L]].final
      BY <1>5 DEF Accepts, L
    <2>2. /\ r \in [0 .. L -> 1 .. N + 1] /\ r[0] = 1
          /\ \A i \in 1 .. L : w[i] \in DOMAIN new[r[i - 1]].edges /\ r[i] = new[r[i - 1]].edges[w[i]]
      BY <1>2, <2>1 DEF IsRun, L
    <2>3. ASSUME NEW i \in 0 .. L PROVE r[i] \in 1 .. N
      <3>1. r[i] # N + 1
        <4>1. CASE i = L
          BY <1>2, <2>1, <4>1
        <4>2. CASE i # L
          <5>1. PICK j \in 1 .. L : j = i + 1 /\ j - 1 = i
            BY <1>1, <4>2
          <5>2. w[j] \in DOMAIN new[r[i]].edges
            BY <2>2, <5>1
          <5>3. QED
            BY <1>2, <5>2
        <4>3. QED
          BY <4>1, <4>2
      <3>2. r[i] \in 1 .. N + 1
        BY <2>2
      <3>3. QED
        BY <1>1, <3>1, <3>2
    <2>4. r \in [0 .. L -> 1 .. N]
      BY <2>2, <2>3
    <2>5. ASSUME NEW i \in 1 .. L
          PROVE  w[i] \in DOMAIN nodes[r[i - 1]].edges /\ r[i] = nodes[r[i - 1]].edges[w[i]]
      <3>1. i - 1 \in 0 .. L /\ i \in 0 .. L
        BY <1>1
      <3>2. PICK n \in 1 .. N, t \in 1 .. N : n = r[i - 1] /\ t = r[i]
        BY <2>3, <3>1
      <3>3. w[i] \in DOMAIN new[n].edges /\ t = new[n].edges[w[i]] /\ t # N + 1
        <4>1. t # N + 1
          BY <1>1
        <4>2. w[i] \in DOMAIN new[r[i - 1]].edges /\ r[i] = new[r[i - 1]].edges[w[i]]
          BY <2>2
        <4>3. QED
          BY <3>2, <4>1, <4>2
      <3>4. QED
        BY <1>3, <3>2, <3>3
    <2>6. IsRun(nodes, 1, r, w)
      BY <2>2, <2>4, <2>5 DEF IsRun, L, N
    <2>7. L \in 0 .. L
      BY <1>1
    <2>8. nodes[r[L]].final
      BY <1>3, <2>1, <2>3, <2>7
    <2>9. QED
      BY <2>6, <2>8 DEF Accepts, L
  <1>6. QED
    BY <1>4, <1>5

(* The path with one more node. *)
IsLonger(un, new, e) ==
    /\ new \in Seq(UncheckedNode) /\ Len(new) = Len(un) + 1
    /\ \A d \in 1 .. Len(un) : new[d] = un[d]
    /\ new[Len(un) + 1] = e
    /\ \A d \in 0 .. Len(un) : Path(new, d) = Path(un, d)
    /\ Path(new, Len(un) + 1) = e.child

LEMMA Longer ==
  ASSUME NEW un \in Seq(UncheckedNode), NEW e \in UncheckedNode
  PROVE  IsLonger(un, Append(un, e), e)
  <1>1. PICK new, m : new = Append(un, e) /\ m = Len(un)
    OBVIOUS
  <1>2. m \in Nat
    BY <1>1, LenProperties
  <1>3. new \in Seq(UncheckedNode) /\ Len(new) = m + 1 /\ new[m + 1] = e
        /\ \A d \in 1 .. m : new[d] = un[d]
    BY <1>1, AppendProperties
  <1>4. \A d \in 0 .. m : d = 0 \/ d \in 1 .. m
    BY <1>2
  <1>5. \A d \in 0 .. m : Path(new, d) = Path(un, d)
    BY <1>3, <1>4 DEF Path
  <1>6. Path(new, m + 1) = e.child
    BY <1>2, <1>3 DEF Path
  <1>7. QED
    BY <1>1, <1>3, <1>5, <1>6 DEF IsLonger

LEMMA ExtendKeepsPath ==
  ASSUME NEW nodes \in Seq(Nodes), NEW un \in Seq(UncheckedNode), NEW w \in Seq(Letters), NEW mini,
         PathOK(nodes, un), IntoOK(nodes, un), OffOK(nodes, un, mini), WordOK(nodes, un, w),
         Len(un) < Len(w), NEW c, c = w[Len(un) + 1], c \in Letters,
         NEW p, p = Path(un, Len(un)), c \notin DOMAIN nodes[p].edges,
         NEW new, IsExtended(nodes, new, p, c),
         NEW e, e.parent = p, e.char = c, e.child = Len(nodes) + 1,
         NEW longer, IsLonger(un, longer, e)
  PROVE  PathOK(new, longer) /\ IntoOK(new, longer) /\ OffOK(new, longer, mini) /\ WordOK(new, longer, w)
  <1> DEFINE m == Len(un)
             N == Len(nodes)
  <1>1. m \in Nat /\ N \in Nat /\ Len(w) \in Nat
    BY LenProperties
  <1>2. /\ Len(new) = N + 1 /\ p = Path(un, m) /\ c \notin DOMAIN nodes[p].edges
        /\ \A n \in 1 .. N : n # p => new[n] = nodes[n]
        /\ DOMAIN new[p].edges = {c} \union DOMAIN nodes[p].edges
        /\ new[p].edges[c] = N + 1
        /\ \A x \in DOMAIN nodes[p].edges : new[p].edges[x] = nodes[p].edges[x]
        /\ DOMAIN new[N + 1].edges = {}
    BY DEF IsExtended
  <1>3. /\ Len(longer) = m + 1 /\ longer[m + 1] = e
        /\ \A d \in 1 .. m : longer[d] = un[d]
        /\ \A d \in 0 .. m : Path(longer, d) = Path(un, d)
        /\ Path(longer, m + 1) = N + 1
    BY DEF IsLonger
  <1>4. /\ \A d \in 0 .. m : Path(un, d) \in 1 .. N /\ d < Path(un, d)
        /\ \A d, k \in 0 .. m : d < k => Path(un, d) < Path(un, k)
        /\ \A d \in 1 .. m :
              /\ un[d].parent = Path(un, d - 1)
              /\ un[d].char \in DOMAIN nodes[Path(un, d - 1)].edges
              /\ nodes[Path(un, d - 1)].edges[un[d].char] = Path(un, d)
    BY DEF PathOK
  <1>5. e.parent = p /\ e.char = c /\ c = w[m + 1] /\ m < Len(w)
    OBVIOUS
  <1> HIDE DEF m, N
  <1>6. m \in 0 .. m /\ p \in 1 .. N /\ m < p
    <2>1. m \in 0 .. m
      BY <1>1
    <2>2. QED
      BY <1>2, <1>4, <2>1
  <1>7. ASSUME NEW d \in 0 .. m + 1 PROVE d = m + 1 \/ d \in 0 .. m
    BY <1>1
  <1>8. ASSUME NEW d \in 1 .. m + 1 PROVE d = m + 1 \/ (d \in 1 .. m /\ d \in 0 .. m /\ d - 1 \in 0 .. m)
    BY <1>1
  <1>9. PathOK(new, longer)
    <2>1. ASSUME NEW d \in 0 .. m + 1
          PROVE  Path(longer, d) \in 1 .. N + 1 /\ d < Path(longer, d)
      <3>1. CASE d = m + 1
        BY <1>1, <1>3, <1>6, <3>1
      <3>2. CASE d \in 0 .. m
        <4>1. Path(un, d) \in 1 .. N /\ d < Path(un, d) /\ Path(longer, d) = Path(un, d)
          BY <1>3, <1>4, <3>2
        <4>2. QED
          BY <1>1, <4>1
      <3>3. QED
        BY <1>7, <3>1, <3>2
    <2>2. ASSUME NEW d \in 0 .. m + 1, NEW k \in 0 .. m + 1, d < k
          PROVE  Path(longer, d) < Path(longer, k)
      <3>1. d \in 0 .. m
        BY <1>1, <2>2
      <3>2. Path(longer, d) = Path(un, d) /\ Path(un, d) \in 1 .. N
        BY <1>3, <1>4, <3>1
      <3>3. CASE k = m + 1
        BY <1>1, <1>3, <3>2, <3>3
      <3>4. CASE k \in 0 .. m
        BY <1>3, <1>4, <2>2, <3>1, <3>2, <3>4
      <3>5. QED
        BY <1>7, <3>3, <3>4
    <2>3. ASSUME NEW d \in 1 .. m + 1
          PROVE  /\ longer[d].parent = Path(longer, d - 1)
                 /\ longer[d].char \in DOMAIN new[Path(longer, d - 1)].edges
                 /\ new[Path(longer, d - 1)].edges[longer[d].char] = Path(longer, d)
      <3>1. CASE d = m + 1
        <4>1. d - 1 = m
          BY <1>1, <3>1
        <4>2. longer[d] = e /\ Path(longer, d - 1) = p /\ Path(longer, d) = N + 1
          BY <1>2, <1>3, <1>6, <3>1, <4>1
        <4>3. QED
          BY <1>2, <1>5, <4>2
      <3>2. CASE d \in 1 .. m /\ d \in 0 .. m /\ d - 1 \in 0 .. m
        <4>1. PICK n \in 1 .. N : n = Path(un, d - 1) /\ n = Path(longer, d - 1)
          BY <1>3, <1>4, <3>2
        <4>2. n # p
          <5>1. d - 1 < m
            BY <1>1, <3>2
          <5>2. n < p
            BY <1>2, <1>4, <1>6, <3>2, <4>1, <5>1
          <5>3. QED
            BY <1>6, <5>2
        <4>3. new[n] = nodes[n] /\ longer[d] = un[d] /\ Path(longer, d) = Path(un, d)
          BY <1>2, <1>3, <3>2, <4>2
        <4>4. /\ un[d].parent = n /\ un[d].char \in DOMAIN nodes[n].edges
              /\ nodes[n].edges[un[d].char] = Path(un, d)
          BY <1>4, <3>2, <4>1
        <4>5. QED
          BY <4>1, <4>3, <4>4
      <3>3. QED
        BY <1>8, <3>1, <3>2
    <2>4. QED
      BY <1>2, <1>3, <2>1, <2>2, <2>3 DEF PathOK
  <1>10. IntoOK(new, longer)
    <2> SUFFICES ASSUME NEW n \in 1 .. N + 1, NEW a \in DOMAIN new[n].edges
                 PROVE  /\ new[n].edges[a] \in 2 .. N + 1
                        /\ \A d \in 1 .. m + 1 :
                               new[n].edges[a] = Path(longer, d) =>
                                   n = Path(longer, d - 1) /\ a = longer[d].char
      BY <1>2, <1>3 DEF IntoOK
    <2>1. n \in 1 .. N
      <3>1. n # N + 1
        BY <1>2
      <3>2. QED
        BY <1>1, <3>1
    <2>2. CASE n = p /\ a = c
      <3>1. new[n].edges[a] = N + 1
        BY <1>2, <2>2
      <3>2. N + 1 \in 2 .. N + 1
        BY <1>1, <2>1
      <3>3. ASSUME NEW d \in 1 .. m + 1, N + 1 = Path(longer, d)
            PROVE  n = Path(longer, d - 1) /\ a = longer[d].char
        <4>1. d = m + 1
          <5>1. CASE d \in 0 .. m
            <6>1. Path(longer, d) \in 1 .. N
              BY <1>3, <1>4, <5>1
            <6>2. QED
              BY <1>1, <3>3, <6>1
          <5>2. QED
            BY <1>8, <5>1
        <4>2. d - 1 = m
          BY <1>1, <4>1
        <4>3. QED
          BY <1>2, <1>3, <1>5, <1>6, <2>2, <4>1, <4>2
      <3>4. QED
        BY <3>1, <3>2, <3>3
    <2>3. CASE ~ (n = p /\ a = c)
      <3>1. a \in DOMAIN nodes[n].edges /\ new[n].edges[a] = nodes[n].edges[a]
        BY <1>2, <2>1, <2>3
      <3>2. /\ nodes[n].edges[a] \in 2 .. N
            /\ \A d \in 1 .. m : nodes[n].edges[a] = Path(un, d) => n = Path(un, d - 1) /\ a = un[d].char
        BY <2>1, <3>1 DEF IntoOK, m, N
      <3>3. PICK t \in 2 .. N : t = nodes[n].edges[a]
        BY <3>2
      <3>4. t \in 2 .. N + 1
        BY <1>1
      <3>5. ASSUME NEW d \in 1 .. m + 1, t = Path(longer, d)
            PROVE  n = Path(longer, d - 1) /\ a = longer[d].char
        <4>1. CASE d = m + 1
          BY <1>1, <1>3, <3>5, <4>1
        <4>2. CASE d \in 1 .. m /\ d \in 0 .. m /\ d - 1 \in 0 .. m
          BY <1>3, <3>2, <3>3, <3>5, <4>2
        <4>3. QED
          BY <1>8, <4>1, <4>2
      <3>6. QED
        BY <3>1, <3>3, <3>4, <3>5
    <2>4. QED
      BY <2>2, <2>3
  <1>11. OffOK(new, longer, mini)
    <2> SUFFICES ASSUME NEW k \in DOMAIN mini
                 PROVE  /\ mini[k] \in 2 .. N + 1 /\ NodeKey(new[mini[k]]) = k
                        /\ \A d \in 0 .. m + 1 : mini[k] # Path(longer, d)
      BY <1>2, <1>3 DEF OffOK
    <2>1. /\ mini[k] \in 2 .. N /\ NodeKey(nodes[mini[k]]) = k
          /\ \A d \in 0 .. m : mini[k] # Path(un, d)
      BY DEF OffOK, m, N
    <2>2. mini[k] # p /\ mini[k] \in 1 .. N /\ mini[k] \in 2 .. N + 1 /\ mini[k] # N + 1
      BY <1>1, <1>2, <1>6, <2>1
    <2>3. new[mini[k]] = nodes[mini[k]]
      BY <1>2, <2>2
    <2>4. \A d \in 0 .. m + 1 : mini[k] # Path(longer, d)
      BY <1>3, <1>7, <2>1, <2>2
    <2>5. QED
      BY <2>1, <2>2, <2>3, <2>4
  <1>12. WordOK(new, longer, w)
    <2>1. /\ \A d \in 1 .. m : un[d].char = w[d]
          /\ \A d \in 0 .. m : \A x \in DOMAIN nodes[Path(un, d)].edges :
                d < Len(w) /\ Code(x) <= Code(w[d + 1])
      BY DEF WordOK, m
    <2>2. m + 1 <= Len(w)
      BY <1>1, <1>5
    <2>3. \A d \in 1 .. m + 1 : longer[d].char = w[d]
      BY <1>3, <1>5, <1>8, <2>1
    <2>4. ASSUME NEW d \in 0 .. m + 1, NEW x \in DOMAIN new[Path(longer, d)].edges
          PROVE  d < Len(w) /\ Code(x) <= Code(w[d + 1])
      <3>1. d \in 0 .. m
        <4>1. d # m + 1
          BY <1>2, <1>3
        <4>2. QED
          BY <1>7, <4>1
      <3>2. PICK n \in 1 .. N : n = Path(un, d) /\ n = Path(longer, d)
        BY <1>3, <1>4, <3>1
      <3>3. CASE x \in DOMAIN nodes[n].edges
        BY <2>1, <3>1, <3>2, <3>3
      <3>4. CASE x \notin DOMAIN nodes[n].edges
        <4>1. n = p /\ x = c
          BY <1>2, <3>2, <3>4
        <4>2. d = m
          <5>1. CASE d < m
            <6>1. Path(un, d) < Path(un, m)
              BY <1>4, <1>6, <3>1, <5>1
            <6>2. n < p /\ n \in Nat
              BY <1>1, <1>2, <3>2, <6>1
            <6>3. QED
              BY <4>1, <6>2
          <5>2. QED
            BY <1>1, <3>1, <5>1
        <4>3. Code(x) <= Code(x)
          <5>1. x \in Letters
            BY <4>1
          <5>2. QED
            BY <5>1, CodeIs
        <4>4. QED
          BY <1>5, <4>1, <4>2, <4>3
      <3>5. QED
        BY <3>3, <3>4
    <2>5. QED
      BY <1>3, <2>2, <2>3, <2>4 DEF WordOK
  <1>13. QED
    BY <1>9, <1>10, <1>11, <1>12

LEMMA RanksExtended ==
  ASSUME NEW nodes \in Seq(Nodes), NEW un \in Seq(UncheckedNode), NEW mini,
         PathOK(nodes, un), OffOK(nodes, un, mini), Ranked(nodes, un, mini),
         NEW p, p = Path(un, Len(un)), NEW c, NEW new, IsExtended(nodes, new, p, c),
         NEW e, e.char = c, e.child = Len(nodes) + 1, NEW longer, IsLonger(un, longer, e)
  PROVE  Ranked(new, longer, mini)
  <1>1. PICK m, N : m = Len(un) /\ N = Len(nodes)
    OBVIOUS
  <1>2. m \in Nat /\ N \in Nat
    BY <1>1, LenProperties
  <1>3. /\ Len(new) = N + 1
        /\ \A n \in 1 .. N : n # p => new[n] = nodes[n]
        /\ DOMAIN new[p].edges = {c} \union DOMAIN nodes[p].edges
        /\ \A x \in DOMAIN nodes[p].edges : new[p].edges[x] = nodes[p].edges[x]
        /\ DOMAIN new[N + 1].edges = {}
    BY <1>1 DEF IsExtended
  <1>4. /\ Len(longer) = m + 1 /\ longer[m + 1].char = c /\ Path(longer, m + 1) = N + 1
        /\ \A d \in 1 .. m : longer[d] = un[d]
        /\ \A d \in 0 .. m : Path(longer, d) = Path(un, d)
    BY <1>1 DEF IsLonger
  <1>5. PICK K \in Nat, rank \in [Nat -> Nat] : HasRanks(nodes, un, mini, K, rank)
    BY DEF Ranked
  <1>6. /\ K + m < N
        /\ \A k \in DOMAIN mini : MetBefore(nodes, mini, K, rank, k)
        /\ \A d \in 0 .. m : \A x \in DOMAIN nodes[Path(un, d)].edges :
              PathEdge(un, d, x) \/ LeadsOff(nodes, mini, Path(un, d), x)
    BY <1>1, <1>5 DEF HasRanks
  <1>7. /\ p = Path(un, m) /\ \A d \in 0 .. m : Path(un, d) \in 1 .. N
        /\ \A d, f \in 0 .. m : d < f => Path(un, d) < Path(un, f)
    BY <1>1 DEF PathOK
  <1>8. ASSUME NEW k \in DOMAIN mini PROVE MetBefore(new, mini, K, rank, k)
    <2>1. m \in 0 .. m
      BY <1>2
    <2>2. mini[k] \in 2 .. N /\ mini[k] # p
      BY <1>1, <1>7, <2>1 DEF OffOK
    <2>3. mini[k] \in 1 .. N
      BY <1>2, <2>2
    <2>4. new[mini[k]] = nodes[mini[k]]
      BY <1>3, <2>2, <2>3
    <2>5. QED
      BY <1>6, <2>4, MetStays
  <1>9. ASSUME NEW d \in 0 .. m + 1, NEW x \in DOMAIN new[Path(longer, d)].edges
        PROVE  PathEdge(longer, d, x) \/ LeadsOff(new, mini, Path(longer, d), x)
    <2>1. CASE d = m + 1
      BY <1>3, <1>4, <2>1
    <2>2. CASE d \in 0 .. m
      <3>1. PICK n \in 1 .. N : n = Path(un, d) /\ n = Path(longer, d)
        BY <1>4, <1>7, <2>2
      <3>2. CASE n = p /\ x = c
        <4>1. d = m
          <5>1. m \in 0 .. m /\ (d < m \/ d = m) /\ n \in Nat
            BY <1>2, <2>2
          <5>2. ~ (n < n)
            BY <5>1
          <5>3. QED
            BY <1>7, <2>2, <3>1, <3>2, <5>1, <5>2
        <4>2. d < Len(longer)
          BY <1>2, <1>4, <4>1
        <4>3. QED
          BY <1>4, <3>2, <4>1, <4>2 DEF PathEdge
      <3>3. CASE ~ (n = p /\ x = c)
        <4>1. x \in DOMAIN nodes[n].edges /\ new[n].edges[x] = nodes[n].edges[x]
          BY <1>3, <3>1, <3>3
        <4>2. PathEdge(un, d, x) \/ LeadsOff(nodes, mini, n, x)
          BY <1>6, <2>2, <3>1, <4>1
        <4>3. CASE LeadsOff(nodes, mini, n, x)
          BY <3>1, <4>1, <4>3 DEF LeadsOff
        <4>4. CASE PathEdge(un, d, x)
          <5>1. d < m /\ x = un[d + 1].char
            BY <1>1, <4>4 DEF PathEdge
          <5>2. d + 1 \in 1 .. m /\ d < m + 1
            BY <1>2, <2>2, <5>1
          <5>3. PathEdge(longer, d, x)
            BY <1>4, <5>1, <5>2 DEF PathEdge
          <5>4. QED
            BY <5>3
        <4>5. QED
          BY <4>2, <4>3, <4>4
      <3>4. QED
        BY <3>2, <3>3
    <2>3. QED
      BY <1>2, <2>1, <2>2
  <1>10. K + Len(longer) < Len(new)
    BY <1>2, <1>3, <1>4, <1>6
  <1>11. HasRanks(new, longer, mini, K, rank)
    BY <1>4, <1>8, <1>9, <1>10 DEF HasRanks
  <1>12. QED
    BY <1>11 DEF Ranked

LEMMA LastNodeIs ==
  ASSUME NEW b, b.unchecked \in Seq(UncheckedNode)
  PROVE  LastNode(b) = Path(b.unchecked, Len(b.unchecked))
  <1>1. PICK un : un = b.unchecked
    OBVIOUS
  <1>2. Len(un) \in Nat /\ (un = <<>> <=> Len(un) = 0)
    BY <1>1, LenProperties, EmptySeq
  <1>3. QED
    BY <1>1, <1>2 DEF LastNode, Path, Last

LEMMA ExtendIs ==
  ASSUME NEW b, NEW w, NEW i \in Nat, ReadyFor(b, w, i), i < Len(w)
  PROVE  LET d == Extend(b, w[i + 1]) IN
         /\ ReadyFor(d, w, i + 1) /\ d.previousWord = b.previousWord
         /\ Len(d.nodes) = Len(b.nodes) + 1
         /\ \A v \in Seq(Letters) : Accepts(d.nodes, 1, v) <=> Accepts(b.nodes, 1, v)
  <1>1. PICK nodes, un, mini, c : nodes = b.nodes /\ un = b.unchecked /\ mini = b.minimized /\ c = w[i + 1]
    OBVIOUS
  <1>2. /\ nodes \in Seq(Nodes) /\ un \in Seq(UncheckedNode) /\ w \in Seq(Letters)
        /\ mini \in KeyMaps /\ b.previousWord \in Seq(Letters) /\ b \in Builders
        /\ PathOK(nodes, un) /\ IntoOK(nodes, un) /\ OffOK(nodes, un, mini) /\ WordOK(nodes, un, w)
        /\ Ranked(nodes, un, mini) /\ Len(nodes) >= 1
    BY <1>1, BuilderFields DEF ReadyFor, BuilderOK
  <1>3. PICK p : p = Path(un, i)
    OBVIOUS
  <1>4. /\ Len(un) = i /\ c \notin DOMAIN nodes[p].edges /\ Len(nodes) \in Nat /\ Len(w) \in Nat
        /\ p \in 1 .. Len(nodes) /\ c \in Letters /\ LastNode(b) = p
    <2>1. Len(un) = i /\ c \notin DOMAIN nodes[p].edges
      BY <1>1, <1>3 DEF ReadyFor
    <2>2. Len(nodes) \in Nat /\ Len(w) \in Nat
      BY <1>2, LenProperties
    <2>3. p \in 1 .. Len(nodes)
      BY <1>2, <1>3, <2>1 DEF PathOK
    <2>4. c \in Letters
      <3>1. i + 1 \in 1 .. Len(w)
        BY <2>2
      <3>2. QED
        BY <1>1, <1>2, <3>1, ElementOfSeq
    <2>5. LastNode(b) = p
      BY <1>1, <1>2, <1>3, <2>1, LastNodeIs
    <2>6. QED
      BY <2>1, <2>2, <2>3, <2>4, <2>5
  <1>5. PICK e, new, longer :
            /\ e = [parent |-> p, char |-> c, child |-> Len(nodes) + 1]
            /\ new = Append([nodes EXCEPT ![p].edges = Put(@, c, Len(nodes) + 1)], Node(FALSE))
            /\ longer = Append(un, e)
    OBVIOUS
  <1>6. /\ e \in UncheckedNode /\ e.parent = p /\ e.char = c /\ e.child = Len(nodes) + 1
    BY <1>4, <1>5 DEF UncheckedNode
  <1>7. IsExtended(nodes, new, p, c) /\ IsLonger(un, longer, e)
    BY <1>2, <1>4, <1>5, <1>6, Extended, Longer
  <1>8. PICK d : d = Extend(b, w[i + 1])
    OBVIOUS
  <1>9. d = [b EXCEPT !.nodes = new, !.unchecked = longer]
    BY <1>1, <1>4, <1>5, <1>8 DEF Extend
  <1>10. new \in Seq(Nodes) /\ longer \in Seq(UncheckedNode) /\ Len(new) = Len(nodes) + 1 /\ Len(longer) = i + 1
    BY <1>4, <1>7 DEF IsExtended, IsLonger
  <1>11. /\ d \in Builders /\ d.nodes = new /\ d.unchecked = longer
         /\ d.minimized = mini /\ d.previousWord = b.previousWord
    BY <1>1, <1>2, <1>9, <1>10, NewFields DEF Builders
  <1>12. /\ PathOK(new, longer) /\ IntoOK(new, longer) /\ OffOK(new, longer, mini) /\ WordOK(new, longer, w)
         /\ Ranked(new, longer, mini)
    <2>1. /\ Len(un) < Len(w) /\ c = w[Len(un) + 1] /\ p = Path(un, Len(un))
      BY <1>1, <1>3, <1>4
    <2>2. PathOK(new, longer) /\ IntoOK(new, longer) /\ OffOK(new, longer, mini) /\ WordOK(new, longer, w)
      BY <1>2, <1>4, <1>6, <1>7, <2>1, ExtendKeepsPath
    <2>3. Ranked(new, longer, mini)
      BY <1>2, <1>6, <1>7, <2>1, RanksExtended
    <2>4. QED
      BY <2>2, <2>3
  <1>13. BuilderOK(d, w)
    BY <1>2, <1>4, <1>10, <1>11, <1>12 DEF BuilderOK
  <1>14. DOMAIN d.nodes[Path(d.unchecked, i + 1)].edges = {}
    <2>1. Path(longer, i + 1) = Len(nodes) + 1
      BY <1>4, <1>6, <1>7 DEF IsLonger
    <2>2. DOMAIN new[Len(nodes) + 1].edges = {}
      BY <1>7 DEF IsExtended
    <2>3. QED
      BY <1>11, <2>1, <2>2
  <1>15. ReadyFor(d, w, i + 1)
    <2>1. i + 1 <= Len(w)
      BY <1>4
    <2>2. QED
      BY <1>10, <1>11, <1>13, <1>14, <2>1 DEF ReadyFor
  <1>16. ASSUME NEW v \in Seq(Letters) PROVE Accepts(new, 1, v) <=> Accepts(nodes, 1, v)
    BY <1>2, <1>4, <1>7, ExtendKeepsWords
  <1>17. QED
    BY <1>1, <1>8, <1>10, <1>11, <1>15, <1>16

-----------------------------------------------------------------------------
(* The end of the path becomes final. *)

IsMarked(nodes, new, p) ==
    /\ new \in Seq(Nodes) /\ Len(new) = Len(nodes)
    /\ \A n \in 1 .. Len(nodes) : n # p => new[n] = nodes[n]
    /\ new[p].edges = nodes[p].edges /\ new[p].final

LEMMA Marked ==
  ASSUME NEW nodes \in Seq(Nodes), NEW p \in 1 .. Len(nodes)
  PROVE  IsMarked(nodes, [nodes EXCEPT ![p].final = TRUE], p)
  <1>1. PICK node, new : node = [nodes[p] EXCEPT !.final = TRUE] /\ new = [nodes EXCEPT ![p] = node]
    OBVIOUS
  <1>2. nodes[p] \in Nodes
    BY ElementOfSeq
  <1>3. node \in Nodes /\ node.final = TRUE /\ node.edges = nodes[p].edges
    BY <1>1, <1>2 DEF Nodes
  <1>4. /\ new \in Seq(Nodes) /\ Len(new) = Len(nodes) /\ new[p] = node
        /\ \A n \in 1 .. Len(nodes) : n # p => new[n] = nodes[n]
    <2>1. new = [nodes EXCEPT ![p] = node]
      BY <1>1
    <2>2. node \in Nodes
      BY <1>3
    <2>3. QED
      BY <2>1, <2>2
  <1>5. new = [nodes EXCEPT ![p].final = TRUE]
    BY <1>1
  <1>6. IsMarked(nodes, new, p)
    BY <1>3, <1>4 DEF IsMarked
  <1>7. QED
    BY <1>5, <1>6

LEMMA MarkKeepsPath ==
  ASSUME NEW nodes \in Seq(Nodes), NEW un \in Seq(UncheckedNode), NEW w \in Seq(Letters), NEW mini,
         PathOK(nodes, un), IntoOK(nodes, un), OffOK(nodes, un, mini), WordOK(nodes, un, w),
         NEW new, IsMarked(nodes, new, Path(un, Len(un)))
  PROVE  PathOK(new, un) /\ IntoOK(new, un) /\ OffOK(new, un, mini) /\ WordOK(new, un, w)
  <1> DEFINE m == Len(un)
             N == Len(nodes)
  <1>1. m \in Nat /\ N \in Nat
    BY LenProperties
  <1>2. PICK p : p = Path(un, m)
    OBVIOUS
  <1>3. /\ Len(new) = N /\ new[p].edges = nodes[p].edges
        /\ \A n \in 1 .. N : n # p => new[n] = nodes[n]
    BY <1>2 DEF IsMarked
  <1>4. \A n \in 1 .. N : new[n].edges = nodes[n].edges
    BY <1>3
  <1> HIDE DEF m, N
  <1>5. \A d \in 0 .. m : Path(un, d) \in 1 .. N
    BY DEF PathOK, m, N
  <1>6. \A d \in 1 .. m : d - 1 \in 0 .. m
    BY <1>1
  <1>7. PathOK(new, un)
    <2>1. \A d \in 1 .. m : new[Path(un, d - 1)].edges = nodes[Path(un, d - 1)].edges
      BY <1>4, <1>5, <1>6
    <2>2. QED
      BY <1>3, <2>1 DEF PathOK, m, N
  <1>8. IntoOK(new, un)
    BY <1>3, <1>4 DEF IntoOK, N
  <1>9. OffOK(new, un, mini)
    <2> SUFFICES ASSUME NEW k \in DOMAIN mini
                 PROVE  /\ mini[k] \in 2 .. N /\ NodeKey(new[mini[k]]) = k
                        /\ \A d \in 0 .. m : mini[k] # Path(un, d)
      BY <1>3 DEF OffOK, m
    <2>1. /\ mini[k] \in 2 .. N /\ NodeKey(nodes[mini[k]]) = k
          /\ \A d \in 0 .. m : mini[k] # Path(un, d)
      BY DEF OffOK, m, N
    <2>2. mini[k] \in 1 .. N /\ mini[k] # p
      <3>1. m \in 0 .. m
        BY <1>1
      <3>2. QED
        BY <1>1, <1>2, <2>1, <3>1
    <2>3. QED
      BY <1>3, <2>1, <2>2
  <1>10. WordOK(new, un, w)
    <2>1. \A d \in 0 .. m : new[Path(un, d)].edges = nodes[Path(un, d)].edges
      BY <1>4, <1>5
    <2>2. QED
      BY <2>1 DEF WordOK, m
  <1>11. QED
    BY <1>7, <1>8, <1>9, <1>10

LEMMA RanksMarked ==
  ASSUME NEW nodes \in Seq(Nodes), NEW un \in Seq(UncheckedNode), NEW mini,
         PathOK(nodes, un), OffOK(nodes, un, mini), Ranked(nodes, un, mini),
         NEW new, IsMarked(nodes, new, Path(un, Len(un)))
  PROVE  Ranked(new, un, mini) /\ EndsLive(new, un)
  <1>1. PICK m, N, p : m = Len(un) /\ N = Len(nodes) /\ p = Path(un, m)
    OBVIOUS
  <1>2. m \in Nat /\ N \in Nat
    BY <1>1, LenProperties
  <1>3. /\ Len(new) = N /\ new[p].edges = nodes[p].edges /\ new[p].final
        /\ \A n \in 1 .. N : n # p => new[n] = nodes[n]
    BY <1>1 DEF IsMarked
  <1>4. \A n \in 1 .. N : new[n].edges = nodes[n].edges
    BY <1>3
  <1>5. \A d \in 0 .. m : Path(un, d) \in 1 .. N
    BY <1>1 DEF PathOK
  <1>6. PICK K \in Nat, rank \in [Nat -> Nat] : HasRanks(nodes, un, mini, K, rank)
    BY DEF Ranked
  <1>7. /\ K + m < N
        /\ \A k \in DOMAIN mini : MetBefore(nodes, mini, K, rank, k)
        /\ \A d \in 0 .. m : \A x \in DOMAIN nodes[Path(un, d)].edges :
              PathEdge(un, d, x) \/ LeadsOff(nodes, mini, Path(un, d), x)
    BY <1>1, <1>6 DEF HasRanks
  <1>8. ASSUME NEW k \in DOMAIN mini PROVE MetBefore(new, mini, K, rank, k)
    <2>1. m \in 0 .. m
      BY <1>2
    <2>2. mini[k] \in 2 .. N /\ mini[k] # p
      BY <1>1, <2>1 DEF OffOK
    <2>3. mini[k] \in 1 .. N
      BY <1>2, <2>2
    <2>4. new[mini[k]] = nodes[mini[k]]
      BY <1>3, <2>2, <2>3
    <2>5. QED
      BY <1>7, <2>4, MetStays
  <1>9. ASSUME NEW d \in 0 .. m, NEW x \in DOMAIN new[Path(un, d)].edges
        PROVE  PathEdge(un, d, x) \/ LeadsOff(new, mini, Path(un, d), x)
    <2>1. PICK n \in 1 .. N : n = Path(un, d)
      BY <1>5
    <2>2. new[n].edges = nodes[n].edges
      BY <1>4
    <2>3. PathEdge(un, d, x) \/ LeadsOff(nodes, mini, n, x)
      BY <1>7, <2>1, <2>2
    <2>4. QED
      BY <2>1, <2>2, <2>3 DEF LeadsOff
  <1>10. HasRanks(new, un, mini, K, rank)
    BY <1>1, <1>3, <1>7, <1>8, <1>9 DEF HasRanks
  <1>11. Ranked(new, un, mini)
    BY <1>10 DEF Ranked
  <1>12. EndsLive(new, un)
    BY <1>1, <1>3 DEF EndsLive, Live
  <1>13. QED
    BY <1>11, <1>12

(* Only the word of the path leads to its end. *)
LEMMA OnlyWord ==
  ASSUME NEW nodes \in Seq(Nodes), NEW un \in Seq(UncheckedNode), PathOK(nodes, un), IntoOK(nodes, un),
         NEW w \in Seq(Letters), Len(w) = Len(un), \A d \in 1 .. Len(un) : un[d].char = w[d],
         NEW v \in Seq(Letters), NEW r, IsRun(nodes, 1, r, v), r[Len(v)] = Path(un, Len(un))
  PROVE  v = w
  <1> DEFINE m == Len(un)
             L == Len(v)
             N == Len(nodes)
             T == {k \in Nat : /\ k <= L /\ r[L - k] = Path(un, m - k)
                               /\ \A j \in 0 .. k - 1 : v[L - j] = w[m - j]}
  <1>1. m \in Nat /\ L \in Nat /\ N \in Nat
    BY LenProperties
  <1>2. /\ r \in [0 .. L -> 1 .. N] /\ r[0] = 1
        /\ \A i \in 1 .. L : v[i] \in DOMAIN nodes[r[i - 1]].edges /\ r[i] = nodes[r[i - 1]].edges[v[i]]
    BY DEF IsRun
  <1>3. ASSUME NEW n \in 1 .. N, NEW c \in DOMAIN nodes[n].edges
        PROVE  /\ nodes[n].edges[c] \in 2 .. N
               /\ \A d \in 1 .. m : nodes[n].edges[c] = Path(un, d) => n = Path(un, d - 1) /\ c = un[d].char
    BY DEF IntoOK
  <1>4. (\A d \in 1 .. m : un[d].char = w[d]) /\ Len(w) = m /\ r[L] = Path(un, m)
    OBVIOUS
  <1>5. \A d \in 0 .. m : Path(un, d) \in 1 .. N /\ d < Path(un, d)
    BY DEF PathOK
  <1> HIDE DEF m, L, N
  <1>6. 0 \in T
    <2>1. L - 0 = L /\ m - 0 = m
      BY <1>1
    <2>2. QED
      BY <1>1, <1>4, <2>1
  <1>7. ASSUME NEW k \in 1 .. m, k - 1 \in T PROVE k \in T
    <2>1. PICK d \in 1 .. m, i \in Int : d = m - (k - 1) /\ d - 1 = m - k /\ i = L - (k - 1) /\ i - 1 = L - k
      BY <1>1
    <2>2. k - 1 <= L /\ r[i] = Path(un, d) /\ \A j \in 0 .. k - 2 : v[L - j] = w[m - j]
      BY <1>1, <1>7, <2>1
    <2>3. Path(un, d) \in 1 .. N /\ d < Path(un, d)
      <3>1. d \in 0 .. m
        BY <1>1
      <3>2. QED
        BY <1>5, <3>1
    <2>4. i # 0
      <3>1. r[i] # 1
        BY <1>1, <2>2, <2>3
      <3>2. QED
        BY <1>2, <3>1
    <2>5. i \in 1 .. L /\ i - 1 \in 0 .. L /\ k <= L
      BY <1>1, <2>1, <2>2, <2>4
    <2>6. PICK n \in 1 .. N : n = r[i - 1]
      BY <1>2, <2>5
    <2>7. v[i] \in DOMAIN nodes[n].edges /\ nodes[n].edges[v[i]] = Path(un, d)
      <3>1. v[i] \in DOMAIN nodes[r[i - 1]].edges /\ r[i] = nodes[r[i - 1]].edges[v[i]]
        BY <1>2, <2>5
      <3>2. QED
        BY <2>2, <2>6, <3>1
    <2>8. n = Path(un, d - 1) /\ v[i] = w[d]
      BY <1>3, <1>4, <2>7
    <2>9. r[L - k] = Path(un, m - k)
      BY <2>1, <2>6, <2>8
    <2>10. ASSUME NEW j \in 0 .. k - 1 PROVE v[L - j] = w[m - j]
      <3>1. j \in 0 .. k - 2 \/ j = k - 1
        BY <1>1
      <3>2. QED
        BY <2>1, <2>2, <2>8, <3>1
    <2>11. k \in Nat
      BY <1>1
    <2>12. QED
      BY <2>5, <2>9, <2>10, <2>11
  <1>8. m \in T
    <2> HIDE DEF T
    <2>1. \A k \in 0 .. m : k \in T
      BY <1>1, <1>6, <1>7, Upwards
    <2>2. QED
      BY <1>1, <2>1
  <1>9. m <= L /\ r[L - m] = Path(un, 0) /\ \A j \in 0 .. m - 1 : v[L - j] = w[m - j]
    <2>1. m - m = 0
      BY <1>1
    <2>2. QED
      BY <1>8, <2>1
  <1>10. L = m
    <2>1. SUFFICES ASSUME L # m PROVE FALSE
      OBVIOUS
    <2>2. PICK i \in 1 .. L : i = L - m /\ i - 1 \in 0 .. L
      BY <1>1, <1>9, <2>1
    <2>3. r[i] = 1
      BY <1>9, <2>2 DEF Path
    <2>4. PICK n \in 1 .. N : n = r[i - 1]
      BY <1>2, <2>2
    <2>5. v[i] \in DOMAIN nodes[n].edges /\ r[i] = nodes[n].edges[v[i]]
      <3>1. v[i] \in DOMAIN nodes[r[i - 1]].edges /\ r[i] = nodes[r[i - 1]].edges[v[i]]
        BY <1>2
      <3>2. QED
        BY <2>4, <3>1
    <2>6. nodes[n].edges[v[i]] \in 2 .. N
      BY <1>3, <2>5
    <2>7. QED
      BY <1>1, <2>3, <2>5, <2>6
  <1>11. ASSUME NEW i \in 1 .. L PROVE v[i] = w[i]
    <2>1. PICK j \in 0 .. m - 1 : j = m - i
      BY <1>1, <1>10
    <2>2. L - j = i /\ m - j = i
      BY <1>1, <1>10, <2>1
    <2>3. QED
      BY <1>9, <2>2
  <1>12. QED
    BY <1>4, <1>10, <1>11, SeqEqual DEF L

LEMMA MarkAddsWord ==
  ASSUME NEW nodes \in Seq(Nodes), NEW un \in Seq(UncheckedNode), PathOK(nodes, un), IntoOK(nodes, un),
         NEW w \in Seq(Letters), Len(w) = Len(un), \A d \in 1 .. Len(un) : un[d].char = w[d],
         NEW new, IsMarked(nodes, new, Path(un, Len(un))), NEW v \in Seq(Letters)
  PROVE  Accepts(new, 1, v) <=> Accepts(nodes, 1, v) \/ v = w
  <1> DEFINE m == Len(un)
             L == Len(v)
             N == Len(nodes)
  <1>1. m \in Nat /\ L \in Nat /\ N \in Nat
    BY LenProperties
  <1>2. PICK p : p = Path(un, m)
    OBVIOUS
  <1>3. /\ Len(new) = N /\ new[p].edges = nodes[p].edges /\ new[p].final
        /\ \A n \in 1 .. N : n # p => new[n] = nodes[n]
    BY <1>2 DEF IsMarked
  <1>4. \A n \in 1 .. N : new[n].edges = nodes[n].edges
    BY <1>3
  <1>5. ASSUME NEW r PROVE IsRun(new, 1, r, v) <=> IsRun(nodes, 1, r, v)
    <2>1. ASSUME r \in [0 .. L -> 1 .. N], NEW i \in 1 .. L
          PROVE  new[r[i - 1]].edges = nodes[r[i - 1]].edges
      <3>1. i - 1 \in 0 .. L
        BY <1>1
      <3>2. r[i - 1] \in 1 .. N
        BY <2>1, <3>1
      <3>3. QED
        BY <1>4, <3>2
    <2>2. QED
      BY <1>3, <2>1 DEF IsRun
  <1> HIDE DEF m, L, N
  <1>6. L \in 0 .. L
    BY <1>1
  <1>7. ASSUME Accepts(new, 1, v), v # w PROVE Accepts(nodes, 1, v)
    <2>1. PICK r : IsRun(new, 1, r, v) /\ new[r[L]].final
      BY <1>7 DEF Accepts, L
    <2>2. IsRun(nodes, 1, r, v)
      BY <1>5, <2>1
    <2>3. r[L] # Path(un, m)
      BY <1>7, <2>2, OnlyWord DEF L, m
    <2>4. r[L] \in 1 .. N
      BY <1>6, <2>2 DEF IsRun, L, N
    <2>5. nodes[r[L]].final
      BY <1>2, <1>3, <2>1, <2>3, <2>4
    <2>6. QED
      BY <2>2, <2>5 DEF Accepts, L
  <1>8. ASSUME Accepts(nodes, 1, v) PROVE Accepts(new, 1, v)
    <2>1. PICK r : IsRun(nodes, 1, r, v) /\ nodes[r[L]].final
      BY <1>8 DEF Accepts, L
    <2>2. IsRun(new, 1, r, v)
      BY <1>5, <2>1
    <2>3. r[L] \in 1 .. N
      BY <1>6, <2>1 DEF IsRun, L, N
    <2>4. new[r[L]].final
      BY <1>3, <2>1, <2>3
    <2>5. QED
      BY <2>2, <2>4 DEF Accepts, L
  <1>9. ASSUME v = w PROVE Accepts(new, 1, v)
    <2> DEFINE r == [i \in 0 .. L |-> Path(un, i)]
    <2>1. L = m
      BY <1>9 DEF L, m
    <2>2. /\ \A d \in 0 .. m : Path(un, d) \in 1 .. N
          /\ \A d \in 1 .. m :
                /\ un[d].char \in DOMAIN nodes[Path(un, d - 1)].edges
                /\ nodes[Path(un, d - 1)].edges[un[d].char] = Path(un, d)
      BY DEF PathOK, m, N
    <2>3. r \in [0 .. L -> 1 .. N] /\ \A i \in 0 .. L : r[i] = Path(un, i)
      BY <2>1, <2>2
    <2>4. 0 \in 0 .. L /\ \A i \in 1 .. L : i - 1 \in 0 .. L /\ i \in 0 .. L
      BY <1>1
    <2> HIDE DEF r
    <2>5. r[0] = 1
      BY <2>3, <2>4 DEF Path
    <2>6. ASSUME NEW i \in 1 .. L
          PROVE  v[i] \in DOMAIN nodes[r[i - 1]].edges /\ r[i] = nodes[r[i - 1]].edges[v[i]]
      <3>1. un[i].char = v[i]
        BY <1>9, <2>1 DEF m
      <3>2. r[i] = Path(un, i) /\ r[i - 1] = Path(un, i - 1)
        BY <2>3, <2>4
      <3>3. QED
        BY <2>1, <2>2, <3>1, <3>2
    <2>7. IsRun(nodes, 1, r, v)
      BY <2>3, <2>5, <2>6 DEF IsRun, L, N
    <2>8. IsRun(new, 1, r, v)
      BY <1>5, <2>7
    <2>9. r[L] = p
      BY <1>2, <1>6, <2>1, <2>3
    <2>10. QED
      BY <1>3, <2>8, <2>9 DEF Accepts, L
  <1>10. QED
    BY <1>7, <1>8, <1>9

-----------------------------------------------------------------------------
(* The actions of the builder. *)

HasExtension(n, L, base, w) ==
    \E f : f = [i \in n .. L |-> IF i = n THEN base ELSE Extend(f[i - 1], w[i])]

LEMMA SomeExtension ==
  ASSUME NEW n \in Nat, NEW L \in Nat, n <= L, NEW base, NEW w
  PROVE  HasExtension(n, L, base, w)
  <1> DEFINE Fits(f, m) == f[n] = base /\ \A i \in n + 1 .. n + m : f[i] = Extend(f[i - 1], w[i])
             T == {m \in Nat : \E f : Fits(f, m)}
             K == L - n
  <1>1. K \in Nat /\ n + K = L
    OBVIOUS
  <1>2. 0 \in T
    <2>1. n + 1 .. n + 0 = {}
      OBVIOUS
    <2>2. Fits([i \in {n} |-> base], 0)
      BY <2>1
    <2>3. QED
      BY <2>2
  <1>3. ASSUME NEW m \in 1 .. K, m - 1 \in T PROVE m \in T
    <2>1. PICK f : Fits(f, m - 1)
      BY <1>3
    <2>2. PICK k \in Nat : k = n + m /\ k - 1 = n + (m - 1) /\ n < k
      OBVIOUS
    <2>3. f[n] = base /\ \A i \in n + 1 .. k - 1 : f[i] = Extend(f[i - 1], w[i])
      BY <2>1, <2>2
    <2> DEFINE h == [i \in n .. k |-> IF i = k THEN Extend(f[k - 1], w[k]) ELSE f[i]]
    <2>4. h[k] = Extend(f[k - 1], w[k]) /\ \A i \in n .. k - 1 : h[i] = f[i]
      BY <2>2
    <2> HIDE DEF h
    <2>5. h[n] = base
      BY <2>2, <2>3, <2>4
    <2>6. ASSUME NEW i \in n + 1 .. k PROVE h[i] = Extend(h[i - 1], w[i])
      <3>1. i - 1 \in n .. k - 1 /\ (i = k \/ (i \in n + 1 .. k - 1 /\ i \in n .. k - 1))
        BY <2>2
      <3>2. h[i - 1] = f[i - 1]
        BY <2>4, <3>1
      <3>3. CASE i = k
        BY <2>4, <3>2, <3>3
      <3>4. CASE i \in n + 1 .. k - 1 /\ i \in n .. k - 1
        BY <2>3, <2>4, <3>2, <3>4
      <3>5. QED
        BY <3>1, <3>3, <3>4
    <2>7. Fits(h, m)
      BY <2>2, <2>5, <2>6
    <2>8. m \in Nat
      OBVIOUS
    <2>9. QED
      BY <2>7, <2>8
  <1>4. K \in T
    <2> HIDE DEF T, K
    <2>1. \A m \in 0 .. K : m \in T
      BY <1>1, <1>2, <1>3, Upwards
    <2>2. K \in 0 .. K
      BY <1>1
    <2>3. QED
      BY <2>1, <2>2
  <1>5. PICK f : Fits(f, K)
    BY <1>4
  <1>6. f[n] = base /\ \A i \in n + 1 .. L : f[i] = Extend(f[i - 1], w[i])
    BY <1>1, <1>5
  <1> DEFINE h == [i \in n .. L |-> f[i]]
  <1>7. (\A i \in n .. L : h[i] = f[i]) /\ h = [i \in n .. L |-> h[i]]
    OBVIOUS
  <1> HIDE DEF h
  <1>8. ASSUME NEW i \in n .. L PROVE h[i] = IF i = n THEN base ELSE Extend(h[i - 1], w[i])
    <2>1. CASE i = n
      BY <1>6, <1>7, <2>1
    <2>2. CASE i # n
      <3>1. i \in n + 1 .. L /\ i - 1 \in n .. L
        BY <2>2
      <3>2. QED
        BY <1>6, <1>7, <2>2, <3>1
    <2>3. QED
      BY <2>1, <2>2
  <1>9. h = [i \in n .. L |-> IF i = n THEN base ELSE Extend(h[i - 1], w[i])]
    BY <1>7, <1>8
  <1>10. QED
    BY <1>9 DEF HasExtension

(* A builder that b becomes on the way to the word w. *)
Grown(b, w, d, i) ==
    /\ ReadyFor(d, w, i) /\ Len(d.nodes) >= Len(b.nodes)
    /\ NoDigits => \A v \in Seq(Letters) : Accepts(d.nodes, 1, v) <=> Accepts(b.nodes, 1, v)

LEMMA GrowOne ==
  ASSUME NEW b, b.nodes \in Seq(Nodes), NEW w, NEW d, NEW i \in Nat, Grown(b, w, d, i), i < Len(w)
  PROVE  Grown(b, w, Extend(d, w[i + 1]), i + 1)
  <1>1. PICK e : e = Extend(d, w[i + 1])
    OBVIOUS
  <1>2. ReadyFor(d, w, i)
    BY DEF Grown
  <1>3. /\ ReadyFor(e, w, i + 1) /\ Len(e.nodes) = Len(d.nodes) + 1
        /\ \A v \in Seq(Letters) : Accepts(e.nodes, 1, v) <=> Accepts(d.nodes, 1, v)
    BY <1>1, <1>2, ExtendIs
  <1>4. d.nodes \in Seq(Nodes)
    BY <1>2, BuilderFields DEF ReadyFor, BuilderOK
  <1>5. Len(e.nodes) >= Len(b.nodes)
    <2>1. Len(d.nodes) \in Nat /\ Len(b.nodes) \in Nat /\ Len(d.nodes) >= Len(b.nodes)
      BY <1>4, LenProperties DEF Grown
    <2>2. QED
      BY <1>3, <2>1
  <1>6. QED
    BY <1>1, <1>3, <1>5 DEF Grown

LEMMA InsertIs ==
  ASSUME NEW b, NEW w \in Seq(Letters), BuilderOK(b, b.previousWord), EndsLive(b.nodes, b.unchecked),
         Len(b.unchecked) = Len(b.previousWord), InOrder(b, w)
  PROVE  LET d == InsertWord(b, w) IN
         /\ BuilderOK(d, w) /\ EndsLive(d.nodes, d.unchecked)
         /\ d.previousWord = w /\ Len(d.unchecked) = Len(w)
         /\ Len(d.nodes) >= Len(b.nodes) /\ Len(w) <= Len(d.nodes)
         /\ NoDigits => \A v \in Seq(Letters) : Accepts(d.nodes, 1, v) <=> Accepts(b.nodes, 1, v) \/ v = w
  <1>1. PICK prev, n, L : prev = b.previousWord /\ n = CommonPrefix(w, prev) /\ L = Len(w)
    OBVIOUS
  <1>2. prev \in Seq(Letters) /\ L \in Nat /\ Len(prev) \in Nat /\ b.nodes \in Seq(Nodes)
        /\ Len(b.nodes) \in Nat
    <2>1. prev \in Seq(Letters) /\ b.nodes \in Seq(Nodes)
      BY <1>1, BuilderFields DEF BuilderOK
    <2>2. QED
      BY <1>1, <2>1, LenProperties
  <1>3. n \in Nat /\ n <= L /\ n <= Len(prev)
    <2>1. IsCommon(n, w, prev)
      BY <1>1, <1>2, CommonPrefixIs
    <2>2. QED
      BY <1>1, <1>2, <2>1 DEF IsCommon
  <1>4. PICK m : m = Minimize(b, n)
    OBVIOUS
  <1>5. BuilderOK(m, prev) /\ SameWords(b, m) /\ Len(m.unchecked) = n
    <2>1. /\ BuilderOK(m, prev) /\ SameWords(b, m)
          /\ Len(m.unchecked) = IF Len(b.unchecked) <= n THEN Len(b.unchecked) ELSE n
      BY <1>1, <1>3, <1>4, MinimizeIs
    <2>2. Len(b.unchecked) = Len(prev)
      BY <1>1
    <2>3. QED
      BY <1>2, <1>3, <2>1, <2>2
  <1>6. Grown(b, w, m, n)
    <2>1. ~ Before(w, prev)
      BY <1>1 DEF InOrder
    <2>2. ReadyFor(m, w, n)
      BY <1>1, <1>5, <2>1, NextWord
    <2>3. QED
      BY <1>2, <1>5, <2>2 DEF Grown, SameWords
  <1> DEFINE Step(f) == [i \in n .. L |-> IF i = n THEN m ELSE Extend(f[i - 1], w[i])]
             extended == CHOOSE f : f = Step(f)
  <1>7. InsertWord(b, w) =
            [extended[L] EXCEPT !.nodes[LastNode(extended[L])].final = TRUE, !.previousWord = w]
    BY <1>1, <1>4 DEF InsertWord
  <1>8. extended = Step(extended)
    <2>1. \E f : f = Step(f)
      <3>1. HasExtension(n, L, m, w)
        BY <1>2, <1>3, SomeExtension
      <3>2. QED
        BY <3>1 DEF HasExtension
    <2>2. QED
      BY <2>1
  <1> HIDE DEF extended
  <1>9. \A i \in n .. L : extended[i] = IF i = n THEN m ELSE Extend(extended[i - 1], w[i])
    BY <1>8, Zenon
  <1>10. Grown(b, w, extended[L], L)
    <2> DEFINE T == {k \in Nat : Grown(b, w, extended[n + k], n + k)}
    <2>1. 0 \in T
      <3>1. n + 0 = n /\ n \in n .. L
        BY <1>2, <1>3
      <3>2. QED
        BY <1>6, <1>9, <3>1
    <2>2. ASSUME NEW k \in 1 .. L - n, k - 1 \in T PROVE k \in T
      <3>1. PICK i \in Nat : i = n + (k - 1) /\ i + 1 = n + k /\ i < L /\ i + 1 \in n .. L /\ i + 1 # n
                             /\ (i + 1) - 1 = i /\ k \in Nat
        BY <1>2, <1>3
      <3>2. Grown(b, w, extended[i], i)
        BY <2>2, <3>1
      <3>3. extended[i + 1] = Extend(extended[i], w[i + 1])
        BY <1>9, <3>1
      <3>4. Grown(b, w, extended[i + 1], i + 1)
        BY <1>1, <1>2, <3>1, <3>2, <3>3, GrowOne
      <3>5. QED
        BY <3>1, <3>4
    <2>3. L - n \in Nat /\ L - n \in 0 .. L - n /\ n + (L - n) = L
      BY <1>2, <1>3
    <2>4. L - n \in T
      <3> HIDE DEF T
      <3>1. \A k \in 0 .. L - n : k \in T
        BY <2>1, <2>2, <2>3, Upwards
      <3>2. QED
        BY <2>3, <3>1
    <2>5. QED
      BY <2>3, <2>4
  <1>11. PICK e : e = extended[L]
    OBVIOUS
  <1>12. PICK nodes, un, mini : nodes = e.nodes /\ un = e.unchecked /\ mini = e.minimized
    OBVIOUS
  <1>13. /\ BuilderOK(e, w) /\ Len(un) = L /\ Len(nodes) >= Len(b.nodes)
         /\ NoDigits => \A v \in Seq(Letters) : Accepts(nodes, 1, v) <=> Accepts(b.nodes, 1, v)
    BY <1>10, <1>11, <1>12 DEF Grown, ReadyFor
  <1>14. /\ nodes \in Seq(Nodes) /\ un \in Seq(UncheckedNode) /\ mini \in KeyMaps /\ e \in Builders
         /\ PathOK(nodes, un) /\ IntoOK(nodes, un) /\ OffOK(nodes, un, mini) /\ WordOK(nodes, un, w)
         /\ Ranked(nodes, un, mini) /\ Len(nodes) >= 1 /\ Len(nodes) \in Nat
    <2>1. nodes \in Seq(Nodes) /\ un \in Seq(UncheckedNode) /\ mini \in KeyMaps /\ e \in Builders
      BY <1>12, <1>13, BuilderFields DEF BuilderOK
    <2>2. QED
      BY <1>12, <1>13, <2>1, LenProperties DEF BuilderOK
  <1>15. PICK p : p = Path(un, Len(un)) /\ p = LastNode(e)
    BY <1>12, <1>14, LastNodeIs
  <1>16. p \in 1 .. Len(nodes) /\ L < p
    <2>1. L \in 0 .. L
      BY <1>2
    <2>2. QED
      BY <1>13, <1>14, <1>15, <2>1 DEF PathOK
  <1>17. PICK new : new = [nodes EXCEPT ![p].final = TRUE]
    OBVIOUS
  <1>18. IsMarked(nodes, new, p)
    BY <1>14, <1>16, <1>17, Marked
  <1>19. new \in Seq(Nodes) /\ Len(new) = Len(nodes)
    BY <1>18 DEF IsMarked
  <1>20. PICK d : d = InsertWord(b, w)
    OBVIOUS
  <1>21. d = [e EXCEPT !.nodes = new, !.previousWord = w]
    <2>1. d = [e EXCEPT !.nodes[p].final = TRUE, !.previousWord = w]
      BY <1>7, <1>11, <1>15, <1>20
    <2>2. QED
      BY <1>12, <1>17, <2>1
  <1>22. /\ d \in Builders /\ d.nodes = new /\ d.unchecked = un
         /\ d.minimized = mini /\ d.previousWord = w
    BY <1>12, <1>14, <1>19, <1>21, NewFields DEF Builders
  <1>23. /\ PathOK(new, un) /\ IntoOK(new, un) /\ OffOK(new, un, mini) /\ WordOK(new, un, w)
         /\ Ranked(new, un, mini) /\ EndsLive(new, un)
    <2>1. IsMarked(nodes, new, Path(un, Len(un)))
      BY <1>15, <1>18
    <2>2. PathOK(new, un) /\ IntoOK(new, un) /\ OffOK(new, un, mini) /\ WordOK(new, un, w)
      BY <1>14, <2>1, MarkKeepsPath
    <2>3. Ranked(new, un, mini) /\ EndsLive(new, un)
      BY <1>14, <2>1, RanksMarked
    <2>4. QED
      BY <2>2, <2>3
  <1>24. BuilderOK(d, w) /\ EndsLive(d.nodes, d.unchecked)
    BY <1>14, <1>19, <1>22, <1>23 DEF BuilderOK
  <1>25. ASSUME NEW v \in Seq(Letters) PROVE Accepts(new, 1, v) <=> Accepts(nodes, 1, v) \/ v = w
    <2>1. Len(w) = Len(un) /\ \A i \in 1 .. Len(un) : un[i].char = w[i]
      BY <1>1, <1>13, <1>14 DEF WordOK
    <2>2. IsMarked(nodes, new, Path(un, Len(un)))
      BY <1>15, <1>18
    <2>3. PathOK(nodes, un) /\ IntoOK(nodes, un) /\ nodes \in Seq(Nodes) /\ un \in Seq(UncheckedNode)
      BY <1>14
    <2>4. QED
      BY <2>1, <2>2, <2>3, MarkAddsWord
  <1>26. L <= Len(new)
    BY <1>2, <1>14, <1>16, <1>19
  <1>27. QED
    BY <1>1, <1>13, <1>19, <1>20, <1>22, <1>24, <1>25, <1>26

-----------------------------------------------------------------------------
(* The words read off the automaton. *)

Leads(nodes, from, w, n) == \E r : IsRun(nodes, from, r, w) /\ r[Len(w)] = n

(* The edges lead to nodes. *)
Closed(nodes) ==
    nodes \in Seq(Nodes) /\ \A n \in 1 .. Len(nodes) : \A c \in DOMAIN nodes[n].edges :
                                c \in Letters /\ nodes[n].edges[c] \in 1 .. Len(nodes)

LEMMA LeadsNowhere ==
  ASSUME NEW nodes, Closed(nodes), NEW from \in 1 .. Len(nodes), NEW n
  PROVE  Leads(nodes, from, <<>>, n) <=> n = from
  <1>1. PICK w : w = <<>> /\ Len(w) = 0
    OBVIOUS
  <1>2. ASSUME Leads(nodes, from, w, n) PROVE n = from
    <2>1. PICK r : IsRun(nodes, from, r, w) /\ r[Len(w)] = n
      BY <1>2 DEF Leads
    <2>2. QED
      BY <1>1, <2>1 DEF IsRun
  <1>3. ASSUME n = from PROVE Leads(nodes, from, w, n)
    <2>1. PICK r : r = [i \in 0 .. 0 |-> from]
      OBVIOUS
    <2>2. r \in [0 .. 0 -> 1 .. Len(nodes)] /\ r[0] = from /\ 1 .. 0 = {}
      BY <2>1
    <2>3. IsRun(nodes, from, r, w)
      BY <1>1, <2>2 DEF IsRun
    <2>4. QED
      BY <1>1, <1>3, <2>2, <2>3 DEF Leads
  <1>4. QED
    BY <1>1, <1>2, <1>3

LEMMA LeadsOn ==
  ASSUME NEW nodes, Closed(nodes), NEW from \in 1 .. Len(nodes), NEW w \in Seq(Letters),
         NEW n, Leads(nodes, from, w, n), NEW c \in DOMAIN nodes[n].edges
  PROVE  /\ n \in 1 .. Len(nodes) /\ c \in Letters /\ nodes[n].edges[c] \in 1 .. Len(nodes)
         /\ Append(w, c) \in Seq(Letters) /\ Len(Append(w, c)) = Len(w) + 1
         /\ Leads(nodes, from, Append(w, c), nodes[n].edges[c])
  <1> DEFINE L == Len(w)
             N == Len(nodes)
  <1>1. L \in Nat /\ N \in Nat
    BY LenProperties DEF Closed
  <1>2. PICK r : IsRun(nodes, from, r, w) /\ r[L] = n
    BY DEF Leads
  <1>3. /\ r \in [0 .. L -> 1 .. N] /\ r[0] = from
        /\ \A i \in 1 .. L : w[i] \in DOMAIN nodes[r[i - 1]].edges /\ r[i] = nodes[r[i - 1]].edges[w[i]]
    BY <1>2 DEF IsRun
  <1>4. L \in 0 .. L /\ n \in 1 .. N
    BY <1>1, <1>2, <1>3
  <1>5. PICK t \in 1 .. N : t = nodes[n].edges[c] /\ c \in Letters
    BY <1>4 DEF Closed
  <1>6. PICK v : v = Append(w, c)
    OBVIOUS
  <1>7. v \in Seq(Letters) /\ Len(v) = L + 1 /\ v[L + 1] = c /\ \A i \in 1 .. L : v[i] = w[i]
    BY <1>5, <1>6, AppendProperties
  <1> HIDE DEF L, N
  <1> DEFINE s == [i \in 0 .. L + 1 |-> IF i = L + 1 THEN t ELSE r[i]]
  <1>8. s \in [0 .. L + 1 -> 1 .. N]
    <2>1. \A i \in 0 .. L + 1 : i = L + 1 \/ i \in 0 .. L
      BY <1>1
    <2>2. QED
      BY <1>3, <2>1
  <1>9. s[L + 1] = t /\ \A i \in 0 .. L : s[i] = r[i]
    BY <1>1
  <1> HIDE DEF s
  <1>10. s[0] = from
    <2>1. 0 \in 0 .. L
      BY <1>1
    <2>2. QED
      BY <1>3, <1>9, <2>1
  <1>11. ASSUME NEW i \in 1 .. L + 1
         PROVE  v[i] \in DOMAIN nodes[s[i - 1]].edges /\ s[i] = nodes[s[i - 1]].edges[v[i]]
    <2>1. CASE i = L + 1
      <3>1. i - 1 = L /\ s[L] = n
        BY <1>1, <1>2, <1>4, <1>9, <2>1
      <3>2. QED
        BY <1>5, <1>7, <1>9, <2>1, <3>1
    <2>2. CASE i # L + 1
      <3>1. i \in 1 .. L /\ i \in 0 .. L /\ i - 1 \in 0 .. L
        BY <1>1, <2>2
      <3>2. QED
        BY <1>3, <1>7, <1>9, <3>1
    <2>3. QED
      BY <2>1, <2>2
  <1>12. IsRun(nodes, from, s, v)
    BY <1>7, <1>8, <1>10, <1>11 DEF IsRun, N
  <1>13. Leads(nodes, from, v, t)
    BY <1>7, <1>9, <1>12 DEF Leads
  <1>14. QED
    BY <1>4, <1>5, <1>6, <1>7, <1>13 DEF L, N

IsStep(nodes, from, w, n, u, m, c) ==
    /\ u \in Seq(Letters) /\ m \in 1 .. Len(nodes) /\ Leads(nodes, from, u, m) /\ Len(w) = Len(u) + 1
    /\ c \in DOMAIN nodes[m].edges /\ w = Append(u, c) /\ n = nodes[m].edges[c]

LEMMA LeadsBack ==
  ASSUME NEW nodes, Closed(nodes), NEW from \in 1 .. Len(nodes), NEW w \in Seq(Letters), Len(w) # 0,
         NEW n, Leads(nodes, from, w, n)
  PROVE  \E u, m, c : IsStep(nodes, from, w, n, u, m, c)
  <1> DEFINE N == Len(nodes)
  <1>1. Len(w) \in Nat /\ N \in Nat
    BY LenProperties DEF Closed
  <1>2. PICK L \in Nat : L + 1 = Len(w) /\ (L + 1) - 1 = L
    <2>1. Len(w) - 1 \in Nat /\ (Len(w) - 1) + 1 = Len(w)
      BY <1>1
    <2>2. QED
      BY <2>1
  <1>3. PICK r : IsRun(nodes, from, r, w) /\ r[L + 1] = n
    BY <1>2 DEF Leads
  <1>4. /\ r \in [0 .. L + 1 -> 1 .. N] /\ r[0] = from
        /\ \A i \in 1 .. L + 1 : w[i] \in DOMAIN nodes[r[i - 1]].edges /\ r[i] = nodes[r[i - 1]].edges[w[i]]
    BY <1>2, <1>3 DEF IsRun
  <1> DEFINE u == [i \in 1 .. L |-> w[i]]
             s == [i \in 0 .. L |-> r[i]]
  <1>5. u \in Seq(Letters) /\ Len(u) = L /\ \A i \in 1 .. L : u[i] = w[i]
    <2>1. \A i \in 1 .. L : i \in 1 .. Len(w)
      BY <1>2
    <2>2. \A i \in 1 .. L : w[i] \in Letters
      BY <2>1, ElementOfSeq
    <2>3. u \in Seq(Letters)
      BY <1>2, <2>2, IsASeq
    <2>4. QED
      BY <1>2, <2>3
  <1>6. s \in [0 .. L -> 1 .. N] /\ \A i \in 0 .. L : s[i] = r[i]
    <2>1. \A i \in 0 .. L : i \in 0 .. L + 1
      BY <1>2
    <2>2. QED
      BY <1>4, <2>1
  <1> HIDE DEF u, s, N
  <1>7. PICK m \in 1 .. N, c \in Letters : m = r[L] /\ m = s[L] /\ c = w[L + 1]
    <2>1. L \in 0 .. L /\ L + 1 \in 1 .. Len(w)
      BY <1>2
    <2>2. w[L + 1] \in Letters
      BY <2>1, ElementOfSeq
    <2>3. QED
      BY <1>6, <2>1, <2>2
  <1>8. Leads(nodes, from, u, m)
    <2>1. s[0] = from
      <3>1. 0 \in 0 .. L
        BY <1>2
      <3>2. QED
        BY <1>4, <1>6, <3>1
    <2>2. ASSUME NEW i \in 1 .. L
          PROVE  u[i] \in DOMAIN nodes[s[i - 1]].edges /\ s[i] = nodes[s[i - 1]].edges[u[i]]
      <3>1. i \in 1 .. L + 1 /\ i \in 0 .. L /\ i - 1 \in 0 .. L
        BY <1>2
      <3>2. QED
        BY <1>4, <1>5, <1>6, <3>1
    <2>3. IsRun(nodes, from, s, u)
      BY <1>5, <1>6, <2>1, <2>2 DEF IsRun, N
    <2>4. QED
      BY <1>5, <1>7, <2>3 DEF Leads
  <1>9. c \in DOMAIN nodes[m].edges /\ n = nodes[m].edges[c]
    <2>1. L + 1 \in 1 .. L + 1
      BY <1>2
    <2>2. w[L + 1] \in DOMAIN nodes[r[(L + 1) - 1]].edges /\ r[L + 1] = nodes[r[(L + 1) - 1]].edges[w[L + 1]]
      BY <1>4, <2>1
    <2>3. QED
      BY <1>2, <1>3, <1>7, <2>2
  <1>10. w = Append(u, c)
    <2>1. PICK v : v = Append(u, c)
      OBVIOUS
    <2>2. v \in Seq(Letters) /\ Len(v) = L + 1 /\ v[L + 1] = c /\ \A i \in 1 .. L : v[i] = u[i]
      BY <1>5, <1>7, <2>1, AppendProperties
    <2>3. ASSUME NEW i \in 1 .. L + 1 PROVE v[i] = w[i]
      <3>1. i = L + 1 \/ i \in 1 .. L
        BY <1>2
      <3>2. QED
        BY <1>5, <1>7, <2>2, <3>1
    <2>4. v = w
      BY <1>2, <2>2, <2>3, SeqEqual
    <2>5. QED
      BY <2>1, <2>4
  <1>11. IsStep(nodes, from, w, n, u, m, c)
    BY <1>2, <1>5, <1>7, <1>8, <1>9, <1>10 DEF IsStep, N
  <1>12. QED
    BY <1>11

(* The frames that toArray pushes for prefixes of at most k characters. *)
FramesOK(nodes, from, F, k) ==
    /\ \A f \in F : /\ f.prefix \in Seq(Letters) /\ Len(f.prefix) <= k /\ f.node \in 1 .. Len(nodes)
                    /\ Leads(nodes, from, f.prefix, f.node)
    /\ \A v \in Seq(Letters), n \in 1 .. Len(nodes) :
           Len(v) <= k /\ Leads(nodes, from, v, n) => [prefix |-> v, node |-> n] \in F

Pushed(nodes, f) ==
    {[prefix |-> Append(f.prefix, c), node |-> nodes[f.node].edges[c]] : c \in DOMAIN nodes[f.node].edges}

PushedAll(nodes, F, k) == F \union UNION {Pushed(nodes, f) : f \in {g \in F : Len(g.prefix) = k}}

LEMMA PushOne ==
  ASSUME NEW nodes, Closed(nodes), NEW from \in 1 .. Len(nodes), NEW F, NEW k \in Nat,
         FramesOK(nodes, from, F, k)
  PROVE  FramesOK(nodes, from, PushedAll(nodes, F, k), k + 1)
  <1> DEFINE N == Len(nodes)
             G == PushedAll(nodes, F, k)
  <1>1. ASSUME NEW f \in F
        PROVE  /\ f.prefix \in Seq(Letters) /\ Len(f.prefix) <= k /\ f.node \in 1 .. N
               /\ Leads(nodes, from, f.prefix, f.node) /\ Len(f.prefix) \in Nat
    BY LenProperties DEF FramesOK
  <1>2. ASSUME NEW g \in G
        PROVE  /\ g.prefix \in Seq(Letters) /\ Len(g.prefix) <= k + 1 /\ g.node \in 1 .. N
               /\ Leads(nodes, from, g.prefix, g.node)
    <2>1. CASE g \in F
      BY <1>1, <2>1
    <2>2. CASE g \notin F
      <3>1. PICK f \in F : Len(f.prefix) = k /\ g \in Pushed(nodes, f)
        BY <2>2 DEF PushedAll
      <3>2. PICK c \in DOMAIN nodes[f.node].edges :
                g = [prefix |-> Append(f.prefix, c), node |-> nodes[f.node].edges[c]]
        BY <3>1 DEF Pushed
      <3>3. PICK w, n : w \in Seq(Letters) /\ w = f.prefix /\ n = f.node /\ Leads(nodes, from, w, n)
        BY <1>1
      <3>4. /\ nodes[n].edges[c] \in 1 .. N
            /\ Append(w, c) \in Seq(Letters) /\ Len(Append(w, c)) = Len(w) + 1
            /\ Leads(nodes, from, Append(w, c), nodes[n].edges[c])
        BY <3>2, <3>3, LeadsOn
      <3>5. g.prefix = Append(w, c) /\ g.node = nodes[n].edges[c]
        BY <3>2, <3>3
      <3>6. Len(Append(w, c)) <= k + 1
        BY <3>1, <3>3, <3>4
      <3>7. QED
        BY <3>4, <3>5, <3>6
    <2>3. QED
      BY <2>1, <2>2
  <1>3. ASSUME NEW v \in Seq(Letters), NEW n \in 1 .. N, Len(v) <= k + 1, Leads(nodes, from, v, n)
        PROVE  [prefix |-> v, node |-> n] \in G
    <2>1. Len(v) \in Nat
      BY LenProperties
    <2>2. CASE Len(v) <= k
      BY <1>3, <2>2 DEF FramesOK, PushedAll
    <2>3. CASE Len(v) = k + 1
      <3>1. PICK u, m, c : IsStep(nodes, from, v, n, u, m, c)
        <4>1. Len(v) # 0
          BY <2>3
        <4>2. QED
          BY <1>3, <4>1, LeadsBack
      <3>2. /\ u \in Seq(Letters) /\ m \in 1 .. N /\ Leads(nodes, from, u, m) /\ Len(v) = Len(u) + 1
            /\ c \in DOMAIN nodes[m].edges /\ v = Append(u, c) /\ n = nodes[m].edges[c]
        BY <3>1 DEF IsStep
      <3>3. Len(u) = k
        <4>1. Len(u) \in Nat
          BY <3>2, LenProperties
        <4>2. QED
          BY <2>3, <3>2, <4>1
      <3>4. PICK f : f = [prefix |-> u, node |-> m]
        OBVIOUS
      <3>5. f \in F /\ f.prefix = u /\ f.node = m
        BY <3>2, <3>3, <3>4 DEF FramesOK
      <3>6. [prefix |-> v, node |-> n] \in Pushed(nodes, f)
        BY <3>2, <3>5 DEF Pushed
      <3>7. QED
        BY <3>3, <3>5, <3>6 DEF PushedAll
    <2>4. QED
      BY <1>3, <2>1, <2>2, <2>3
  <1>4. QED
    BY <1>2, <1>3 DEF FramesOK

HasFrames(nodes, N, first) ==
    \E F : F = [k \in 0 .. N |-> IF k = 0 THEN first ELSE PushedAll(nodes, F[k - 1], k - 1)]

LEMMA SomeFrames ==
  ASSUME NEW nodes, NEW N \in Nat, NEW first
  PROVE  HasFrames(nodes, N, first)
  <1> DEFINE Fits(F, m) == F[0] = first /\ \A k \in 1 .. m : F[k] = PushedAll(nodes, F[k - 1], k - 1)
             T == {m \in Nat : \E F : Fits(F, m)}
  <1>1. 0 \in T
    <2>1. Fits([k \in {0} |-> first], 0)
      OBVIOUS
    <2>2. QED
      BY <2>1
  <1>2. ASSUME NEW m \in 1 .. N, m - 1 \in T PROVE m \in T
    <2>1. PICK F : Fits(F, m - 1)
      BY <1>2
    <2> DEFINE h == [k \in 0 .. m |-> IF k = m THEN PushedAll(nodes, F[m - 1], m - 1) ELSE F[k]]
    <2>2. h[m] = PushedAll(nodes, F[m - 1], m - 1) /\ \A k \in 0 .. m - 1 : h[k] = F[k]
      OBVIOUS
    <2>3. m \in Nat /\ 0 \in 0 .. m - 1 /\ m - 1 \in 0 .. m - 1
      OBVIOUS
    <2> HIDE DEF h
    <2>4. ASSUME NEW k \in 1 .. m PROVE h[k] = PushedAll(nodes, h[k - 1], k - 1)
      <3>1. k - 1 \in 0 .. m - 1 /\ (k = m \/ (k \in 1 .. m - 1 /\ k \in 0 .. m - 1))
        OBVIOUS
      <3>2. h[k - 1] = F[k - 1]
        BY <2>2, <3>1
      <3>3. CASE k = m
        BY <2>2, <3>2, <3>3
      <3>4. CASE k \in 1 .. m - 1 /\ k \in 0 .. m - 1
        BY <2>1, <2>2, <3>2, <3>4
      <3>5. QED
        BY <3>1, <3>3, <3>4
    <2>5. Fits(h, m)
      BY <2>1, <2>2, <2>3, <2>4
    <2>6. QED
      BY <2>3, <2>5
  <1>3. N \in T
    <2> HIDE DEF T
    <2>1. \A k \in 0 .. N : k \in T
      BY <1>1, <1>2, Upwards
    <2>2. QED
      BY <2>1
  <1>4. PICK F : Fits(F, N)
    BY <1>3
  <1> DEFINE h == [k \in 0 .. N |-> F[k]]
  <1>5. (\A k \in 0 .. N : h[k] = F[k]) /\ h = [k \in 0 .. N |-> h[k]]
    OBVIOUS
  <1> HIDE DEF h
  <1>6. ASSUME NEW k \in 0 .. N
        PROVE  h[k] = IF k = 0 THEN first ELSE PushedAll(nodes, h[k - 1], k - 1)
    <2>1. k = 0 \/ (k \in 1 .. N /\ k - 1 \in 0 .. N)
      OBVIOUS
    <2>2. QED
      BY <1>4, <1>5, <2>1
  <1>7. h = [k \in 0 .. N |-> IF k = 0 THEN first ELSE PushedAll(nodes, h[k - 1], k - 1)]
    BY <1>5, <1>6
  <1>8. QED
    BY <1>7 DEF HasFrames

LEMMA FirstFrame ==
  ASSUME NEW nodes, Closed(nodes), NEW from \in 1 .. Len(nodes)
  PROVE  FramesOK(nodes, from, {[prefix |-> <<>>, node |-> from]}, 0)
  <1>1. PICK e, f : e = <<>> /\ f = [prefix |-> e, node |-> from]
    OBVIOUS
  <1>2. e \in Seq(Letters) /\ Len(e) = 0 /\ f.prefix = e /\ f.node = from
    BY <1>1
  <1>3. Leads(nodes, from, e, from)
    BY <1>1, LeadsNowhere
  <1>4. ASSUME NEW v \in Seq(Letters), NEW n \in 1 .. Len(nodes), Len(v) <= 0, Leads(nodes, from, v, n)
        PROVE  [prefix |-> v, node |-> n] = f
    <2>1. Len(v) \in Nat
      BY LenProperties
    <2>2. v = e
      BY <1>1, <1>4, <2>1, EmptySeq
    <2>3. n = from
      BY <1>1, <1>4, <2>2, LeadsNowhere
    <2>4. QED
      BY <1>1, <2>2, <2>3
  <1>5. FramesOK(nodes, from, {f}, 0)
    <2>1. f.prefix \in Seq(Letters) /\ Len(f.prefix) <= 0 /\ f.node \in 1 .. Len(nodes)
      BY <1>2
    <2>2. Leads(nodes, from, f.prefix, f.node)
      BY <1>2, <1>3
    <2>3. QED
      BY <1>4, <2>1, <2>2 DEF FramesOK
  <1>6. QED
    BY <1>1, <1>5

(* What is read off a node: the words of at most as many characters as     *)
(* there are nodes that lead from it to a final node.                      *)
LEMMA WordsFromIs ==
  ASSUME NEW nodes, Closed(nodes), NEW from \in 1 .. Len(nodes), NEW t, t.nodes = nodes, NEW v
  PROVE  v \in WordsFrom(t, from) <=>
             v \in Seq(Letters) /\ Len(v) <= Len(nodes) /\ Accepts(nodes, from, v)
  <1> DEFINE first == {[prefix |-> <<>>, node |-> from]}
             C == Cardinality(DOMAIN t.nodes)
             Step(F) == [k \in 0 .. C |-> IF k = 0 THEN first ELSE PushedAll(t.nodes, F[k - 1], k - 1)]
             frames == CHOOSE F : F = Step(F)
  <1>1. WordsFrom(t, from) = {f.prefix : f \in {g \in frames[C] : t.nodes[g.node].final}}
    BY DEF WordsFrom, PushedAll, Pushed
  <1>2. C = Len(nodes) /\ Len(nodes) \in Nat
    <2>1. Len(nodes) \in Nat /\ DOMAIN nodes = 1 .. Len(nodes)
      BY LenProperties DEF Closed
    <2>2. PICK N \in Nat : N = Len(nodes)
      BY <2>1
    <2>3. Cardinality(1 .. N) = N
      <3>1. Cardinality(1 .. N) = IF 1 > N THEN 0 ELSE N - 1 + 1
        BY FS_Interval
      <3>2. QED
        BY <3>1
    <2>4. QED
      BY <2>1, <2>2, <2>3
  <1> HIDE DEF first, C
  <1>3. frames = Step(frames)
    <2>1. HasFrames(t.nodes, C, first)
      BY <1>2, SomeFrames
    <2>2. \E F : F = Step(F)
      BY <2>1 DEF HasFrames
    <2>3. QED
      BY <2>2
  <1> HIDE DEF frames
  <1>4. \A k \in 0 .. C : frames[k] = IF k = 0 THEN first ELSE PushedAll(nodes, frames[k - 1], k - 1)
    BY <1>3, Zenon
  <1> DEFINE T == {k \in Nat : FramesOK(nodes, from, frames[k], k)}
  <1>5. 0 \in T
    <2>1. frames[0] = first
      BY <1>2, <1>4
    <2>2. FramesOK(nodes, from, first, 0)
      BY FirstFrame DEF first
    <2>3. QED
      BY <2>1, <2>2
  <1>6. ASSUME NEW k \in 1 .. C, k - 1 \in T PROVE k \in T
    <2>1. PICK j \in Nat : j = k - 1 /\ k = j + 1 /\ k \in 0 .. C /\ k # 0 /\ k \in Nat
      BY <1>2
    <2>2. FramesOK(nodes, from, frames[j], j) /\ frames[k] = PushedAll(nodes, frames[j], j)
      BY <1>4, <1>6, <2>1
    <2>3. FramesOK(nodes, from, PushedAll(nodes, frames[j], j), j + 1)
      BY <2>2, PushOne
    <2>4. QED
      BY <2>1, <2>2, <2>3
  <1>7. PICK F : F = frames[C] /\ FramesOK(nodes, from, F, C)
    <2> HIDE DEF T
    <2>1. \A k \in 0 .. C : k \in T
      BY <1>2, <1>5, <1>6, Upwards
    <2>2. C \in 0 .. C
      BY <1>2
    <2>3. FramesOK(nodes, from, frames[C], C)
      BY <2>1, <2>2 DEF T
    <2>4. QED
      BY <2>3
  <1>8. v \in WordsFrom(t, from) <=> \E f \in F : f.prefix = v /\ nodes[f.node].final
    BY <1>1, <1>7
  <1>9. ASSUME NEW f \in F, f.prefix = v, nodes[f.node].final
        PROVE  v \in Seq(Letters) /\ Len(v) <= Len(nodes) /\ Accepts(nodes, from, v)
    <2>1. v \in Seq(Letters) /\ Len(v) <= Len(nodes) /\ Leads(nodes, from, v, f.node)
      BY <1>2, <1>7, <1>9 DEF FramesOK
    <2>2. QED
      BY <1>9, <2>1 DEF Leads, Accepts
  <1>10. ASSUME v \in Seq(Letters), Len(v) <= Len(nodes), Accepts(nodes, from, v)
         PROVE  \E f \in F : f.prefix = v /\ nodes[f.node].final
    <2>1. PICK r : IsRun(nodes, from, r, v) /\ nodes[r[Len(v)]].final
      BY <1>10 DEF Accepts
    <2>2. Len(v) \in 0 .. Len(v)
      BY <1>10, LenProperties
    <2>3. PICK n \in 1 .. Len(nodes) : n = r[Len(v)]
      BY <2>1, <2>2 DEF IsRun
    <2>4. Leads(nodes, from, v, n)
      BY <2>1, <2>3 DEF Leads
    <2>5. PICK f : f = [prefix |-> v, node |-> n]
      OBVIOUS
    <2>6. f \in F
      BY <1>2, <1>7, <1>10, <2>4, <2>5 DEF FramesOK
    <2>7. f.prefix = v /\ f.node = n
      BY <2>5
    <2>8. QED
      BY <2>1, <2>3, <2>6, <2>7
  <1>11. QED
    BY <1>8, <1>9, <1>10

-----------------------------------------------------------------------------
(* The specification. *)

Inv ==
    /\ BuilderOK(builder, builder.previousWord) /\ EndsLive(builder.nodes, builder.unchecked)
    /\ Len(builder.unchecked) = IF finished THEN 0 ELSE Len(builder.previousWord)
    /\ inserted \subseteq Seq(Letters)
    /\ \A v \in inserted : Len(v) <= Len(builder.nodes)
    /\ NoDigits => \A v \in Seq(Letters) : Accepts(builder.nodes, 1, v) <=> v \in inserted

LEMMA InvInit == Init => Inv
  <1> SUFFICES ASSUME Init PROVE Inv
    OBVIOUS
  <1>1. PICK leaf, none, mini : leaf = Node(FALSE) /\ none = <<>> /\ mini = [k \in {} |-> 0]
    OBVIOUS
  <1>2. builder = [nodes |-> <<leaf>>, unchecked |-> none, minimized |-> mini, previousWord |-> none]
    BY <1>1 DEF Init, NewBuilder
  <1>3. leaf \in Nodes /\ ~ leaf.final /\ DOMAIN leaf.edges = {}
    BY <1>1, EmptyNode
  <1>4. PICK nodes : nodes = <<leaf>> /\ nodes \in Seq(Nodes) /\ Len(nodes) = 1 /\ nodes[1] = leaf
    BY <1>3, OneCharacter
  <1>5. /\ builder.nodes = nodes /\ builder.unchecked = none /\ builder.minimized = mini
        /\ builder.previousWord = none
    BY <1>2, <1>4
  <1>6. none \in Seq(UncheckedNode) /\ none \in Seq(Letters) /\ Len(none) = 0 /\ 1 .. 0 = {} /\ DOMAIN mini = {}
    BY <1>1
  <1>7. mini \in KeyMaps
    <2>1. mini \in [{} -> Nat] /\ {} \in SUBSET Seq(Characters)
      BY <1>1
    <2>2. QED
      BY <2>1 DEF KeyMaps
  <1>8. builder \in Builders
    <2>1. builder = [nodes |-> nodes, unchecked |-> none, minimized |-> mini, previousWord |-> none]
      BY <1>2, <1>4
    <2>2. QED
      BY <1>4, <1>6, <1>7, <2>1 DEF Builders
  <1>9. PathOK(nodes, none)
    <2>1. \A d \in 0 .. 0 : d = 0 /\ Path(none, d) = 1
      BY DEF Path
    <2>2. QED
      BY <1>4, <1>6, <2>1 DEF PathOK
  <1>10. \A n \in 1 .. Len(nodes) : nodes[n] = leaf
    BY <1>4
  <1>11. IntoOK(nodes, none) /\ OffOK(nodes, none, mini)
    BY <1>3, <1>6, <1>10 DEF IntoOK, OffOK
  <1>12. WordOK(nodes, none, none)
    <2>1. \A d \in 0 .. 0 : Path(none, d) = 1
      BY DEF Path
    <2>2. QED
      BY <1>3, <1>4, <1>6, <2>1 DEF WordOK
  <1>13. BuilderOK(builder, builder.previousWord) /\ EndsLive(nodes, none)
    <2>1. Ranked(nodes, none, mini)
      <3>1. [n \in Nat |-> 0] \in [Nat -> Nat]
        OBVIOUS
      <3>2. PICK rank : rank \in [Nat -> Nat]
        BY <3>1
      <3>3. \A d \in 0 .. 0 : DOMAIN nodes[Path(none, d)].edges = {}
        BY <1>3, <1>4 DEF Path
      <3>4. HasRanks(nodes, none, mini, 0, rank)
        BY <1>4, <1>6, <3>3 DEF HasRanks
      <3>5. QED
        BY <3>2, <3>4 DEF Ranked
    <2>2. QED
      BY <1>1, <1>4, <1>5, <1>6, <1>8, <1>9, <1>11, <1>12, <2>1 DEF BuilderOK, EndsLive
  <1>14. ASSUME NEW v \in Seq(Letters) PROVE ~ Accepts(nodes, 1, v)
    <2>1. SUFFICES ASSUME NEW r, IsRun(nodes, 1, r, v), nodes[r[Len(v)]].final PROVE FALSE
      BY DEF Accepts
    <2>2. Len(v) \in 0 .. Len(v)
      BY LenProperties
    <2>3. r[Len(v)] \in 1 .. Len(nodes)
      BY <2>1, <2>2 DEF IsRun
    <2>4. QED
      BY <1>3, <1>10, <2>1, <2>3
  <1>15. inserted = {} /\ finished = FALSE
    BY DEF Init
  <1>16. QED
    BY <1>5, <1>6, <1>13, <1>14, <1>15 DEF Inv

LEMMA InvNext == Inv /\ [Next]_vars => Inv'
  <1> SUFFICES ASSUME Inv, [Next]_vars PROVE Inv'
    OBVIOUS
  <1>1. ASSUME NEW word \in Words, Insert(word) PROVE Inv'
    <2>1. word \in Seq(Letters)
      BY WordsAssumption
    <2>2. ~ finished /\ InOrder(builder, word) /\ builder' = InsertWord(builder, word)
          /\ inserted' = inserted \union {word} /\ finished' = finished
      BY <1>1 DEF Insert
    <2>3. /\ BuilderOK(builder, builder.previousWord) /\ EndsLive(builder.nodes, builder.unchecked)
          /\ Len(builder.unchecked) = Len(builder.previousWord)
      BY <2>2 DEF Inv
    <2>4. /\ BuilderOK(builder', word) /\ EndsLive(builder'.nodes, builder'.unchecked)
          /\ builder'.previousWord = word
          /\ Len(builder'.unchecked) = Len(word)
          /\ Len(builder'.nodes) >= Len(builder.nodes) /\ Len(word) <= Len(builder'.nodes)
          /\ NoDigits => \A v \in Seq(Letters) :
                 Accepts(builder'.nodes, 1, v) <=> Accepts(builder.nodes, 1, v) \/ v = word
      BY <2>1, <2>2, <2>3, InsertIs
    <2>5. inserted' \subseteq Seq(Letters)
      BY <2>1, <2>2 DEF Inv
    <2>6. ASSUME NEW v \in inserted' PROVE Len(v) <= Len(builder'.nodes)
      <3>1. builder.nodes \in Seq(Nodes) /\ builder'.nodes \in Seq(Nodes)
        BY <2>3, <2>4, BuilderFields DEF BuilderOK
      <3>2. Len(v) \in Nat /\ Len(builder.nodes) \in Nat /\ Len(builder'.nodes) \in Nat
        BY <2>5, <3>1, LenProperties
      <3>3. CASE v = word
        BY <2>4, <3>3
      <3>4. CASE v \in inserted
        <4>1. Len(v) <= Len(builder.nodes)
          BY <3>4 DEF Inv
        <4>2. QED
          BY <2>4, <3>2, <4>1
      <3>5. QED
        BY <2>2, <3>3, <3>4
    <2>7. ASSUME NoDigits PROVE \A v \in Seq(Letters) : Accepts(builder'.nodes, 1, v) <=> v \in inserted'
      BY <2>2, <2>4, <2>7 DEF Inv
    <2>8. ~ finished'
      BY <2>2
    <2>9. QED
      BY <2>4, <2>5, <2>6, <2>7, <2>8 DEF Inv
  <1>2. ASSUME Finish PROVE Inv'
    <2>1. builder' = Minimize(builder, 0) /\ finished' /\ inserted' = inserted
      BY <1>2 DEF Finish, FinishWords
    <2>2. /\ BuilderOK(builder, builder.previousWord) /\ EndsLive(builder.nodes, builder.unchecked)
          /\ Len(builder.unchecked) \in Nat
      <3>1. BuilderOK(builder, builder.previousWord)
        BY DEF Inv
      <3>2. builder.unchecked \in Seq(UncheckedNode)
        BY <3>1, BuilderFields DEF BuilderOK
      <3>3. QED
        BY <3>1, <3>2, LenProperties DEF Inv
    <2>3. /\ BuilderOK(builder', builder.previousWord) /\ SameWords(builder, builder')
          /\ EndsLive(builder'.nodes, builder'.unchecked)
          /\ Len(builder'.unchecked) = IF Len(builder.unchecked) <= 0 THEN Len(builder.unchecked) ELSE 0
      BY <2>1, <2>2, MinimizeIs
    <2>4. Len(builder'.unchecked) = 0
      BY <2>2, <2>3
    <2>5. BuilderOK(builder', builder'.previousWord)
      BY <2>3 DEF SameWords
    <2>6. inserted' \subseteq Seq(Letters) /\ \A v \in inserted' : Len(v) <= Len(builder'.nodes)
      BY <2>1, <2>3 DEF Inv, SameWords
    <2>7. NoDigits => \A v \in Seq(Letters) : Accepts(builder'.nodes, 1, v) <=> v \in inserted'
      BY <2>1, <2>3 DEF Inv, SameWords
    <2>8. QED
      BY <2>1, <2>3, <2>4, <2>5, <2>6, <2>7 DEF Inv
  <1>3. ASSUME NEW c \in Clauses, Lookup(c) PROVE Inv'
    BY <1>3 DEF Lookup, Inv
  <1>4. ASSUME UNCHANGED vars PROVE Inv'
    BY <1>4 DEF vars, Inv
  <1>5. QED
    BY <1>1, <1>2, <1>3, <1>4 DEF Next

LEMMA RootIs ==
  ASSUME NEW b
  PROVE  Root(b).nodes = b.nodes /\ Root(b).root = 1
  <1>1. PICK t, nodes : nodes = b.nodes /\ t = [root |-> 1, nodes |-> nodes]
    OBVIOUS
  <1>2. t.nodes = nodes /\ t.root = 1
    BY <1>1
  <1>3. Root(b) = t
    BY <1>1 DEF Root
  <1>4. QED
    BY <1>1, <1>2, <1>3

LEMMA InvIsClosed ==
  ASSUME Inv
  PROVE  Closed(builder.nodes) /\ Len(builder.nodes) >= 1 /\ Len(builder.nodes) \in Nat
  <1>1. PICK nodes, un : nodes = builder.nodes /\ un = builder.unchecked
    OBVIOUS
  <1>2. nodes \in Seq(Nodes) /\ IntoOK(nodes, un) /\ Len(nodes) >= 1 /\ Len(nodes) \in Nat
    <2>1. nodes \in Seq(Nodes)
      BY <1>1, BuilderFields DEF Inv, BuilderOK
    <2>2. QED
      BY <1>1, <2>1, LenProperties DEF Inv, BuilderOK
  <1>3. Closed(nodes)
    <2>1. ASSUME NEW n \in 1 .. Len(nodes), NEW c \in DOMAIN nodes[n].edges
          PROVE  c \in Letters /\ nodes[n].edges[c] \in 1 .. Len(nodes)
      <3>1. nodes[n] \in Nodes
        BY <1>2, ElementOfSeq
      <3>2. nodes[n].edges[c] \in 2 .. Len(nodes)
        BY <1>2 DEF IntoOK
      <3>3. nodes[n].edges[c] \in 1 .. Len(nodes)
        BY <1>2, <3>2
      <3>4. c \in Letters
        BY <3>1, NodeFields
      <3>5. QED
        BY <3>3, <3>4
    <2>2. QED
      BY <1>2, <2>1 DEF Closed
  <1>4. QED
    BY <1>1, <1>2, <1>3

LEMMA InvIsLanguage == NoDigits /\ Inv => LanguageKept
  <1> SUFFICES ASSUME NoDigits, Inv PROVE LanguageKept
    OBVIOUS
  <1>1. PICK nodes : nodes = builder.nodes
    OBVIOUS
  <1>2. Closed(nodes) /\ Len(nodes) >= 1 /\ Len(nodes) \in Nat
    BY <1>1, InvIsClosed
  <1>3. PICK t : t = Root(builder) /\ t.nodes = nodes /\ t.root = 1
    BY <1>1, RootIs
  <1>4. ASSUME NEW v PROVE v \in WordsFrom(t, 1) <=> v \in inserted
    <2>1. 1 \in 1 .. Len(nodes)
      BY <1>2
    <2>2. v \in WordsFrom(t, 1) <=>
              v \in Seq(Letters) /\ Len(v) <= Len(nodes) /\ Accepts(nodes, 1, v)
      BY <1>2, <1>3, <2>1, WordsFromIs
    <2>3. QED
      BY <1>1, <2>2 DEF Inv
  <1>5. QED
    BY <1>3, <1>4 DEF LanguageKept, ToArray

(* The words read off the automaton are the words inserted, at every       *)
(* moment, for every alphabet without digits.                              *)
THEOREM WordsKept ==
  ASSUME NoDigits
  PROVE  Spec => []LanguageKept
  <1>1. Init => Inv
    BY InvInit
  <1>2. Inv /\ [Next]_vars => Inv'
    BY InvNext
  <1>3. Inv => LanguageKept
    BY InvIsLanguage
  <1>4. QED
    BY <1>1, <1>2, <1>3, PTL DEF Spec

-----------------------------------------------------------------------------
(* A finished set is minimal.  The nodes met before, with their ranks.     *)

MetNodes(nodes, mini, K, rank) ==
    /\ Closed(nodes) /\ K \in Nat /\ K < Len(nodes) /\ rank \in [Nat -> Nat]
    /\ \A k \in DOMAIN mini : /\ mini[k] \in 1 .. Len(nodes) /\ NodeKey(nodes[mini[k]]) = k
                              /\ MetBefore(nodes, mini, K, rank, k)

(* w is v after the character c. *)
IsPrefixed(c, v, w) ==
    w \in Seq(Letters) /\ Len(w) = Len(v) + 1 /\ w[1] = c /\ \A i \in 1 .. Len(v) : w[i + 1] = v[i]

LEMMA SomePrefixed ==
  ASSUME NEW c \in Letters, NEW v \in Seq(Letters)
  PROVE  \E w : IsPrefixed(c, v, w)
  <1>1. PICK L \in Nat : L = Len(v)
    BY LenProperties
  <1> DEFINE w == [i \in 1 .. L + 1 |-> IF i = 1 THEN c ELSE v[i - 1]]
  <1>2. \A i \in 1 .. L : v[i] \in Letters
    BY <1>1, ElementOfSeq
  <1>3. ASSUME NEW i \in 1 .. L + 1 PROVE w[i] \in Letters
    <2>1. CASE i = 1
      BY <2>1
    <2>2. CASE i # 1
      <3>1. i - 1 \in 1 .. L
        BY <2>2
      <3>2. QED
        BY <1>2, <2>2, <3>1
    <2>3. QED
      BY <2>1, <2>2
  <1>4. w \in [1 .. L + 1 -> Letters]
    BY <1>3
  <1>5. w[1] = c
    OBVIOUS
  <1>6. ASSUME NEW i \in 1 .. L PROVE w[i + 1] = v[i]
    <2>1. i + 1 \in 1 .. L + 1 /\ i + 1 # 1 /\ (i + 1) - 1 = i
      OBVIOUS
    <2>2. QED
      BY <2>1
  <1> HIDE DEF w
  <1>7. w \in Seq(Letters) /\ Len(w) = L + 1
    <2>1. w \in Seq(Letters)
      BY <1>4
    <2>2. DOMAIN w = 1 .. L + 1
      BY <1>4
    <2>3. QED
      BY <2>1, <2>2
  <1>8. QED
    BY <1>1, <1>5, <1>6, <1>7 DEF IsPrefixed

LEMMA EmptyWord ==
  ASSUME NEW nodes, Closed(nodes), NEW n \in 1 .. Len(nodes)
  PROVE  Accepts(nodes, n, <<>>) <=> nodes[n].final
  <1>1. PICK v : v = <<>> /\ Len(v) = 0 /\ 1 .. Len(v) = {}
    OBVIOUS
  <1>2. ASSUME NEW r, IsRun(nodes, n, r, v) PROVE r[Len(v)] = n
    BY <1>1, <1>2 DEF IsRun
  <1>3. PICK r : r = [i \in 0 .. 0 |-> n]
    OBVIOUS
  <1>4. r \in [0 .. 0 -> 1 .. Len(nodes)] /\ r[0] = n
    BY <1>3
  <1>5. IsRun(nodes, n, r, v)
    BY <1>1, <1>4 DEF IsRun
  <1>6. QED
    BY <1>1, <1>2, <1>5 DEF Accepts

(* The words of a node that begin with a character are those of the node   *)
(* its edge leads to.                                                      *)
LEMMA FirstCharacter ==
  ASSUME NEW nodes, Closed(nodes), NEW n \in 1 .. Len(nodes), NEW c, NEW v \in Seq(Letters),
         NEW w, IsPrefixed(c, v, w)
  PROVE  Accepts(nodes, n, w) <=>
             c \in DOMAIN nodes[n].edges /\ Accepts(nodes, nodes[n].edges[c], v)
  <1>1. PICK L \in Nat : L = Len(v)
    BY LenProperties
  <1>2. Len(w) = L + 1 /\ w[1] = c /\ \A i \in 1 .. L : w[i + 1] = v[i]
    BY <1>1 DEF IsPrefixed
  <1>3. PICK N : N = Len(nodes)
    OBVIOUS
  <1>4. ASSUME Accepts(nodes, n, w)
        PROVE  c \in DOMAIN nodes[n].edges /\ Accepts(nodes, nodes[n].edges[c], v)
    <2>1. PICK r : IsRun(nodes, n, r, w) /\ nodes[r[Len(w)]].final
      BY <1>4 DEF Accepts
    <2>2. /\ r \in [0 .. L + 1 -> 1 .. N] /\ r[0] = n
          /\ \A i \in 1 .. L + 1 : w[i] \in DOMAIN nodes[r[i - 1]].edges /\ r[i] = nodes[r[i - 1]].edges[w[i]]
          /\ nodes[r[L + 1]].final
      BY <1>2, <1>3, <2>1 DEF IsRun
    <2>3. c \in DOMAIN nodes[n].edges /\ r[1] = nodes[n].edges[c]
      <3>1. 1 \in 1 .. L + 1 /\ 1 - 1 = 0
        OBVIOUS
      <3>2. w[1] \in DOMAIN nodes[r[1 - 1]].edges /\ r[1] = nodes[r[1 - 1]].edges[w[1]]
        BY <2>2, <3>1
      <3>3. QED
        BY <1>2, <2>2, <3>1, <3>2
    <2> DEFINE s == [i \in 0 .. L |-> r[i + 1]]
    <2>4. \A i \in 0 .. L : s[i] = r[i + 1] /\ i + 1 \in 0 .. L + 1
      OBVIOUS
    <2>5. s \in [0 .. L -> 1 .. N]
      BY <2>2
    <2> HIDE DEF s
    <2>6. s[0] = r[1] /\ s[L] = r[L + 1]
      <3>1. 0 \in 0 .. L /\ L \in 0 .. L /\ 0 + 1 = 1
        OBVIOUS
      <3>2. QED
        BY <2>4, <3>1
    <2>7. ASSUME NEW i \in 1 .. L
          PROVE  v[i] \in DOMAIN nodes[s[i - 1]].edges /\ s[i] = nodes[s[i - 1]].edges[v[i]]
      <3>1. PICK j \in 1 .. L + 1 : j = i + 1 /\ j - 1 = i /\ i - 1 \in 0 .. L /\ i \in 0 .. L /\ (i - 1) + 1 = i
        OBVIOUS
      <3>2. s[i - 1] = r[i] /\ s[i] = r[j] /\ v[i] = w[j]
        BY <1>2, <2>4, <3>1
      <3>3. w[j] \in DOMAIN nodes[r[i]].edges /\ r[j] = nodes[r[i]].edges[w[j]]
        BY <2>2, <3>1
      <3>4. QED
        BY <3>2, <3>3
    <2>8. IsRun(nodes, nodes[n].edges[c], s, v)
      BY <1>1, <1>3, <2>3, <2>5, <2>6, <2>7 DEF IsRun
    <2>9. QED
      BY <1>1, <2>2, <2>3, <2>6, <2>8 DEF Accepts
  <1>5. ASSUME c \in DOMAIN nodes[n].edges, Accepts(nodes, nodes[n].edges[c], v)
        PROVE  Accepts(nodes, n, w)
    <2>1. PICK r : IsRun(nodes, nodes[n].edges[c], r, v) /\ nodes[r[Len(v)]].final
      BY <1>5 DEF Accepts
    <2>2. /\ r \in [0 .. L -> 1 .. N] /\ r[0] = nodes[n].edges[c]
          /\ \A i \in 1 .. L : v[i] \in DOMAIN nodes[r[i - 1]].edges /\ r[i] = nodes[r[i - 1]].edges[v[i]]
          /\ nodes[r[L]].final
      BY <1>1, <1>3, <2>1 DEF IsRun
    <2> DEFINE s == [i \in 0 .. L + 1 |-> IF i = 0 THEN n ELSE r[i - 1]]
    <2>3. s[0] = n
      OBVIOUS
    <2>4. \A i \in 1 .. L + 1 : s[i] = r[i - 1] /\ i - 1 \in 0 .. L
      OBVIOUS
    <2>5. s = [i \in 0 .. L + 1 |-> s[i]]
      OBVIOUS
    <2> HIDE DEF s
    <2>6. \A i \in 0 .. L + 1 : i = 0 \/ i \in 1 .. L + 1
      OBVIOUS
    <2>7. \A i \in 0 .. L + 1 : s[i] \in 1 .. N
      BY <1>3, <2>2, <2>3, <2>4, <2>6
    <2>8. s \in [0 .. L + 1 -> 1 .. N]
      BY <2>5, <2>7
    <2>9. ASSUME NEW i \in 1 .. L + 1
          PROVE  w[i] \in DOMAIN nodes[s[i - 1]].edges /\ s[i] = nodes[s[i - 1]].edges[w[i]]
      <3>1. CASE i = 1
        <4>1. 1 - 1 = 0
          OBVIOUS
        <4>2. s[i - 1] = n /\ s[i] = r[0] /\ w[i] = c
          BY <1>2, <2>3, <2>4, <3>1, <4>1
        <4>3. QED
          BY <1>5, <2>2, <4>2
      <3>2. CASE i # 1
        <4>1. PICK j \in 1 .. L : j = i - 1 /\ j + 1 = i /\ j \in 1 .. L + 1
          BY <3>2
        <4>2. s[i - 1] = r[j - 1] /\ s[i] = r[j] /\ w[i] = v[j]
          BY <1>2, <2>4, <4>1
        <4>3. QED
          BY <2>2, <4>2
      <3>3. QED
        BY <3>1, <3>2
    <2>10. IsRun(nodes, n, s, w)
      BY <1>2, <1>3, <2>3, <2>8, <2>9 DEF IsRun
    <2>11. s[L + 1] = r[L]
      <3>1. L + 1 \in 1 .. L + 1 /\ (L + 1) - 1 = L
        OBVIOUS
      <3>2. QED
        BY <2>4, <3>1
    <2>12. QED
      BY <1>2, <2>2, <2>10, <2>11 DEF Accepts
  <1>6. QED
    BY <1>4, <1>5

(* Words from a node met before are no longer than its rank. *)
LEMMA ShortWords ==
  ASSUME NEW nodes, NEW mini, NEW K, NEW rank, MetNodes(nodes, mini, K, rank),
         NEW k \in DOMAIN mini, NEW v \in Seq(Letters), Accepts(nodes, mini[k], v)
  PROVE  Len(v) <= rank[mini[k]] /\ Len(v) <= Len(nodes)
  <1>1. PICK L \in Nat : L = Len(v)
    BY LenProperties
  <1>2. PICK r : IsRun(nodes, mini[k], r, v) /\ nodes[r[Len(v)]].final
    BY DEF Accepts
  <1>3. /\ r[0] = mini[k]
        /\ \A i \in 1 .. L : v[i] \in DOMAIN nodes[r[i - 1]].edges /\ r[i] = nodes[r[i - 1]].edges[v[i]]
    BY <1>1, <1>2 DEF IsRun
  <1>4. \A j \in DOMAIN mini : mini[j] \in Nat /\ rank[mini[j]] \in Nat
    <2>1. Len(nodes) \in Nat /\ rank \in [Nat -> Nat] /\ \A j \in DOMAIN mini : mini[j] \in 1 .. Len(nodes)
      BY LenProperties DEF MetNodes, Closed
    <2>2. QED
      BY <2>1
  <1>5. PICK R \in Nat : R = rank[mini[k]]
    BY <1>4
  <1> DEFINE Low(i, j) == j \in DOMAIN mini /\ r[i] = mini[j] /\ rank[mini[j]] + i <= R
             T == {i \in Nat : \E j : Low(i, j)}
  <1>6. 0 \in T
    <2>1. Low(0, k)
      BY <1>3, <1>5
    <2>2. QED
      BY <2>1
  <1>7. ASSUME NEW i \in 1 .. L, i - 1 \in T PROVE i \in T
    <2>1. PICK j : Low(i - 1, j)
      BY <1>7
    <2>2. /\ r[i - 1] = mini[j] /\ v[i] \in DOMAIN nodes[mini[j]].edges
          /\ r[i] = nodes[mini[j]].edges[v[i]]
      BY <1>3, <2>1
    <2>3. Lower(nodes, mini, rank, j, v[i])
      BY <2>1, <2>2 DEF MetNodes, MetBefore
    <2>4. PICK h \in DOMAIN mini : nodes[mini[j]].edges[v[i]] = mini[h] /\ rank[mini[h]] < rank[mini[j]]
      BY <2>3 DEF Lower
    <2>5. PICK p \in Nat, q \in Nat : p = rank[mini[j]] /\ q = rank[mini[h]]
      BY <1>4, <2>1
    <2>6. p + (i - 1) <= R /\ q < p
      BY <2>1, <2>4, <2>5
    <2>7. q + i <= R
      BY <2>6
    <2>8. Low(i, h)
      BY <2>2, <2>4, <2>5, <2>7
    <2>9. i \in Nat
      OBVIOUS
    <2>10. QED
      BY <2>8, <2>9
  <1>8. L \in T
    <2> HIDE DEF T
    <2>1. \A i \in 0 .. L : i \in T
      BY <1>6, <1>7, Upwards
    <2>2. QED
      BY <2>1
  <1>9. PICK j : Low(L, j)
    BY <1>8
  <1>10. PICK q \in Nat : q = rank[mini[j]]
    BY <1>4, <1>9
  <1>11. L <= R
    BY <1>9, <1>10
  <1>12. R < K /\ K < Len(nodes) /\ K \in Nat /\ Len(nodes) \in Nat
    BY <1>5, LenProperties DEF MetNodes, MetBefore, Closed
  <1>13. QED
    BY <1>1, <1>5, <1>11, <1>12

(* Some word leads from every node met before to a final one. *)
LEMMA SomeWord ==
  ASSUME NEW nodes, NEW mini, NEW K, NEW rank, MetNodes(nodes, mini, K, rank), NEW k \in DOMAIN mini
  PROVE  \E v \in Seq(Letters) : Accepts(nodes, mini[k], v)
  <1> DEFINE HasWord(j) == \E v \in Seq(Letters) : Accepts(nodes, mini[j], v)
             Bad == {q \in Nat : \E j \in DOMAIN mini : q = rank[mini[j]] /\ ~ HasWord(j)}
  <1>1. \A j \in DOMAIN mini : mini[j] \in 1 .. Len(nodes) /\ rank[mini[j]] \in Nat
    <2>1. Len(nodes) \in Nat /\ rank \in [Nat -> Nat] /\ \A j \in DOMAIN mini : mini[j] \in 1 .. Len(nodes)
      BY LenProperties DEF MetNodes, Closed
    <2>2. QED
      BY <2>1
  <1>2. SUFFICES ASSUME ~ HasWord(k) PROVE FALSE
    OBVIOUS
  <1>3. PICK q \in Bad : \A x \in Bad : q <= x
    <2>1. Bad # {}
      BY <1>1, <1>2
    <2>2. Bad \subseteq Nat
      OBVIOUS
    <2> HIDE DEF Bad
    <2>3. QED
      BY <2>1, <2>2, LeastPosition
  <1>4. PICK j \in DOMAIN mini : q = rank[mini[j]] /\ ~ HasWord(j)
    BY <1>3
  <1>5. PICK n \in 1 .. Len(nodes) : n = mini[j]
    BY <1>1
  <1>6. Closed(nodes) /\ Live(nodes[n]) /\ \A c \in DOMAIN nodes[n].edges : Lower(nodes, mini, rank, j, c)
    BY <1>5 DEF MetNodes, MetBefore
  <1>7. CASE nodes[n].final
    <2>1. Accepts(nodes, n, <<>>) /\ <<>> \in Seq(Letters)
      BY <1>6, <1>7, EmptyWord
    <2>2. QED
      BY <1>4, <1>5, <2>1
  <1>8. CASE DOMAIN nodes[n].edges # {}
    <2>1. PICK c \in DOMAIN nodes[n].edges : c \in Letters
      BY <1>6, <1>8 DEF Closed
    <2>2. PICK h \in DOMAIN mini : nodes[n].edges[c] = mini[h] /\ rank[mini[h]] < rank[mini[j]]
      BY <1>5, <1>6 DEF Lower
    <2>3. HasWord(h)
      <3>1. PICK x \in Nat, y \in Nat : x = rank[mini[h]] /\ y = rank[mini[j]]
        BY <1>1
      <3>2. ~ (y <= x) /\ q = y
        BY <1>4, <2>2, <3>1
      <3>3. x \notin Bad
        BY <1>3, <3>2
      <3>4. QED
        BY <3>1, <3>3
    <2>4. PICK v \in Seq(Letters) : Accepts(nodes, mini[h], v)
      BY <2>3
    <2>5. PICK w : IsPrefixed(c, v, w)
      BY <2>1, SomePrefixed
    <2>6. Accepts(nodes, n, w)
      BY <1>6, <2>2, <2>4, <2>5, FirstCharacter
    <2>7. w \in Seq(Letters)
      BY <2>5 DEF IsPrefixed
    <2>8. QED
      BY <1>4, <1>5, <2>6, <2>7
  <1>9. QED
    BY <1>6, <1>7, <1>8 DEF Live

(* Two nodes stand for the same endings. *)
SameEndings(nodes, m, n) == \A v \in Seq(Letters) : Accepts(nodes, m, v) <=> Accepts(nodes, n, v)

LEMMA SameLabels ==
  ASSUME NEW nodes, NEW mini, NEW K, NEW rank, MetNodes(nodes, mini, K, rank),
         NEW k \in DOMAIN mini, NEW n \in 1 .. Len(nodes), SameEndings(nodes, mini[k], n),
         NEW c \in DOMAIN nodes[mini[k]].edges
  PROVE  c \in DOMAIN nodes[n].edges /\ SameEndings(nodes, nodes[mini[k]].edges[c], nodes[n].edges[c])
  <1>1. PICK m \in 1 .. Len(nodes) : m = mini[k]
    BY DEF MetNodes
  <1>2. Closed(nodes) /\ c \in Letters
    BY <1>1 DEF MetNodes, Closed
  <1>3. PICK h \in DOMAIN mini : nodes[m].edges[c] = mini[h]
    BY <1>1 DEF MetNodes, MetBefore, Lower
  <1>4. ASSUME NEW v \in Seq(Letters)
        PROVE  Accepts(nodes, mini[h], v) <=> c \in DOMAIN nodes[n].edges /\ Accepts(nodes, nodes[n].edges[c], v)
    <2>1. PICK w : IsPrefixed(c, v, w)
      BY <1>2, SomePrefixed
    <2>2. w \in Seq(Letters)
      BY <2>1 DEF IsPrefixed
    <2>3. Accepts(nodes, m, w) <=> c \in DOMAIN nodes[m].edges /\ Accepts(nodes, nodes[m].edges[c], v)
      BY <1>2, <2>1, FirstCharacter
    <2>4. Accepts(nodes, n, w) <=> c \in DOMAIN nodes[n].edges /\ Accepts(nodes, nodes[n].edges[c], v)
      BY <1>2, <2>1, FirstCharacter
    <2>5. Accepts(nodes, m, w) <=> Accepts(nodes, n, w)
      BY <1>1, <2>2 DEF SameEndings
    <2>6. QED
      BY <1>1, <1>3, <2>3, <2>4, <2>5
  <1>5. c \in DOMAIN nodes[n].edges
    <2>1. PICK v \in Seq(Letters) : Accepts(nodes, mini[h], v)
      BY SomeWord
    <2>2. QED
      BY <1>4, <2>1
  <1>6. QED
    BY <1>1, <1>3, <1>4, <1>5 DEF SameEndings

LEMMA SameNode ==
  ASSUME NEW m \in Nodes, NEW n \in Nodes, m.final = n.final, DOMAIN m.edges = DOMAIN n.edges,
         \A c \in DOMAIN m.edges : m.edges[c] = n.edges[c]
  PROVE  m = n
  <1>1. m.edges = [c \in DOMAIN m.edges |-> m.edges[c]] /\ n.edges = [c \in DOMAIN n.edges |-> n.edges[c]]
    BY NodeFields
  <1>2. m.edges = n.edges
    BY <1>1
  <1>3. m = [final |-> m.final, edges |-> m.edges] /\ n = [final |-> n.final, edges |-> n.edges]
    BY DEF Nodes
  <1>4. QED
    BY <1>2, <1>3

(* Nodes met before that stand for the same endings are one node: of two   *)
(* different ones with a least rank, the edges would lead to the same      *)
(* nodes, so that both would have one key.                                 *)
LEMMA EndingsTell ==
  ASSUME NEW nodes, NEW mini, NEW K, NEW rank, MetNodes(nodes, mini, K, rank),
         NEW k \in DOMAIN mini, NEW l \in DOMAIN mini, SameEndings(nodes, mini[k], mini[l])
  PROVE  mini[k] = mini[l]
  <1> DEFINE Twin(i, j) == i \in DOMAIN mini /\ j \in DOMAIN mini /\ SameEndings(nodes, mini[i], mini[j]) /\ mini[i] # mini[j]
             Bad == {q \in Nat : \E i, j : q = rank[mini[i]] /\ Twin(i, j)}
  <1>1. \A j \in DOMAIN mini : mini[j] \in 1 .. Len(nodes) /\ rank[mini[j]] \in Nat
    <2>1. Len(nodes) \in Nat /\ rank \in [Nat -> Nat] /\ \A j \in DOMAIN mini : mini[j] \in 1 .. Len(nodes)
      BY LenProperties DEF MetNodes, Closed
    <2>2. QED
      BY <2>1
  <1>2. SUFFICES ASSUME Twin(k, l) PROVE FALSE
    OBVIOUS
  <1>3. PICK q \in Bad : \A x \in Bad : q <= x
    <2>1. Bad # {}
      BY <1>1, <1>2
    <2>2. Bad \subseteq Nat
      OBVIOUS
    <2> HIDE DEF Bad
    <2>3. QED
      BY <2>1, <2>2, LeastPosition
  <1>4. PICK i, j : q = rank[mini[i]] /\ Twin(i, j)
    BY <1>3
  <1>5. PICK m \in 1 .. Len(nodes), n \in 1 .. Len(nodes) : m = mini[i] /\ n = mini[j]
    BY <1>1, <1>4
  <1>6. SameEndings(nodes, m, n) /\ SameEndings(nodes, n, m) /\ m # n
    BY <1>4, <1>5 DEF SameEndings
  <1>7. Closed(nodes) /\ nodes[m] \in Nodes /\ nodes[n] \in Nodes
    <2>1. Closed(nodes) /\ nodes \in Seq(Nodes)
      BY DEF MetNodes, Closed
    <2>2. QED
      BY <2>1, ElementOfSeq
  <1>8. nodes[m].final = nodes[n].final
    <2>1. nodes[m].final <=> nodes[n].final
      <3>1. Accepts(nodes, m, <<>>) <=> Accepts(nodes, n, <<>>)
        <4>1. <<>> \in Seq(Letters)
          OBVIOUS
        <4>2. QED
          BY <1>6, <4>1 DEF SameEndings
      <3>2. QED
        BY <1>7, <3>1, EmptyWord
    <2>2. nodes[m].final \in BOOLEAN /\ nodes[n].final \in BOOLEAN
      BY <1>7, NodeFields
    <2>3. QED
      BY <2>1, <2>2
  <1>9. ASSUME NEW c \in DOMAIN nodes[m].edges
        PROVE  c \in DOMAIN nodes[n].edges /\ SameEndings(nodes, nodes[m].edges[c], nodes[n].edges[c])
    BY <1>4, <1>5, <1>6, SameLabels
  <1>10. ASSUME NEW c \in DOMAIN nodes[n].edges PROVE c \in DOMAIN nodes[m].edges
    BY <1>4, <1>5, <1>6, SameLabels
  <1>11. DOMAIN nodes[m].edges = DOMAIN nodes[n].edges
    BY <1>9, <1>10
  <1>12. ASSUME NEW c \in DOMAIN nodes[m].edges PROVE nodes[m].edges[c] = nodes[n].edges[c]
    <2>1. PICK h \in DOMAIN mini : nodes[m].edges[c] = mini[h] /\ rank[mini[h]] < rank[mini[i]]
      BY <1>4, <1>5 DEF MetNodes, MetBefore, Lower
    <2>2. PICK g \in DOMAIN mini : nodes[n].edges[c] = mini[g]
      BY <1>4, <1>5, <1>9 DEF MetNodes, MetBefore, Lower
    <2>3. SameEndings(nodes, mini[h], mini[g])
      BY <1>9, <2>1, <2>2
    <2>4. PICK x \in Nat, y \in Nat : x = rank[mini[h]] /\ y = rank[mini[i]]
      BY <1>1, <1>4
    <2>5. ~ (y <= x) /\ q = y
      BY <1>4, <2>1, <2>4
    <2>6. x \notin Bad
      BY <1>3, <2>5
    <2>7. ~ Twin(h, g)
      BY <2>4, <2>6
    <2>8. QED
      BY <2>1, <2>2, <2>3, <2>7
  <1>13. nodes[m] = nodes[n]
    BY <1>7, <1>8, <1>11, <1>12, SameNode
  <1>14. NodeKey(nodes[m]) = i /\ NodeKey(nodes[n]) = j
    BY <1>4, <1>5 DEF MetNodes
  <1>15. QED
    BY <1>5, <1>6, <1>13, <1>14

LEMMA FinishedNodes ==
  ASSUME Inv, finished
  PROVE  /\ \E K, rank : MetNodes(builder.nodes, builder.minimized, K, rank)
         /\ \A m \in Reachable \ {1} : \E k \in DOMAIN builder.minimized : m = builder.minimized[k]
  <1>1. PICK nodes, un, mini : nodes = builder.nodes /\ un = builder.unchecked /\ mini = builder.minimized
    OBVIOUS
  <1>2. /\ Closed(nodes) /\ Len(nodes) \in Nat /\ Len(un) = 0
        /\ OffOK(nodes, un, mini) /\ Ranked(nodes, un, mini)
    <2>1. Closed(nodes)
      BY <1>1, InvIsClosed
    <2>2. Len(nodes) \in Nat
      BY <2>1, LenProperties DEF Closed
    <2>3. QED
      BY <1>1, <2>1, <2>2 DEF Inv, BuilderOK
  <1>3. PICK K \in Nat, rank \in [Nat -> Nat] : HasRanks(nodes, un, mini, K, rank)
    BY <1>2 DEF Ranked
  <1>4. /\ K < Len(nodes)
        /\ \A k \in DOMAIN mini : MetBefore(nodes, mini, K, rank, k)
        /\ \A c \in DOMAIN nodes[1].edges : LeadsOff(nodes, mini, 1, c)
    <2>1. 0 \in 0 .. Len(un) /\ Path(un, 0) = 1 /\ \A c : ~ PathEdge(un, 0, c)
      BY <1>2 DEF Path, PathEdge
    <2>2. K + 0 < Len(nodes)
      BY <1>2, <1>3 DEF HasRanks
    <2>3. QED
      BY <1>2, <1>3, <2>1, <2>2 DEF HasRanks
  <1>5. ASSUME NEW k \in DOMAIN mini PROVE mini[k] \in 1 .. Len(nodes) /\ NodeKey(nodes[mini[k]]) = k
    <2>1. mini[k] \in 2 .. Len(nodes) /\ NodeKey(nodes[mini[k]]) = k
      BY <1>2 DEF OffOK
    <2>2. QED
      BY <1>2, <2>1
  <1>6. MetNodes(nodes, mini, K, rank)
    BY <1>2, <1>4, <1>5 DEF MetNodes
  <1>7. ASSUME NEW m \in Reachable \ {1} PROVE \E k \in DOMAIN mini : m = mini[k]
    <2>1. PICK n \in {1} \union {mini[k] : k \in DOMAIN mini} :
              m \in {n} \union {nodes[n].edges[c] : c \in DOMAIN nodes[n].edges}
      <3>1. Reachable = UNION {{n} \union {nodes[n].edges[c] : c \in DOMAIN nodes[n].edges} :
                                   n \in {1} \union {mini[k] : k \in DOMAIN mini}}
        BY <1>1 DEF Reachable
      <3>2. m \in Reachable
        OBVIOUS
      <3>3. QED
        BY <3>1, <3>2
    <2>2. CASE m = n
      BY <1>7, <2>1, <2>2
    <2>3. CASE m # n
      <3>1. PICK c \in DOMAIN nodes[n].edges : m = nodes[n].edges[c]
        BY <2>1, <2>3
      <3>2. CASE n = 1
        BY <1>4, <3>1, <3>2 DEF LeadsOff
      <3>3. CASE n # 1
        <4>1. PICK k \in DOMAIN mini : n = mini[k]
          BY <2>1, <3>3
        <4>2. QED
          BY <1>4, <3>1, <4>1 DEF MetBefore, Lower
      <3>4. QED
        BY <3>2, <3>3
    <2>4. QED
      BY <2>2, <2>3
  <1>8. QED
    BY <1>1, <1>6, <1>7

LEMMA InvIsMinimal == Inv => Minimal
  <1> SUFFICES ASSUME Inv, finished, NEW m \in Reachable \ {1}, NEW n \in Reachable \ {1},
                      WordsFrom(Root(builder), m) = WordsFrom(Root(builder), n)
               PROVE  m = n
    BY DEF Minimal
  <1>1. PICK nodes, mini, t : nodes = builder.nodes /\ mini = builder.minimized /\ t = Root(builder)
    OBVIOUS
  <1>2. PICK K, rank : MetNodes(nodes, mini, K, rank)
    BY <1>1, FinishedNodes
  <1>3. PICK k \in DOMAIN mini, l \in DOMAIN mini : m = mini[k] /\ n = mini[l]
    BY <1>1, FinishedNodes
  <1>4. Closed(nodes) /\ m \in 1 .. Len(nodes) /\ n \in 1 .. Len(nodes) /\ t.nodes = nodes
    BY <1>1, <1>2, <1>3, RootIs DEF MetNodes
  <1>5. ASSUME NEW v \in Seq(Letters) PROVE Accepts(nodes, m, v) <=> Accepts(nodes, n, v)
    <2>1. Accepts(nodes, m, v) => Len(v) <= Len(nodes)
      BY <1>2, <1>3, ShortWords
    <2>2. Accepts(nodes, n, v) => Len(v) <= Len(nodes)
      BY <1>2, <1>3, ShortWords
    <2>3. v \in WordsFrom(t, m) <=> Len(v) <= Len(nodes) /\ Accepts(nodes, m, v)
      BY <1>4, WordsFromIs
    <2>4. v \in WordsFrom(t, n) <=> Len(v) <= Len(nodes) /\ Accepts(nodes, n, v)
      BY <1>4, WordsFromIs
    <2>5. QED
      BY <1>1, <2>1, <2>2, <2>3, <2>4
  <1>6. SameEndings(nodes, mini[k], mini[l])
    BY <1>3, <1>5 DEF SameEndings
  <1>7. QED
    BY <1>2, <1>3, <1>6, EndingsTell

(* A finished token set is the minimal automaton that the comment on       *)
(* TokenSet promises, for every alphabet, digits included: no two of its   *)
(* nodes but the root stand for the same endings.                          *)
THEOREM EndingsDiffer == Spec => []Minimal
  <1>1. Init => Inv
    BY InvInit
  <1>2. Inv /\ [Next]_vars => Inv'
    BY InvNext
  <1>3. Inv => Minimal
    BY InvIsMinimal
  <1>4. QED
    BY <1>1, <1>2, <1>3, PTL DEF Spec

-----------------------------------------------------------------------------
(* Patterns and words.  M[i] are the lengths of the beginnings of the word *)
(* that the first i characters of the pattern match.                       *)

MatchSets(p, w, M) ==
    /\ M \in [0 .. Len(p) -> SUBSET (0 .. Len(w))] /\ M[0] = {0}
    /\ \A i \in 1 .. Len(p) : \A k \in 0 .. Len(w) :
           k \in M[i] <=> \/ p[i] = "*" /\ \E j \in M[i - 1] : j <= k
                          \/ p[i] # "*" /\ k >= 1 /\ k - 1 \in M[i - 1] /\ w[k] = p[i]

LEMMA MatchesIs ==
  ASSUME NEW p, NEW w, Len(p) \in Nat, Len(w) \in Nat
  PROVE  \E M : MatchSets(p, w, M) /\ (Matches(p, w) <=> Len(w) \in M[Len(p)])
  <1> DEFINE N == Len(p)
             S == SUBSET (0 .. Len(w))
             Matched(i, K) == IF p[i] = "*"
                              THEN {k \in 0 .. Len(w) : \E j \in K : j <= k}
                              ELSE {k \in 1 .. Len(w) : k - 1 \in K /\ w[k] = p[i]}
             Step(M) == [i \in 0 .. N |-> IF i = 0 THEN {0} ELSE Matched(i, M[i - 1])]
             matched == CHOOSE M : M = Step(M)
             g == [i \in 1 .. N |-> [K \in S |-> Matched(i, K)]]
  <1>1. Matches(p, w) <=> Len(w) \in matched[N]
    BY DEF Matches
  <1>2. \A i \in 1 .. N : \A K \in S : Matched(i, K) \in S
    OBVIOUS
  <1>3. g \in [1 .. N -> [S -> S]] /\ \A i \in 1 .. N : \A K \in S : g[i][K] = Matched(i, K)
    BY <1>2
  <1>4. {0} \in S
    OBVIOUS
  <1> HIDE DEF g, S
  <1>5. PICK f \in [0 .. N -> S] : f[0] = {0} /\ \A i \in 1 .. N : f[i] = g[i][f[i - 1]]
    <2>1. HasRecursion(N, S, {0}, g)
      BY <1>3, <1>4, RecursionExists
    <2>2. QED
      BY <2>1 DEF HasRecursion
  <1> HIDE DEF Matched
  <1>6. ASSUME NEW i \in 0 .. N PROVE f[i] = IF i = 0 THEN {0} ELSE Matched(i, f[i - 1])
    <2>1. CASE i = 0
      BY <1>5, <2>1
    <2>2. CASE i # 0
      <3>1. i \in 1 .. N /\ i - 1 \in 0 .. N
        BY <2>2
      <3>2. f[i - 1] \in S /\ f[i] = g[i][f[i - 1]]
        BY <1>5, <3>1
      <3>3. QED
        BY <1>3, <2>2, <3>1, <3>2
    <2>3. QED
      BY <2>1, <2>2
  <1>7. f = Step(f)
    BY <1>5, <1>6
  <1>8. matched = Step(matched)
    BY <1>7
  <1> HIDE DEF matched
  <1>9. \A i \in 0 .. N : matched[i] = IF i = 0 THEN {0} ELSE Matched(i, matched[i - 1])
    BY <1>8, Zenon
  <1> DEFINE T == {i \in Nat : matched[i] \in S}
  <1>10. \A i \in 0 .. N : matched[i] \in S
    <2>1. 0 \in T
      <3>1. 0 \in 0 .. N
        OBVIOUS
      <3>2. QED
        BY <1>4, <1>9, <3>1
    <2>2. ASSUME NEW i \in 1 .. N, i - 1 \in T PROVE i \in T
      <3>1. i \in 0 .. N /\ i # 0 /\ i \in Nat
        OBVIOUS
      <3>2. Matched(i, matched[i - 1]) \in S
        BY <1>2, <2>2
      <3>3. QED
        BY <1>9, <3>1, <3>2
    <2> HIDE DEF T
    <2>3. \A i \in 0 .. N : i \in T
      BY <2>1, <2>2, Upwards
    <2>4. QED
      BY <2>3 DEF T
  <1>11. ASSUME NEW i \in 1 .. N, NEW k \in 0 .. Len(w)
         PROVE  k \in matched[i] <=> \/ p[i] = "*" /\ \E j \in matched[i - 1] : j <= k
                                     \/ p[i] # "*" /\ k >= 1 /\ k - 1 \in matched[i - 1] /\ w[k] = p[i]
    <2>1. i \in 0 .. N /\ i # 0
      OBVIOUS
    <2>2. matched[i] = Matched(i, matched[i - 1])
      BY <1>9, <2>1
    <2>3. QED
      BY <2>2 DEF Matched
  <1>12. matched \in [0 .. N -> S] /\ matched[0] = {0}
    <2>1. 0 \in 0 .. N
      OBVIOUS
    <2>2. matched = [i \in 0 .. N |-> IF i = 0 THEN {0} ELSE Matched(i, matched[i - 1])]
      BY <1>8
    <2>3. DOMAIN matched = 0 .. N
      BY <2>2
    <2>4. matched = [i \in 0 .. N |-> matched[i]]
      BY <2>2, <2>3
    <2>5. QED
      BY <1>9, <1>10, <2>1, <2>4
  <1>13. MatchSets(p, w, matched)
    BY <1>11, <1>12 DEF MatchSets, S
  <1>14. QED
    BY <1>1, <1>13

(* A "*" also matches nothing. *)
LEMMA StarsSkipped ==
  ASSUME NEW p, NEW w, NEW M, MatchSets(p, w, M), Len(p) \in Nat, Len(w) \in Nat,
         NEW i \in 0 .. Len(p), NEW n \in i .. Len(p), \A q \in i + 1 .. n : p[q] = "*",
         NEW k \in M[i]
  PROVE  k \in M[n]
  <1> DEFINE D == n - i
             T == {d \in Nat : k \in M[i + d]}
  <1>1. D \in Nat /\ i + D = n /\ k \in 0 .. Len(w)
    BY DEF MatchSets
  <1>2. 0 \in T
    OBVIOUS
  <1>3. ASSUME NEW d \in 1 .. D, d - 1 \in T PROVE d \in T
    <2>1. PICK q \in 1 .. Len(p) : q = i + d /\ q - 1 = i + (d - 1) /\ q \in i + 1 .. n
      OBVIOUS
    <2>2. k \in M[q - 1] /\ p[q] = "*" /\ k <= k
      BY <1>1, <1>3, <2>1
    <2>3. k \in M[q]
      BY <1>1, <2>2 DEF MatchSets
    <2>4. QED
      BY <2>1, <2>3
  <1>4. D \in T
    <2> HIDE DEF T, D
    <2>1. \A d \in 0 .. D : d \in T
      BY <1>1, <1>2, <1>3, Upwards
    <2>2. D \in 0 .. D
      BY <1>1
    <2>3. QED
      BY <2>1, <2>2
  <1>5. QED
    BY <1>1, <1>4

(* A "*" matches one more character. *)
LEMMA StarTakes ==
  ASSUME NEW p, NEW w, NEW M, MatchSets(p, w, M), Len(p) \in Nat, Len(w) \in Nat,
         NEW i \in 1 .. Len(p), p[i] = "*", NEW k \in M[i], NEW n \in k .. Len(w)
  PROVE  n \in M[i]
  <1>1. i \in 0 .. Len(p) /\ i - 1 \in 0 .. Len(p)
    OBVIOUS
  <1>2. M[i] \subseteq 0 .. Len(w) /\ M[i - 1] \subseteq 0 .. Len(w)
    BY <1>1 DEF MatchSets
  <1>3. PICK j \in M[i - 1] : j <= k
    BY <1>2 DEF MatchSets
  <1>4. j \in 0 .. Len(w) /\ k \in 0 .. Len(w)
    BY <1>2
  <1>5. j <= n /\ n \in 0 .. Len(w)
    BY <1>3, <1>4
  <1>6. QED
    BY <1>3, <1>5 DEF MatchSets

(* What matches is matched from the start on. *)
LEMMA MatchedBefore ==
  ASSUME NEW p, NEW w, NEW M, MatchSets(p, w, M), Len(p) \in Nat, Len(w) \in Nat,
         NEW i \in 0 .. Len(p), NEW n \in i .. Len(p), NEW k \in M[n]
  PROVE  \E j \in M[i] : j <= k
  <1> DEFINE D == n - i
             T == {d \in Nat : \A c \in M[i + d] : \E j \in M[i] : j <= c}
  <1>1. D \in Nat /\ i + D = n
    OBVIOUS
  <1>2. ASSUME NEW q \in 0 .. Len(p), NEW c \in M[q] PROVE c \in 0 .. Len(w)
    BY DEF MatchSets
  <1>3. 0 \in T
    <2>1. ASSUME NEW c \in M[i + 0] PROVE \E j \in M[i] : j <= c
      <3>1. c \in M[i]
        OBVIOUS
      <3>2. c \in 0 .. Len(w)
        BY <1>2, <3>1
      <3>3. c <= c
        BY <3>2
      <3>4. QED
        BY <3>1, <3>3
    <2>2. QED
      BY <2>1
  <1>4. ASSUME NEW d \in 1 .. D, d - 1 \in T PROVE d \in T
    <2>1. PICK q \in 1 .. Len(p) : q = i + d /\ q - 1 = i + (d - 1) /\ q \in 0 .. Len(p) /\ q - 1 \in 0 .. Len(p)
      OBVIOUS
    <2>2. ASSUME NEW c \in M[q] PROVE \E j \in M[i] : j <= c
      <3>1. c \in 0 .. Len(w)
        BY <1>2, <2>1
      <3>2. PICK e \in M[q - 1] : e <= c
        <4>1. CASE p[q] = "*"
          BY <3>1, <4>1 DEF MatchSets
        <4>2. CASE p[q] # "*"
          <5>1. c - 1 \in M[q - 1]
            BY <3>1, <4>2 DEF MatchSets
          <5>2. c - 1 <= c
            BY <3>1
          <5>3. QED
            BY <5>1, <5>2
        <4>3. QED
          BY <4>1, <4>2
      <3>3. PICK j \in M[i] : j <= e
        BY <1>4, <2>1, <3>2
      <3>4. j \in 0 .. Len(w) /\ e \in 0 .. Len(w)
        BY <1>2, <2>1, <3>2, <3>3
      <3>5. j <= c
        BY <3>1, <3>2, <3>3, <3>4
      <3>6. QED
        BY <3>5
    <2>3. QED
      BY <2>1, <2>2
  <1>5. D \in T
    <2> HIDE DEF T, D
    <2>1. \A d \in 0 .. D : d \in T
      BY <1>1, <1>3, <1>4, Upwards
    <2>2. D \in 0 .. D
      BY <1>1
    <2>3. QED
      BY <2>1, <2>2
  <1>6. QED
    BY <1>1, <1>5

-----------------------------------------------------------------------------
(* The token set of a pattern. *)

Labels == {"*"} \union STRING
LabelMaps == UNION {[S -> Nat] : S \in SUBSET Labels}
PatternNodes == [final : BOOLEAN, edges : LabelMaps]

HasPut(g, f, c, n) ==
    /\ g \in LabelMaps /\ DOMAIN g = {c} \union DOMAIN f
    /\ g[c] = n /\ \A e \in DOMAIN f : e # c => g[e] = f[e]

LEMMA PutIs ==
  ASSUME NEW f \in LabelMaps, NEW c \in Labels, NEW n \in Nat
  PROVE  HasPut(Put(f, c, n), f, c, n)
  <1> DEFINE g == [e \in {c} \union DOMAIN f |-> IF e = c THEN n ELSE f[e]]
  <1>1. PICK S \in SUBSET Labels : f \in [S -> Nat]
    BY DEF LabelMaps
  <1>2. {c} \union DOMAIN f \in SUBSET Labels /\ g \in [{c} \union DOMAIN f -> Nat]
    BY <1>1
  <1>3. g \in LabelMaps
    BY <1>2 DEF LabelMaps
  <1>4. Put(f, c, n) = g
    BY DEF Put
  <1>5. HasPut(g, f, c, n)
    BY <1>3 DEF HasPut
  <1>6. QED
    BY <1>4, <1>5

LEMMA PatternNodeFields ==
  ASSUME NEW a \in PatternNodes
  PROVE  a.final \in BOOLEAN /\ a.edges \in LabelMaps
         /\ \A e \in DOMAIN a.edges : e \in Labels /\ a.edges[e] \in Nat
  <1>1. a.final \in BOOLEAN /\ a.edges \in LabelMaps
    BY DEF PatternNodes
  <1>2. PICK S \in SUBSET Labels : a.edges \in [S -> Nat]
    BY <1>1 DEF LabelMaps
  <1>3. QED
    BY <1>1, <1>2

LEMMA FreshNode ==
  ASSUME NEW final \in BOOLEAN
  PROVE  Node(final) \in PatternNodes /\ Node(final).final = final /\ DOMAIN Node(final).edges = {}
  <1>1. PICK a, f : f = [c \in {} |-> 0] /\ a = [final |-> final, edges |-> f]
    OBVIOUS
  <1>2. f \in [{} -> Nat] /\ {} \in SUBSET Labels /\ DOMAIN f = {}
    BY <1>1
  <1>3. f \in LabelMaps
    BY <1>2 DEF LabelMaps
  <1>4. a \in PatternNodes /\ a.final = final /\ a.edges = f
    BY <1>1, <1>3 DEF PatternNodes
  <1>5. Node(final) = a
    BY <1>1 DEF Node
  <1>6. QED
    BY <1>2, <1>4, <1>5

HasEdge(Q, x, c, y) == c \in DOMAIN Q[x].edges /\ Q[x].edges[c] = y

(* The node at which the token set is after i characters. *)
Walk(p, nd) ==
    /\ nd \in [0 .. Len(p) -> Nat] /\ nd[0] = 1
    /\ \A i \in 1 .. Len(p) : nd[i] = IF p[i] = "*" THEN nd[i - 1] ELSE nd[i - 1] + 1

(* Where an edge of node j comes from: a character; a "*" at which the     *)
(* token set stays; or a "*" before the first of the characters at j.      *)
Known(p, nd, i, j, c, y) ==
    \/ \E q \in 1 .. i : p[q] = c /\ c # "*" /\ nd[q - 1] = j /\ nd[q] = y
    \/ c = "*" /\ y = j /\ \E q \in 1 .. i : p[q] = "*" /\ nd[q] = j
    \/ c = "*" /\ y = 1 /\ \E g \in 1 .. i : p[g] = "*" /\ \A q \in 0 .. i : nd[q] = j => g <= q

(* The nodes that the first i characters make. *)
Drawn(p, nd, i, Q) ==
    /\ Q \in Seq(PatternNodes) /\ Len(Q) = nd[i]
    /\ \A q \in 1 .. i : IF p[q] = "*" THEN HasEdge(Q, nd[q], "*", nd[q])
                                      ELSE HasEdge(Q, nd[q - 1], p[q], nd[q])
    /\ \A j \in 1 .. Len(Q) : \A c \in DOMAIN Q[j].edges : Known(p, nd, i, j, c, Q[j].edges[c])
    /\ \A j \in 1 .. Len(Q) : Q[j].final <=> i = Len(p) /\ i # 0 /\ j = nd[i]

Stage(p, nd, i, s) ==
    /\ s.node = nd[i] /\ (s.wildcardFound <=> \E q \in 1 .. i : p[q] = "*")
    /\ Drawn(p, nd, i, s.nodes)

LEMMA SomeWalk ==
  ASSUME NEW p, Len(p) \in Nat
  PROVE  \E nd : Walk(p, nd)
  <1> DEFINE N == Len(p)
             g == [i \in 1 .. N |-> [x \in Nat |-> IF p[i] = "*" THEN x ELSE x + 1]]
  <1>1. g \in [1 .. N -> [Nat -> Nat]]
        /\ \A i \in 1 .. N : \A x \in Nat : g[i][x] = IF p[i] = "*" THEN x ELSE x + 1
    OBVIOUS
  <1> HIDE DEF g
  <1>2. HasRecursion(N, Nat, 1, g)
    BY <1>1, RecursionExists
  <1>3. PICK f \in [0 .. N -> Nat] : f[0] = 1 /\ \A i \in 1 .. N : f[i] = g[i][f[i - 1]]
    BY <1>2 DEF HasRecursion
  <1>4. \A i \in 1 .. N : f[i - 1] \in Nat
    OBVIOUS
  <1>5. Walk(p, f)
    BY <1>1, <1>3, <1>4 DEF Walk
  <1>6. QED
    BY <1>5

(* The walk never goes back, and stays only at a "*". *)
LEMMA WalkUp ==
  ASSUME NEW p, NEW nd, Len(p) \in Nat, Walk(p, nd), NEW i \in 0 .. Len(p), NEW n \in i .. Len(p)
  PROVE  /\ nd[i] \in Nat /\ nd[n] \in Nat /\ nd[i] <= nd[n]
         /\ nd[i] = nd[n] => \A q \in i + 1 .. n : p[q] = "*"
  <1> DEFINE D == n - i
             T == {d \in Nat : nd[i] <= nd[i + d]
                                /\ (nd[i] = nd[i + d] => \A q \in i + 1 .. i + d : p[q] = "*")}
  <1>1. D \in Nat /\ i + D = n
    OBVIOUS
  <1>2. \A q \in 0 .. Len(p) : nd[q] \in Nat
    BY DEF Walk
  <1>3. 0 \in T
    <2>1. i + 0 = i /\ nd[i] \in Nat /\ i + 1 .. i = {}
      BY <1>2
    <2>2. QED
      BY <2>1
  <1>4. ASSUME NEW d \in 1 .. D, d - 1 \in T PROVE d \in T
    <2>1. PICK q \in 1 .. Len(p) : q = i + d /\ q - 1 = i + (d - 1) /\ q \in 0 .. Len(p) /\ q - 1 \in 0 .. Len(p)
      OBVIOUS
    <2>2. PICK x \in Nat, y \in Nat, z \in Nat : x = nd[i] /\ y = nd[q - 1] /\ z = nd[q]
      BY <1>2, <2>1
    <2>3. x <= y /\ (x = y => \A e \in i + 1 .. q - 1 : p[e] = "*")
      BY <1>4, <2>1, <2>2
    <2>4. z = IF p[q] = "*" THEN y ELSE y + 1
      BY <2>1, <2>2 DEF Walk
    <2>5. x <= z
      BY <2>3, <2>4
    <2>6. ASSUME x = z, NEW e \in i + 1 .. q PROVE p[e] = "*"
      <3>1. x = y /\ p[q] = "*"
        BY <2>3, <2>4, <2>6
      <3>2. e = q \/ e \in i + 1 .. q - 1
        BY <2>1
      <3>3. QED
        BY <2>3, <3>1, <3>2
    <2>7. QED
      BY <2>1, <2>2, <2>5, <2>6
  <1>5. D \in T
    <2> HIDE DEF T, D
    <2>1. \A d \in 0 .. D : d \in T
      BY <1>1, <1>3, <1>4, Upwards
    <2>2. D \in 0 .. D
      BY <1>1
    <2>3. QED
      BY <2>1, <2>2
  <1>6. QED
    BY <1>1, <1>2, <1>5

(* What is known of an edge stays known as characters are added. *)
LEMMA KnownStays ==
  ASSUME NEW p, NEW nd, Len(p) \in Nat, NEW i \in 1 .. Len(p), NEW j, NEW c, NEW y,
         Known(p, nd, i - 1, j, c, y)
  PROVE  Known(p, nd, i, j, c, y)
  <1>1. \A q \in 1 .. i - 1 : q \in 1 .. i
    OBVIOUS
  <1>2. ASSUME NEW g \in 1 .. i - 1, \A q \in 0 .. i - 1 : nd[q] = j => g <= q
        PROVE  \A q \in 0 .. i : nd[q] = j => g <= q
    <2>1. \A q \in 0 .. i : q \in 0 .. i - 1 \/ g <= q
      OBVIOUS
    <2>2. QED
      BY <1>2, <2>1
  <1>3. QED
    BY <1>1, <1>2 DEF Known

LEMMA StarDrawn ==
  ASSUME NEW p \in Seq(Labels), NEW nd, Walk(p, nd), NEW i \in 1 .. Len(p), p[i] = "*",
         NEW Q, Drawn(p, nd, i - 1, Q), NEW final \in BOOLEAN, final <=> i = Len(p),
         NEW x, x = nd[i - 1], NEW new,
         new = [Q EXCEPT ![x] = [final |-> final, edges |-> Put(@.edges, "*", x)]]
  PROVE  Drawn(p, nd, i, new)
  <1>1. Len(p) \in Nat /\ i - 1 \in 0 .. Len(p) /\ 0 \in 0 .. Len(p) /\ i - 1 \in 0 .. Len(p) /\ i # 0
    BY LenProperties
  <1>2. nd[i] = x /\ x \in Nat /\ x >= 1 /\ nd[0] = 1
    <2>1. nd[0] = 1 /\ nd[i] = nd[i - 1]
      BY DEF Walk
    <2>2. nd[0] <= nd[i - 1] /\ nd[i - 1] \in Nat
      BY <1>1, WalkUp
    <2>3. QED
      BY <2>1, <2>2
  <1>3. /\ Q \in Seq(PatternNodes) /\ Len(Q) = x /\ x \in 1 .. Len(Q)
    BY <1>2 DEF Drawn
  <1>4. PICK old, put : old = Q[x].edges /\ put = Put(old, "*", x) /\ old \in LabelMaps
    <2>1. Q[x] \in PatternNodes
      BY <1>3, ElementOfSeq
    <2>2. QED
      BY <2>1, PatternNodeFields
  <1>5. /\ put \in LabelMaps /\ DOMAIN put = {"*"} \union DOMAIN old
        /\ put["*"] = x /\ \A e \in DOMAIN old : e # "*" => put[e] = old[e]
    <2>1. "*" \in Labels
      BY DEF Labels
    <2>2. HasPut(Put(old, "*", x), old, "*", x)
      BY <1>2, <1>4, <2>1, PutIs
    <2>3. QED
      BY <1>4, <2>2 DEF HasPut
  <1>6. PICK a : a = [final |-> final, edges |-> put]
    OBVIOUS
  <1>7. a \in PatternNodes /\ a.final = final /\ a.edges = put
    BY <1>5, <1>6 DEF PatternNodes
  <1>8. new = [Q EXCEPT ![x] = a]
    BY <1>4, <1>6
  <1>9. /\ new \in Seq(PatternNodes) /\ Len(new) = Len(Q) /\ new[x] = a
        /\ \A n \in 1 .. Len(Q) : n # x => new[n] = Q[n]
    BY <1>3, <1>7, <1>8
  <1>10. ASSUME NEW n \in 1 .. Len(Q), NEW e, NEW y, HasEdge(Q, n, e, y), n # x \/ e # "*"
         PROVE  HasEdge(new, n, e, y)
    <2>1. CASE n = x
      BY <1>4, <1>5, <1>7, <1>9, <1>10, <2>1 DEF HasEdge
    <2>2. CASE n # x
      BY <1>9, <1>10, <2>2 DEF HasEdge
    <2>3. QED
      BY <2>1, <2>2
  <1>11. HasEdge(new, x, "*", x)
    BY <1>5, <1>7, <1>9 DEF HasEdge
  <1>12. ASSUME NEW q \in 1 .. i
         PROVE  IF p[q] = "*" THEN HasEdge(new, nd[q], "*", nd[q]) ELSE HasEdge(new, nd[q - 1], p[q], nd[q])
    <2>1. CASE q = i
      BY <1>2, <1>11, <2>1
    <2>2. CASE q # i
      <3>1. q \in 1 .. i - 1 /\ q \in 0 .. Len(p) /\ q - 1 \in 0 .. Len(p) /\ i - 1 \in q .. Len(p)
            /\ i - 1 \in q - 1 .. Len(p) /\ 0 \in 0 .. Len(p) /\ q \in 0 .. Len(p)
        BY <1>1, <2>2
      <3>2. nd[q] \in Nat /\ nd[q - 1] \in Nat /\ nd[q] <= x /\ nd[q - 1] <= x
        BY <1>1, <3>1, WalkUp
      <3>3. nd[0] <= nd[q] /\ nd[0] <= nd[q - 1]
        BY <1>1, <3>1, WalkUp
      <3>4. nd[q] \in 1 .. Len(Q) /\ nd[q - 1] \in 1 .. Len(Q)
        BY <1>2, <1>3, <3>2, <3>3
      <3>5. IF p[q] = "*" THEN HasEdge(Q, nd[q], "*", nd[q]) ELSE HasEdge(Q, nd[q - 1], p[q], nd[q])
        BY <3>1 DEF Drawn
      <3>6. CASE p[q] = "*"
        <4>1. CASE nd[q] = x
          BY <1>11, <3>6, <4>1
        <4>2. CASE nd[q] # x
          BY <1>10, <3>4, <3>5, <3>6, <4>2
        <4>3. QED
          BY <4>1, <4>2
      <3>7. CASE p[q] # "*"
        BY <1>10, <3>4, <3>5, <3>7
      <3>8. QED
        BY <3>6, <3>7
    <2>3. QED
      BY <2>1, <2>2
  <1>13. ASSUME NEW j \in 1 .. Len(Q), NEW c \in DOMAIN new[j].edges
         PROVE  Known(p, nd, i, j, c, new[j].edges[c])
    <2>1. CASE j = x /\ c = "*"
      <3>1. new[j].edges[c] = x /\ i \in 1 .. i
        BY <1>5, <1>7, <1>9, <2>1
      <3>2. QED
        BY <1>2, <2>1, <3>1 DEF Known
    <2>2. CASE j # x \/ c # "*"
      <3>1. c \in DOMAIN Q[j].edges /\ new[j].edges[c] = Q[j].edges[c]
        <4>1. CASE j = x
          BY <1>4, <1>5, <1>7, <1>9, <2>2, <4>1
        <4>2. CASE j # x
          BY <1>9, <4>2
        <4>3. QED
          BY <4>1, <4>2
      <3>2. Known(p, nd, i - 1, j, c, Q[j].edges[c])
        BY <3>1 DEF Drawn
      <3>3. QED
        BY <1>1, <3>1, <3>2, KnownStays
    <2>3. QED
      BY <2>1, <2>2
  <1>14. ASSUME NEW j \in 1 .. Len(Q) PROVE new[j].final <=> i = Len(p) /\ i # 0 /\ j = nd[i]
    <2>1. CASE j = x
      BY <1>1, <1>2, <1>7, <1>9, <2>1
    <2>2. CASE j # x
      <3>1. Q[j].final <=> i - 1 = Len(p) /\ i - 1 # 0 /\ j = nd[i - 1]
        BY DEF Drawn
      <3>2. QED
        BY <1>2, <1>9, <2>2, <3>1
    <2>3. QED
      BY <2>1, <2>2
  <1>15. QED
    BY <1>2, <1>3, <1>9, <1>12, <1>13, <1>14 DEF Drawn

(* The new node of a character: after a "*" it has an edge to the root. *)
LEMMA NewPatternNode ==
  ASSUME NEW final \in BOOLEAN, NEW back \in BOOLEAN
  PROVE  \E a : /\ a = IF back THEN [Node(final) EXCEPT !.edges = Put(@, "*", 1)] ELSE Node(final)
               /\ a \in PatternNodes /\ a.final = final
               /\ \A c \in DOMAIN a.edges : back /\ c = "*" /\ a.edges[c] = 1
  <1>1. PICK fresh : fresh = Node(final)
    OBVIOUS
  <1>2. fresh \in PatternNodes /\ fresh.final = final /\ DOMAIN fresh.edges = {}
    BY <1>1, FreshNode
  <1>3. CASE ~ back
    BY <1>1, <1>2, <1>3
  <1>4. CASE back
    <2>1. "*" \in Labels
      BY DEF Labels
    <2>2. PICK f \in LabelMaps : f = fresh.edges
      BY <1>2, PatternNodeFields
    <2>3. PICK put : put = Put(f, "*", 1)
      OBVIOUS
    <2>4. put \in LabelMaps /\ DOMAIN put = {"*"} \union DOMAIN f /\ put["*"] = 1
      <3>1. 1 \in Nat
        OBVIOUS
      <3>2. HasPut(Put(f, "*", 1), f, "*", 1)
        BY <2>1, <3>1, PutIs
      <3>3. QED
        BY <2>3, <3>2 DEF HasPut
    <2>5. PICK a : a = [fresh EXCEPT !.edges = put]
      OBVIOUS
    <2>6. a \in PatternNodes /\ a.final = final /\ a.edges = put
      BY <1>2, <2>4, <2>5 DEF PatternNodes
    <2>7. a = [Node(final) EXCEPT !.edges = Put(@, "*", 1)]
      BY <1>1, <2>3, <2>5, <2>2
    <2>8. QED
      BY <1>2, <1>4, <2>4, <2>6, <2>7, <2>2
  <1>5. QED
    BY <1>3, <1>4

(* The node x of Q has an edge c to y, and the new node is as it should be.*)
IsLinked(Q, x, c, y, linked) == linked = [Q EXCEPT ![x].edges = Put(@, c, y)]

IsFresh(p, i, final, fresh) ==
    /\ fresh \in PatternNodes /\ fresh.final = final
    /\ \A c \in DOMAIN fresh.edges :
           (\E q \in 1 .. i - 1 : p[q] = "*") /\ c = "*" /\ fresh.edges[c] = 1

IsAdded(p, nd, i, Q, new, x, y, final, linked, fresh) ==
    /\ x = nd[i - 1] /\ y = Len(Q) + 1 /\ (final <=> i = Len(p))
    /\ IsLinked(Q, x, p[i], y, linked) /\ IsFresh(p, i, final, fresh) /\ new = Append(linked, fresh)

LEMMA CharacterDrawn ==
  ASSUME NEW p \in Seq(Labels), NEW nd, Walk(p, nd), NEW i \in 1 .. Len(p), p[i] # "*",
         NEW Q, Drawn(p, nd, i - 1, Q), NEW new, NEW x, NEW y, NEW final, NEW linked, NEW fresh,
         IsAdded(p, nd, i, Q, new, x, y, final, linked, fresh)
  PROVE  Drawn(p, nd, i, new) /\ nd[i] = y
  <1> x = nd[i - 1] /\ y = Len(Q) + 1 /\ (final <=> i = Len(p))
      /\ IsLinked(Q, x, p[i], y, linked) /\ IsFresh(p, i, final, fresh) /\ new = Append(linked, fresh)
    BY DEF IsAdded
  <1>1. Len(p) \in Nat /\ i - 1 \in 0 .. Len(p) /\ 0 \in 0 .. Len(p) /\ i # 0
    BY LenProperties
  <1>2. PICK c \in Labels : c = p[i] /\ c # "*"
    BY ElementOfSeq
  <1>3. nd[i] = x + 1 /\ x \in Nat /\ x >= 1 /\ nd[0] = 1
    <2>1. nd[0] = 1 /\ nd[i] = nd[i - 1] + 1
      BY DEF Walk
    <2>2. nd[0] <= nd[i - 1] /\ nd[i - 1] \in Nat
      BY <1>1, WalkUp
    <2>3. QED
      BY <2>1, <2>2
  <1>4. Q \in Seq(PatternNodes) /\ Len(Q) = x /\ x \in 1 .. Len(Q) /\ y = x + 1 /\ nd[i] = y /\ y \in Nat
    BY <1>3 DEF Drawn
  <1>5. PICK old, put : old = Q[x].edges /\ put = Put(old, c, y) /\ old \in LabelMaps /\ Q[x] \in PatternNodes
    <2>1. Q[x] \in PatternNodes
      BY <1>4, ElementOfSeq
    <2>2. QED
      BY <2>1, PatternNodeFields
  <1>6. /\ put \in LabelMaps /\ DOMAIN put = {c} \union DOMAIN old
        /\ put[c] = y /\ \A e \in DOMAIN old : e # c => put[e] = old[e]
    <2>1. y \in Nat /\ old \in LabelMaps
      BY <1>4, <1>5
    <2>2. HasPut(Put(old, c, y), old, c, y)
      BY <2>1, PutIs
    <2>3. QED
      BY <1>5, <2>2 DEF HasPut
  <1>7. PICK a : a = [Q[x] EXCEPT !.edges = put]
    OBVIOUS
  <1>8. a \in PatternNodes /\ a.final = Q[x].final /\ a.edges = put
    BY <1>5, <1>6, <1>7 DEF PatternNodes
  <1>9. linked = [Q EXCEPT ![x] = a]
    BY <1>5, <1>7, <1>2 DEF IsLinked
  <1>10. /\ linked \in Seq(PatternNodes) /\ Len(linked) = x /\ linked[x] = a
        /\ \A n \in 1 .. Len(Q) : n # x => linked[n] = Q[n]
    BY <1>4, <1>8, <1>9
  <1>11. /\ new \in Seq(PatternNodes) /\ Len(new) = x + 1 /\ new[x + 1] = fresh
         /\ \A n \in 1 .. x : new[n] = linked[n]
    BY <1>10, AppendProperties DEF IsFresh
  <1>12. /\ new[x] = a /\ new[y] = fresh /\ \A n \in 1 .. Len(Q) : n # x => new[n] = Q[n]
    BY <1>4, <1>10, <1>11
  <1>13. ASSUME NEW n \in 1 .. Len(Q), NEW e, NEW z, HasEdge(Q, n, e, z), n # x \/ e # c
         PROVE  HasEdge(new, n, e, z)
    <2>1. CASE n = x
      BY <1>5, <1>6, <1>8, <1>12, <1>13, <2>1 DEF HasEdge
    <2>2. CASE n # x
      BY <1>12, <1>13, <2>2 DEF HasEdge
    <2>3. QED
      BY <2>1, <2>2
  <1>14. HasEdge(new, x, c, y)
    BY <1>6, <1>8, <1>12 DEF HasEdge
  <1>15. ASSUME NEW q \in 1 .. i
         PROVE  IF p[q] = "*" THEN HasEdge(new, nd[q], "*", nd[q]) ELSE HasEdge(new, nd[q - 1], p[q], nd[q])
    <2>1. CASE q = i
      BY <1>1, <1>4, <1>14, <1>2, <2>1
    <2>2. CASE q # i
      <3>1. q \in 1 .. i - 1 /\ q \in 0 .. Len(p) /\ q - 1 \in 0 .. Len(p) /\ i - 1 \in q .. Len(p)
            /\ i - 1 \in q - 1 .. Len(p) /\ 0 \in 0 .. Len(p) /\ q \in 0 .. Len(p) /\ q \in 1 .. Len(p)
        BY <1>1, <2>2
      <3>2. nd[q] \in Nat /\ nd[q - 1] \in Nat /\ nd[q] <= x /\ nd[q - 1] <= x
        BY <1>1, <3>1, WalkUp
      <3>3. nd[0] <= nd[q] /\ nd[0] <= nd[q - 1]
        BY <1>1, <3>1, WalkUp
      <3>4. nd[q] \in 1 .. Len(Q) /\ nd[q - 1] \in 1 .. Len(Q)
        BY <1>3, <1>4, <3>2, <3>3
      <3>5. IF p[q] = "*" THEN HasEdge(Q, nd[q], "*", nd[q]) ELSE HasEdge(Q, nd[q - 1], p[q], nd[q])
        BY <3>1 DEF Drawn
      <3>6. CASE p[q] = "*"
        BY <1>13, <1>2, <3>4, <3>5, <3>6
      <3>7. CASE p[q] # "*"
        <4>1. nd[q] = nd[q - 1] + 1
          BY <3>1, <3>7 DEF Walk
        <4>2. nd[q - 1] # x
          BY <1>3, <3>2, <4>1
        <4>3. QED
          BY <1>13, <3>4, <3>5, <3>7, <4>2
      <3>8. QED
        BY <3>6, <3>7
    <2>3. QED
      BY <2>1, <2>2
  <1>16. ASSUME NEW j \in 1 .. y, NEW e \in DOMAIN new[j].edges
         PROVE  Known(p, nd, i, j, e, new[j].edges[e])
    <2>1. CASE j = y
      <3>1. e = "*" /\ new[j].edges[e] = 1
        BY <1>12, <2>1 DEF IsFresh
      <3>2. PICK g \in 1 .. i - 1 : p[g] = "*"
        BY <1>12, <2>1 DEF IsFresh
      <3>3. ASSUME NEW q \in 0 .. i, nd[q] = y PROVE g <= q
        <4>1. CASE q = i
          BY <4>1
        <4>2. CASE q # i
          <5>1. q \in 0 .. Len(p) /\ i - 1 \in q .. Len(p)
            BY <1>1, <4>2
          <5>2. nd[q] <= x /\ nd[q] \in Nat
            BY <1>1, <5>1, WalkUp
          <5>3. QED
            BY <1>3, <1>4, <3>3, <5>2
        <4>3. QED
          BY <4>1, <4>2
      <3>4. g \in 1 .. i
        OBVIOUS
      <3>5. QED
        BY <2>1, <3>1, <3>2, <3>3, <3>4 DEF Known
    <2>2. CASE j = x /\ e = c
      <3>1. new[j].edges[e] = y
        BY <1>6, <1>8, <1>12, <2>2
      <3>2. i \in 1 .. i
        BY <1>1
      <3>3. p[i] = e /\ e # "*" /\ nd[i - 1] = j /\ nd[i] = new[j].edges[e]
        BY <1>1, <1>2, <1>4, <2>2, <3>1
      <3>4. QED
        BY <3>3, <3>2 DEF Known
    <2>3. CASE j # y /\ (j # x \/ e # c)
      <3>1. j \in 1 .. Len(Q)
        BY <1>3, <1>4, <2>3
      <3>2. e \in DOMAIN Q[j].edges /\ new[j].edges[e] = Q[j].edges[e]
        <4>1. CASE j = x
          BY <1>5, <1>6, <1>8, <1>12, <2>3, <4>1
        <4>2. CASE j # x
          BY <1>12, <3>1, <4>2
        <4>3. QED
          BY <4>1, <4>2
      <3>3. Known(p, nd, i - 1, j, e, Q[j].edges[e])
        BY <3>1, <3>2 DEF Drawn
      <3>4. QED
        BY <1>1, <3>2, <3>3, KnownStays
    <2>4. QED
      BY <2>1, <2>2, <2>3
  <1>17. ASSUME NEW j \in 1 .. y PROVE new[j].final <=> i = Len(p) /\ i # 0 /\ j = nd[i]
    <2>1. CASE j = y
      BY <1>1, <1>4, <1>12, <2>1 DEF IsFresh
    <2>2. CASE j # y
      <3>1. j \in 1 .. Len(Q)
        BY <1>3, <1>4, <2>2
      <3>2. Q[j].final <=> i - 1 = Len(p) /\ i - 1 # 0 /\ j = nd[i - 1]
        BY <3>1 DEF Drawn
      <3>3. ~ Q[j].final
        BY <1>1, <3>2
      <3>4. new[j].final = Q[j].final
        BY <1>8, <1>12, <3>1
      <3>5. QED
        BY <1>4, <2>2, <3>3, <3>4
    <2>3. QED
      BY <2>1, <2>2
  <1>18. Len(new) = y
    BY <1>4, <1>11
  <1>19. QED
    BY <1>4, <1>11, <1>15, <1>16, <1>17, <1>18 DEF Drawn

LEMMA StepDrawn ==
  ASSUME NEW p \in Seq(Labels), NEW nd, Walk(p, nd), NEW i \in 1 .. Len(p),
         NEW s, Stage(p, nd, i - 1, s)
  PROVE  Stage(p, nd, i, AddCharacter(s, p[i], i = Len(p)))
  <1>1. PICK final : final = (i = Len(p))
    OBVIOUS
  <1>2. final \in BOOLEAN /\ (final <=> i = Len(p))
    BY <1>1
  <1>3. PICK x, Q, wild : x = s.node /\ Q = s.nodes /\ wild = s.wildcardFound
    OBVIOUS
  <1>4. x = nd[i - 1] /\ (wild <=> \E q \in 1 .. i - 1 : p[q] = "*") /\ Drawn(p, nd, i - 1, Q)
    BY <1>3 DEF Stage
  <1>5. CASE p[i] = "*"
    <2>1. PICK new : new = [Q EXCEPT ![x] = [final |-> final, edges |-> Put(@.edges, "*", x)]]
      OBVIOUS
    <2>2. Drawn(p, nd, i, new)
      BY <1>4, <1>5, <1>2, <2>1, StarDrawn
    <2>3. PICK d : d = [node |-> x, wildcardFound |-> TRUE, nodes |-> new]
      OBVIOUS
    <2>4. AddCharacter(s, p[i], i = Len(p)) = d
      BY <1>3, <1>5, <1>1, <2>1, <2>3 DEF AddCharacter
    <2>5. d.node = x /\ d.wildcardFound = TRUE /\ d.nodes = new
      BY <2>3
    <2>6. nd[i] = x
      BY <1>4, <1>5 DEF Walk
    <2>7. i \in 1 .. i
      BY LenProperties
    <2>8. Stage(p, nd, i, d)
      BY <1>5, <2>2, <2>5, <2>6, <2>7 DEF Stage
    <2>9. QED
      BY <2>4, <2>8
  <1>6. CASE p[i] # "*"
    <2>1. PICK y, linked : y = Len(Q) + 1 /\ linked = [Q EXCEPT ![x].edges = Put(@, p[i], y)]
      OBVIOUS
    <2>2. PICK back \in BOOLEAN : back <=> \E q \in 1 .. i - 1 : p[q] = "*"
      OBVIOUS
    <2>3. PICK fresh : /\ fresh = IF back THEN [Node(final) EXCEPT !.edges = Put(@, "*", 1)] ELSE Node(final)
                       /\ fresh \in PatternNodes /\ fresh.final = final
                       /\ \A c \in DOMAIN fresh.edges : back /\ c = "*" /\ fresh.edges[c] = 1
      BY <1>2, NewPatternNode
    <2>4. PICK new : new = Append(linked, fresh)
      OBVIOUS
    <2>5. Drawn(p, nd, i, new) /\ nd[i] = y
      <3>1. IsLinked(Q, x, p[i], y, linked) /\ IsFresh(p, i, final, fresh)
        BY <2>1, <2>2, <2>3 DEF IsLinked, IsFresh
      <3>2. IsAdded(p, nd, i, Q, new, x, y, final, linked, fresh)
        BY <1>2, <1>4, <2>1, <2>4, <3>1 DEF IsAdded
      <3>3. QED
        BY <1>4, <1>6, <3>2, CharacterDrawn
    <2>6. PICK d : d = [node |-> y, wildcardFound |-> wild, nodes |-> new]
      OBVIOUS
    <2>7. AddCharacter(s, p[i], i = Len(p)) = d
      <3>1. fresh = IF wild THEN [Node(final) EXCEPT !.edges = Put(@, "*", 1)] ELSE Node(final)
        BY <1>4, <2>2, <2>3
      <3>2. QED
        BY <1>3, <1>6, <1>1, <2>1, <2>4, <2>6, <3>1 DEF AddCharacter
    <2>8. d.node = y /\ d.wildcardFound = wild /\ d.nodes = new
      BY <2>6
    <2>9. (\E q \in 1 .. i - 1 : p[q] = "*") <=> \E q \in 1 .. i : p[q] = "*"
      <3>1. \A q : q \in 1 .. i <=> q = i \/ q \in 1 .. i - 1
        BY LenProperties
      <3>2. QED
        BY <1>6, <3>1
    <2>10. Stage(p, nd, i, d)
      BY <1>4, <2>5, <2>8, <2>9 DEF Stage
    <2>11. QED
      BY <2>7, <2>10
  <1>7. QED
    BY <1>5, <1>6

(* The token set of a pattern is drawn along its characters. *)
LEMMA FromStringIs ==
  ASSUME NEW p \in Seq(Labels)
  PROVE  \E nd, Q : /\ Walk(p, nd) /\ Drawn(p, nd, Len(p), Q)
                   /\ FromString(p).root = 1 /\ FromString(p).nodes = Q
  <1> DEFINE N == Len(p)
             first == [node |-> 1, wildcardFound |-> FALSE, nodes |-> <<Node(FALSE)>>]
             Step(F) == [i \in 0 .. N |-> IF i = 0 THEN first
                                         ELSE AddCharacter(F[i - 1], p[i], i = Len(p))]
             set == CHOOSE F : F = Step(F)
             Fits(F, m) == F[0] = first
                           /\ \A i \in 1 .. m : F[i] = AddCharacter(F[i - 1], p[i], i = Len(p))
             T == {m \in Nat : \E F : Fits(F, m)}
  <1>1. FromString(p) = [root |-> 1, nodes |-> set[N].nodes]
    BY DEF FromString
  <1>2. N \in Nat
    BY LenProperties
  <1> HIDE DEF first, N
  <1>3. 0 \in T
    <2>1. Fits([k \in {0} |-> first], 0)
      OBVIOUS
    <2>2. QED
      BY <2>1
  <1>4. ASSUME NEW m \in 1 .. N, m - 1 \in T PROVE m \in T
    <2>1. PICK F : Fits(F, m - 1)
      BY <1>4
    <2> DEFINE h == [k \in 0 .. m |-> IF k = m THEN AddCharacter(F[m - 1], p[m], m = Len(p)) ELSE F[k]]
    <2>2. h[m] = AddCharacter(F[m - 1], p[m], m = Len(p)) /\ \A k \in 0 .. m - 1 : h[k] = F[k]
      BY <1>2
    <2>3. m \in Nat /\ 0 \in 0 .. m - 1 /\ m - 1 \in 0 .. m - 1
      BY <1>2
    <2> HIDE DEF h
    <2>4. ASSUME NEW k \in 1 .. m PROVE h[k] = AddCharacter(h[k - 1], p[k], k = Len(p))
      <3>1. k - 1 \in 0 .. m - 1 /\ (k = m \/ (k \in 1 .. m - 1 /\ k \in 0 .. m - 1))
        BY <2>3
      <3>2. h[k - 1] = F[k - 1]
        BY <2>2, <3>1
      <3>3. CASE k = m
        BY <2>2, <3>2, <3>3
      <3>4. CASE k \in 1 .. m - 1 /\ k \in 0 .. m - 1
        BY <2>1, <2>2, <3>2, <3>4
      <3>5. QED
        BY <3>1, <3>3, <3>4
    <2>5. Fits(h, m)
      BY <2>1, <2>2, <2>3, <2>4
    <2>6. QED
      BY <2>3, <2>5
  <1>5. N \in T
    <2> HIDE DEF T
    <2>1. \A k \in 0 .. N : k \in T
      BY <1>2, <1>3, <1>4, Upwards
    <2>2. QED
      BY <1>2, <2>1
  <1>6. PICK F : Fits(F, N)
    BY <1>5
  <1> DEFINE h == [k \in 0 .. N |-> F[k]]
  <1>7. (\A k \in 0 .. N : h[k] = F[k]) /\ h = [k \in 0 .. N |-> h[k]]
    OBVIOUS
  <1> HIDE DEF h
  <1>8. ASSUME NEW k \in 0 .. N
        PROVE  h[k] = IF k = 0 THEN first ELSE AddCharacter(h[k - 1], p[k], k = Len(p))
    <2>1. k = 0 \/ (k \in 1 .. N /\ k - 1 \in 0 .. N)
      BY <1>2
    <2>2. QED
      BY <1>6, <1>7, <2>1
  <1>9. h = Step(h)
    BY <1>7, <1>8
  <1>10. set = Step(set)
    BY <1>9
  <1> HIDE DEF set, T
  <1>11. \A i \in 0 .. N : set[i] = IF i = 0 THEN first ELSE AddCharacter(set[i - 1], p[i], i = Len(p))
    BY <1>10, Zenon
  <1>12. PICK nd : Walk(p, nd)
    BY <1>2, SomeWalk DEF N
  <1> DEFINE W == {i \in Nat : Stage(p, nd, i, set[i])}
  <1>13. 0 \in W
    <2>1. PICK leaf : leaf = Node(FALSE) /\ leaf \in PatternNodes /\ ~ leaf.final /\ DOMAIN leaf.edges = {}
      BY FreshNode
    <2>2. PICK Q : Q = <<leaf>> /\ Q \in Seq(PatternNodes) /\ Len(Q) = 1 /\ Q[1] = leaf
      BY <2>1, OneCharacter
    <2>3. set[0] = [node |-> 1, wildcardFound |-> FALSE, nodes |-> Q]
      <3>1. set[0] = first
        BY <1>2, <1>11
      <3>2. QED
        BY <2>1, <2>2, <3>1 DEF first
    <2>4. nd[0] = 1 /\ 1 .. 0 = {} /\ \A j \in 1 .. 1 : j = 1
      BY <1>12 DEF Walk
    <2>5. Drawn(p, nd, 0, Q)
      BY <2>1, <2>2, <2>4 DEF Drawn
    <2>6. PICK s : s = set[0] /\ s.node = 1 /\ ~ s.wildcardFound /\ s.nodes = Q
      BY <2>3
    <2>7. Stage(p, nd, 0, s)
      BY <2>4, <2>5, <2>6 DEF Stage
    <2>8. QED
      BY <2>6, <2>7
  <1>14. ASSUME NEW i \in 1 .. N, i - 1 \in W PROVE i \in W
    <2>1. i \in 0 .. N /\ i # 0 /\ i \in 1 .. Len(p) /\ i \in Nat
      BY <1>2 DEF N
    <2>2. set[i] = AddCharacter(set[i - 1], p[i], i = Len(p))
      BY <1>11, <2>1
    <2>3. Stage(p, nd, i - 1, set[i - 1])
      BY <1>14
    <2>4. Stage(p, nd, i, AddCharacter(set[i - 1], p[i], i = Len(p)))
      BY <1>12, <2>1, <2>3, StepDrawn
    <2>5. QED
      BY <2>1, <2>2, <2>4
  <1>15. Stage(p, nd, N, set[N])
    <2> HIDE DEF W
    <2>1. \A k \in 0 .. N : k \in W
      BY <1>2, <1>13, <1>14, Upwards
    <2>2. N \in W
      BY <1>2, <2>1
    <2>3. QED
      BY <2>2 DEF W
  <1>16. PICK t, Q : Q = set[N].nodes /\ t = [root |-> 1, nodes |-> Q]
    OBVIOUS
  <1>17. t.root = 1 /\ t.nodes = Q /\ FromString(p) = t
    BY <1>1, <1>16
  <1>18. Drawn(p, nd, Len(p), Q)
    BY <1>15, <1>16 DEF Stage, N
  <1>19. QED
    BY <1>12, <1>17, <1>18

-----------------------------------------------------------------------------
(* How a pattern's token set may read a word: an edge "*" reads every      *)
(* character, so that a word may lead to several nodes.                    *)

ReadsOne(Q, x, c, y) == \E e \in DOMAIN Q[x].edges : (e = c \/ e = "*") /\ y = Q[x].edges[e]

MayRun(Q, V, q0, r, w, k) ==
    r \in [0 .. k -> V] /\ r[0] = q0 /\ \A i \in 1 .. k : ReadsOne(Q, r[i - 1], w[i], r[i])

(* The first k characters of the word may lead to y, of the nodes V, from q0. *)
MayLead(Q, V, q0, w, k, y) == \E r : MayRun(Q, V, q0, r, w, k) /\ r[k] = y

LEMMA MayStart ==
  ASSUME NEW Q, NEW V, NEW q0, NEW w, NEW y, q0 \in V
  PROVE  MayLead(Q, V, q0, w, 0, y) <=> y = q0
  <1>1. ASSUME MayLead(Q, V, q0, w, 0, y) PROVE y = q0
    BY <1>1 DEF MayLead, MayRun
  <1>2. PICK r : r = [i \in 0 .. 0 |-> q0]
    OBVIOUS
  <1>3. r \in [0 .. 0 -> V] /\ r[0] = q0 /\ 1 .. 0 = {}
    BY <1>2
  <1>4. MayRun(Q, V, q0, r, w, 0)
    BY <1>3 DEF MayRun
  <1>5. QED
    BY <1>1, <1>3, <1>4 DEF MayLead

LEMMA MayGoOn ==
  ASSUME NEW Q, NEW V, NEW q0, NEW w, NEW k \in Nat, NEW x, NEW y \in V, MayLead(Q, V, q0, w, k, x),
         ReadsOne(Q, x, w[k + 1], y)
  PROVE  MayLead(Q, V, q0, w, k + 1, y)
  <1>1. PICK r : MayRun(Q, V, q0, r, w, k) /\ r[k] = x
    BY DEF MayLead
  <1>2. r \in [0 .. k -> V] /\ r[0] = q0 /\ \A i \in 1 .. k : ReadsOne(Q, r[i - 1], w[i], r[i])
    BY <1>1 DEF MayRun
  <1>3. y \in V
    OBVIOUS
  <1> DEFINE s == [i \in 0 .. k + 1 |-> IF i = k + 1 THEN y ELSE r[i]]
  <1>4. s \in [0 .. k + 1 -> V]
    <2>1. \A i \in 0 .. k + 1 : i = k + 1 \/ i \in 0 .. k
      OBVIOUS
    <2>2. QED
      BY <1>2, <1>3, <2>1
  <1>5. s[k + 1] = y /\ \A i \in 0 .. k : s[i] = r[i]
    OBVIOUS
  <1> HIDE DEF s
  <1>6. s[0] = q0
    <2>1. 0 \in 0 .. k
      OBVIOUS
    <2>2. QED
      BY <1>2, <1>5, <2>1
  <1>7. ASSUME NEW i \in 1 .. k + 1 PROVE ReadsOne(Q, s[i - 1], w[i], s[i])
    <2>1. CASE i = k + 1
      <3>1. i - 1 = k /\ s[i - 1] = x /\ s[i] = y
        <4>1. k \in 0 .. k /\ i - 1 = k
          BY <2>1
        <4>2. QED
          BY <1>1, <1>5, <2>1, <4>1
      <3>2. QED
        BY <2>1, <3>1
    <2>2. CASE i # k + 1
      <3>1. i \in 1 .. k /\ i \in 0 .. k /\ i - 1 \in 0 .. k
        BY <2>2
      <3>2. QED
        BY <1>2, <1>5, <3>1
    <2>3. QED
      BY <2>1, <2>2
  <1>8. MayRun(Q, V, q0, s, w, k + 1)
    BY <1>4, <1>6, <1>7 DEF MayRun
  <1>9. QED
    BY <1>5, <1>8 DEF MayLead

LEMMA MayGoBack ==
  ASSUME NEW Q, NEW V, NEW q0, NEW w, NEW k \in Nat, NEW y, MayLead(Q, V, q0, w, k + 1, y)
  PROVE  y \in V /\ \E x \in V : MayLead(Q, V, q0, w, k, x) /\ ReadsOne(Q, x, w[k + 1], y)
  <1>1. PICK r : MayRun(Q, V, q0, r, w, k + 1) /\ r[k + 1] = y
    BY DEF MayLead
  <1>2. r \in [0 .. k + 1 -> V] /\ r[0] = q0
        /\ \A i \in 1 .. k + 1 : ReadsOne(Q, r[i - 1], w[i], r[i])
    BY <1>1 DEF MayRun
  <1>3. k \in 0 .. k /\ k \in 0 .. k + 1 /\ k + 1 \in 0 .. k + 1 /\ k + 1 \in 1 .. k + 1 /\ (k + 1) - 1 = k
        /\ 0 \in 0 .. k
    OBVIOUS
  <1> DEFINE s == [i \in 0 .. k |-> r[i]]
  <1>4. s \in [0 .. k -> V] /\ \A i \in 0 .. k : s[i] = r[i]
    <2>1. \A i \in 0 .. k : i \in 0 .. k + 1
      OBVIOUS
    <2>2. QED
      BY <1>2, <2>1
  <1> HIDE DEF s
  <1>5. ASSUME NEW i \in 1 .. k PROVE ReadsOne(Q, s[i - 1], w[i], s[i])
    <2>1. i \in 1 .. k + 1 /\ i \in 0 .. k /\ i - 1 \in 0 .. k
      OBVIOUS
    <2>2. QED
      BY <1>2, <1>4, <2>1
  <1>6. s[0] = q0
    BY <1>2, <1>3, <1>4
  <1>7. MayRun(Q, V, q0, s, w, k)
    BY <1>4, <1>5, <1>6 DEF MayRun
  <1>8. MayLead(Q, V, q0, w, k, s[k])
    BY <1>7 DEF MayLead
  <1>9. s[k] \in V /\ s[k] = r[k]
    BY <1>3, <1>4
  <1>10. ReadsOne(Q, r[k], w[k + 1], y)
    <2>1. ReadsOne(Q, r[(k + 1) - 1], w[k + 1], r[k + 1])
      BY <1>2, <1>3
    <2>2. QED
      BY <1>1, <1>3, <2>1
  <1>11. y \in V
    BY <1>1, <1>2, <1>3
  <1>12. QED
    BY <1>8, <1>9, <1>10, <1>11

(* Where a word may lead depends on the characters read only. *)
LEMMA MayLeadSame ==
  ASSUME NEW Q, NEW V, NEW q0, NEW v, NEW w, NEW k \in Nat, \A i \in 1 .. k : v[i] = w[i], NEW y
  PROVE  MayLead(Q, V, q0, v, k, y) <=> MayLead(Q, V, q0, w, k, y)
  BY DEF MayLead, MayRun

LEMMA StarLoops ==
  ASSUME NEW Q, NEW w, NEW x \in 1 .. Len(Q), HasEdge(Q, x, "*", x), NEW j \in Nat, NEW k \in Nat,
         j <= k, MayLead(Q, 1 .. Len(Q), 1, w, j, x)
  PROVE  MayLead(Q, 1 .. Len(Q), 1, w, k, x)
  <1> DEFINE D == k - j
             T == {d \in Nat : MayLead(Q, 1 .. Len(Q), 1, w, j + d, x)}
  <1>1. D \in Nat /\ j + D = k /\ j + 0 = j
    OBVIOUS
  <1>2. 0 \in T
    BY <1>1
  <1>3. ASSUME NEW d \in 1 .. D, d - 1 \in T PROVE d \in T
    <2>1. PICK n \in Nat : n = j + (d - 1) /\ n + 1 = j + d /\ d \in Nat
      OBVIOUS
    <2>2. MayLead(Q, 1 .. Len(Q), 1, w, n, x)
      BY <1>3, <2>1
    <2>3. ReadsOne(Q, x, w[n + 1], x)
      BY DEF HasEdge, ReadsOne
    <2>4. MayLead(Q, 1 .. Len(Q), 1, w, n + 1, x)
      BY <2>2, <2>3, MayGoOn
    <2>5. QED
      BY <2>1, <2>4
  <1>4. D \in T
    <2> HIDE DEF T, D
    <2>1. \A d \in 0 .. D : d \in T
      BY <1>1, <1>2, <1>3, Upwards
    <2>2. D \in 0 .. D
      BY <1>1
    <2>3. QED
      BY <2>1, <2>2
  <1>5. QED
    BY <1>1, <1>4

(* A pattern with its walk, its nodes, and what it matches of a word. *)
IsPattern(p, nd, Q, w, M) ==
    /\ p \in Seq(Labels) /\ Len(p) \in Nat /\ Len(w) \in Nat
    /\ Walk(p, nd) /\ Drawn(p, nd, Len(p), Q) /\ MatchSets(p, w, M)

LEMMA WalkInside ==
  ASSUME NEW p, NEW nd, NEW Q, NEW w, NEW M, IsPattern(p, nd, Q, w, M)
  PROVE  /\ Len(p) \in Nat /\ Len(w) \in Nat /\ Len(Q) = nd[Len(p)] /\ Len(Q) \in Nat /\ Len(Q) >= 1
         /\ \A i \in 0 .. Len(p) : nd[i] \in 1 .. Len(Q)
         /\ \A i \in 0 .. Len(p) : M[i] \subseteq 0 .. Len(w)
  <1>1. Len(p) \in Nat /\ Len(w) \in Nat /\ Walk(p, nd) /\ MatchSets(p, w, M) /\ Drawn(p, nd, Len(p), Q)
    BY DEF IsPattern
  <1>2. Len(Q) = nd[Len(p)] /\ nd[0] = 1
    BY <1>1 DEF Drawn, Walk
  <1>3. ASSUME NEW i \in 0 .. Len(p)
        PROVE  nd[i] \in Nat /\ nd[i] >= 1 /\ nd[i] <= Len(Q) /\ Len(Q) \in Nat
    <2>1. 0 \in 0 .. Len(p) /\ i \in 0 .. Len(p) /\ Len(p) \in i .. Len(p)
      BY <1>1
    <2>2. nd[0] <= nd[i] /\ nd[i] \in Nat
      BY <1>1, <2>1, WalkUp
    <2>3. nd[i] <= nd[Len(p)] /\ nd[Len(p)] \in Nat
      BY <1>1, <2>1, WalkUp
    <2>4. QED
      BY <1>2, <2>2, <2>3
  <1>4. Len(Q) \in Nat /\ Len(Q) >= 1
    <2>1. 0 \in 0 .. Len(p)
      BY <1>1
    <2>2. nd[0] >= 1 /\ nd[0] <= Len(Q) /\ Len(Q) \in Nat
      BY <1>3, <2>1
    <2>3. QED
      BY <1>2, <2>2
  <1>5. \A i \in 0 .. Len(p) : nd[i] \in 1 .. Len(Q)
    BY <1>3
  <1>6. \A i \in 0 .. Len(p) : M[i] \subseteq 0 .. Len(w)
    BY <1>1 DEF MatchSets
  <1>7. QED
    BY <1>1, <1>2, <1>4, <1>5, <1>6

(* What a beginning of the pattern matches may lead to its node. *)
LEMMA MatchedLeads ==
  ASSUME NEW p, NEW nd, NEW Q, NEW w, NEW M, IsPattern(p, nd, Q, w, M)
  PROVE  \A i \in 0 .. Len(p) : \A k \in M[i] : MayLead(Q, 1 .. Len(Q), 1, w, k, nd[i])
  <1> DEFINE N == Len(p)
             T == {i \in Nat : \A k \in M[i] : MayLead(Q, 1 .. Len(Q), 1, w, k, nd[i])}
  <1>1. /\ N \in Nat /\ Len(w) \in Nat /\ Len(Q) \in Nat /\ Len(Q) >= 1
        /\ \A i \in 0 .. N : nd[i] \in 1 .. Len(Q) /\ M[i] \subseteq 0 .. Len(w)
    BY WalkInside
  <1>2. Walk(p, nd) /\ Drawn(p, nd, N, Q) /\ MatchSets(p, w, M)
    BY DEF IsPattern
  <1>3. 0 \in T
    <2>1. M[0] = {0} /\ nd[0] = 1
      BY <1>2 DEF MatchSets, Walk
    <2>2. MayLead(Q, 1 .. Len(Q), 1, w, 0, 1)
      BY <1>1, MayStart
    <2>3. QED
      BY <2>1, <2>2
  <1>4. ASSUME NEW i \in 1 .. N, i - 1 \in T PROVE i \in T
    <2>1. i \in 0 .. N /\ i - 1 \in 0 .. N /\ i \in Nat
      BY <1>1
    <2>2. SUFFICES ASSUME NEW k \in M[i] PROVE MayLead(Q, 1 .. Len(Q), 1, w, k, nd[i])
      BY <2>1
    <2>3. k \in 0 .. Len(w) /\ nd[i] \in 1 .. Len(Q) /\ nd[i - 1] \in 1 .. Len(Q)
      BY <1>1, <2>1
    <2>4. ASSUME NEW j \in M[i - 1] PROVE MayLead(Q, 1 .. Len(Q), 1, w, j, nd[i - 1]) /\ j \in 0 .. Len(w)
      BY <1>1, <1>4, <2>1
    <2>5. CASE p[i] = "*"
      <3>1. PICK j \in M[i - 1] : j <= k
        BY <1>2, <2>3, <2>5 DEF MatchSets
      <3>2. nd[i] = nd[i - 1] /\ HasEdge(Q, nd[i], "*", nd[i])
        BY <1>2, <2>5 DEF Walk, Drawn
      <3>3. MayLead(Q, 1 .. Len(Q), 1, w, j, nd[i]) /\ j \in Nat /\ k \in Nat
        BY <2>3, <2>4, <3>1, <3>2
      <3>4. QED
        BY <2>3, <3>1, <3>2, <3>3, StarLoops
    <2>6. CASE p[i] # "*"
      <3>1. k >= 1 /\ k - 1 \in M[i - 1] /\ w[k] = p[i]
        BY <1>2, <2>3, <2>6 DEF MatchSets
      <3>2. HasEdge(Q, nd[i - 1], p[i], nd[i])
        BY <1>2, <2>6 DEF Drawn
      <3>3. PICK j \in Nat : j = k - 1 /\ j + 1 = k
        BY <2>3, <3>1
      <3>4. ReadsOne(Q, nd[i - 1], w[j + 1], nd[i])
        BY <3>1, <3>2, <3>3 DEF HasEdge, ReadsOne
      <3>5. MayLead(Q, 1 .. Len(Q), 1, w, j, nd[i - 1])
        BY <2>4, <3>1, <3>3
      <3>6. MayLead(Q, 1 .. Len(Q), 1, w, j + 1, nd[i])
        BY <2>3, <3>4, <3>5, MayGoOn
      <3>7. QED
        BY <3>3, <3>6
    <2>7. QED
      BY <2>5, <2>6
  <1>5. QED
    <2> HIDE DEF T, N
    <2>1. \A i \in 0 .. N : i \in T
      BY <1>1, <1>3, <1>4, Upwards
    <2>2. QED
      BY <2>1 DEF T, N

(* A node stands for no more than what is matched by then: an edge back to *)
(* the root reads what the "*" before it could have read.                  *)
Ahead(p, nd, M, j, k) ==
    \E i \in 0 .. Len(p) : k \in M[i] /\ (nd[i] = j \/ (i >= 1 /\ p[i] = "*" /\ nd[i] > j))

LEMMA StaysAhead ==
  ASSUME NEW p, NEW nd, NEW Q, NEW w, NEW M, IsPattern(p, nd, Q, w, M),
         NEW k \in Nat, k + 1 <= Len(w), NEW j \in 1 .. Len(Q), NEW y \in 1 .. Len(Q),
         Ahead(p, nd, M, j, k), ReadsOne(Q, j, w[k + 1], y)
  PROVE  Ahead(p, nd, M, y, k + 1)
  <1> DEFINE N == Len(p)
  <1>1. /\ N \in Nat /\ Len(w) \in Nat /\ Len(Q) \in Nat
        /\ \A i \in 0 .. N : nd[i] \in 1 .. Len(Q) /\ M[i] \subseteq 0 .. Len(w)
    BY WalkInside
  <1>2. Walk(p, nd) /\ Drawn(p, nd, N, Q) /\ MatchSets(p, w, M) /\ p \in Seq(Labels)
    BY DEF IsPattern
  <1>3. PICK i \in 0 .. N : k \in M[i] /\ (nd[i] = j \/ (i >= 1 /\ p[i] = "*" /\ nd[i] > j))
    BY DEF Ahead
  <1>4. PICK e \in DOMAIN Q[j].edges : (e = w[k + 1] \/ e = "*") /\ y = Q[j].edges[e]
    BY DEF ReadsOne
  <1>5. Known(p, nd, N, j, e, y)
    BY <1>2, <1>4 DEF Drawn
  <1>6. ASSUME NEW g \in 1 .. N, p[g] = "*", NEW c \in M[g], c <= k + 1 PROVE k + 1 \in M[g]
    <2>1. g \in 0 .. N
      BY <1>1
    <2>2. c \in 0 .. Len(w)
      BY <1>1, <2>1
    <2>3. k + 1 \in c .. Len(w)
      BY <1>1, <1>6, <2>2
    <2>4. QED
      BY <1>1, <1>2, <1>6, <2>3, StarTakes
  <1>7. CASE i >= 1 /\ p[i] = "*" /\ nd[i] > j
    <2>1. y <= nd[i]
      <3>1. CASE \E q \in 1 .. N : p[q] = e /\ e # "*" /\ nd[q - 1] = j /\ nd[q] = y
        <4>1. PICK q \in 1 .. N : p[q] # "*" /\ nd[q - 1] = j /\ nd[q] = y
          BY <3>1
        <4>2. y = j + 1
          BY <1>2, <4>1 DEF Walk
        <4>3. nd[i] \in Nat
          BY <1>1
        <4>4. QED
          BY <1>1, <1>7, <4>2, <4>3
      <3>2. CASE y = j \/ y = 1
        <4>1. nd[i] \in Nat
          BY <1>1
        <4>2. QED
          BY <1>1, <1>7, <3>2, <4>1
      <3>3. QED
        BY <1>5, <3>1, <3>2 DEF Known
    <2>2. i \in 1 .. N /\ k <= k + 1
      BY <1>1, <1>7
    <2>3. k + 1 \in M[i]
      BY <1>3, <1>6, <1>7, <2>2
    <2>4. nd[i] = y \/ nd[i] > y
      BY <1>1, <2>1
    <2>5. QED
      BY <1>7, <2>2, <2>3, <2>4 DEF Ahead
  <1>8. CASE nd[i] = j
    <2>1. CASE \E q \in 1 .. N : p[q] = e /\ e # "*" /\ nd[q - 1] = j /\ nd[q] = y
      <3>1. PICK q \in 1 .. N : p[q] = e /\ e # "*" /\ nd[q - 1] = j /\ nd[q] = y
        BY <2>1
      <3>2. q \in 0 .. N /\ q - 1 \in 0 .. N
        BY <1>1
      <3>3. y = j + 1
        BY <1>2, <3>1 DEF Walk
      <3>4. i <= q - 1
        <4>1. SUFFICES ASSUME i >= q PROVE FALSE
          BY <1>1
        <4>2. i \in q .. N
          BY <1>1, <4>1
        <4>3. nd[q] <= nd[i]
          BY <1>1, <1>2, <3>2, <4>2, WalkUp
        <4>4. QED
          BY <1>1, <1>8, <3>1, <3>3, <4>3
      <3>5. q - 1 \in i .. N
        BY <1>1, <3>4
      <3>6. \A n \in i + 1 .. q - 1 : p[n] = "*"
        BY <1>1, <1>2, <1>8, <3>1, <3>5, WalkUp
      <3>7. k \in M[q - 1]
        BY <1>1, <1>2, <1>3, <3>5, <3>6, StarsSkipped
      <3>8. k + 1 \in M[q]
        <4>1. k + 1 \in 0 .. Len(w) /\ k + 1 >= 1 /\ (k + 1) - 1 = k
          BY <1>1
        <4>2. w[k + 1] = p[q] /\ p[q] # "*"
          BY <1>4, <3>1
        <4>3. QED
          BY <1>2, <3>7, <4>1, <4>2 DEF MatchSets
      <3>9. QED
        BY <3>1, <3>2, <3>8 DEF Ahead
    <2>2. CASE y = j /\ \E q \in 1 .. N : p[q] = "*" /\ nd[q] = j
      <3>1. PICK q \in 1 .. N : p[q] = "*" /\ nd[q] = j
        BY <2>2
      <3>2. q \in 0 .. N /\ k <= k + 1
        BY <1>1
      <3>3. CASE i <= q
        <4>1. q \in i .. N
          BY <1>1, <3>3
        <4>2. \A n \in i + 1 .. q : p[n] = "*"
          BY <1>1, <1>2, <1>8, <3>1, <4>1, WalkUp
        <4>3. k \in M[q]
          BY <1>1, <1>2, <1>3, <4>1, <4>2, StarsSkipped
        <4>4. k + 1 \in M[q]
          BY <1>6, <3>1, <3>2, <4>3
        <4>5. QED
          BY <2>2, <3>1, <3>2, <4>4 DEF Ahead
      <3>4. CASE i > q
        <4>1. i \in q .. N /\ i \in 1 .. N /\ i \in q + 1 .. i
          BY <1>1, <3>4
        <4>2. \A n \in q + 1 .. i : p[n] = "*"
          BY <1>1, <1>2, <1>8, <3>1, <3>2, <4>1, WalkUp
        <4>3. k + 1 \in M[i]
          BY <1>3, <1>6, <3>2, <4>1, <4>2
        <4>4. QED
          BY <1>8, <2>2, <4>3 DEF Ahead
      <3>5. QED
        BY <1>1, <3>3, <3>4
    <2>3. CASE y = 1 /\ \E g \in 1 .. N : p[g] = "*" /\ \A q \in 0 .. N : nd[q] = j => g <= q
      <3>1. PICK g \in 1 .. N : p[g] = "*" /\ \A q \in 0 .. N : nd[q] = j => g <= q
        BY <2>3
      <3>2. g \in 0 .. N /\ i \in g .. N /\ g >= 1
        BY <1>1, <1>8, <3>1
      <3>3. PICK c \in M[g] : c <= k
        BY <1>1, <1>2, <1>3, <3>2, MatchedBefore
      <3>4. c \in 0 .. Len(w) /\ c <= k + 1
        <4>1. c \in 0 .. Len(w)
          BY <1>1, <3>2
        <4>2. QED
          BY <1>1, <3>3, <4>1
      <3>5. k + 1 \in M[g]
        BY <1>6, <3>1, <3>4
      <3>6. nd[g] = 1 \/ nd[g] > 1
        BY <1>1, <3>2
      <3>7. QED
        BY <2>3, <3>1, <3>2, <3>5, <3>6 DEF Ahead
    <2>4. QED
      BY <1>5, <2>1, <2>2, <2>3 DEF Known
  <1>9. QED
    BY <1>3, <1>7, <1>8

(* A pattern's token set accepts the words that match it. *)
LEMMA PatternAccepts ==
  ASSUME NEW p, NEW nd, NEW Q, NEW w, NEW M, IsPattern(p, nd, Q, w, M), Len(w) # 0
  PROVE  (\E y \in 1 .. Len(Q) : MayLead(Q, 1 .. Len(Q), 1, w, Len(w), y) /\ Q[y].final) <=> Len(w) \in M[Len(p)]
  <1> DEFINE N == Len(p)
             L == Len(w)
  <1>1. /\ N \in Nat /\ L \in Nat /\ Len(Q) \in Nat /\ Len(Q) >= 1 /\ Len(Q) = nd[N]
        /\ \A i \in 0 .. N : nd[i] \in 1 .. Len(Q) /\ M[i] \subseteq 0 .. L
    BY WalkInside
  <1>2. Walk(p, nd) /\ Drawn(p, nd, N, Q) /\ MatchSets(p, w, M) /\ p \in Seq(Labels)
    BY DEF IsPattern
  <1>3. N \in 0 .. N /\ L \in 0 .. L
    BY <1>1
  <1>4. ASSUME L \in M[N] PROVE \E y \in 1 .. Len(Q) : MayLead(Q, 1 .. Len(Q), 1, w, L, y) /\ Q[y].final
    <2>1. MayLead(Q, 1 .. Len(Q), 1, w, L, nd[N]) /\ nd[N] \in 1 .. Len(Q)
      BY <1>1, <1>3, <1>4, MatchedLeads
    <2>2. N # 0
      BY <1>2, <1>4 DEF MatchSets
    <2>3. Q[nd[N]].final
      BY <1>2, <2>1, <2>2 DEF Drawn
    <2>4. QED
      BY <2>1, <2>3
  <1> DEFINE T == {k \in Nat : \A j \in 1 .. Len(Q) : MayLead(Q, 1 .. Len(Q), 1, w, k, j) => Ahead(p, nd, M, j, k)}
  <1>5. 0 \in T
    <2>1. ASSUME NEW j \in 1 .. Len(Q), MayLead(Q, 1 .. Len(Q), 1, w, 0, j) PROVE Ahead(p, nd, M, j, 0)
      <3>1. j = 1 /\ 0 \in 0 .. N
        BY <1>1, <2>1, MayStart
      <3>2. nd[0] = 1 /\ 0 \in M[0]
        BY <1>2 DEF Walk, MatchSets
      <3>3. QED
        BY <3>1, <3>2 DEF Ahead
    <2>2. QED
      BY <2>1
  <1>6. ASSUME NEW k \in 1 .. L, k - 1 \in T PROVE k \in T
    <2>1. PICK n \in Nat : n = k - 1 /\ n + 1 = k /\ n + 1 <= L /\ k \in Nat
      BY <1>1
    <2>2. ASSUME NEW y \in 1 .. Len(Q), MayLead(Q, 1 .. Len(Q), 1, w, n + 1, y) PROVE Ahead(p, nd, M, y, n + 1)
      <3>1. PICK x \in 1 .. Len(Q) : MayLead(Q, 1 .. Len(Q), 1, w, n, x) /\ ReadsOne(Q, x, w[n + 1], y)
        BY <2>2, MayGoBack
      <3>2. Ahead(p, nd, M, x, n)
        BY <1>6, <2>1, <3>1
      <3>3. QED
        BY <2>1, <3>1, <3>2, StaysAhead
    <2>3. QED
      BY <2>1, <2>2
  <1>7. ASSUME NEW y \in 1 .. Len(Q), MayLead(Q, 1 .. Len(Q), 1, w, L, y), Q[y].final PROVE L \in M[N]
    <2>1. L \in T
      <3> HIDE DEF T, L
      <3>1. \A k \in 0 .. L : k \in T
        BY <1>1, <1>5, <1>6, Upwards
      <3>2. QED
        BY <1>3, <3>1
    <2>2. PICK i \in 0 .. N : L \in M[i] /\ (nd[i] = y \/ (i >= 1 /\ p[i] = "*" /\ nd[i] > y))
      BY <1>7, <2>1 DEF Ahead
    <2>3. y = nd[N]
      BY <1>2, <1>7 DEF Drawn
    <2>4. N \in i .. N
      BY <1>1
    <2>5. nd[i] <= nd[N] /\ nd[i] \in Nat /\ nd[N] \in Nat
      BY <1>1, <1>2, <2>4, WalkUp
    <2>6. nd[i] = nd[N]
      BY <2>2, <2>3, <2>5
    <2>7. \A q \in i + 1 .. N : p[q] = "*"
      BY <1>1, <1>2, <2>4, <2>6, WalkUp
    <2>8. QED
      BY <1>1, <1>2, <2>2, <2>4, <2>7, StarsSkipped
  <1>8. QED
    BY <1>4, <1>7

-----------------------------------------------------------------------------
(* The intersection: the words that lead on in both sets. *)

QClosed(Q, V, q0) ==
    /\ q0 \in V
    /\ \A y \in V : \A e \in DOMAIN Q[y].edges : Q[y].edges[e] \in V

LEMMA PatternIsClosed ==
  ASSUME NEW p, NEW nd, NEW Q, NEW w, NEW M, IsPattern(p, nd, Q, w, M)
  PROVE  QClosed(Q, 1 .. Len(Q), 1)
  <1> DEFINE N == Len(p)
  <1>1. /\ N \in Nat /\ Len(Q) \in Nat /\ Len(Q) >= 1
        /\ \A i \in 0 .. N : nd[i] \in 1 .. Len(Q)
    BY WalkInside
  <1>2. Drawn(p, nd, N, Q)
    BY DEF IsPattern
  <1>3. ASSUME NEW y \in 1 .. Len(Q), NEW e \in DOMAIN Q[y].edges
        PROVE  Q[y].edges[e] \in 1 .. Len(Q)
    <2>1. Known(p, nd, N, y, e, Q[y].edges[e])
      BY <1>2 DEF Drawn
    <2>2. 1 \in 1 .. Len(Q) /\ \A q \in 1 .. N : nd[q] \in 1 .. Len(Q)
      BY <1>1
    <2>3. QED
      BY <2>1, <2>2 DEF Known
  <1>4. 1 \in 1 .. Len(Q)
    BY <1>1
  <1>5. QED
    BY <1>3, <1>4 DEF QClosed

(* The word u leads on by the character c, in both. *)
BothOn(nodes, Q, V, q0, u, n, y, c, d) ==
    /\ u \in Seq(Letters) /\ n \in 1 .. Len(nodes) /\ y \in V
    /\ Leads(nodes, 1, u, n) /\ MayLead(Q, V, q0, u, Len(u), y)
    /\ c \in DOMAIN nodes[n].edges /\ d \in DOMAIN Q[y].edges /\ (c = d \/ d = "*")

LEMMA BothLeadOn ==
  ASSUME NEW nodes, Closed(nodes), Len(nodes) >= 1, NEW Q, NEW V, NEW q0, QClosed(Q, V, q0), NEW u, NEW n, NEW y, NEW c, NEW d,
         BothOn(nodes, Q, V, q0, u, n, y, c, d)
  PROVE  /\ Append(u, c) \in Seq(Letters) /\ Len(Append(u, c)) = Len(u) + 1 /\ Len(u) \in Nat
         /\ nodes[n].edges[c] \in 1 .. Len(nodes) /\ Q[y].edges[d] \in V
         /\ Leads(nodes, 1, Append(u, c), nodes[n].edges[c])
         /\ MayLead(Q, V, q0, Append(u, c), Len(u) + 1, Q[y].edges[d])
  <1>1. /\ u \in Seq(Letters) /\ n \in 1 .. Len(nodes) /\ y \in V
        /\ Leads(nodes, 1, u, n) /\ MayLead(Q, V, q0, u, Len(u), y)
        /\ c \in DOMAIN nodes[n].edges /\ d \in DOMAIN Q[y].edges /\ (c = d \/ d = "*")
    BY DEF BothOn
  <1>2. 1 \in 1 .. Len(nodes)
    BY LenProperties DEF Closed
  <1>3. /\ c \in Letters /\ nodes[n].edges[c] \in 1 .. Len(nodes)
        /\ Append(u, c) \in Seq(Letters) /\ Len(Append(u, c)) = Len(u) + 1
        /\ Leads(nodes, 1, Append(u, c), nodes[n].edges[c])
    BY <1>1, <1>2, LeadsOn
  <1>4. PICK w : w = Append(u, c)
    OBVIOUS
  <1>5. Len(u) \in Nat /\ w[Len(u) + 1] = c /\ \A i \in 1 .. Len(u) : u[i] = w[i]
    <2>1. Len(u) \in Nat
      BY <1>1, LenProperties
    <2>2. QED
      BY <1>1, <1>3, <1>4, <2>1, AppendProperties
  <1>6. PICK z \in V : z = Q[y].edges[d]
    BY <1>1 DEF QClosed
  <1>7. MayLead(Q, V, q0, w, Len(u), y)
    BY <1>1, <1>5, MayLeadSame
  <1>8. ReadsOne(Q, y, w[Len(u) + 1], z)
    BY <1>1, <1>5, <1>6 DEF ReadsOne
  <1>9. MayLead(Q, V, q0, w, Len(u) + 1, z)
    BY <1>5, <1>7, <1>8, MayGoOn
  <1>10. QED
    BY <1>3, <1>4, <1>5, <1>6, <1>9

BothStep(nodes, Q, V, q0, w, n, y, u, m, x, c, d) ==
    /\ BothOn(nodes, Q, V, q0, u, m, x, c, d) /\ Len(w) = Len(u) + 1 /\ Len(u) \in Nat
    /\ w = Append(u, c) /\ n = nodes[m].edges[c] /\ y = Q[x].edges[d]

LEMMA BothLeadBack ==
  ASSUME NEW nodes, Closed(nodes), Len(nodes) >= 1, NEW Q, NEW V, NEW q0, NEW w \in Seq(Letters), Len(w) # 0,
         NEW n, NEW y, Leads(nodes, 1, w, n), MayLead(Q, V, q0, w, Len(w), y)
  PROVE  \E u, m, x, c, d : BothStep(nodes, Q, V, q0, w, n, y, u, m, x, c, d)
  <1>1. 1 \in 1 .. Len(nodes)
    BY LenProperties DEF Closed
  <1>2. PICK u, m, c : IsStep(nodes, 1, w, n, u, m, c)
    BY <1>1, LeadsBack
  <1>3. /\ u \in Seq(Letters) /\ m \in 1 .. Len(nodes) /\ Leads(nodes, 1, u, m) /\ Len(w) = Len(u) + 1
        /\ c \in DOMAIN nodes[m].edges /\ w = Append(u, c) /\ n = nodes[m].edges[c]
    BY <1>2 DEF IsStep
  <1>4. Len(u) \in Nat /\ c \in Letters
    <2>1. c \in Letters
      BY <1>3 DEF Closed
    <2>2. QED
      BY <1>3, <2>1, LenProperties
  <1>5. w[Len(u) + 1] = c /\ \A i \in 1 .. Len(u) : u[i] = w[i]
    BY <1>3, <1>4, AppendProperties
  <1>6. PICK x \in V : MayLead(Q, V, q0, w, Len(u), x) /\ ReadsOne(Q, x, w[Len(u) + 1], y)
    <2>1. MayLead(Q, V, q0, w, Len(u) + 1, y)
      BY <1>3
    <2>2. QED
      BY <1>4, <2>1, MayGoBack
  <1>7. MayLead(Q, V, q0, u, Len(u), x)
    BY <1>4, <1>5, <1>6, MayLeadSame
  <1>8. PICK d \in DOMAIN Q[x].edges : (d = c \/ d = "*") /\ y = Q[x].edges[d]
    BY <1>5, <1>6 DEF ReadsOne
  <1>9. BothOn(nodes, Q, V, q0, u, m, x, c, d)
    BY <1>3, <1>6, <1>7, <1>8 DEF BothOn
  <1>10. BothStep(nodes, Q, V, q0, w, n, y, u, m, x, c, d)
    BY <1>3, <1>4, <1>8, <1>9 DEF BothStep
  <1>11. QED
    BY <1>10

(* The frames that intersect pushes for words of at most k characters. *)
PairsOK(nodes, Q, V, q0, F, k) ==
    /\ \A f \in F : /\ f.output \in Seq(Letters) /\ Len(f.output) <= k
                    /\ f.node \in 1 .. Len(nodes) /\ f.qNode \in V
                    /\ Leads(nodes, 1, f.output, f.node) /\ MayLead(Q, V, q0, f.output, Len(f.output), f.qNode)
                    /\ f = [output |-> f.output, node |-> f.node, qNode |-> f.qNode]
    /\ \A v \in Seq(Letters), n \in 1 .. Len(nodes), y \in V :
           Len(v) <= k /\ Leads(nodes, 1, v, n) /\ MayLead(Q, V, q0, v, Len(v), y) =>
               [output |-> v, node |-> n, qNode |-> y] \in F

PairPushed(nodes, Q, f) ==
    {[output |-> Append(f.output, e[1]), node |-> nodes[f.node].edges[e[1]],
      qNode |-> Q[f.qNode].edges[e[2]]] :
        e \in {d \in (DOMAIN nodes[f.node].edges) \X (DOMAIN Q[f.qNode].edges) : d[1] = d[2] \/ d[2] = "*"}}

PairsPushed(nodes, Q, F, k) ==
    F \union UNION {PairPushed(nodes, Q, f) : f \in {g \in F : Len(g.output) = k}}

LEMMA PairPushedIs ==
  ASSUME NEW nodes, NEW Q, NEW f, NEW g
  PROVE  g \in PairPushed(nodes, Q, f) <=>
             \E c \in DOMAIN nodes[f.node].edges, d \in DOMAIN Q[f.qNode].edges :
                 /\ c = d \/ d = "*"
                 /\ g = [output |-> Append(f.output, c), node |-> nodes[f.node].edges[c],
                         qNode |-> Q[f.qNode].edges[d]]
  <1> DEFINE A == DOMAIN nodes[f.node].edges
             B == DOMAIN Q[f.qNode].edges
             R(c, d) == [output |-> Append(f.output, c), node |-> nodes[f.node].edges[c],
                         qNode |-> Q[f.qNode].edges[d]]
  <1>1. PairPushed(nodes, Q, f) = {R(e[1], e[2]) : e \in {d \in A \X B : d[1] = d[2] \/ d[2] = "*"}}
    BY DEF PairPushed
  <1> HIDE DEF A, B, R
  <1>2. ASSUME g \in PairPushed(nodes, Q, f)
        PROVE  \E c \in A, d \in B : (c = d \/ d = "*") /\ g = R(c, d)
    <2>1. PICK e \in A \X B : (e[1] = e[2] \/ e[2] = "*") /\ g = R(e[1], e[2])
      BY <1>1, <1>2
    <2>2. e[1] \in A /\ e[2] \in B
      OBVIOUS
    <2>3. QED
      BY <2>1, <2>2
  <1>3. ASSUME NEW c \in A, NEW d \in B, c = d \/ d = "*", g = R(c, d)
        PROVE  g \in PairPushed(nodes, Q, f)
    <2>1. PICK e : e = <<c, d>>
      OBVIOUS
    <2>2. e \in A \X B /\ e[1] = c /\ e[2] = d
      BY <2>1
    <2>3. QED
      BY <1>1, <1>3, <2>2
  <1>4. QED
    BY <1>2, <1>3 DEF A, B, R

LEMMA PushPairs ==
  ASSUME NEW nodes, Closed(nodes), Len(nodes) >= 1, NEW Q, NEW V, NEW q0, QClosed(Q, V, q0), NEW F, NEW k \in Nat,
         PairsOK(nodes, Q, V, q0, F, k)
  PROVE  PairsOK(nodes, Q, V, q0, PairsPushed(nodes, Q, F, k), k + 1)
  <1> DEFINE N == Len(nodes)
             G == PairsPushed(nodes, Q, F, k)
  <1>1. ASSUME NEW f \in F
        PROVE  /\ f.output \in Seq(Letters) /\ Len(f.output) <= k /\ Len(f.output) \in Nat
               /\ f.node \in 1 .. N /\ f.qNode \in V
               /\ Leads(nodes, 1, f.output, f.node) /\ MayLead(Q, V, q0, f.output, Len(f.output), f.qNode)
               /\ f = [output |-> f.output, node |-> f.node, qNode |-> f.qNode]
    BY LenProperties DEF PairsOK
  <1>2. ASSUME NEW g \in G
        PROVE  /\ g.output \in Seq(Letters) /\ Len(g.output) <= k + 1
               /\ g.node \in 1 .. N /\ g.qNode \in V
               /\ Leads(nodes, 1, g.output, g.node) /\ MayLead(Q, V, q0, g.output, Len(g.output), g.qNode)
               /\ g = [output |-> g.output, node |-> g.node, qNode |-> g.qNode]
    <2>1. CASE g \in F
      BY <1>1, <2>1
    <2>2. CASE g \notin F
      <3>1. PICK f \in F : Len(f.output) = k /\ g \in PairPushed(nodes, Q, f)
        BY <2>2 DEF PairsPushed
      <3>2. PICK u, n, y : u = f.output /\ n = f.node /\ y = f.qNode
        OBVIOUS
      <3>3. PICK c \in DOMAIN nodes[n].edges, d \in DOMAIN Q[y].edges :
                /\ c = d \/ d = "*"
                /\ g = [output |-> Append(u, c), node |-> nodes[n].edges[c], qNode |-> Q[y].edges[d]]
        BY <3>1, <3>2, PairPushedIs
      <3>4. BothOn(nodes, Q, V, q0, u, n, y, c, d)
        BY <1>1, <3>2, <3>3 DEF BothOn
      <3>5. /\ Append(u, c) \in Seq(Letters) /\ Len(Append(u, c)) = Len(u) + 1
            /\ nodes[n].edges[c] \in 1 .. N /\ Q[y].edges[d] \in V
            /\ Leads(nodes, 1, Append(u, c), nodes[n].edges[c])
            /\ MayLead(Q, V, q0, Append(u, c), Len(u) + 1, Q[y].edges[d])
        BY <3>4, BothLeadOn
      <3>6. g.output = Append(u, c) /\ g.node = nodes[n].edges[c] /\ g.qNode = Q[y].edges[d]
        BY <3>3
      <3>7. Len(u) + 1 <= k + 1
        BY <3>1, <3>2
      <3>8. g = [output |-> g.output, node |-> g.node, qNode |-> g.qNode]
        BY <3>3, <3>6
      <3>9. QED
        BY <3>5, <3>6, <3>7, <3>8
    <2>3. QED
      BY <2>1, <2>2
  <1>3. ASSUME NEW v \in Seq(Letters), NEW n \in 1 .. N, NEW y \in V, Len(v) <= k + 1,
               Leads(nodes, 1, v, n), MayLead(Q, V, q0, v, Len(v), y)
        PROVE  [output |-> v, node |-> n, qNode |-> y] \in G
    <2>1. Len(v) \in Nat
      BY LenProperties
    <2>2. CASE Len(v) <= k
      BY <1>3, <2>2 DEF PairsOK, PairsPushed
    <2>3. CASE Len(v) = k + 1
      <3>1. Len(v) # 0
        BY <2>3
      <3>2. PICK u, m, x, c, d : BothStep(nodes, Q, V, q0, v, n, y, u, m, x, c, d)
        BY <1>3, <3>1, BothLeadBack
      <3>3. /\ BothOn(nodes, Q, V, q0, u, m, x, c, d) /\ Len(v) = Len(u) + 1 /\ Len(u) \in Nat
            /\ v = Append(u, c) /\ n = nodes[m].edges[c] /\ y = Q[x].edges[d]
        BY <3>2 DEF BothStep
      <3>4. /\ u \in Seq(Letters) /\ m \in 1 .. N /\ x \in V
            /\ Leads(nodes, 1, u, m) /\ MayLead(Q, V, q0, u, Len(u), x)
            /\ c \in DOMAIN nodes[m].edges /\ d \in DOMAIN Q[x].edges /\ (c = d \/ d = "*")
        BY <3>3 DEF BothOn
      <3>5. Len(u) = k
        BY <2>3, <3>3
      <3>6. PICK f : f = [output |-> u, node |-> m, qNode |-> x]
        OBVIOUS
      <3>7. f \in F
        BY <3>4, <3>5, <3>6 DEF PairsOK
      <3>8. f.output = u /\ f.node = m /\ f.qNode = x
        BY <3>6
      <3>9. PICK g : g = [output |-> v, node |-> n, qNode |-> y]
        OBVIOUS
      <3>10. g = [output |-> Append(u, c), node |-> nodes[m].edges[c], qNode |-> Q[x].edges[d]]
        BY <3>3, <3>9
      <3>11. g \in PairPushed(nodes, Q, f)
        BY <3>4, <3>8, <3>10, PairPushedIs
      <3>12. QED
        BY <3>5, <3>7, <3>8, <3>9, <3>11 DEF PairsPushed
    <2>4. QED
      BY <1>3, <2>1, <2>2, <2>3
  <1>4. QED
    BY <1>2, <1>3 DEF PairsOK

HasPairs(nodes, Q, N, first) ==
    \E F : F = [k \in 0 .. N |-> IF k = 0 THEN first ELSE PairsPushed(nodes, Q, F[k - 1], k - 1)]

LEMMA SomePairs ==
  ASSUME NEW nodes, NEW Q, NEW N \in Nat, NEW first
  PROVE  HasPairs(nodes, Q, N, first)
  <1> DEFINE Fits(F, m) == F[0] = first /\ \A k \in 1 .. m : F[k] = PairsPushed(nodes, Q, F[k - 1], k - 1)
             T == {m \in Nat : \E F : Fits(F, m)}
  <1>1. 0 \in T
    <2>1. Fits([k \in {0} |-> first], 0)
      OBVIOUS
    <2>2. QED
      BY <2>1
  <1>2. ASSUME NEW m \in 1 .. N, m - 1 \in T PROVE m \in T
    <2>1. PICK F : Fits(F, m - 1)
      BY <1>2
    <2> DEFINE h == [k \in 0 .. m |-> IF k = m THEN PairsPushed(nodes, Q, F[m - 1], m - 1) ELSE F[k]]
    <2>2. h[m] = PairsPushed(nodes, Q, F[m - 1], m - 1) /\ \A k \in 0 .. m - 1 : h[k] = F[k]
      OBVIOUS
    <2>3. m \in Nat /\ 0 \in 0 .. m - 1 /\ m - 1 \in 0 .. m - 1
      OBVIOUS
    <2> HIDE DEF h
    <2>4. ASSUME NEW k \in 1 .. m PROVE h[k] = PairsPushed(nodes, Q, h[k - 1], k - 1)
      <3>1. k - 1 \in 0 .. m - 1 /\ (k = m \/ (k \in 1 .. m - 1 /\ k \in 0 .. m - 1))
        OBVIOUS
      <3>2. h[k - 1] = F[k - 1]
        BY <2>2, <3>1
      <3>3. CASE k = m
        BY <2>2, <3>2, <3>3
      <3>4. CASE k \in 1 .. m - 1 /\ k \in 0 .. m - 1
        BY <2>1, <2>2, <3>2, <3>4
      <3>5. QED
        BY <3>1, <3>3, <3>4
    <2>5. Fits(h, m)
      BY <2>1, <2>2, <2>3, <2>4
    <2>6. QED
      BY <2>3, <2>5
  <1>3. N \in T
    <2> HIDE DEF T
    <2>1. \A k \in 0 .. N : k \in T
      BY <1>1, <1>2, Upwards
    <2>2. QED
      BY <2>1
  <1>4. PICK F : Fits(F, N)
    BY <1>3
  <1> DEFINE h == [k \in 0 .. N |-> F[k]]
  <1>5. (\A k \in 0 .. N : h[k] = F[k]) /\ h = [k \in 0 .. N |-> h[k]]
    OBVIOUS
  <1> HIDE DEF h
  <1>6. ASSUME NEW k \in 0 .. N
        PROVE  h[k] = IF k = 0 THEN first ELSE PairsPushed(nodes, Q, h[k - 1], k - 1)
    <2>1. k = 0 \/ (k \in 1 .. N /\ k - 1 \in 0 .. N)
      OBVIOUS
    <2>2. QED
      BY <1>4, <1>5, <2>1
  <1>7. h = [k \in 0 .. N |-> IF k = 0 THEN first ELSE PairsPushed(nodes, Q, h[k - 1], k - 1)]
    BY <1>5, <1>6
  <1>8. QED
    BY <1>7 DEF HasPairs

LEMMA FirstPair ==
  ASSUME NEW nodes, Closed(nodes), Len(nodes) >= 1, NEW Q, NEW V, NEW q0, QClosed(Q, V, q0)
  PROVE  PairsOK(nodes, Q, V, q0, {[output |-> <<>>, node |-> 1, qNode |-> q0]}, 0)
  <1>1. PICK e, f : e = <<>> /\ f = [output |-> e, node |-> 1, qNode |-> q0]
    OBVIOUS
  <1>2. e \in Seq(Letters) /\ Len(e) = 0 /\ f.output = e /\ f.node = 1 /\ f.qNode = q0
    BY <1>1
  <1>3. 1 \in 1 .. Len(nodes) /\ q0 \in V
    BY LenProperties DEF Closed, QClosed
  <1>4. Leads(nodes, 1, e, 1)
    BY <1>1, <1>3, LeadsNowhere
  <1>5. MayLead(Q, V, q0, e, Len(e), q0)
    <2>1. MayLead(Q, V, q0, e, 0, q0)
      BY <1>3, MayStart
    <2>2. QED
      BY <1>2, <2>1
  <1>6. ASSUME NEW v \in Seq(Letters), NEW n \in 1 .. Len(nodes), NEW y \in V, Len(v) <= 0,
               Leads(nodes, 1, v, n), MayLead(Q, V, q0, v, Len(v), y)
        PROVE  [output |-> v, node |-> n, qNode |-> y] = f
    <2>1. Len(v) \in Nat
      BY LenProperties
    <2>2. v = e /\ Len(v) = 0
      BY <1>1, <1>6, <2>1, EmptySeq
    <2>3. n = 1
      BY <1>1, <1>3, <1>6, <2>2, LeadsNowhere
    <2>4. MayLead(Q, V, q0, v, 0, y)
      BY <1>6, <2>2
    <2>5. y = q0
      BY <1>3, <2>4, MayStart
    <2>6. QED
      BY <1>1, <2>2, <2>3, <2>5
  <1>7. PairsOK(nodes, Q, V, q0, {f}, 0)
    <2>1. /\ f.output \in Seq(Letters) /\ Len(f.output) <= 0
          /\ f.node \in 1 .. Len(nodes) /\ f.qNode \in V
          /\ f = [output |-> f.output, node |-> f.node, qNode |-> f.qNode]
      BY <1>1, <1>2, <1>3
    <2>2. Leads(nodes, 1, f.output, f.node) /\ MayLead(Q, V, q0, f.output, Len(f.output), f.qNode)
      BY <1>2, <1>4, <1>5
    <2>3. QED
      BY <1>6, <2>1, <2>2 DEF PairsOK
  <1>8. QED
    BY <1>1, <1>7

(* The frames of intersect: the pairs of nodes to which words lead in both. *)
LEMMA PairsAre ==
  ASSUME NEW nodes, Closed(nodes), Len(nodes) >= 1, NEW Q, NEW V, NEW q0, QClosed(Q, V, q0), NEW a, NEW b,
         a.nodes = nodes, a.root = 1, b.nodes = Q, b.root = q0
  PROVE  \E G : /\ PairsOK(nodes, Q, V, q0, G, Len(nodes))
                /\ IntersectFrames(a, b) = G \ {[output |-> <<>>, node |-> 1, qNode |-> q0]}
  <1> DEFINE start1 == [output |-> <<>>, node |-> a.root, qNode |-> b.root]
             first == {start1}
             C == Cardinality(DOMAIN a.nodes)
             Step(F) == [k \in 0 .. C |-> IF k = 0 THEN first
                                          ELSE PairsPushed(a.nodes, b.nodes, F[k - 1], k - 1)]
             frames == CHOOSE F : F = Step(F)
  <1>1. IntersectFrames(a, b) = frames[C] \ first
    BY DEF IntersectFrames, PairsPushed, PairPushed
  <1>2. C = Len(nodes) /\ Len(nodes) \in Nat
    <2>1. Len(nodes) \in Nat /\ DOMAIN nodes = 1 .. Len(nodes)
      BY LenProperties DEF Closed
    <2>2. PICK N \in Nat : N = Len(nodes)
      BY <2>1
    <2>3. Cardinality(1 .. N) = N
      <3>1. Cardinality(1 .. N) = IF 1 > N THEN 0 ELSE N - 1 + 1
        BY FS_Interval
      <3>2. QED
        BY <3>1
    <2>4. QED
      BY <2>1, <2>2, <2>3
  <1>3. first = {[output |-> <<>>, node |-> 1, qNode |-> q0]}
    OBVIOUS
  <1> HIDE DEF first, C
  <1>4. frames = Step(frames)
    <2>1. HasPairs(a.nodes, b.nodes, C, first)
      BY <1>2, SomePairs
    <2>2. \E F : F = Step(F)
      BY <2>1 DEF HasPairs
    <2>3. QED
      BY <2>2
  <1> HIDE DEF frames
  <1>5. \A k \in 0 .. C : frames[k] = IF k = 0 THEN first ELSE PairsPushed(nodes, Q, frames[k - 1], k - 1)
    <2>1. \A k \in 0 .. C : frames[k] = IF k = 0 THEN first
                                        ELSE PairsPushed(a.nodes, b.nodes, frames[k - 1], k - 1)
      BY <1>4, Zenon
    <2>2. QED
      BY <2>1
  <1> DEFINE T == {k \in Nat : PairsOK(nodes, Q, V, q0, frames[k], k)}
  <1>6. 0 \in T
    <2>1. frames[0] = first
      BY <1>2, <1>5
    <2>2. PairsOK(nodes, Q, V, q0, first, 0)
      BY <1>3, FirstPair
    <2>3. QED
      BY <2>1, <2>2
  <1>7. ASSUME NEW k \in 1 .. C, k - 1 \in T PROVE k \in T
    <2>1. PICK j \in Nat : j = k - 1 /\ k = j + 1 /\ k \in 0 .. C /\ k # 0 /\ k \in Nat
      BY <1>2
    <2>2. PairsOK(nodes, Q, V, q0, frames[j], j) /\ frames[k] = PairsPushed(nodes, Q, frames[j], j)
      BY <1>5, <1>7, <2>1
    <2>3. PairsOK(nodes, Q, V, q0, PairsPushed(nodes, Q, frames[j], j), j + 1)
      BY <2>2, PushPairs
    <2>4. QED
      BY <2>1, <2>2, <2>3
  <1>8. PICK G : G = frames[C] /\ PairsOK(nodes, Q, V, q0, G, C)
    <2> HIDE DEF T
    <2>1. \A k \in 0 .. C : k \in T
      BY <1>2, <1>6, <1>7, Upwards
    <2>2. C \in 0 .. C
      BY <1>2
    <2>3. PairsOK(nodes, Q, V, q0, frames[C], C)
      BY <2>1, <2>2 DEF T
    <2>4. QED
      BY <2>3
  <1>9. QED
    BY <1>1, <1>2, <1>3, <1>8

(* The word leads somewhere in both; it is in both. *)
InBoth(nodes, Q, V, q0, v, n, y) ==
    /\ v \in Seq(Letters) /\ Len(v) <= Len(nodes) /\ n \in 1 .. Len(nodes) /\ y \in V
    /\ Leads(nodes, 1, v, n) /\ MayLead(Q, V, q0, v, Len(v), y)

IsFound(nodes, Q, V, q0, v) == v # <<>> /\ \E n, y : InBoth(nodes, Q, V, q0, v, n, y) /\ nodes[n].final /\ Q[y].final

IsJoint(nodes, Q, V, q0, t, PP, Fin) ==
    /\ t = Trie(PP, Fin)
    /\ \A v : v \in PP <=> \E n, y : InBoth(nodes, Q, V, q0, v, n, y)
    /\ \A v : v \in Fin <=> IsFound(nodes, Q, V, q0, v)

LEMMA PathsAre ==
  ASSUME NEW nodes, Closed(nodes), Len(nodes) >= 1, NEW Q, NEW V, NEW q0, QClosed(Q, V, q0), NEW a, NEW b,
         a.nodes = nodes, a.root = 1, b.nodes = Q, b.root = q0
  PROVE  \E PP, Fin : IsJoint(nodes, Q, V, q0, Intersect(a, b), PP, Fin)
  <1>1. PICK e, f1 : e = <<>> /\ f1 = [output |-> e, node |-> 1, qNode |-> q0]
    OBVIOUS
  <1>2. PICK G : PairsOK(nodes, Q, V, q0, G, Len(nodes)) /\ IntersectFrames(a, b) = G \ {f1}
    BY <1>1, PairsAre
  <1> DEFINE frames == G \ {f1}
             PP == {<<>>} \union {f.output : f \in frames}
             Fin == {f.output : f \in {g \in frames : a.nodes[g.node].final /\ b.nodes[g.qNode].final}}
  <1>3. Intersect(a, b) = Trie(PP, Fin)
    BY <1>2 DEF Intersect
  <1>4. /\ f1.output = e /\ f1.node = 1 /\ f1.qNode = q0
        /\ 1 \in 1 .. Len(nodes) /\ q0 \in V /\ e \in Seq(Letters) /\ Len(e) = 0
    <2>1. Len(nodes) \in Nat /\ q0 \in V
      BY LenProperties DEF Closed, QClosed
    <2>2. e \in Seq(Letters) /\ Len(e) = 0
      BY <1>1
    <2>3. QED
      BY <1>1, <2>1, <2>2
  <1>5. InBoth(nodes, Q, V, q0, e, 1, q0)
    <2>1. Leads(nodes, 1, e, 1)
      BY <1>1, <1>4, LeadsNowhere
    <2>2. MayLead(Q, V, q0, e, 0, q0)
      BY <1>4, MayStart
    <2>3. Len(e) <= Len(nodes) /\ MayLead(Q, V, q0, e, Len(e), q0)
      <3>1. Len(nodes) \in Nat
        BY LenProperties DEF Closed
      <3>2. QED
        BY <1>4, <2>2, <3>1
    <2>4. QED
      BY <1>4, <2>1, <2>3 DEF InBoth
  <1>6. ASSUME NEW f \in G
        PROVE  InBoth(nodes, Q, V, q0, f.output, f.node, f.qNode) /\ (f.output = e => f = f1)
    <2>1. /\ f.output \in Seq(Letters) /\ Len(f.output) <= Len(nodes)
          /\ f.node \in 1 .. Len(nodes) /\ f.qNode \in V
          /\ Leads(nodes, 1, f.output, f.node) /\ MayLead(Q, V, q0, f.output, Len(f.output), f.qNode)
          /\ f = [output |-> f.output, node |-> f.node, qNode |-> f.qNode]
      BY <1>2 DEF PairsOK
    <2>2. ASSUME f.output = e PROVE f = f1
      <3>1. f.node = 1
        <4>1. Leads(nodes, 1, e, f.node)
          BY <2>1, <2>2
        <4>2. QED
          BY <1>1, <1>4, <4>1, LeadsNowhere
      <3>2. f.qNode = q0
        <4>1. MayLead(Q, V, q0, e, 0, f.qNode)
          BY <1>4, <2>1, <2>2
        <4>2. QED
          BY <1>4, <4>1, MayStart
      <3>3. QED
        BY <1>1, <2>1, <2>2, <3>1, <3>2
    <2>3. QED
      BY <2>1, <2>2 DEF InBoth
  <1>7. ASSUME NEW v, NEW n, NEW y, InBoth(nodes, Q, V, q0, v, n, y), v # e
        PROVE  \E f \in frames : f.output = v /\ f.node = n /\ f.qNode = y
    <2>1. /\ v \in Seq(Letters) /\ Len(v) <= Len(nodes) /\ n \in 1 .. Len(nodes) /\ y \in V
          /\ Leads(nodes, 1, v, n) /\ MayLead(Q, V, q0, v, Len(v), y)
      BY <1>7 DEF InBoth
    <2>2. PICK f : f = [output |-> v, node |-> n, qNode |-> y]
      OBVIOUS
    <2>3. f \in G
      BY <1>2, <2>1, <2>2 DEF PairsOK
    <2>4. f.output = v /\ f.node = n /\ f.qNode = y
      BY <2>2
    <2>5. f # f1
      BY <1>4, <1>7, <2>4
    <2>6. QED
      BY <2>3, <2>4, <2>5
  <1>8. ASSUME NEW v PROVE v \in PP <=> \E n, y : InBoth(nodes, Q, V, q0, v, n, y)
    BY <1>1, <1>5, <1>6, <1>7
  <1>9. ASSUME NEW v PROVE v \in Fin <=> IsFound(nodes, Q, V, q0, v)
    <2>1. ASSUME v \in Fin PROVE IsFound(nodes, Q, V, q0, v)
      <3>1. PICK f \in frames : f.output = v /\ nodes[f.node].final /\ Q[f.qNode].final
        BY <2>1
      <3>2. v # <<>> /\ InBoth(nodes, Q, V, q0, v, f.node, f.qNode)
        BY <1>1, <1>6, <3>1
      <3>3. QED
        BY <3>1, <3>2 DEF IsFound
    <2>2. ASSUME IsFound(nodes, Q, V, q0, v) PROVE v \in Fin
      <3>1. PICK n, y : InBoth(nodes, Q, V, q0, v, n, y) /\ nodes[n].final /\ Q[y].final /\ v # e
        BY <1>1, <2>2 DEF IsFound
      <3>2. PICK f \in frames : f.output = v /\ f.node = n /\ f.qNode = y
        BY <1>7, <3>1
      <3>3. QED
        BY <3>1, <3>2
    <2>3. QED
      BY <2>1, <2>2
  <1> HIDE DEF PP, Fin
  <1>10. IsJoint(nodes, Q, V, q0, Intersect(a, b), PP, Fin)
    BY <1>3, <1>8, <1>9 DEF IsJoint
  <1>11. QED
    BY <1>10

-----------------------------------------------------------------------------
(* Paths that form a tree: with a path, the path without its last label.   *)

IsTree(S, PP) ==
    /\ PP \subseteq Seq(S) /\ <<>> \in PP
    /\ \A v \in PP : v # <<>> => \E u \in PP, c \in S : v = Append(u, c)

LEMMA PathsAreTree ==
  ASSUME NEW nodes, Closed(nodes), Len(nodes) >= 1, NEW Q, NEW V, NEW q0, QClosed(Q, V, q0), NEW PP,
         \A v : v \in PP <=> \E n, y : InBoth(nodes, Q, V, q0, v, n, y)
  PROVE  IsTree(Letters, PP)
  <1>1. PICK e : e = <<>>
    OBVIOUS
  <1>2. 1 \in 1 .. Len(nodes) /\ q0 \in V /\ e \in Seq(Letters) /\ Len(e) = 0 /\ Len(nodes) \in Nat
    <2>1. Len(nodes) \in Nat /\ q0 \in V
      BY LenProperties DEF Closed, QClosed
    <2>2. e \in Seq(Letters) /\ Len(e) = 0
      BY <1>1
    <2>3. QED
      BY <2>1, <2>2
  <1>3. e \in PP
    <2>1. Leads(nodes, 1, e, 1)
      BY <1>1, <1>2, LeadsNowhere
    <2>2. MayLead(Q, V, q0, e, 0, q0)
      BY <1>2, MayStart
    <2>3. Len(e) <= Len(nodes) /\ MayLead(Q, V, q0, e, Len(e), q0)
      BY <1>2, <2>2
    <2>4. InBoth(nodes, Q, V, q0, e, 1, q0)
      BY <1>2, <2>1, <2>3 DEF InBoth
    <2>5. QED
      BY <2>4
  <1>4. ASSUME NEW v \in PP, v # <<>> PROVE \E u \in PP, c \in Letters : v = Append(u, c)
    <2>1. PICK n, y : InBoth(nodes, Q, V, q0, v, n, y)
      OBVIOUS
    <2>2. /\ v \in Seq(Letters) /\ Len(v) <= Len(nodes)
          /\ Leads(nodes, 1, v, n) /\ MayLead(Q, V, q0, v, Len(v), y)
      BY <2>1 DEF InBoth
    <2>3. Len(v) # 0
      BY <1>4, <2>2, EmptySeq
    <2>4. PICK u, m, x, c, d : BothStep(nodes, Q, V, q0, v, n, y, u, m, x, c, d)
      BY <2>2, <2>3, BothLeadBack
    <2>5. BothOn(nodes, Q, V, q0, u, m, x, c, d) /\ Len(v) = Len(u) + 1 /\ Len(u) \in Nat /\ v = Append(u, c)
      BY <2>4 DEF BothStep
    <2>6. /\ u \in Seq(Letters) /\ m \in 1 .. Len(nodes) /\ x \in V
          /\ Leads(nodes, 1, u, m) /\ MayLead(Q, V, q0, u, Len(u), x) /\ c \in DOMAIN nodes[m].edges
      BY <2>5 DEF BothOn
    <2>7. Len(u) <= Len(nodes)
      BY <1>2, <2>2, <2>5
    <2>8. InBoth(nodes, Q, V, q0, u, m, x)
      BY <2>6, <2>7 DEF InBoth
    <2>9. c \in Letters
      BY <2>6 DEF Closed
    <2>10. QED
      BY <2>5, <2>8, <2>9
  <1>5. PP \subseteq Seq(Letters)
    BY DEF InBoth
  <1>6. QED
    BY <1>1, <1>3, <1>4, <1>5 DEF IsTree

LEMMA Beginning ==
  ASSUME NEW S, NEW q \in Seq(S), NEW L \in Nat, L + 1 = Len(q)
  PROVE  /\ SubSeq(q, 1, L) \in Seq(S) /\ Len(SubSeq(q, 1, L)) = L
         /\ \A i \in 1 .. L : SubSeq(q, 1, L)[i] = q[i]
  <1>1. \A i \in 1 .. L : q[i] \in S
    OBVIOUS
  <1>2. PICK f : f = SubSeq(q, 1, L)
    OBVIOUS
  <1>3. /\ f \in Seq(S) /\ Len(f) = (IF 1 <= L THEN L - 1 + 1 ELSE 0)
        /\ \A i \in 1 .. L - 1 + 1 : f[i] = q[1 + i - 1]
    BY <1>1, <1>2, SubSeqProperties
  <1>4. L - 1 + 1 = L /\ \A i \in 1 .. L : 1 + i - 1 = i
    OBVIOUS
  <1>5. Len(f) = L
    BY <1>3
  <1>6. \A i \in 1 .. L : f[i] = q[i]
    BY <1>3, <1>4
  <1>7. QED
    BY <1>2, <1>3, <1>5, <1>6

LEMMA Parts ==
  ASSUME NEW S, NEW u \in Seq(S), NEW c, NEW q \in Seq(S), q = Append(u, c)
  PROVE  q # <<>> /\ Front(q) = u /\ Last(q) = c /\ c \in S /\ Len(q) = Len(u) + 1 /\ Len(u) \in Nat
  <1>1. PICK L \in Nat : L = Len(u)
    BY LenProperties
  <1>2. Len(q) = L + 1 /\ q[L + 1] = c
    BY <1>1
  <1>3. c \in S
    <2>1. L + 1 \in 1 .. Len(q)
      BY <1>2
    <2>2. QED
      BY <1>2, <2>1, ElementOfSeq
  <1>4. q # <<>> /\ \A i \in 1 .. L : q[i] = u[i]
    BY <1>1, <1>3, AppendProperties
  <1>5. Last(q) = c
    BY <1>2 DEF Last
  <1>6. PICK f : f = SubSeq(q, 1, L)
    OBVIOUS
  <1>7. /\ f \in Seq(S) /\ Len(f) = L /\ \A i \in 1 .. L : f[i] = q[i]
    BY <1>2, <1>6, Beginning
  <1>8. f = u
    BY <1>1, <1>4, <1>7, SeqEqual
  <1>9. Front(q) = f
    <2>1. Len(q) - 1 = L
      BY <1>2
    <2>2. QED
      BY <1>6, <2>1 DEF Front
  <1>10. QED
    BY <1>1, <1>2, <1>3, <1>4, <1>5, <1>8, <1>9

TrieEdges(PP, u) == {Last(q) : q \in {r \in PP : r # <<>> /\ Front(r) = u}}

LEMMA TrieEdgesAre ==
  ASSUME NEW S, NEW PP, IsTree(S, PP), NEW u \in PP, NEW c
  PROVE  c \in TrieEdges(PP, u) <=> Append(u, c) \in PP
  <1>1. PP \subseteq Seq(S)
    BY DEF IsTree
  <1>2. ASSUME c \in TrieEdges(PP, u) PROVE Append(u, c) \in PP
    <2>1. PICK q \in PP : q # <<>> /\ Front(q) = u /\ c = Last(q)
      BY <1>2 DEF TrieEdges
    <2>2. PICK v \in PP, d \in S : q = Append(v, d)
      BY <2>1 DEF IsTree
    <2>3. Front(q) = v /\ Last(q) = d
      BY <1>1, <2>2, Parts
    <2>4. QED
      BY <2>1, <2>2, <2>3
  <1>3. ASSUME Append(u, c) \in PP PROVE c \in TrieEdges(PP, u)
    <2>1. PICK q \in PP : q = Append(u, c)
      BY <1>3
    <2>2. q # <<>> /\ Front(q) = u /\ Last(q) = c
      BY <1>1, <2>1, Parts
    <2>3. QED
      BY <2>2 DEF TrieEdges
  <1>4. QED
    BY <1>2, <1>3

LEMMA TrieIs ==
  ASSUME NEW PP, NEW Fin
  PROVE  /\ Trie(PP, Fin).root = <<>> /\ DOMAIN Trie(PP, Fin).nodes = PP
         /\ \A u \in PP : /\ Trie(PP, Fin).nodes[u].final <=> u \in Fin
                          /\ DOMAIN Trie(PP, Fin).nodes[u].edges = TrieEdges(PP, u)
                          /\ \A c \in TrieEdges(PP, u) :
                                 Trie(PP, Fin).nodes[u].edges[c] = Append(u, c)
  <1>1. PICK nodes : nodes = [p \in PP |-> [final |-> p \in Fin,
                                            edges |-> [c \in TrieEdges(PP, p) |-> Append(p, c)]]]
    OBVIOUS
  <1>2. Trie(PP, Fin) = [root |-> <<>>, nodes |-> nodes]
    BY <1>1 DEF Trie, TrieEdges
  <1>3. Trie(PP, Fin).root = <<>> /\ Trie(PP, Fin).nodes = nodes
    BY <1>2
  <1>4. DOMAIN nodes = PP
    BY <1>1
  <1>5. ASSUME NEW u \in PP
        PROVE  /\ nodes[u].final <=> u \in Fin
               /\ DOMAIN nodes[u].edges = TrieEdges(PP, u)
               /\ \A c \in TrieEdges(PP, u) : nodes[u].edges[c] = Append(u, c)
    <2>1. PICK f : f = [c \in TrieEdges(PP, u) |-> Append(u, c)]
      OBVIOUS
    <2>2. PICK final : final = (u \in Fin)
      OBVIOUS
    <2>3. nodes[u] = [final |-> final, edges |-> f]
      BY <1>1, <2>1, <2>2
    <2>4. nodes[u].edges = f /\ nodes[u].final = final
      BY <2>3
    <2>5. nodes[u].final <=> u \in Fin
      BY <2>4, <2>2, Zenon
    <2>6. DOMAIN f = TrieEdges(PP, u) /\ \A c \in TrieEdges(PP, u) : f[c] = Append(u, c)
      BY <2>1
    <2>7. QED
      BY <2>4, <2>5, <2>6
  <1>6. QED
    BY <1>3, <1>4, <1>5

(* The frames that toArray pushes in a trie. *)
TreeFrames(PP, F, k) ==
    \A f : f \in F <=> \E v \in PP : Len(v) <= k /\ f = [prefix |-> v, node |-> v]

LEMMA TreeStart ==
  ASSUME NEW PP, IsTree(Letters, PP)
  PROVE  TreeFrames(PP, {[prefix |-> <<>>, node |-> <<>>]}, 0)
  <1>1. PICK e : e = <<>>
    OBVIOUS
  <1>2. e \in PP /\ Len(e) = 0
    BY <1>1 DEF IsTree
  <1>3. ASSUME NEW v \in PP, Len(v) <= 0 PROVE v = e
    <2>1. v \in Seq(Letters)
      BY DEF IsTree
    <2>2. Len(v) \in Nat
      BY <2>1, LenProperties
    <2>3. QED
      BY <1>1, <1>3, <2>1, <2>2, EmptySeq
  <1>4. ASSUME NEW f
        PROVE  f \in {[prefix |-> e, node |-> e]} <=>
                   \E v \in PP : Len(v) <= 0 /\ f = [prefix |-> v, node |-> v]
    BY <1>2, <1>3
  <1>5. QED
    BY <1>1, <1>4 DEF TreeFrames

LEMMA TreeGrows ==
  ASSUME NEW PP, IsTree(Letters, PP), NEW Fin, NEW F, NEW k \in Nat, TreeFrames(PP, F, k)
  PROVE  TreeFrames(PP, PushedAll(Trie(PP, Fin).nodes, F, k), k + 1)
  <1>1. PICK nodes : nodes = Trie(PP, Fin).nodes
    OBVIOUS
  <1>2. \A u \in PP : /\ DOMAIN nodes[u].edges = TrieEdges(PP, u)
                      /\ \A c \in TrieEdges(PP, u) : nodes[u].edges[c] = Append(u, c)
    BY <1>1, TrieIs
  <1>3. PP \subseteq Seq(Letters)
    BY DEF IsTree
  <1>4. ASSUME NEW f \in PushedAll(nodes, F, k)
        PROVE  \E v \in PP : Len(v) <= k + 1 /\ f = [prefix |-> v, node |-> v]
    <2>1. CASE f \in F
      <3>1. PICK v \in PP : Len(v) <= k /\ f = [prefix |-> v, node |-> v]
        BY <2>1 DEF TreeFrames
      <3>2. Len(v) \in Nat
        BY <1>3, LenProperties
      <3>3. QED
        BY <3>1, <3>2
    <2>2. CASE f \notin F
      <3>1. PICK g \in F : Len(g.prefix) = k /\ f \in Pushed(nodes, g)
        BY <2>2 DEF PushedAll
      <3>2. PICK u \in PP : g = [prefix |-> u, node |-> u]
        BY <3>1 DEF TreeFrames
      <3>3. g.prefix = u /\ g.node = u
        BY <3>2
      <3>4. PICK c \in DOMAIN nodes[u].edges : f = [prefix |-> Append(u, c), node |-> nodes[u].edges[c]]
        BY <3>1, <3>3 DEF Pushed
      <3>5. c \in TrieEdges(PP, u) /\ nodes[u].edges[c] = Append(u, c)
        BY <1>2, <3>4
      <3>6. PICK v \in PP : v = Append(u, c)
        BY <3>5, TrieEdgesAre
      <3>7. Len(v) = Len(u) + 1
        BY <1>3, <3>6, Parts
      <3>8. f = [prefix |-> v, node |-> v] /\ Len(v) <= k + 1
        BY <3>1, <3>3, <3>4, <3>5, <3>6, <3>7
      <3>9. QED
        BY <3>8
    <2>3. QED
      BY <2>1, <2>2
  <1>5. ASSUME NEW v \in PP, Len(v) <= k + 1, NEW f, f = [prefix |-> v, node |-> v]
        PROVE  f \in PushedAll(nodes, F, k)
    <2>1. Len(v) \in Nat /\ v \in Seq(Letters)
      BY <1>3, LenProperties
    <2>2. CASE Len(v) <= k
      BY <1>5, <2>2 DEF TreeFrames, PushedAll
    <2>3. CASE Len(v) = k + 1
      <3>1. v # <<>>
        BY <2>1, <2>3, EmptySeq
      <3>2. PICK u \in PP, c \in Letters : v = Append(u, c)
        BY <3>1 DEF IsTree
      <3>3. Len(v) = Len(u) + 1 /\ Len(u) \in Nat
        BY <1>3, <3>2, Parts
      <3>4. Len(u) = k
        BY <2>3, <3>3
      <3>5. c \in TrieEdges(PP, u)
        BY <3>2, TrieEdgesAre
      <3>6. c \in DOMAIN nodes[u].edges /\ nodes[u].edges[c] = v
        BY <1>2, <3>2, <3>5
      <3>7. PICK g : g = [prefix |-> u, node |-> u]
        OBVIOUS
      <3>8. g \in F
        BY <3>4, <3>7 DEF TreeFrames
      <3>9. g.prefix = u /\ g.node = u
        BY <3>7
      <3>10. f = [prefix |-> Append(u, c), node |-> nodes[u].edges[c]]
        BY <1>5, <3>2, <3>6
      <3>11. f \in Pushed(nodes, g)
        BY <3>6, <3>9, <3>10 DEF Pushed
      <3>12. QED
        BY <3>4, <3>8, <3>9, <3>11 DEF PushedAll
    <2>4. QED
      BY <1>5, <2>1, <2>2, <2>3
  <1>6. QED
    BY <1>1, <1>4, <1>5 DEF TreeFrames

(* A tree of paths of bounded length over the alphabet is finite, and no   *)
(* path is longer than the tree has paths.                                 *)
LEMMA LettersAreFinite == IsFiniteSet(Letters)
  <1>1. Alphabet \in Seq(STRING)
    BY AlphabetAssumption
  <1>2. PICK N \in Nat : N = Len(Alphabet) /\ DOMAIN Alphabet = 1 .. N
    BY <1>1, LenProperties
  <1>3. Alphabet \in [1 .. N -> Letters]
    <2>1. Alphabet = [i \in 1 .. N |-> Alphabet[i]]
      BY <1>1, <1>2, LenProperties
    <2>2. \A i \in 1 .. N : Alphabet[i] \in Letters
      BY <1>2 DEF Letters
    <2>3. QED
      BY <2>1, <2>2
  <1>4. Alphabet \in Surjection(1 .. N, Letters)
    <2>1. \A c \in Letters : \E i \in 1 .. N : Alphabet[i] = c
      BY <1>2 DEF Letters
    <2>2. QED
      BY <1>3, <2>1 DEF Surjection
  <1>5. IsFiniteSet(1 .. N)
    BY FS_Interval
  <1>6. QED
    BY <1>4, <1>5, FS_Surjection

AtMost(PP, k) == {v \in PP : Len(v) <= k}

LEMMA ShortPaths ==
  ASSUME NEW PP, IsTree(Letters, PP), NEW K \in Nat
  PROVE  /\ IsFiniteSet(AtMost(PP, K))
         /\ \A v \in PP : Len(v) <= K => Len(v) < Cardinality(AtMost(PP, K))
  <1> DEFINE A(k) == AtMost(PP, k)
             T == {k \in Nat : /\ IsFiniteSet(A(k))
                               /\ \A v \in PP : Len(v) <= k => Len(v) < Cardinality(A(k))}
  <1>1. PP \subseteq Seq(Letters) /\ \A v \in PP : Len(v) \in Nat
    BY LenProperties DEF IsTree
  <1>2. PICK e : e = <<>>
    OBVIOUS
  <1>3. A(0) = {e}
    <2>1. e \in PP /\ Len(e) = 0
      BY <1>2 DEF IsTree
    <2>2. ASSUME NEW v \in PP, Len(v) <= 0 PROVE v = e
      BY <1>1, <1>2, <2>2, EmptySeq
    <2>3. QED
      BY <2>1, <2>2 DEF AtMost
  <1>4. 0 \in T
    <2>1. IsFiniteSet({e}) /\ Cardinality({e}) = 1
      BY FS_Singleton
    <2>2. \A v \in PP : Len(v) <= 0 => Len(v) < 1
      BY <1>1
    <2>3. QED
      BY <1>3, <2>1, <2>2
  <1>5. ASSUME NEW k \in 1 .. K, k - 1 \in T PROVE k \in T
    <2>1. PICK j \in Nat : j = k - 1 /\ k = j + 1 /\ k \in Nat
      OBVIOUS
    <2>2. IsFiniteSet(A(j)) /\ \A v \in PP : Len(v) <= j => Len(v) < Cardinality(A(j))
      BY <1>5, <2>1
    <2> DEFINE D == {e1 \in A(j) \X Letters : Append(e1[1], e1[2]) \in PP}
               f == [e1 \in D |-> Append(e1[1], e1[2])]
               X == {f[e1] : e1 \in D}
    <2>3. IsFiniteSet(D)
      <3>1. IsFiniteSet(A(j) \X Letters)
        BY <2>2, LettersAreFinite, FS_Product
      <3>2. D \in SUBSET (A(j) \X Letters)
        OBVIOUS
      <3> HIDE DEF D
      <3>3. QED
        BY <3>1, <3>2, FS_Subset
    <2>4. IsFiniteSet(X)
      <3> HIDE DEF D
      <3>1. f \in [D -> X] /\ \A x \in X : \E e1 \in D : f[e1] = x
        OBVIOUS
      <3> HIDE DEF f, X
      <3>2. f \in Surjection(D, X)
        BY <3>1 DEF Surjection
      <3>3. QED
        BY <2>3, <3>2, FS_Surjection
    <2>5. A(k) \in SUBSET (A(j) \union X)
      <3>1. SUFFICES ASSUME NEW v \in PP, Len(v) <= k, v \notin A(j) PROVE v \in X
        BY DEF AtMost
      <3>2. Len(v) = k
        BY <1>1, <2>1, <3>1 DEF AtMost
      <3>3. v # <<>>
        BY <1>1, <2>1, <3>2, EmptySeq
      <3>4. PICK u \in PP, c \in Letters : v = Append(u, c)
        BY <3>3 DEF IsTree
      <3>5. Len(v) = Len(u) + 1
        BY <1>1, <3>4, Parts
      <3>6. u \in A(j)
        BY <1>1, <2>1, <3>2, <3>5 DEF AtMost
      <3>7. PICK e1 : e1 = <<u, c>>
        OBVIOUS
      <3>8. e1 \in A(j) \X Letters /\ e1[1] = u /\ e1[2] = c
        BY <3>6, <3>7
      <3>9. e1 \in D /\ f[e1] = v
        BY <3>4, <3>8
      <3>10. QED
        BY <3>9
    <2> HIDE DEF X
    <2>6. IsFiniteSet(A(k))
      <3>1. IsFiniteSet(A(j) \union X)
        BY <2>2, <2>4, FS_Union
      <3>2. QED
        BY <2>5, <3>1, FS_Subset
    <2>7. A(j) \in SUBSET A(k)
      BY <1>1, <2>1 DEF AtMost
    <2>8. /\ Cardinality(A(j)) \in Nat /\ Cardinality(A(k)) \in Nat /\ Cardinality(A(j)) <= Cardinality(A(k))
      <3>1. Cardinality(A(j)) \in Nat /\ Cardinality(A(k)) \in Nat
        BY <2>2, <2>6, FS_CardinalityType
      <3>2. Cardinality(A(j)) <= Cardinality(A(k))
        BY <2>6, <2>7, FS_Subset
      <3>3. QED
        BY <3>1, <3>2
    <2>9. ASSUME NEW v \in PP, Len(v) <= k PROVE Len(v) < Cardinality(A(k))
      <3>1. CASE Len(v) <= j
        <4>1. Len(v) < Cardinality(A(j))
          BY <2>2, <3>1
        <4>2. QED
          BY <1>1, <2>8, <4>1
      <3>2. CASE Len(v) = k
        <4>1. v # <<>>
          BY <1>1, <2>1, <3>2, EmptySeq
        <4>2. PICK u \in PP, c \in Letters : v = Append(u, c)
          BY <4>1 DEF IsTree
        <4>3. Len(v) = Len(u) + 1
          BY <1>1, <4>2, Parts
        <4>4. Len(u) = j
          BY <1>1, <2>1, <3>2, <4>3
        <4>5. j < Cardinality(A(j))
          BY <2>1, <2>2, <4>4
        <4>6. v \in A(k) /\ v \notin A(j)
          BY <2>1, <3>2 DEF AtMost
        <4>7. Cardinality(A(j)) # Cardinality(A(k))
          BY <2>6, <2>7, <4>6, FS_Subset
        <4>8. QED
          BY <2>1, <2>8, <3>2, <4>5, <4>7
      <3>3. QED
        BY <1>1, <2>1, <2>9, <3>1, <3>2
    <2>10. QED
      BY <2>1, <2>6, <2>9
  <1>6. K \in T
    <2> HIDE DEF T
    <2>1. \A k \in 0 .. K : k \in T
      BY <1>4, <1>5, Upwards
    <2>2. K \in 0 .. K
      OBVIOUS
    <2>3. QED
      BY <2>1, <2>2
  <1>7. QED
    BY <1>6

(* What is read off a trie are its final paths. *)
LEMMA TrieWords ==
  ASSUME NEW PP, IsTree(Letters, PP), NEW K \in Nat, \A v \in PP : Len(v) <= K, NEW Fin, Fin \subseteq PP
  PROVE  ToArray(Trie(PP, Fin)) = Fin
  <1> DEFINE t == Trie(PP, Fin)
             first == {[prefix |-> <<>>, node |-> t.root]}
             C == Cardinality(DOMAIN t.nodes)
             Step(F) == [k \in 0 .. C |-> IF k = 0 THEN first ELSE PushedAll(t.nodes, F[k - 1], k - 1)]
             frames == CHOOSE F : F = Step(F)
  <1>1. ToArray(t) = {f.prefix : f \in {g \in frames[C] : t.nodes[g.node].final}}
    BY DEF ToArray, WordsFrom, PushedAll, Pushed
  <1>2. /\ t.root = <<>> /\ DOMAIN t.nodes = PP /\ \A u \in PP : t.nodes[u].final <=> u \in Fin
    BY TrieIs
  <1>3. C \in Nat /\ \A v \in PP : Len(v) \in Nat /\ Len(v) <= C
    <2>1. AtMost(PP, K) = PP
      BY DEF AtMost
    <2>2. IsFiniteSet(PP) /\ \A v \in PP : Len(v) < Cardinality(PP)
      BY <2>1, ShortPaths
    <2>3. Cardinality(PP) \in Nat
      BY <2>2, FS_CardinalityType
    <2>4. \A v \in PP : Len(v) \in Nat
      BY LenProperties DEF IsTree
    <2>5. QED
      BY <1>2, <2>2, <2>3, <2>4
  <1>4. first = {[prefix |-> <<>>, node |-> <<>>]}
    BY <1>2
  <1> HIDE DEF first, C, t
  <1>5. frames = Step(frames)
    <2>1. HasFrames(t.nodes, C, first)
      BY <1>3, SomeFrames
    <2>2. \E F : F = Step(F)
      BY <2>1 DEF HasFrames
    <2>3. QED
      BY <2>2
  <1> HIDE DEF frames
  <1>6. \A k \in 0 .. C : frames[k] = IF k = 0 THEN first ELSE PushedAll(t.nodes, frames[k - 1], k - 1)
    BY <1>5, Zenon
  <1> DEFINE T == {k \in Nat : TreeFrames(PP, frames[k], k)}
  <1>7. 0 \in T
    <2>1. frames[0] = first
      BY <1>3, <1>6
    <2>2. TreeFrames(PP, first, 0)
      BY <1>4, TreeStart
    <2>3. QED
      BY <2>1, <2>2
  <1>8. ASSUME NEW k \in 1 .. C, k - 1 \in T PROVE k \in T
    <2>1. PICK j \in Nat : j = k - 1 /\ k = j + 1 /\ k \in 0 .. C /\ k # 0 /\ k \in Nat
      BY <1>3
    <2>2. TreeFrames(PP, frames[j], j) /\ frames[k] = PushedAll(t.nodes, frames[j], j)
      BY <1>6, <1>8, <2>1
    <2>3. TreeFrames(PP, PushedAll(t.nodes, frames[j], j), j + 1)
      BY <2>2, TreeGrows DEF t
    <2>4. QED
      BY <2>1, <2>2, <2>3
  <1>9. TreeFrames(PP, frames[C], C)
    <2> HIDE DEF T
    <2>1. \A k \in 0 .. C : k \in T
      BY <1>3, <1>7, <1>8, Upwards
    <2>2. C \in 0 .. C
      BY <1>3
    <2>3. QED
      BY <2>1, <2>2 DEF T
  <1>10. ASSUME NEW v PROVE v \in ToArray(t) <=> v \in Fin
    <2>1. ASSUME v \in ToArray(t) PROVE v \in Fin
      <3>1. PICK f \in frames[C] : f.prefix = v /\ t.nodes[f.node].final
        BY <1>1, <2>1
      <3>2. PICK u \in PP : f = [prefix |-> u, node |-> u]
        BY <1>9, <3>1 DEF TreeFrames
      <3>3. f.prefix = u /\ f.node = u
        BY <3>2
      <3>4. QED
        BY <1>2, <3>1, <3>3
    <2>2. ASSUME v \in Fin PROVE v \in ToArray(t)
      <3>1. v \in PP
        BY <2>2
      <3>2. PICK f : f = [prefix |-> v, node |-> v]
        OBVIOUS
      <3>3. f \in frames[C]
        BY <1>3, <1>9, <3>1, <3>2 DEF TreeFrames
      <3>4. f.prefix = v /\ f.node = v
        BY <3>2
      <3>5. t.nodes[f.node].final
        BY <1>2, <2>2, <3>1, <3>4
      <3>6. QED
        BY <1>1, <3>3, <3>4, <3>5
    <2>3. QED
      BY <2>1, <2>2
  <1>11. QED
    BY <1>10 DEF t

-----------------------------------------------------------------------------
(* What a term without edit distance finds.                                *)

LEMMA FindsInBoth ==
  ASSUME NEW nodes, Closed(nodes), Len(nodes) >= 1, NEW Q, NEW V, NEW q0, QClosed(Q, V, q0), NEW a, NEW b,
         a.nodes = nodes, a.root = 1, b.nodes = Q, b.root = q0, NEW v
  PROVE  v \in ToArray(Intersect(a, b)) <=> IsFound(nodes, Q, V, q0, v)
  <1>1. PICK PP, Fin : IsJoint(nodes, Q, V, q0, Intersect(a, b), PP, Fin)
    BY PathsAre
  <1>2. /\ Intersect(a, b) = Trie(PP, Fin)
        /\ \A u : u \in PP <=> \E n, y : InBoth(nodes, Q, V, q0, u, n, y)
        /\ \A u : u \in Fin <=> IsFound(nodes, Q, V, q0, u)
    BY <1>1 DEF IsJoint
  <1>3. IsTree(Letters, PP)
    BY <1>2, PathsAreTree
  <1>4. Fin \subseteq PP
    BY <1>2 DEF IsFound
  <1>5. PICK K \in Nat : K = Len(nodes)
    BY LenProperties DEF Closed
  <1>6. \A u \in PP : Len(u) <= K
    BY <1>2, <1>5 DEF InBoth
  <1>7. ToArray(Trie(PP, Fin)) = Fin
    BY <1>3, <1>4, <1>6, TrieWords
  <1>8. QED
    BY <1>2, <1>7

LEMMA PatternFinds ==
  ASSUME NEW nodes, Closed(nodes), Len(nodes) >= 1, NEW p \in Seq(Labels), NEW nd, NEW Q,
         Walk(p, nd), Drawn(p, nd, Len(p), Q), NEW v
  PROVE  IsFound(nodes, Q, 1 .. Len(Q), 1, v) <=>
             /\ v \in Seq(Letters) /\ Len(v) <= Len(nodes) /\ v # <<>>
             /\ Accepts(nodes, 1, v) /\ Matches(p, v)
  <1>1. Len(p) \in Nat /\ Len(nodes) \in Nat
    BY LenProperties DEF Closed
  <1>2. CASE v \notin Seq(Letters)
    BY <1>2 DEF IsFound, InBoth
  <1>3. CASE v \in Seq(Letters)
    <2>1. Len(v) \in Nat /\ (v = <<>> <=> Len(v) = 0)
      BY <1>3, LenProperties, EmptySeq
    <2>2. PICK M : MatchSets(p, v, M) /\ (Matches(p, v) <=> Len(v) \in M[Len(p)])
      BY <1>1, <2>1, MatchesIs
    <2>3. IsPattern(p, nd, Q, v, M)
      BY <1>1, <2>1, <2>2 DEF IsPattern
    <2>4. ASSUME IsFound(nodes, Q, 1 .. Len(Q), 1, v)
          PROVE  Len(v) <= Len(nodes) /\ v # <<>> /\ Accepts(nodes, 1, v) /\ Matches(p, v)
      <3>1. PICK n, y : InBoth(nodes, Q, 1 .. Len(Q), 1, v, n, y) /\ nodes[n].final /\ Q[y].final /\ v # <<>>
        BY <2>4 DEF IsFound
      <3>2. /\ Len(v) <= Len(nodes) /\ n \in 1 .. Len(nodes) /\ y \in 1 .. Len(Q)
            /\ Leads(nodes, 1, v, n) /\ MayLead(Q, 1 .. Len(Q), 1, v, Len(v), y)
        BY <3>1 DEF InBoth
      <3>3. Accepts(nodes, 1, v)
        BY <3>1, <3>2 DEF Leads, Accepts
      <3>4. \E x \in 1 .. Len(Q) : MayLead(Q, 1 .. Len(Q), 1, v, Len(v), x) /\ Q[x].final
        BY <3>1, <3>2
      <3>5. Len(v) # 0
        BY <2>1, <3>1
      <3>6. Len(v) \in M[Len(p)]
        BY <2>3, <3>4, <3>5, PatternAccepts
      <3>7. QED
        BY <2>2, <3>1, <3>2, <3>3, <3>6
    <2>5. ASSUME Len(v) <= Len(nodes), v # <<>>, Accepts(nodes, 1, v), Matches(p, v)
          PROVE  IsFound(nodes, Q, 1 .. Len(Q), 1, v)
      <3>1. PICK r : IsRun(nodes, 1, r, v) /\ nodes[r[Len(v)]].final
        BY <2>5 DEF Accepts
      <3>2. Len(v) \in 0 .. Len(v) /\ Len(v) # 0
        BY <2>1, <2>5
      <3>3. PICK n \in 1 .. Len(nodes) : n = r[Len(v)]
        BY <3>1, <3>2 DEF IsRun
      <3>4. Leads(nodes, 1, v, n) /\ nodes[n].final
        BY <3>1, <3>3 DEF Leads
      <3>5. Len(v) \in M[Len(p)]
        BY <2>2, <2>5
      <3>6. PICK y \in 1 .. Len(Q) : MayLead(Q, 1 .. Len(Q), 1, v, Len(v), y) /\ Q[y].final
        BY <2>3, <3>2, <3>5, PatternAccepts
      <3>7. InBoth(nodes, Q, 1 .. Len(Q), 1, v, n, y)
        BY <1>3, <2>5, <3>3, <3>4, <3>6 DEF InBoth
      <3>8. QED
        BY <2>5, <3>4, <3>6, <3>7 DEF IsFound
    <2>6. QED
      BY <1>3, <2>4, <2>5
  <1>4. QED
    BY <1>2, <1>3

LEMMA MoreElements ==
  ASSUME NEW S, NEW T, S \subseteq T, NEW s \in Seq(S)
  PROVE  s \in Seq(T)
  OBVIOUS

LEMMA TermFinds ==
  ASSUME NoDigits, Inv, NEW c \in Clauses, "editDistance" \notin DOMAIN c
  PROVE  ExpandedTerms(Root(builder), c) = {w \in inserted \ {<<>>} : Matches(c.term, w)}
  <1>1. PICK nodes : nodes = builder.nodes
    OBVIOUS
  <1>2. Closed(nodes) /\ Len(nodes) >= 1 /\ Len(nodes) \in Nat
    BY <1>1, InvIsClosed
  <1>3. PICK a : a = Root(builder) /\ a.nodes = nodes /\ a.root = 1
    BY <1>1, RootIs
  <1>4. PICK p \in Seq(Labels) : p = c.term
    <2>1. c.term \in Seq(STRING)
      BY ClausesAssumption
    <2>2. STRING \subseteq Labels
      BY DEF Labels
    <2>3. c.term \in Seq(Labels)
      BY <2>1, <2>2, MoreElements
    <2>4. QED
      BY <2>3
  <1>5. PICK nd, Q : /\ Walk(p, nd) /\ Drawn(p, nd, Len(p), Q)
                     /\ FromString(p).root = 1 /\ FromString(p).nodes = Q
    BY FromStringIs
  <1>6. PICK b : b = FromString(p) /\ b.root = 1 /\ b.nodes = Q
    BY <1>5
  <1>7. ExpandedTerms(a, c) = ToArray(Intersect(a, b))
    BY <1>4, <1>6 DEF ExpandedTerms, FromClause
  <1>8. QClosed(Q, 1 .. Len(Q), 1)
    <2>1. PICK e : e = <<>>
      OBVIOUS
    <2>2. Len(e) \in Nat /\ Len(p) \in Nat
      BY <2>1, LenProperties
    <2>3. PICK M : MatchSets(p, e, M)
      BY <2>2, MatchesIs
    <2>4. IsPattern(p, nd, Q, e, M)
      BY <1>5, <2>2, <2>3 DEF IsPattern
    <2>5. QED
      BY <2>4, PatternIsClosed
  <1>9. ASSUME NEW v
        PROVE  v \in ToArray(Intersect(a, b)) <=> v \in inserted /\ v # <<>> /\ Matches(p, v)
    <2>1. v \in ToArray(Intersect(a, b)) <=> IsFound(nodes, Q, 1 .. Len(Q), 1, v)
      BY <1>2, <1>3, <1>6, <1>8, FindsInBoth
    <2>2. IsFound(nodes, Q, 1 .. Len(Q), 1, v) <=>
              /\ v \in Seq(Letters) /\ Len(v) <= Len(nodes) /\ v # <<>>
              /\ Accepts(nodes, 1, v) /\ Matches(p, v)
      BY <1>2, <1>5, PatternFinds
    <2>3. v \in inserted <=> v \in Seq(Letters) /\ Len(v) <= Len(nodes) /\ Accepts(nodes, 1, v)
      BY <1>1 DEF Inv
    <2>4. QED
      BY <2>1, <2>2, <2>3
  <1>10. QED
    BY <1>3, <1>4, <1>7, <1>9

(* What was found is what the finished set has for the clause looked up. *)
Answered ==
    query # NoQuery => /\ finished /\ query \in Clauses
                       /\ found = ExpandedTerms(Root(builder), query)

LEMMA AnsweredNext == Answered /\ [Next]_vars => Answered'
  <1> SUFFICES ASSUME Answered, [Next]_vars PROVE Answered'
    OBVIOUS
  <1>1. ASSUME NEW word \in Words, Insert(word) PROVE Answered'
    BY <1>1 DEF Insert, Answered
  <1>2. ASSUME Finish PROVE Answered'
    BY <1>2 DEF Finish, Answered
  <1>3. ASSUME NEW c \in Clauses, Lookup(c) PROVE Answered'
    <2>1. /\ finished /\ finished' = finished /\ builder' = builder
          /\ query' = c /\ found' = ExpandedTerms(Root(builder), c)
      BY <1>3 DEF Lookup
    <2>2. Root(builder)' = Root(builder)
      BY <2>1 DEF Root
    <2>3. QED
      BY <2>1, <2>2 DEF Answered
  <1>4. ASSUME UNCHANGED vars PROVE Answered'
    BY <1>4 DEF vars, Answered
  <1>5. QED
    BY <1>1, <1>2, <1>3, <1>4 DEF Next

(* A term without edit distance finds exactly the words inserted that its  *)
(* wildcards match, for every alphabet without digits, any words and any   *)
(* pattern.                                                                *)
THEOREM PatternsMatch ==
  ASSUME NoDigits
  PROVE  Spec => []WildcardsExact
  <1>1. Init => Inv /\ Answered
    BY InvInit DEF Init, Answered
  <1>2. Inv /\ Answered /\ [Next]_vars => Inv' /\ Answered'
    BY InvNext, AnsweredNext
  <1>3. Inv /\ Answered => WildcardsExact
    BY TermFinds DEF Answered, WildcardsExact
  <1>4. QED
    BY <1>1, <1>2, <1>3, PTL DEF Spec

-----------------------------------------------------------------------------
(* A sequence with one element more, less or replaced, or with two         *)
(* neighbours in each other's place.                                       *)

Inserted(s, i, c) ==
    [j \in 1 .. Len(s) + 1 |-> IF j <= i THEN s[j] ELSE IF j = i + 1 THEN c ELSE s[j - 1]]
Without(s, i) == [j \in 1 .. Len(s) - 1 |-> IF j < i THEN s[j] ELSE s[j + 1]]
Altered(s, i, c) == [j \in 1 .. Len(s) |-> IF j = i THEN c ELSE s[j]]
Swapped(s, i) == [j \in 1 .. Len(s) |-> IF j = i THEN s[i + 1] ELSE IF j = i + 1 THEN s[i] ELSE s[j]]

IsInserted(t, S, s, i, c) ==
    /\ t \in Seq(S) /\ Len(t) = Len(s) + 1
    /\ \A j \in 1 .. i : t[j] = s[j]
    /\ t[i + 1] = c
    /\ \A j \in i + 1 .. Len(s) : t[j + 1] = s[j]

IsWithout(t, S, s, i) ==
    /\ t \in Seq(S) /\ Len(t) = Len(s) - 1
    /\ \A j \in 1 .. i - 1 : t[j] = s[j]
    /\ \A j \in i .. Len(s) - 1 : t[j] = s[j + 1]

IsAltered(t, S, s, i, c) ==
    /\ t \in Seq(S) /\ Len(t) = Len(s) /\ t[i] = c
    /\ \A j \in 1 .. Len(s) : j # i => t[j] = s[j]

IsSwapped(t, S, s, i) ==
    /\ t \in Seq(S) /\ Len(t) = Len(s) /\ t[i] = s[i + 1] /\ t[i + 1] = s[i]
    /\ \A j \in 1 .. Len(s) : j # i /\ j # i + 1 => t[j] = s[j]

LEMMA MadeSeq ==
  ASSUME NEW S, NEW n \in Nat, NEW f \in [1 .. n -> S]
  PROVE  f \in Seq(S) /\ Len(f) = n
  <1>1. f \in Seq(S)
    BY SeqDef
  <1>2. DOMAIN f = 1 .. Len(f) /\ Len(f) \in Nat /\ DOMAIN f = 1 .. n
    BY <1>1, LenProperties
  <1>3. QED
    BY <1>1, <1>2

LEMMA InsertedIs ==
  ASSUME NEW S, NEW s \in Seq(S), NEW i \in 0 .. Len(s), NEW c \in S
  PROVE  IsInserted(Inserted(s, i, c), S, s, i, c)
  <1>1. PICK L \in Nat : L = Len(s)
    BY LenProperties
  <1>2. PICK f : f = Inserted(s, i, c)
    OBVIOUS
  <1>3. \A j \in 1 .. L : s[j] \in S
    BY <1>1, ElementOfSeq
  <1>4. f = [j \in 1 .. L + 1 |-> IF j <= i THEN s[j] ELSE IF j = i + 1 THEN c ELSE s[j - 1]]
    BY <1>1, <1>2 DEF Inserted
  <1>5. i \in 0 .. L
    BY <1>1
  <1>6. \A j \in 1 .. L + 1 : f[j] = (IF j <= i THEN s[j] ELSE IF j = i + 1 THEN c ELSE s[j - 1])
    BY <1>4
  <1>7. \A j \in 1 .. L + 1 : f[j] \in S
    <2>1. \A j \in 1 .. L + 1 : (j <= i => j \in 1 .. L) /\ (j > i + 1 => j - 1 \in 1 .. L)
      BY <1>5
    <2>2. QED
      BY <1>3, <1>5, <1>6, <2>1
  <1>8. f \in [1 .. L + 1 -> S]
    BY <1>4, <1>7
  <1>9. f \in Seq(S) /\ Len(f) = L + 1
    <2>1. L + 1 \in Nat
      OBVIOUS
    <2>2. QED
      BY <1>8, <2>1, MadeSeq
  <1>10. /\ \A j \in 1 .. i : f[j] = s[j]
         /\ f[i + 1] = c
         /\ \A j \in i + 1 .. L : f[j + 1] = s[j]
    BY <1>5, <1>6
  <1>11. QED
    BY <1>1, <1>2, <1>9, <1>10 DEF IsInserted

LEMMA WithoutIs ==
  ASSUME NEW S, NEW s \in Seq(S), NEW i \in 1 .. Len(s)
  PROVE  IsWithout(Without(s, i), S, s, i)
  <1>1. PICK L \in Nat : L = Len(s)
    BY LenProperties
  <1>2. PICK f : f = Without(s, i)
    OBVIOUS
  <1>3. \A j \in 1 .. L : s[j] \in S
    BY <1>1, ElementOfSeq
  <1>4. f = [j \in 1 .. L - 1 |-> IF j < i THEN s[j] ELSE s[j + 1]]
    BY <1>1, <1>2 DEF Without
  <1>5. i \in 1 .. L /\ L - 1 \in Nat
    BY <1>1
  <1>6. \A j \in 1 .. L - 1 : f[j] = (IF j < i THEN s[j] ELSE s[j + 1])
    BY <1>4
  <1>7. \A j \in 1 .. L - 1 : f[j] \in S
    <2>1. \A j \in 1 .. L - 1 : j \in 1 .. L /\ j + 1 \in 1 .. L
      BY <1>5
    <2>2. QED
      BY <1>3, <1>5, <1>6, <2>1
  <1>8. f \in [1 .. L - 1 -> S]
    BY <1>4, <1>7
  <1>9. f \in Seq(S) /\ Len(f) = L - 1
    BY <1>5, <1>8, MadeSeq
  <1>10. /\ \A j \in 1 .. i - 1 : f[j] = s[j]
         /\ \A j \in i .. L - 1 : f[j] = s[j + 1]
    BY <1>5, <1>6
  <1>11. QED
    BY <1>1, <1>2, <1>9, <1>10 DEF IsWithout

LEMMA AlteredIs ==
  ASSUME NEW S, NEW s \in Seq(S), NEW i \in 1 .. Len(s), NEW c \in S
  PROVE  IsAltered(Altered(s, i, c), S, s, i, c)
  <1>1. PICK L \in Nat : L = Len(s)
    BY LenProperties
  <1>2. PICK f : f = Altered(s, i, c)
    OBVIOUS
  <1>3. \A j \in 1 .. L : s[j] \in S
    BY <1>1, ElementOfSeq
  <1>4. f = [j \in 1 .. L |-> IF j = i THEN c ELSE s[j]]
    BY <1>1, <1>2 DEF Altered
  <1>5. i \in 1 .. L
    BY <1>1
  <1>6. \A j \in 1 .. L : f[j] = IF j = i THEN c ELSE s[j]
    BY <1>4
  <1>7. f \in [1 .. L -> S]
    BY <1>3, <1>4, <1>6
  <1>8. f \in Seq(S) /\ Len(f) = L
    BY <1>7, MadeSeq
  <1>9. f[i] = c /\ \A j \in 1 .. L : j # i => f[j] = s[j]
    BY <1>5, <1>6
  <1>10. QED
    BY <1>1, <1>2, <1>8, <1>9 DEF IsAltered

LEMMA SwappedIs ==
  ASSUME NEW S, NEW s \in Seq(S), NEW i \in 1 .. Len(s), i + 1 <= Len(s)
  PROVE  IsSwapped(Swapped(s, i), S, s, i)
  <1>1. PICK L \in Nat : L = Len(s)
    BY LenProperties
  <1>2. PICK f : f = Swapped(s, i)
    OBVIOUS
  <1>3. \A j \in 1 .. L : s[j] \in S
    BY <1>1, ElementOfSeq
  <1>4. f = [j \in 1 .. L |-> IF j = i THEN s[i + 1] ELSE IF j = i + 1 THEN s[i] ELSE s[j]]
    BY <1>1, <1>2 DEF Swapped
  <1>5. i \in 1 .. L /\ i + 1 \in 1 .. L
    BY <1>1
  <1>6. \A j \in 1 .. L : f[j] = IF j = i THEN s[i + 1] ELSE IF j = i + 1 THEN s[i] ELSE s[j]
    BY <1>4
  <1>7. f \in [1 .. L -> S]
    BY <1>3, <1>4, <1>5, <1>6
  <1>8. f \in Seq(S) /\ Len(f) = L
    BY <1>7, MadeSeq
  <1>9. f[i] = s[i + 1] /\ f[i + 1] = s[i]
        /\ \A j \in 1 .. L : j # i /\ j # i + 1 => f[j] = s[j]
    BY <1>5, <1>6
  <1>10. QED
    BY <1>1, <1>2, <1>8, <1>9 DEF IsSwapped

(* A part of a sequence. *)
LEMMA Piece ==
  ASSUME NEW S, NEW s \in Seq(S), NEW m \in Nat, m >= 1, NEW n \in Nat, n <= Len(s)
  PROVE  /\ SubSeq(s, m, n) \in Seq(S) /\ Len(SubSeq(s, m, n)) = (IF m <= n THEN n - m + 1 ELSE 0)
         /\ \A j \in 1 .. n - m + 1 : SubSeq(s, m, n)[j] = s[m + j - 1]
  <1>1. \A i \in m .. n : s[i] \in S
    <2>1. \A i \in m .. n : i \in 1 .. Len(s)
      BY LenProperties
    <2>2. QED
      BY <2>1, ElementOfSeq
  <1>2. m \in Int /\ n \in Int
    OBVIOUS
  <1>3. QED
    BY <1>1, <1>2, SubSeqProperties

-----------------------------------------------------------------------------
(* The edits of a word.                                                    *)

After(v, i) == SubSeq(v, i + 1, Len(v))

Around(v, i, m, k) == SubSeq(v, 1, i) \o m \o SubSeq(After(v, i), k, Len(After(v, i)))

EditsAt(v, i) ==
    {Around(v, i, <<c>>, 1) : c \in Letters} \union
    IF Len(After(v, i)) = 0 THEN {} ELSE
        {Around(v, i, <<>>, 2)} \union {Around(v, i, <<c>>, 2) : c \in Letters} \union
        IF Len(After(v, i)) = 1 THEN {} ELSE {Around(v, i, <<After(v, i)[2], After(v, i)[1]>>, 3)}

LEMMA EditsAtPlaces == ASSUME NEW v PROVE Edits(v) = UNION {EditsAt(v, i) : i \in 0 .. Len(v)}
  BY DEF Edits, EditsAt, Around, After

LEMMA AfterIs ==
  ASSUME NEW S, NEW v \in Seq(S), NEW i \in 0 .. Len(v)
  PROVE  /\ After(v, i) \in Seq(S) /\ Len(After(v, i)) = Len(v) - i
         /\ \A j \in 1 .. Len(v) - i : After(v, i)[j] = v[i + j]
  <1>1. PICK L \in Nat : L = Len(v)
    BY LenProperties
  <1>2. PICK b : b = SubSeq(v, i + 1, L)
    OBVIOUS
  <1>3. i + 1 \in Nat /\ i + 1 >= 1 /\ L <= Len(v)
    BY <1>1
  <1>4. /\ b \in Seq(S) /\ Len(b) = (IF i + 1 <= L THEN L - (i + 1) + 1 ELSE 0)
        /\ \A j \in 1 .. L - (i + 1) + 1 : b[j] = v[(i + 1) + j - 1]
    BY <1>2, <1>3, Piece
  <1>5. Len(b) = L - i
    BY <1>1, <1>4
  <1>6. \A j \in 1 .. L - i : j \in 1 .. L - (i + 1) + 1 /\ (i + 1) + j - 1 = i + j
    BY <1>1
  <1>7. \A j \in 1 .. L - i : b[j] = v[i + j]
    BY <1>4, <1>6
  <1>8. QED
    BY <1>1, <1>2, <1>4, <1>5, <1>7 DEF After

IsAround(r, S, v, i, m, k) ==
    /\ r \in Seq(S) /\ Len(r) = Len(v) + Len(m) + 1 - k
    /\ \A j \in 1 .. i : r[j] = v[j]
    /\ \A j \in 1 .. Len(m) : r[i + j] = m[j]
    /\ \A j \in i + k .. Len(v) : r[(j + Len(m) + 1) - k] = v[j]

LEMMA AroundIs ==
  ASSUME NEW S, NEW v \in Seq(S), NEW i \in 0 .. Len(v), NEW m \in Seq(S),
         NEW k \in Nat, k >= 1, i + k <= Len(v) + 1
  PROVE  IsAround(Around(v, i, m, k), S, v, i, m, k)
  <1>1. PICK L \in Nat, M \in Nat : L = Len(v) /\ M = Len(m)
    <2>1. Len(v) \in Nat /\ Len(m) \in Nat
      BY LenProperties
    <2>2. QED
      BY <2>1
  <1>2. i \in Nat /\ i <= L /\ i + k <= L + 1
    BY <1>1
  <1>3. PICK a : a = SubSeq(v, 1, i)
    OBVIOUS
  <1>4. a \in Seq(S) /\ Len(a) = i /\ \A j \in 1 .. i : a[j] = v[j]
    <2>1. /\ a \in Seq(S) /\ Len(a) = (IF 1 <= i THEN i - 1 + 1 ELSE 0)
          /\ \A j \in 1 .. i - 1 + 1 : a[j] = v[1 + j - 1]
      <3>1. i <= Len(v) /\ 1 \in Nat /\ 1 >= 1
        BY <1>1, <1>2
      <3>2. QED
        BY <1>2, <1>3, <3>1, Piece
    <2>2. Len(a) = i
      BY <1>2, <2>1
    <2>3. \A j \in 1 .. i : j \in 1 .. i - 1 + 1 /\ 1 + j - 1 = j
      BY <1>2
    <2>4. QED
      BY <2>1, <2>2, <2>3
  <1>5. PICK b : b = After(v, i)
    OBVIOUS
  <1>6. b \in Seq(S) /\ Len(b) = L - i /\ \A j \in 1 .. L - i : b[j] = v[i + j]
    BY <1>1, <1>5, AfterIs
  <1>7. PICK D \in Nat : D = L - i
    BY <1>2
  <1>8. PICK d : d = SubSeq(b, k, D)
    OBVIOUS
  <1>9. d \in Seq(S) /\ Len(d) = D + 1 - k /\ \A j \in 1 .. D + 1 - k : d[j] = b[(k + j) - 1]
    <2>1. /\ d \in Seq(S) /\ Len(d) = (IF k <= D THEN D - k + 1 ELSE 0)
          /\ \A j \in 1 .. D - k + 1 : d[j] = b[k + j - 1]
      <3>1. D <= Len(b)
        BY <1>6, <1>7
      <3>2. QED
        BY <1>6, <1>8, <3>1, Piece
    <2>2. Len(d) = D + 1 - k
      BY <1>2, <1>7, <2>1
    <2>3. \A j \in 1 .. D + 1 - k : j \in 1 .. D - k + 1 /\ k + j - 1 = (k + j) - 1
      BY <1>2, <1>7
    <2>4. QED
      BY <2>1, <2>2, <2>3
  <1>10. PICK c : c = a \o m
    OBVIOUS
  <1>11. /\ c \in Seq(S) /\ Len(c) = i + M
         /\ \A j \in 1 .. i + M : c[j] = IF j <= i THEN a[j] ELSE m[j - i]
    BY <1>1, <1>4, <1>10, ConcatProperties
  <1>12. PICK r : r = c \o d
    OBVIOUS
  <1>13. /\ r \in Seq(S) /\ Len(r) = (i + M) + (D + 1 - k)
         /\ \A j \in 1 .. (i + M) + (D + 1 - k) : r[j] = IF j <= i + M THEN c[j] ELSE d[j - (i + M)]
    <2>1. /\ r \in Seq(S) /\ Len(r) = Len(c) + Len(d)
          /\ \A j \in 1 .. Len(c) + Len(d) : r[j] = IF j <= Len(c) THEN c[j] ELSE d[j - Len(c)]
      <3>1. c \in Seq(S) /\ d \in Seq(S)
        BY <1>9, <1>11
      <3>2. QED
        BY <1>12, <3>1, ConcatProperties
    <2>2. Len(c) = i + M /\ Len(d) = D + 1 - k
      BY <1>9, <1>11
    <2>3. QED
      BY <2>1, <2>2
  <1>14. Around(v, i, m, k) = r
    BY <1>3, <1>5, <1>6, <1>7, <1>8, <1>10, <1>12 DEF Around
  <1>15. Len(r) = L + M + 1 - k
    BY <1>1, <1>2, <1>7, <1>13
  <1>16. \A j \in 1 .. i : r[j] = v[j]
    <2>1. \A j \in 1 .. i : j \in 1 .. i + M /\ j <= i /\ j <= i + M /\ j \in 1 .. (i + M) + (D + 1 - k)
      BY <1>1, <1>2, <1>7
    <2>2. QED
      BY <1>4, <1>11, <1>13, <2>1
  <1>17. \A j \in 1 .. M : r[i + j] = m[j]
    <2>1. \A j \in 1 .. M : /\ i + j \in 1 .. i + M /\ ~ (i + j <= i) /\ i + j <= i + M
                            /\ i + j \in 1 .. (i + M) + (D + 1 - k) /\ (i + j) - i = j
      BY <1>1, <1>2, <1>7
    <2>2. QED
      BY <1>11, <1>13, <2>1
  <1>18. ASSUME NEW j \in i + k .. L PROVE r[(j + M + 1) - k] = v[j]
    <2>1. PICK n \in Nat : n = (j + 1) - (i + k)
      BY <1>2
    <2>2. /\ (j + M + 1) - k \in 1 .. (i + M) + (D + 1 - k) /\ ~ ((j + M + 1) - k <= i + M)
          /\ ((j + M + 1) - k) - (i + M) = n /\ n \in 1 .. D + 1 - k
      BY <1>1, <1>2, <1>7, <2>1
    <2>3. r[(j + M + 1) - k] = d[n]
      BY <1>13, <2>2
    <2>4. (k + n) - 1 \in 1 .. L - i /\ i + ((k + n) - 1) = j
      BY <1>1, <1>2, <1>7, <2>1
    <2>5. d[n] = v[j]
      BY <1>6, <1>9, <2>2, <2>4
    <2>6. QED
      BY <2>3, <2>5
  <1>19. QED
    BY <1>1, <1>13, <1>14, <1>15, <1>16, <1>17, <1>18 DEF IsAround

LEMMA AroundInserted ==
  ASSUME NEW S, NEW v \in Seq(S), NEW i \in 0 .. Len(v), NEW c \in S
  PROVE  Around(v, i, <<c>>, 1) = Inserted(v, i, c)
  <1>1. PICK L \in Nat : L = Len(v)
    BY LenProperties
  <1>2. PICK m : m = <<c>>
    OBVIOUS
  <1>3. m \in Seq(S) /\ Len(m) = 1 /\ m[1] = c
    BY <1>2, OneCharacter
  <1>4. PICK r : r = Around(v, i, m, 1)
    OBVIOUS
  <1>5. PICK s : s = Inserted(v, i, c)
    OBVIOUS
  <1>6. i \in 0 .. L /\ 1 \in Nat /\ 1 >= 1 /\ i + 1 <= Len(v) + 1
    BY <1>1
  <1>7. IsAround(r, S, v, i, m, 1)
    BY <1>3, <1>4, <1>6, AroundIs
  <1>8. /\ r \in Seq(S) /\ Len(r) = L + 1 /\ \A j \in 1 .. i : r[j] = v[j]
        /\ r[i + 1] = c /\ \A j \in i + 1 .. L : r[j + 1] = v[j]
    <2>1. /\ r \in Seq(S) /\ Len(r) = (L + 1 + 1) - 1 /\ \A j \in 1 .. i : r[j] = v[j]
          /\ \A j \in 1 .. 1 : r[i + j] = m[j]
          /\ \A j \in i + 1 .. L : r[(j + 1 + 1) - 1] = v[j]
      BY <1>1, <1>3, <1>7 DEF IsAround
    <2>2. 1 \in 1 .. 1
      OBVIOUS
    <2>3. r[i + 1] = c
      BY <1>3, <2>1, <2>2
    <2>4. \A j \in i + 1 .. L : (j + 1 + 1) - 1 = j + 1
      BY <1>6
    <2>5. QED
      BY <2>1, <2>3, <2>4
  <1>9. /\ s \in Seq(S) /\ Len(s) = L + 1 /\ \A j \in 1 .. i : s[j] = v[j]
        /\ s[i + 1] = c /\ \A j \in i + 1 .. L : s[j + 1] = v[j]
    <2>1. IsInserted(s, S, v, i, c)
      BY <1>5, InsertedIs
    <2>2. QED
      BY <1>1, <2>1 DEF IsInserted
  <1>10. ASSUME NEW j \in 1 .. L + 1 PROVE r[j] = s[j]
    <2>1. CASE j \in 1 .. i
      BY <1>8, <1>9, <2>1
    <2>2. CASE j = i + 1
      BY <1>8, <1>9, <2>2
    <2>3. CASE j > i + 1
      <3>1. PICK n \in i + 1 .. L : n + 1 = j
        <4>1. j - 1 \in i + 1 .. L /\ (j - 1) + 1 = j
          BY <1>6, <2>3
        <4>2. QED
          BY <4>1
      <3>2. r[n + 1] = v[n] /\ s[n + 1] = v[n]
        BY <1>8, <1>9
      <3>3. QED
        BY <3>1, <3>2
    <2>4. QED
      BY <1>6, <2>1, <2>2, <2>3
  <1>11. r = s
    BY <1>8, <1>9, <1>10, SeqEqual
  <1>12. QED
    BY <1>2, <1>4, <1>5, <1>11

LEMMA AroundWithout ==
  ASSUME NEW S, NEW v \in Seq(S), NEW i \in 0 .. Len(v), i + 1 <= Len(v)
  PROVE  Around(v, i, <<>>, 2) = Without(v, i + 1)
  <1>1. PICK L \in Nat : L = Len(v)
    BY LenProperties
  <1>2. PICK m : m = <<>>
    OBVIOUS
  <1>3. m \in Seq(S) /\ Len(m) = 0
    BY <1>2, EmptySeq
  <1>4. PICK r : r = Around(v, i, m, 2)
    OBVIOUS
  <1>5. PICK s : s = Without(v, i + 1)
    OBVIOUS
  <1>6. i \in 0 .. L /\ i + 1 <= L /\ 2 \in Nat /\ 2 >= 1 /\ i + 2 <= Len(v) + 1 /\ i + 1 \in 1 .. Len(v)
    BY <1>1
  <1>7. IsAround(r, S, v, i, m, 2)
    BY <1>3, <1>4, <1>6, AroundIs
  <1>8. /\ r \in Seq(S) /\ Len(r) = L - 1 /\ \A j \in 1 .. i : r[j] = v[j]
        /\ \A j \in i + 2 .. L : r[j - 1] = v[j]
    <2>1. /\ r \in Seq(S) /\ Len(r) = (L + 0 + 1) - 2 /\ \A j \in 1 .. i : r[j] = v[j]
          /\ \A j \in i + 2 .. L : r[(j + 0 + 1) - 2] = v[j]
      BY <1>1, <1>3, <1>7 DEF IsAround
    <2>2. \A j \in i + 2 .. L : (j + 0 + 1) - 2 = j - 1
      BY <1>6
    <2>3. QED
      BY <2>1, <2>2
  <1>9. /\ s \in Seq(S) /\ Len(s) = L - 1 /\ \A j \in 1 .. (i + 1) - 1 : s[j] = v[j]
        /\ \A j \in i + 1 .. L - 1 : s[j] = v[j + 1]
    <2>1. IsWithout(s, S, v, i + 1)
      BY <1>5, <1>6, WithoutIs
    <2>2. QED
      BY <1>1, <2>1 DEF IsWithout
  <1>10. ASSUME NEW j \in 1 .. L - 1 PROVE r[j] = s[j]
    <2>1. CASE j \in 1 .. i
      <3>1. j \in 1 .. (i + 1) - 1
        BY <1>6, <2>1
      <3>2. QED
        BY <1>8, <1>9, <2>1, <3>1
    <2>2. CASE j > i
      <3>1. j + 1 \in i + 2 .. L /\ (j + 1) - 1 = j /\ j \in i + 1 .. L - 1
        BY <1>6, <2>2
      <3>2. QED
        BY <1>8, <1>9, <3>1
    <2>3. QED
      BY <1>6, <2>1, <2>2
  <1>11. r = s
    BY <1>8, <1>9, <1>10, SeqEqual
  <1>12. QED
    BY <1>2, <1>4, <1>5, <1>11

LEMMA AroundAltered ==
  ASSUME NEW S, NEW v \in Seq(S), NEW i \in 0 .. Len(v), i + 1 <= Len(v), NEW c \in S
  PROVE  Around(v, i, <<c>>, 2) = Altered(v, i + 1, c)
  <1>1. PICK L \in Nat : L = Len(v)
    BY LenProperties
  <1>2. PICK m : m = <<c>>
    OBVIOUS
  <1>3. m \in Seq(S) /\ Len(m) = 1 /\ m[1] = c
    BY <1>2, OneCharacter
  <1>4. PICK r : r = Around(v, i, m, 2)
    OBVIOUS
  <1>5. PICK s : s = Altered(v, i + 1, c)
    OBVIOUS
  <1>6. i \in 0 .. L /\ i + 1 <= L /\ 2 \in Nat /\ 2 >= 1 /\ i + 2 <= Len(v) + 1 /\ i + 1 \in 1 .. Len(v)
    BY <1>1
  <1>7. IsAround(r, S, v, i, m, 2)
    BY <1>3, <1>4, <1>6, AroundIs
  <1>8. /\ r \in Seq(S) /\ Len(r) = L /\ \A j \in 1 .. i : r[j] = v[j]
        /\ r[i + 1] = c /\ \A j \in i + 2 .. L : r[j] = v[j]
    <2>1. /\ r \in Seq(S) /\ Len(r) = (L + 1 + 1) - 2 /\ \A j \in 1 .. i : r[j] = v[j]
          /\ \A j \in 1 .. 1 : r[i + j] = m[j]
          /\ \A j \in i + 2 .. L : r[(j + 1 + 1) - 2] = v[j]
      BY <1>1, <1>3, <1>7 DEF IsAround
    <2>2. 1 \in 1 .. 1 /\ \A j \in i + 2 .. L : (j + 1 + 1) - 2 = j
      BY <1>6
    <2>3. r[i + 1] = c
      BY <1>3, <2>1, <2>2
    <2>4. QED
      BY <2>1, <2>2, <2>3
  <1>9. /\ s \in Seq(S) /\ Len(s) = L /\ s[i + 1] = c
        /\ \A j \in 1 .. L : j # i + 1 => s[j] = v[j]
    <2>1. IsAltered(s, S, v, i + 1, c)
      BY <1>5, <1>6, AlteredIs
    <2>2. QED
      BY <1>1, <2>1 DEF IsAltered
  <1>10. ASSUME NEW j \in 1 .. L PROVE r[j] = s[j]
    <2>1. CASE j = i + 1
      BY <1>8, <1>9, <2>1
    <2>2. CASE j # i + 1
      <3>1. j \in 1 .. i \/ j \in i + 2 .. L
        BY <1>6, <2>2
      <3>2. QED
        BY <1>8, <1>9, <2>2, <3>1
    <2>3. QED
      BY <2>1, <2>2
  <1>11. r = s
    BY <1>8, <1>9, <1>10, SeqEqual
  <1>12. QED
    BY <1>2, <1>4, <1>5, <1>11

LEMMA AroundSwapped ==
  ASSUME NEW S, NEW v \in Seq(S), NEW i \in 0 .. Len(v), i + 2 <= Len(v)
  PROVE  Around(v, i, <<After(v, i)[2], After(v, i)[1]>>, 3) = Swapped(v, i + 1)
  <1>1. PICK L \in Nat : L = Len(v)
    BY LenProperties
  <1>2. i \in 0 .. L /\ i + 1 <= L /\ i + 2 <= L /\ i + 3 <= Len(v) + 1
        /\ i + 1 \in 1 .. Len(v) /\ (i + 1) + 1 = i + 2 /\ i + 2 \in 1 .. Len(v)
    BY <1>1
  <1>3. PICK c, d : c = v[i + 1] /\ d = v[i + 2]
    OBVIOUS
  <1>4. After(v, i)[1] = c /\ After(v, i)[2] = d /\ c \in S /\ d \in S
    <2>1. \A j \in 1 .. L - i : After(v, i)[j] = v[i + j]
      BY <1>1, AfterIs
    <2>2. 1 \in 1 .. L - i /\ 2 \in 1 .. L - i
      BY <1>2
    <2>3. c \in S /\ d \in S
      BY <1>2, <1>3, ElementOfSeq
    <2>4. QED
      BY <1>3, <2>1, <2>2, <2>3
  <1>5. PICK m : m = <<d, c>>
    OBVIOUS
  <1>6. m \in Seq(S) /\ Len(m) = 2 /\ m[1] = d /\ m[2] = c
    BY <1>4, <1>5
  <1>7. PICK r : r = Around(v, i, m, 3)
    OBVIOUS
  <1>8. PICK s : s = Swapped(v, i + 1)
    OBVIOUS
  <1>9. IsAround(r, S, v, i, m, 3)
    <2>1. 3 \in Nat /\ 3 >= 1
      OBVIOUS
    <2>2. QED
      BY <1>2, <1>6, <1>7, <2>1, AroundIs
  <1>10. /\ r \in Seq(S) /\ Len(r) = L /\ \A j \in 1 .. i : r[j] = v[j]
         /\ r[i + 1] = d /\ r[i + 2] = c /\ \A j \in i + 3 .. L : r[j] = v[j]
    <2>1. /\ r \in Seq(S) /\ Len(r) = (L + 2 + 1) - 3 /\ \A j \in 1 .. i : r[j] = v[j]
          /\ \A j \in 1 .. 2 : r[i + j] = m[j]
          /\ \A j \in i + 3 .. L : r[(j + 2 + 1) - 3] = v[j]
      BY <1>1, <1>6, <1>9 DEF IsAround
    <2>2. 1 \in 1 .. 2 /\ 2 \in 1 .. 2 /\ \A j \in i + 3 .. L : (j + 2 + 1) - 3 = j
      BY <1>2
    <2>3. r[i + 1] = d /\ r[i + 2] = c
      BY <1>6, <2>1, <2>2
    <2>4. QED
      BY <2>1, <2>2, <2>3
  <1>11. /\ s \in Seq(S) /\ Len(s) = L /\ s[i + 1] = d /\ s[i + 2] = c
         /\ \A j \in 1 .. L : j # i + 1 /\ j # i + 2 => s[j] = v[j]
    <2>1. (i + 1) + 1 <= Len(v)
      BY <1>1, <1>2
    <2>2. IsSwapped(s, S, v, i + 1)
      BY <1>2, <1>8, <2>1, SwappedIs
    <2>3. QED
      BY <1>1, <1>2, <1>3, <2>2 DEF IsSwapped
  <1>12. ASSUME NEW j \in 1 .. L PROVE r[j] = s[j]
    <2>1. j \in 1 .. i \/ j = i + 1 \/ j = i + 2 \/ j \in i + 3 .. L
      BY <1>2
    <2>2. (j \in 1 .. i \/ j \in i + 3 .. L) => j # i + 1 /\ j # i + 2
      BY <1>2
    <2>3. QED
      BY <1>10, <1>11, <2>1, <2>2
  <1>13. r = s
    BY <1>10, <1>11, <1>12, SeqEqual
  <1>14. QED
    BY <1>4, <1>5, <1>7, <1>8, <1>13

LEMMA LettersAreLabels == Letters \subseteq Labels /\ "*" \in Labels
  <1>1. ASSUME NEW c \in Letters PROVE c \in Labels
    <2>1. PICK i \in DOMAIN Alphabet : c = Alphabet[i]
      BY DEF Letters
    <2>2. Alphabet \in Seq(STRING)
      BY AlphabetAssumption
    <2>3. i \in 1 .. Len(Alphabet)
      BY <2>2, LenProperties
    <2>4. c \in STRING
      BY <2>1, <2>2, <2>3, ElementOfSeq
    <2>5. QED
      BY <2>4 DEF Labels
  <1>2. "*" \in Labels
    BY DEF Labels
  <1>3. QED
    BY <1>1, <1>2

IsEdit(v, w, i) ==
    \/ \E c \in Letters : w = Inserted(v, i, c)
    \/ i + 1 <= Len(v) /\ w = Without(v, i + 1)
    \/ i + 1 <= Len(v) /\ \E c \in Letters : w = Altered(v, i + 1, c)
    \/ i + 2 <= Len(v) /\ w = Swapped(v, i + 1)

LEMMA EditsAre ==
  ASSUME NEW v \in Seq(Labels), NEW w
  PROVE  w \in Edits(v) <=> \E i \in 0 .. Len(v) : IsEdit(v, w, i)
  <1>1. PICK L \in Nat : L = Len(v)
    BY LenProperties
  <1>2. ASSUME NEW i \in 0 .. Len(v) PROVE w \in EditsAt(v, i) <=> IsEdit(v, w, i)
    <2>1. PICK D \in Nat : D = L - i /\ Len(After(v, i)) = D /\ i \in 0 .. L
      <3>1. L - i \in Nat /\ i \in 0 .. L
        BY <1>1
      <3>2. Len(After(v, i)) = L - i
        BY <1>1, AfterIs
      <3>3. QED
        BY <3>1, <3>2
    <2>2. (D = 0 <=> ~ (i + 1 <= Len(v))) /\ (D = 0 \/ D = 1 <=> ~ (i + 2 <= Len(v)))
      BY <1>1, <2>1
    <2>3. \A c \in Letters : Around(v, i, <<c>>, 1) = Inserted(v, i, c)
      BY LettersAreLabels, AroundInserted
    <2>4. ASSUME D # 0
          PROVE  /\ Around(v, i, <<>>, 2) = Without(v, i + 1)
                 /\ \A c \in Letters : Around(v, i, <<c>>, 2) = Altered(v, i + 1, c)
      <3>1. i + 1 <= Len(v)
        BY <2>2, <2>4
      <3>2. Around(v, i, <<>>, 2) = Without(v, i + 1)
        BY <3>1, AroundWithout
      <3>3. \A c \in Letters : Around(v, i, <<c>>, 2) = Altered(v, i + 1, c)
        BY <3>1, LettersAreLabels, AroundAltered
      <3>4. QED
        BY <3>2, <3>3
    <2>5. ASSUME D # 0, D # 1
          PROVE  Around(v, i, <<After(v, i)[2], After(v, i)[1]>>, 3) = Swapped(v, i + 1)
      BY <2>2, <2>5, AroundSwapped
    <2>6. PICK A : A = {Inserted(v, i, c) : c \in Letters}
      OBVIOUS
    <2>7. PICK B : B = {Altered(v, i + 1, c) : c \in Letters}
      OBVIOUS
    <2>8. {Around(v, i, <<c>>, 1) : c \in Letters} = A
      BY <2>3, <2>6
    <2>9. D # 0 => {Around(v, i, <<c>>, 2) : c \in Letters} = B
      BY <2>4, <2>7
    <2>10. PICK O, R, Z : /\ O = Around(v, i, <<>>, 2) /\ R = {Around(v, i, <<c>>, 2) : c \in Letters}
                          /\ Z = Around(v, i, <<After(v, i)[2], After(v, i)[1]>>, 3)
      OBVIOUS
    <2>11. EditsAt(v, i) = A \union (IF Len(After(v, i)) = 0 THEN {} ELSE
               {O} \union R \union (IF Len(After(v, i)) = 1 THEN {} ELSE {Z}))
      BY <2>8, <2>10, Zenon DEF EditsAt
    <2>12. D # 0 => O = Without(v, i + 1) /\ R = B
      BY <2>4, <2>9, <2>10
    <2>13. D # 0 /\ D # 1 => Z = Swapped(v, i + 1)
      BY <2>5, <2>10
    <2>14. CASE D = 0
      <3>1. EditsAt(v, i) = A
        BY <2>1, <2>11, <2>14
      <3>2. QED
        BY <2>2, <2>6, <2>14, <3>1 DEF IsEdit
    <2>15. CASE D = 1
      <3>1. EditsAt(v, i) = A \union ({O} \union R)
        BY <2>1, <2>11, <2>15
      <3>2. QED
        BY <2>2, <2>6, <2>7, <2>12, <2>15, <3>1 DEF IsEdit
    <2>16. CASE D # 0 /\ D # 1
      <3>1. EditsAt(v, i) = A \union ({O} \union R \union {Z})
        BY <2>1, <2>11, <2>16
      <3>2. QED
        BY <2>2, <2>6, <2>7, <2>12, <2>13, <2>16, <3>1 DEF IsEdit
    <2>17. QED
      BY <2>14, <2>15, <2>16
  <1>3. w \in Edits(v) <=> \E i \in 0 .. Len(v) : w \in EditsAt(v, i)
    BY EditsAtPlaces
  <1>4. QED
    BY <1>2, <1>3

-----------------------------------------------------------------------------
(* The frames of fromFuzzyString: a word with its edits made, cut at a     *)
(* place; before it the way to the node, after it the characters left.     *)

Frame(x, k, y) == [node |-> x, editsRemaining |-> k, str |-> y]

Cut(z, i, k) == Frame(SubSeq(z, 1, i), k, After(z, i))

LEMMA FrameIs ==
  ASSUME NEW x, NEW k, NEW y
  PROVE  Frame(x, k, y).node = x /\ Frame(x, k, y).editsRemaining = k /\ Frame(x, k, y).str = y
  BY DEF Frame

LEMMA BeforeIs ==
  ASSUME NEW S, NEW z \in Seq(S), NEW i \in 0 .. Len(z)
  PROVE  /\ SubSeq(z, 1, i) \in Seq(S) /\ Len(SubSeq(z, 1, i)) = i
         /\ \A j \in 1 .. i : SubSeq(z, 1, i)[j] = z[j]
  <1>1. i \in Nat /\ i <= Len(z) /\ 1 \in Nat /\ 1 >= 1
    BY LenProperties
  <1>2. PICK a : a = SubSeq(z, 1, i)
    OBVIOUS
  <1>3. /\ a \in Seq(S) /\ Len(a) = (IF 1 <= i THEN i - 1 + 1 ELSE 0)
        /\ \A j \in 1 .. i - 1 + 1 : a[j] = z[1 + j - 1]
    BY <1>1, <1>2, Piece
  <1>4. Len(a) = i
    BY <1>1, <1>3
  <1>5. \A j \in 1 .. i : j \in 1 .. i - 1 + 1 /\ 1 + j - 1 = j
    BY <1>1
  <1>6. QED
    BY <1>2, <1>3, <1>4, <1>5

IsSplit(z, x, y) ==
    /\ z \in Seq(Labels) /\ x \in Seq(Labels) /\ y \in Seq(Labels) /\ Len(z) = Len(x) + Len(y)
    /\ \A j \in 1 .. Len(x) : z[j] = x[j]
    /\ \A j \in 1 .. Len(y) : z[Len(x) + j] = y[j]

LEMMA CutOf ==
  ASSUME NEW z, NEW x, NEW y, IsSplit(z, x, y), NEW k
  PROVE  Cut(z, Len(x), k) = Frame(x, k, y)
  <1>1. PICK i \in Nat, n \in Nat : i = Len(x) /\ n = Len(y)
    <2>1. Len(x) \in Nat /\ Len(y) \in Nat
      BY LenProperties DEF IsSplit
    <2>2. QED
      BY <2>1
  <1>2. /\ z \in Seq(Labels) /\ x \in Seq(Labels) /\ y \in Seq(Labels) /\ Len(z) = i + n
        /\ (\A j \in 1 .. i : z[j] = x[j]) /\ \A j \in 1 .. n : z[i + j] = y[j]
    BY <1>1 DEF IsSplit
  <1>3. i \in 0 .. Len(z) /\ Len(z) - i = n
    BY <1>2
  <1>4. SubSeq(z, 1, i) = x
    <2>1. PICK a : a = SubSeq(z, 1, i)
      OBVIOUS
    <2>2. a \in Seq(Labels) /\ Len(a) = i /\ \A j \in 1 .. i : a[j] = z[j]
      BY <1>2, <1>3, <2>1, BeforeIs
    <2>3. a = x
      BY <1>1, <1>2, <2>2, SeqEqual
    <2>4. QED
      BY <2>1, <2>3
  <1>5. After(z, i) = y
    <2>1. PICK b : b = After(z, i)
      OBVIOUS
    <2>2. b \in Seq(Labels) /\ Len(b) = n /\ \A j \in 1 .. n : b[j] = z[i + j]
      BY <1>2, <1>3, <2>1, AfterIs
    <2>3. b = y
      BY <1>1, <1>2, <2>2, SeqEqual
    <2>4. QED
      BY <2>1, <2>3
  <1>6. QED
    BY <1>1, <1>4, <1>5 DEF Cut

(* The cut behind one character more. *)
Continues(z, i, x, c, y) ==
    /\ x \in Seq(Labels) /\ c \in Labels /\ y \in Seq(Labels) /\ z \in Seq(Labels)
    /\ i = Len(x) /\ Len(z) = i + 1 + Len(y) /\ z[i + 1] = c
    /\ \A j \in 1 .. i : z[j] = x[j]
    /\ \A j \in 1 .. Len(y) : z[i + 1 + j] = y[j]

LEMMA NextCut ==
  ASSUME NEW z, NEW i, NEW x, NEW c, NEW y, Continues(z, i, x, c, y), NEW k
  PROVE  Cut(z, i + 1, k) = Frame(Append(x, c), k, y)
  <1>1. /\ x \in Seq(Labels) /\ c \in Labels /\ y \in Seq(Labels) /\ z \in Seq(Labels)
        /\ i = Len(x) /\ Len(z) = i + 1 + Len(y) /\ z[i + 1] = c
        /\ \A j \in 1 .. i : z[j] = x[j]
        /\ \A j \in 1 .. Len(y) : z[i + 1 + j] = y[j]
    BY DEF Continues
  <1>2. PICK a : a = Append(x, c)
    OBVIOUS
  <1>3. i \in Nat /\ Len(y) \in Nat
    BY <1>1, LenProperties
  <1>4. a \in Seq(Labels) /\ Len(a) = i + 1 /\ (\A j \in 1 .. i : a[j] = x[j]) /\ a[i + 1] = c
    BY <1>1, <1>2, AppendProperties
  <1>5. ASSUME NEW j \in 1 .. i + 1 PROVE z[j] = a[j]
    <2>1. j \in 1 .. i \/ j = i + 1
      BY <1>3
    <2>2. QED
      BY <1>1, <1>4, <2>1
  <1>6. Len(z) = Len(a) + Len(y)
    BY <1>1, <1>4
  <1>7. IsSplit(z, a, y)
    BY <1>1, <1>4, <1>5, <1>6 DEF IsSplit
  <1>8. Cut(z, Len(a), k) = Frame(a, k, y)
    BY <1>7, CutOf
  <1>9. QED
    BY <1>2, <1>4, <1>8

IsOneOn(x, k, y, g) ==
    \/ Len(y) > 0 /\ g = Frame(Append(x, y[1]), k, Tail(y))
    \/ /\ k # 0
       /\ \/ Len(y) > 1 /\ g = Frame(Append(x, y[2]), k - 1, SubSeq(y, 3, Len(y)))
          \/ Len(y) = 1 /\ g = Frame(x, k, <<>>)
          \/ Len(y) >= 1 /\ g = Frame(Append(x, "*"), k - 1, Tail(y))
          \/ g = Frame(Append(x, "*"), k - 1, y)
          \/ Len(y) > 1 /\ g = Frame(Append(x, y[2]), k - 1, <<y[1]>> \o SubSeq(y, 3, Len(y)))

LEMMA NextFrames ==
  ASSUME NEW x, NEW k, NEW y, NEW g
  PROVE  g \in FuzzyEdits(Frame(x, k, y)) <=> IsOneOn(x, k, y, g)
  <1>1. PICK f : f = Frame(x, k, y)
    OBVIOUS
  <1>2. f.node = x /\ f.editsRemaining = k /\ f.str = y
    BY <1>1, FrameIs
  <1>3. PICK A, B, C, D, E, F : /\ A = Frame(Append(x, y[1]), k, Tail(y))
                                /\ B = Frame(Append(x, y[2]), k - 1, SubSeq(y, 3, Len(y)))
                                /\ C = Frame(x, k, <<>>)
                                /\ D = Frame(Append(x, "*"), k - 1, Tail(y))
                                /\ E = Frame(Append(x, "*"), k - 1, y)
                                /\ F = Frame(Append(x, y[2]), k - 1, <<y[1]>> \o SubSeq(y, 3, Len(y)))
    OBVIOUS
  <1>4. FuzzyEdits(f) =
            (IF Len(f.str) > 0 THEN {Frame(Append(f.node, f.str[1]), f.editsRemaining, Tail(f.str))} ELSE {}) \union
            IF f.editsRemaining = 0 THEN {} ELSE
                (IF Len(f.str) > 1
                 THEN {Frame(Append(f.node, f.str[2]), f.editsRemaining - 1, SubSeq(f.str, 3, Len(f.str)))} ELSE {})
                \union (IF Len(f.str) = 1 THEN {Frame(f.node, f.editsRemaining, <<>>)} ELSE {})
                \union (IF Len(f.str) >= 1
                        THEN {Frame(Append(f.node, "*"), f.editsRemaining - 1, Tail(f.str))} ELSE {})
                \union {Frame(Append(f.node, "*"), f.editsRemaining - 1, f.str)}
                \union (IF Len(f.str) > 1
                        THEN {Frame(Append(f.node, f.str[2]), f.editsRemaining - 1,
                                    <<f.str[1]>> \o SubSeq(f.str, 3, Len(f.str)))} ELSE {})
    BY Zenon DEF FuzzyEdits, Frame
  <1>5. FuzzyEdits(f) =
            (IF Len(y) > 0 THEN {A} ELSE {}) \union
            IF k = 0 THEN {} ELSE
                (IF Len(y) > 1 THEN {B} ELSE {}) \union (IF Len(y) = 1 THEN {C} ELSE {})
                \union (IF Len(y) >= 1 THEN {D} ELSE {}) \union {E} \union (IF Len(y) > 1 THEN {F} ELSE {})
    BY <1>2, <1>3, <1>4, Zenon
  <1>6. g \in FuzzyEdits(f) <=>
            \/ Len(y) > 0 /\ g = A
            \/ k # 0 /\ (\/ Len(y) > 1 /\ g = B
                         \/ Len(y) = 1 /\ g = C
                         \/ Len(y) >= 1 /\ g = D
                         \/ g = E
                         \/ Len(y) > 1 /\ g = F)
    BY <1>5
  <1>7. QED
    BY <1>1, <1>3, <1>6, Zenon DEF IsOneOn

(* The same said of cuts: each frame that fromFuzzyString pushes is a cut  *)
(* of the word as it is, or of the word with one more edit made here.      *)
IsNext(z, i, k, g) ==
    \/ i + 1 <= Len(z) /\ g = Cut(z, i + 1, k)
    \/ /\ k # 0
       /\ \/ i + 2 <= Len(z) /\ g = Cut(Without(z, i + 1), i + 1, k - 1)
          \/ i + 1 = Len(z) /\ g = Cut(Without(z, i + 1), i, k)
          \/ i + 1 <= Len(z) /\ g = Cut(Altered(z, i + 1, "*"), i + 1, k - 1)
          \/ g = Cut(Inserted(z, i, "*"), i + 1, k - 1)
          \/ i + 2 <= Len(z) /\ g = Cut(Swapped(z, i + 1), i + 1, k - 1)

(* What is left after a place. *)
IsTail(t, y) == t \in Seq(Labels) /\ Len(t) = Len(y) - 1 /\ \A j \in 1 .. Len(y) - 1 : t[j] = y[j + 1]

LEMMA TailLeft == ASSUME NEW y \in Seq(Labels), Len(y) >= 1 PROVE IsTail(Tail(y), y)
  <1>1. PICK n \in Nat : n = Len(y) /\ n >= 1
    BY LenProperties
  <1>2. y # <<>>
    BY <1>1, EmptySeq
  <1>3. /\ Tail(y) \in Seq(Labels) /\ Len(Tail(y)) = Len(y) - 1
        /\ \A j \in 1 .. Len(Tail(y)) : Tail(y)[j] = y[j + 1]
    BY <1>2, HeadTailProperties
  <1>4. QED
    BY <1>3 DEF IsTail

IsLate(t, y) == t \in Seq(Labels) /\ Len(t) = Len(y) - 2 /\ \A j \in 1 .. Len(y) - 2 : t[j] = y[j + 2]

LEMMA LateLeft == ASSUME NEW y \in Seq(Labels), Len(y) >= 2 PROVE IsLate(SubSeq(y, 3, Len(y)), y)
  <1>1. PICK n \in Nat : n = Len(y) /\ n >= 2
    BY LenProperties
  <1>2. PICK t : t = SubSeq(y, 3, n)
    OBVIOUS
  <1>3. /\ t \in Seq(Labels) /\ Len(t) = (IF 3 <= n THEN n - 3 + 1 ELSE 0)
        /\ \A j \in 1 .. n - 3 + 1 : t[j] = y[3 + j - 1]
    <2>1. 3 \in Nat /\ 3 >= 1 /\ n <= Len(y)
      BY <1>1
    <2>2. QED
      BY <1>2, <2>1, Piece
  <1>4. Len(t) = n - 2
    BY <1>1, <1>3
  <1>5. \A j \in 1 .. n - 2 : j \in 1 .. n - 3 + 1 /\ 3 + j - 1 = j + 2
    BY <1>1
  <1>6. QED
    BY <1>1, <1>2, <1>3, <1>4, <1>5 DEF IsLate

IsKept(t, y) ==
    /\ t \in Seq(Labels) /\ Len(t) = Len(y) - 1 /\ t[1] = y[1]
    /\ \A j \in 2 .. Len(y) - 1 : t[j] = y[j + 1]

LEMMA KeptLeft ==
  ASSUME NEW y \in Seq(Labels), Len(y) >= 2
  PROVE  IsKept(<<y[1]>> \o SubSeq(y, 3, Len(y)), y)
  <1>1. PICK n \in Nat : n = Len(y) /\ n >= 2
    BY LenProperties
  <1>2. PICK s, t, c : s = SubSeq(y, 3, n) /\ c = y[1] /\ t = <<c>> \o s
    OBVIOUS
  <1>3. s \in Seq(Labels) /\ Len(s) = n - 2 /\ \A j \in 1 .. n - 2 : s[j] = y[j + 2]
    BY <1>1, <1>2, LateLeft DEF IsLate
  <1>4. c \in Labels
    <2>1. 1 \in 1 .. Len(y)
      BY <1>1
    <2>2. QED
      BY <1>2, <2>1, ElementOfSeq
  <1>5. PICK o : o = <<c>>
    OBVIOUS
  <1>6. o \in Seq(Labels) /\ Len(o) = 1 /\ o[1] = c
    BY <1>4, <1>5, OneCharacter
  <1>7. /\ t \in Seq(Labels) /\ Len(t) = 1 + (n - 2)
        /\ \A j \in 1 .. 1 + (n - 2) : t[j] = IF j <= 1 THEN o[j] ELSE s[j - 1]
    <2>1. /\ t \in Seq(Labels) /\ Len(t) = Len(o) + Len(s)
          /\ \A j \in 1 .. Len(o) + Len(s) : t[j] = IF j <= Len(o) THEN o[j] ELSE s[j - Len(o)]
      BY <1>2, <1>3, <1>5, <1>6, ConcatProperties
    <2>2. QED
      BY <1>3, <1>6, <2>1
  <1>8. Len(t) = n - 1 /\ t[1] = c
    <2>1. 1 \in 1 .. 1 + (n - 2) /\ 1 + (n - 2) = n - 1
      BY <1>1
    <2>2. QED
      BY <1>6, <1>7, <2>1
  <1>9. ASSUME NEW j \in 2 .. n - 1 PROVE t[j] = y[j + 1]
    <2>1. j \in 1 .. 1 + (n - 2) /\ ~ (j <= 1) /\ j - 1 \in 1 .. n - 2 /\ (j - 1) + 2 = j + 1
      BY <1>1
    <2>2. QED
      BY <1>3, <1>7, <2>1
  <1>10. QED
    BY <1>1, <1>2, <1>7, <1>8, <1>9 DEF IsKept

(* Where a word is cut in two. *)
IsHere(z, i, L, x, y) ==
    /\ z \in Seq(Labels) /\ L \in Nat /\ Len(z) = L /\ i \in 0 .. L
    /\ x = SubSeq(z, 1, i) /\ x \in Seq(Labels) /\ Len(x) = i /\ \A j \in 1 .. i : x[j] = z[j]
    /\ y = After(z, i) /\ y \in Seq(Labels) /\ Len(y) = L - i /\ \A j \in 1 .. L - i : y[j] = z[i + j]

LEMMA SomeHere ==
  ASSUME NEW z \in Seq(Labels), NEW i \in 0 .. Len(z)
  PROVE  \E L, x, y : IsHere(z, i, L, x, y)
  <1>1. PICK L \in Nat : L = Len(z)
    BY LenProperties
  <1>2. PICK x, y : x = SubSeq(z, 1, i) /\ y = After(z, i)
    OBVIOUS
  <1>3. x \in Seq(Labels) /\ Len(x) = i /\ \A j \in 1 .. i : x[j] = z[j]
    BY <1>2, BeforeIs
  <1>4. y \in Seq(Labels) /\ Len(y) = L - i /\ \A j \in 1 .. L - i : y[j] = z[i + j]
    BY <1>1, <1>2, AfterIs
  <1>5. x = SubSeq(z, 1, i) /\ y = After(z, i)
    BY <1>2
  <1>6. IsHere(z, i, L, x, y)
    <2>1. i \in 0 .. L
      BY <1>1
    <2>2. QED
      BY <1>1, <1>3, <1>4, <1>5, <2>1 DEF IsHere
  <1>7. QED
    BY <1>6

(* The lengths of the two parts of a string. *)
LEMMA PartLengths ==
  /\ \A L, i, m, n \in Int : n = L /\ m = (L - i) - 1 => n = i + 1 + m
  /\ \A L, i, m, n \in Int : n = L - 1 /\ m = (L - i) - 2 => n = i + 1 + m
  /\ \A L, i, m \in Int : m = L - i /\ m = 1 => i + 1 = L
  OBVIOUS

LEMMA KeepCut ==
  ASSUME NEW z, NEW i, NEW L, NEW x, NEW y, IsHere(z, i, L, x, y), i + 1 <= L, NEW k
  PROVE  Cut(z, i + 1, k) = Frame(Append(x, y[1]), k, Tail(y))
  <1>1. /\ z \in Seq(Labels) /\ L \in Nat /\ Len(z) = L /\ i \in 0 .. L
        /\ x \in Seq(Labels) /\ Len(x) = i /\ (\A j \in 1 .. i : x[j] = z[j])
        /\ y \in Seq(Labels) /\ Len(y) = L - i /\ \A j \in 1 .. L - i : y[j] = z[i + j]
    BY DEF IsHere
  <1>2. PICK t : t = Tail(y)
    OBVIOUS
  <1>3. PICK c : c = y[1]
    OBVIOUS
  <1>4. 1 \in 1 .. Len(y) /\ 1 \in 1 .. L - i /\ Len(y) >= 1
    BY <1>1
  <1>5. c \in Labels /\ z[i + 1] = c
    BY <1>1, <1>3, <1>4, ElementOfSeq
  <1>6. t \in Seq(Labels) /\ Len(t) = (L - i) - 1 /\ \A j \in 1 .. (L - i) - 1 : t[j] = y[j + 1]
    BY <1>1, <1>2, <1>4, TailLeft DEF IsTail
  <1>7. Len(z) = i + 1 + Len(t)
    <2>1. L \in Int /\ i \in Int /\ Len(z) \in Int /\ Len(t) \in Int
      BY <1>1, <1>6
    <2>2. Len(z) = L /\ Len(t) = (L - i) - 1
      BY <1>1, <1>6
    <2>3. QED
      BY <2>1, <2>2, PartLengths
  <1>8. \A j \in 1 .. Len(t) : z[i + 1 + j] = t[j]
    <2>1. \A j \in 1 .. (L - i) - 1 : j + 1 \in 1 .. L - i /\ i + (j + 1) = i + 1 + j
      BY <1>1
    <2>2. QED
      BY <1>1, <1>6, <2>1
  <1>9. \A j \in 1 .. i : z[j] = x[j]
    BY <1>1
  <1>10. Continues(z, i, x, c, t)
    BY <1>1, <1>5, <1>6, <1>7, <1>8, <1>9 DEF Continues
  <1>11. Cut(z, i + 1, k) = Frame(Append(x, c), k, t)
    BY <1>10, NextCut
  <1>12. QED
    BY <1>2, <1>3, <1>11

LEMMA InsertCut ==
  ASSUME NEW z, NEW i, NEW L, NEW x, NEW y, IsHere(z, i, L, x, y), NEW k
  PROVE  Cut(Inserted(z, i, "*"), i + 1, k) = Frame(Append(x, "*"), k, y)
  <1>1. /\ z \in Seq(Labels) /\ L \in Nat /\ Len(z) = L /\ i \in 0 .. L
        /\ x \in Seq(Labels) /\ Len(x) = i /\ (\A j \in 1 .. i : x[j] = z[j])
        /\ y \in Seq(Labels) /\ Len(y) = L - i /\ \A j \in 1 .. L - i : y[j] = z[i + j]
    BY DEF IsHere
  <1>2. PICK s, c : s = Inserted(z, i, c) /\ c = "*" /\ c \in Labels
    BY LettersAreLabels
  <1>3. /\ s \in Seq(Labels) /\ Len(s) = L + 1 /\ (\A j \in 1 .. i : s[j] = z[j])
        /\ s[i + 1] = c /\ \A j \in i + 1 .. L : s[j + 1] = z[j]
    <2>1. i \in 0 .. Len(z)
      BY <1>1
    <2>2. IsInserted(s, Labels, z, i, c)
      BY <1>1, <1>2, <2>1, InsertedIs
    <2>3. QED
      BY <1>1, <2>2 DEF IsInserted
  <1>4. Len(s) = i + 1 + Len(y)
    BY <1>1, <1>3
  <1>5. \A j \in 1 .. Len(y) : s[i + 1 + j] = y[j]
    <2>1. \A j \in 1 .. L - i : i + j \in i + 1 .. L /\ (i + j) + 1 = i + 1 + j
      BY <1>1
    <2>2. QED
      BY <1>1, <1>3, <2>1
  <1>6. \A j \in 1 .. i : s[j] = x[j]
    BY <1>1, <1>3
  <1>7. Continues(s, i, x, c, y)
    BY <1>1, <1>2, <1>3, <1>4, <1>5, <1>6 DEF Continues
  <1>8. Cut(s, i + 1, k) = Frame(Append(x, c), k, y)
    BY <1>7, NextCut
  <1>9. QED
    BY <1>2, <1>8

LEMMA AlterCut ==
  ASSUME NEW z, NEW i, NEW L, NEW x, NEW y, IsHere(z, i, L, x, y), i + 1 <= L, NEW k
  PROVE  Cut(Altered(z, i + 1, "*"), i + 1, k) = Frame(Append(x, "*"), k, Tail(y))
  <1>1. /\ z \in Seq(Labels) /\ L \in Nat /\ Len(z) = L /\ i \in 0 .. L
        /\ x \in Seq(Labels) /\ Len(x) = i /\ (\A j \in 1 .. i : x[j] = z[j])
        /\ y \in Seq(Labels) /\ Len(y) = L - i /\ \A j \in 1 .. L - i : y[j] = z[i + j]
    BY DEF IsHere
  <1>2. PICK s, c : s = Altered(z, i + 1, c) /\ c = "*" /\ c \in Labels
    BY LettersAreLabels
  <1>3. /\ s \in Seq(Labels) /\ Len(s) = L /\ s[i + 1] = c
        /\ \A j \in 1 .. L : j # i + 1 => s[j] = z[j]
    <2>1. i + 1 \in 1 .. Len(z)
      BY <1>1
    <2>2. IsAltered(s, Labels, z, i + 1, c)
      BY <1>1, <1>2, <2>1, AlteredIs
    <2>3. QED
      BY <1>1, <2>2 DEF IsAltered
  <1>4. PICK t : t = Tail(y)
    OBVIOUS
  <1>5. t \in Seq(Labels) /\ Len(t) = (L - i) - 1 /\ \A j \in 1 .. (L - i) - 1 : t[j] = y[j + 1]
    <2>1. Len(y) >= 1
      BY <1>1
    <2>2. QED
      BY <1>1, <1>4, <2>1, TailLeft DEF IsTail
  <1>6. Len(s) = i + 1 + Len(t)
    BY <1>1, <1>3, <1>5
  <1>7. \A j \in 1 .. Len(t) : s[i + 1 + j] = t[j]
    <2>1. \A j \in 1 .. (L - i) - 1 : /\ j + 1 \in 1 .. L - i /\ i + (j + 1) = i + 1 + j
                                      /\ i + 1 + j \in 1 .. L /\ i + 1 + j # i + 1
      <3>1. L \in Nat /\ i \in 0 .. L
        BY <1>1
      <3>2. QED
        BY <3>1
    <2>2. QED
      BY <1>1, <1>3, <1>5, <2>1
  <1>8. \A j \in 1 .. i : s[j] = x[j]
    <2>1. \A j \in 1 .. i : j \in 1 .. L /\ j # i + 1
      BY <1>1
    <2>2. QED
      BY <1>1, <1>3, <2>1
  <1>9. Continues(s, i, x, c, t)
    BY <1>1, <1>2, <1>3, <1>5, <1>6, <1>7, <1>8 DEF Continues
  <1>10. Cut(s, i + 1, k) = Frame(Append(x, c), k, t)
    BY <1>9, NextCut
  <1>11. QED
    BY <1>2, <1>4, <1>10

LEMMA DropCut ==
  ASSUME NEW z, NEW i, NEW L, NEW x, NEW y, IsHere(z, i, L, x, y), i + 2 <= L, NEW k
  PROVE  Cut(Without(z, i + 1), i + 1, k) = Frame(Append(x, y[2]), k, SubSeq(y, 3, Len(y)))
  <1>1. /\ z \in Seq(Labels) /\ L \in Nat /\ Len(z) = L /\ i \in 0 .. L
        /\ x \in Seq(Labels) /\ Len(x) = i /\ (\A j \in 1 .. i : x[j] = z[j])
        /\ y \in Seq(Labels) /\ Len(y) = L - i /\ \A j \in 1 .. L - i : y[j] = z[i + j]
    BY DEF IsHere
  <1>2. L \in Nat /\ i \in 0 .. L /\ i + 2 <= L
    BY <1>1
  <1>3. PICK s : s = Without(z, i + 1)
    OBVIOUS
  <1>4. /\ s \in Seq(Labels) /\ Len(s) = L - 1 /\ (\A j \in 1 .. (i + 1) - 1 : s[j] = z[j])
        /\ \A j \in i + 1 .. L - 1 : s[j] = z[j + 1]
    <2>1. i + 1 \in 1 .. Len(z)
      BY <1>1
    <2>2. IsWithout(s, Labels, z, i + 1)
      BY <1>1, <1>3, <2>1, WithoutIs
    <2>3. QED
      BY <1>1, <2>2 DEF IsWithout
  <1>5. PICK t : t = SubSeq(y, 3, Len(y))
    OBVIOUS
  <1>6. t \in Seq(Labels) /\ Len(t) = (L - i) - 2 /\ \A j \in 1 .. (L - i) - 2 : t[j] = y[j + 2]
    <2>1. Len(y) >= 2
      BY <1>1
    <2>2. QED
      BY <1>1, <1>5, <2>1, LateLeft DEF IsLate
  <1>7. PICK c : c = y[2]
    OBVIOUS
  <1>8. c \in Labels /\ s[i + 1] = c
    <2>1. 2 \in 1 .. L - i /\ i + 1 \in i + 1 .. L - 1 /\ (i + 1) + 1 = i + 2
      BY <1>2
    <2>2. c \in Labels
      BY <1>1, <1>7, <2>1, ElementOfSeq
    <2>3. QED
      BY <1>1, <1>4, <1>7, <2>1, <2>2
  <1>9. Len(s) = i + 1 + Len(t)
    <2>1. L \in Int /\ i \in Int /\ Len(s) \in Int /\ Len(t) \in Int
      BY <1>1, <1>4, <1>6
    <2>2. Len(s) = L - 1 /\ Len(t) = (L - i) - 2
      BY <1>4, <1>6
    <2>3. QED
      BY <2>1, <2>2, PartLengths
  <1>10. \A j \in 1 .. Len(t) : s[i + 1 + j] = t[j]
    <2>1. \A j \in 1 .. (L - i) - 2 : /\ j + 2 \in 1 .. L - i /\ i + (j + 2) = i + 1 + j + 1
                                      /\ i + 1 + j \in i + 1 .. L - 1
      BY <1>2
    <2>2. QED
      BY <1>1, <1>4, <1>6, <2>1
  <1>11. \A j \in 1 .. i : s[j] = x[j]
    <2>1. \A j \in 1 .. i : j \in 1 .. (i + 1) - 1
      BY <1>2
    <2>2. QED
      BY <1>1, <1>4, <2>1
  <1>12. Continues(s, i, x, c, t)
    BY <1>1, <1>4, <1>6, <1>8, <1>9, <1>10, <1>11 DEF Continues
  <1>13. Cut(s, i + 1, k) = Frame(Append(x, c), k, t)
    BY <1>12, NextCut
  <1>14. QED
    BY <1>3, <1>5, <1>7, <1>13

LEMMA DropLastCut ==
  ASSUME NEW z, NEW i, NEW L, NEW x, NEW y, IsHere(z, i, L, x, y), Len(y) = 1, NEW k
  PROVE  Cut(Without(z, i + 1), i, k) = Frame(x, k, <<>>)
  <1>1. /\ z \in Seq(Labels) /\ L \in Nat /\ Len(z) = L /\ i \in 0 .. L
        /\ x \in Seq(Labels) /\ Len(x) = i /\ (\A j \in 1 .. i : x[j] = z[j])
        /\ Len(y) = L - i
    BY DEF IsHere
  <1>2. L \in Nat /\ i \in 0 .. L /\ i + 1 = L
    <2>1. L \in Nat /\ i \in 0 .. L /\ Len(y) = L - i
      BY <1>1
    <2>2. L \in Int /\ i \in Int /\ Len(y) \in Int
      BY <2>1
    <2>3. QED
      BY <2>1, <2>2, PartLengths
  <1>3. PICK s : s = Without(z, i + 1)
    OBVIOUS
  <1>4. s \in Seq(Labels) /\ Len(s) = L - 1 /\ \A j \in 1 .. (i + 1) - 1 : s[j] = z[j]
    <2>1. i + 1 \in 1 .. Len(z)
      BY <1>1
    <2>2. IsWithout(s, Labels, z, i + 1)
      BY <1>1, <1>3, <2>1, WithoutIs
    <2>3. QED
      BY <1>1, <2>2 DEF IsWithout
  <1>5. PICK e : e = <<>>
    OBVIOUS
  <1>6. e \in Seq(Labels) /\ Len(e) = 0
    BY <1>5, EmptySeq
  <1>7. Len(s) = Len(x) + Len(e) /\ \A j \in 1 .. Len(e) : s[Len(x) + j] = e[j]
    BY <1>1, <1>2, <1>4, <1>6
  <1>8. \A j \in 1 .. Len(x) : s[j] = x[j]
    <2>1. \A j \in 1 .. i : j \in 1 .. (i + 1) - 1
      BY <1>2
    <2>2. QED
      BY <1>1, <1>4, <2>1
  <1>9. IsSplit(s, x, e)
    BY <1>1, <1>4, <1>6, <1>7, <1>8 DEF IsSplit
  <1>10. Cut(s, Len(x), k) = Frame(x, k, e)
    BY <1>9, CutOf
  <1>11. QED
    BY <1>1, <1>3, <1>5, <1>10

LEMMA SwapCut ==
  ASSUME NEW z, NEW i, NEW L, NEW x, NEW y, IsHere(z, i, L, x, y), i + 2 <= L, NEW k
  PROVE  Cut(Swapped(z, i + 1), i + 1, k) = Frame(Append(x, y[2]), k, <<y[1]>> \o SubSeq(y, 3, Len(y)))
  <1>1. /\ z \in Seq(Labels) /\ L \in Nat /\ Len(z) = L /\ i \in 0 .. L
        /\ x \in Seq(Labels) /\ Len(x) = i /\ (\A j \in 1 .. i : x[j] = z[j])
        /\ y \in Seq(Labels) /\ Len(y) = L - i /\ \A j \in 1 .. L - i : y[j] = z[i + j]
    BY DEF IsHere
  <1>2. L \in Nat /\ i \in 0 .. L /\ i + 2 <= L
    BY <1>1
  <1>3. PICK s : s = Swapped(z, i + 1)
    OBVIOUS
  <1>4. /\ s \in Seq(Labels) /\ Len(s) = L /\ s[i + 1] = z[i + 2] /\ s[i + 2] = z[i + 1]
        /\ \A j \in 1 .. L : j # i + 1 /\ j # i + 2 => s[j] = z[j]
    <2>1. i + 1 \in 1 .. Len(z) /\ (i + 1) + 1 <= Len(z) /\ (i + 1) + 1 = i + 2
      BY <1>1, <1>2
    <2>2. IsSwapped(s, Labels, z, i + 1)
      BY <1>1, <1>3, <2>1, SwappedIs
    <2>3. QED
      BY <1>1, <2>1, <2>2 DEF IsSwapped
  <1>5. PICK t : t = <<y[1]>> \o SubSeq(y, 3, Len(y))
    OBVIOUS
  <1>6. /\ t \in Seq(Labels) /\ Len(t) = (L - i) - 1 /\ t[1] = y[1]
        /\ \A j \in 2 .. (L - i) - 1 : t[j] = y[j + 1]
    <2>1. Len(y) >= 2
      BY <1>1
    <2>2. QED
      BY <1>1, <1>5, <2>1, KeptLeft DEF IsKept
  <1>7. PICK c : c = y[2]
    OBVIOUS
  <1>8. c \in Labels /\ s[i + 1] = c /\ s[i + 2] = t[1]
    <2>1. 1 \in 1 .. L - i /\ 2 \in 1 .. L - i
      BY <1>2
    <2>2. c \in Labels
      BY <1>1, <1>7, <2>1, ElementOfSeq
    <2>3. QED
      BY <1>1, <1>4, <1>6, <1>7, <2>1, <2>2
  <1>9. Len(s) = i + 1 + Len(t)
    <2>1. L \in Int /\ i \in Int /\ Len(s) \in Int /\ Len(t) \in Int
      BY <1>1, <1>4, <1>6
    <2>2. Len(s) = L /\ Len(t) = (L - i) - 1
      BY <1>4, <1>6
    <2>3. QED
      BY <2>1, <2>2, PartLengths
  <1>10. ASSUME NEW j \in 1 .. (L - i) - 1 PROVE s[i + 1 + j] = t[j]
    <2>1. CASE j = 1
      <3>1. i + 1 + j = i + 2
        BY <1>2, <2>1
      <3>2. QED
        BY <1>8, <2>1, <3>1
    <2>2. CASE j # 1
      <3>1. /\ j \in 2 .. (L - i) - 1 /\ j + 1 \in 1 .. L - i /\ i + (j + 1) = i + 1 + j
            /\ i + 1 + j \in 1 .. L /\ i + 1 + j # i + 1 /\ i + 1 + j # i + 2
        BY <1>2, <2>2
      <3>2. QED
        BY <1>1, <1>4, <1>6, <3>1
    <2>3. QED
      BY <2>1, <2>2
  <1>11. \A j \in 1 .. i : s[j] = x[j]
    <2>1. \A j \in 1 .. i : j \in 1 .. L /\ j # i + 1 /\ j # i + 2
      BY <1>2
    <2>2. QED
      BY <1>1, <1>4, <2>1
  <1>12. Continues(s, i, x, c, t)
    <2>1. \A j \in 1 .. Len(t) : s[i + 1 + j] = t[j]
      BY <1>6, <1>10
    <2>2. QED
      BY <1>1, <1>4, <1>6, <1>8, <1>9, <1>11, <2>1 DEF Continues
  <1>13. Cut(s, i + 1, k) = Frame(Append(x, c), k, t)
    BY <1>12, NextCut
  <1>14. QED
    BY <1>3, <1>5, <1>7, <1>13

LEMMA CutEdits ==
  ASSUME NEW z \in Seq(Labels), NEW i \in 0 .. Len(z), NEW k, NEW g
  PROVE  g \in FuzzyEdits(Cut(z, i, k)) <=> IsNext(z, i, k, g)
  <1>1. PICK L, x, y : IsHere(z, i, L, x, y)
    BY SomeHere
  <1>2. /\ L \in Nat /\ Len(z) = L /\ i \in 0 .. L /\ Len(y) = L - i
        /\ x = SubSeq(z, 1, i) /\ y = After(z, i)
    BY <1>1 DEF IsHere
  <1>3. Cut(z, i, k) = Frame(x, k, y)
    BY <1>2 DEF Cut
  <1>4. g \in FuzzyEdits(Cut(z, i, k)) <=> IsOneOn(x, k, y, g)
    BY <1>3, NextFrames
  <1>5. /\ Len(y) > 0 <=> i + 1 <= Len(z)
        /\ Len(y) > 1 <=> i + 2 <= Len(z)
        /\ Len(y) = 1 <=> i + 1 = Len(z)
        /\ Len(y) >= 1 <=> i + 1 <= Len(z)
    BY <1>2
  <1>6. i + 1 <= Len(z) => /\ Frame(Append(x, y[1]), k, Tail(y)) = Cut(z, i + 1, k)
                           /\ Frame(Append(x, "*"), k - 1, Tail(y)) = Cut(Altered(z, i + 1, "*"), i + 1, k - 1)
    <2>1. i + 1 <= Len(z) => i + 1 <= L
      BY <1>2
    <2>2. QED
      BY <1>1, <2>1, KeepCut, AlterCut
  <1>7. i + 2 <= Len(z) => Frame(Append(x, y[2]), k - 1, SubSeq(y, 3, Len(y)))
                               = Cut(Without(z, i + 1), i + 1, k - 1)
    <2>1. i + 2 <= Len(z) => i + 2 <= L
      BY <1>2
    <2>2. QED
      BY <1>1, <2>1, DropCut
  <1>8. i + 2 <= Len(z) => Frame(Append(x, y[2]), k - 1, <<y[1]>> \o SubSeq(y, 3, Len(y)))
                               = Cut(Swapped(z, i + 1), i + 1, k - 1)
    <2>1. i + 2 <= Len(z) => i + 2 <= L
      BY <1>2
    <2>2. QED
      BY <1>1, <2>1, SwapCut
  <1>9. ASSUME i + 1 = Len(z) PROVE Frame(x, k, <<>>) = Cut(Without(z, i + 1), i, k)
    <2>1. Len(y) = 1
      BY <1>5, <1>9
    <2>2. QED
      BY <1>1, <2>1, DropLastCut
  <1>10. Frame(Append(x, "*"), k - 1, y) = Cut(Inserted(z, i, "*"), i + 1, k - 1)
    BY <1>1, InsertCut
  <1>11. IsOneOn(x, k, y, g) <=> IsNext(z, i, k, g)
    BY <1>5, <1>6, <1>7, <1>8, <1>9, <1>10, Zenon DEF IsOneOn, IsNext
  <1>12. QED
    BY <1>4, <1>11

-----------------------------------------------------------------------------
(* The frames of so many turns, and the words of so many edits.            *)

NextTurn(F) == F \union UNION {FuzzyEdits(f) : f \in {g \in F : g.str # <<>>}}

HasTurns(N, first) == \E F : F = [k \in 0 .. N |-> IF k = 0 THEN first ELSE NextTurn(F[k - 1])]

LEMMA SomeTurns == ASSUME NEW N \in Nat, NEW first PROVE HasTurns(N, first)
  <1> DEFINE Match(F, m) == F[0] = first /\ \A k \in 1 .. m : F[k] = NextTurn(F[k - 1])
             T == {m \in Nat : \E F : Match(F, m)}
  <1>1. 0 \in T
    <2>1. Match([k \in {0} |-> first], 0)
      OBVIOUS
    <2>2. QED
      BY <2>1
  <1>2. ASSUME NEW m \in 1 .. N, m - 1 \in T PROVE m \in T
    <2>1. PICK F : Match(F, m - 1)
      BY <1>2
    <2> DEFINE h == [k \in 0 .. m |-> IF k = m THEN NextTurn(F[m - 1]) ELSE F[k]]
    <2>2. h[m] = NextTurn(F[m - 1]) /\ \A k \in 0 .. m - 1 : h[k] = F[k]
      OBVIOUS
    <2>3. m \in Nat /\ 0 \in 0 .. m - 1 /\ m - 1 \in 0 .. m - 1
      OBVIOUS
    <2> HIDE DEF h
    <2>4. ASSUME NEW k \in 1 .. m PROVE h[k] = NextTurn(h[k - 1])
      <3>1. k - 1 \in 0 .. m - 1 /\ (k = m \/ (k \in 1 .. m - 1 /\ k \in 0 .. m - 1))
        OBVIOUS
      <3>2. h[k - 1] = F[k - 1]
        BY <2>2, <3>1
      <3>3. CASE k = m
        BY <2>2, <3>2, <3>3
      <3>4. CASE k \in 1 .. m - 1 /\ k \in 0 .. m - 1
        BY <2>1, <2>2, <3>2, <3>4
      <3>5. QED
        BY <3>1, <3>3, <3>4
    <2>5. Match(h, m)
      BY <2>1, <2>2, <2>3, <2>4
    <2>6. QED
      BY <2>3, <2>5
  <1>3. N \in T
    <2> HIDE DEF T
    <2>1. \A k \in 0 .. N : k \in T
      BY <1>1, <1>2, Upwards
    <2>2. QED
      BY <2>1
  <1>4. PICK F : Match(F, N)
    BY <1>3
  <1> DEFINE h == [k \in 0 .. N |-> F[k]]
  <1>5. (\A k \in 0 .. N : h[k] = F[k]) /\ h = [k \in 0 .. N |-> h[k]]
    OBVIOUS
  <1> HIDE DEF h
  <1>6. ASSUME NEW k \in 0 .. N
        PROVE  h[k] = IF k = 0 THEN first ELSE NextTurn(h[k - 1])
    <2>1. k = 0 \/ (k \in 1 .. N /\ k - 1 \in 0 .. N)
      OBVIOUS
    <2>2. QED
      BY <1>4, <1>5, <2>1
  <1>7. h = [k \in 0 .. N |-> IF k = 0 THEN first ELSE NextTurn(h[k - 1])]
    BY <1>5, <1>6
  <1>8. QED
    BY <1>7 DEF HasTurns

IsTurns(F, N, first) == F[0] = first /\ \A k \in 1 .. N : F[k] = NextTurn(F[k - 1])

LEMMA FuzzyFramesAre ==
  ASSUME NEW first, NEW turns \in Nat
  PROVE  \E F : IsTurns(F, turns, first) /\ FuzzyFrames(first, turns) = F[turns]
  <1> DEFINE Step(F) == [k \in 0 .. turns |-> IF k = 0 THEN first ELSE NextTurn(F[k - 1])]
             steps == CHOOSE F : F = Step(F)
  <1>1. FuzzyFrames(first, turns) = steps[turns]
    BY DEF FuzzyFrames, NextTurn
  <1>2. steps = Step(steps)
    <2>1. HasTurns(turns, first)
      BY SomeTurns
    <2>2. \E F : F = Step(F)
      BY <2>1 DEF HasTurns
    <2>3. QED
      BY <2>2
  <1> HIDE DEF steps
  <1>3. \A k \in 0 .. turns : steps[k] = IF k = 0 THEN first ELSE NextTurn(steps[k - 1])
    BY <1>2, Zenon
  <1>4. steps[0] = first
    <2>1. 0 \in 0 .. turns
      OBVIOUS
    <2>2. QED
      BY <1>3, <2>1
  <1>5. ASSUME NEW k \in 1 .. turns PROVE steps[k] = NextTurn(steps[k - 1])
    <2>1. k \in 0 .. turns /\ k # 0
      OBVIOUS
    <2>2. QED
      BY <1>3, <2>1
  <1>6. QED
    BY <1>1, <1>4, <1>5 DEF IsTurns

NextRound(F) == F \union UNION {Edits(v) : v \in F}

HasRounds(N, first) == \E F : F = [k \in 0 .. N |-> IF k = 0 THEN first ELSE NextRound(F[k - 1])]

LEMMA SomeRounds == ASSUME NEW N \in Nat, NEW first PROVE HasRounds(N, first)
  <1> DEFINE Match(F, m) == F[0] = first /\ \A k \in 1 .. m : F[k] = NextRound(F[k - 1])
             T == {m \in Nat : \E F : Match(F, m)}
  <1>1. 0 \in T
    <2>1. Match([k \in {0} |-> first], 0)
      OBVIOUS
    <2>2. QED
      BY <2>1
  <1>2. ASSUME NEW m \in 1 .. N, m - 1 \in T PROVE m \in T
    <2>1. PICK F : Match(F, m - 1)
      BY <1>2
    <2> DEFINE h == [k \in 0 .. m |-> IF k = m THEN NextRound(F[m - 1]) ELSE F[k]]
    <2>2. h[m] = NextRound(F[m - 1]) /\ \A k \in 0 .. m - 1 : h[k] = F[k]
      OBVIOUS
    <2>3. m \in Nat /\ 0 \in 0 .. m - 1 /\ m - 1 \in 0 .. m - 1
      OBVIOUS
    <2> HIDE DEF h
    <2>4. ASSUME NEW k \in 1 .. m PROVE h[k] = NextRound(h[k - 1])
      <3>1. k - 1 \in 0 .. m - 1 /\ (k = m \/ (k \in 1 .. m - 1 /\ k \in 0 .. m - 1))
        OBVIOUS
      <3>2. h[k - 1] = F[k - 1]
        BY <2>2, <3>1
      <3>3. CASE k = m
        BY <2>2, <3>2, <3>3
      <3>4. CASE k \in 1 .. m - 1 /\ k \in 0 .. m - 1
        BY <2>1, <2>2, <3>2, <3>4
      <3>5. QED
        BY <3>1, <3>3, <3>4
    <2>5. Match(h, m)
      BY <2>1, <2>2, <2>3, <2>4
    <2>6. QED
      BY <2>3, <2>5
  <1>3. N \in T
    <2> HIDE DEF T
    <2>1. \A k \in 0 .. N : k \in T
      BY <1>1, <1>2, Upwards
    <2>2. QED
      BY <2>1
  <1>4. PICK F : Match(F, N)
    BY <1>3
  <1> DEFINE h == [k \in 0 .. N |-> F[k]]
  <1>5. (\A k \in 0 .. N : h[k] = F[k]) /\ h = [k \in 0 .. N |-> h[k]]
    OBVIOUS
  <1> HIDE DEF h
  <1>6. ASSUME NEW k \in 0 .. N
        PROVE  h[k] = IF k = 0 THEN first ELSE NextRound(h[k - 1])
    <2>1. k = 0 \/ (k \in 1 .. N /\ k - 1 \in 0 .. N)
      OBVIOUS
    <2>2. QED
      BY <1>4, <1>5, <2>1
  <1>7. h = [k \in 0 .. N |-> IF k = 0 THEN first ELSE NextRound(h[k - 1])]
    BY <1>5, <1>6
  <1>8. QED
    BY <1>7 DEF HasRounds

IsRounds(F, N, first) == F[0] = first /\ \A k \in 1 .. N : F[k] = NextRound(F[k - 1])

LEMMA EditedAre ==
  ASSUME NEW term, NEW edits \in Nat
  PROVE  \E F : IsRounds(F, edits, Spelled(term)) /\ Edited(term, edits) = F[edits]
  <1> DEFINE Step(F) == [k \in 0 .. edits |-> IF k = 0 THEN Spelled(term) ELSE NextRound(F[k - 1])]
             steps == CHOOSE F : F = Step(F)
  <1>1. Edited(term, edits) = steps[edits]
    BY DEF Edited, NextRound
  <1>2. steps = Step(steps)
    <2>1. HasRounds(edits, Spelled(term))
      BY SomeRounds
    <2>2. \E F : F = Step(F)
      BY <2>1 DEF HasRounds
    <2>3. QED
      BY <2>2
  <1> HIDE DEF steps
  <1>3. \A k \in 0 .. edits : steps[k] = IF k = 0 THEN Spelled(term) ELSE NextRound(steps[k - 1])
    BY <1>2, Zenon
  <1>4. steps[0] = Spelled(term)
    <2>1. 0 \in 0 .. edits
      OBVIOUS
    <2>2. QED
      BY <1>3, <2>1
  <1>5. ASSUME NEW k \in 1 .. edits PROVE steps[k] = NextRound(steps[k - 1])
    <2>1. k \in 0 .. edits /\ k # 0
      OBVIOUS
    <2>2. QED
      BY <1>3, <2>1
  <1>6. QED
    BY <1>1, <1>4, <1>5 DEF IsRounds

LEMMA Growing ==
  ASSUME NEW N \in Nat, NEW F, \A k \in 1 .. N : F[k - 1] \subseteq F[k],
         NEW k \in 0 .. N, NEW j \in 0 .. k
  PROVE  F[j] \subseteq F[k]
  <1> DEFINE T == {n \in Nat : n < j \/ F[j] \subseteq F[n]}
  <1>1. 0 \in T
    <2>1. 0 < j \/ j = 0
      OBVIOUS
    <2>2. QED
      BY <2>1
  <1>2. ASSUME NEW n \in 1 .. N, n - 1 \in T PROVE n \in T
    <2>1. n \in Nat /\ (n < j \/ n = j \/ ~ (n - 1 < j))
      OBVIOUS
    <2>2. F[n - 1] \subseteq F[n]
      OBVIOUS
    <2>3. CASE ~ (n - 1 < j)
      <3>1. F[j] \subseteq F[n - 1]
        BY <1>2, <2>3
      <3>2. QED
        BY <2>1, <2>2, <3>1
    <2>4. QED
      BY <2>1, <2>3
  <1> HIDE DEF T
  <1>3. \A n \in 0 .. N : n \in T
    BY <1>1, <1>2, Upwards
  <1>4. k \in T /\ ~ (k < j)
    BY <1>3
  <1>5. QED
    BY <1>4 DEF T

-----------------------------------------------------------------------------
(* The words a word of the trie stands for: a "*" is any letter.           *)

Stands(z, v) ==
    /\ v \in Seq(Labels) /\ Len(v) = Len(z)
    /\ \A j \in 1 .. Len(z) : IF z[j] = "*" THEN v[j] \in Letters ELSE v[j] = z[j]

(* The word is one edit away from one of them. *)
ComesFrom(z, v) == \E u : Stands(z, u) /\ v \in Edits(u)

LEMMA DropBack ==
  ASSUME NEW z \in Seq(Labels), NEW i \in 0 .. Len(z), i + 1 <= Len(z), Letters # {},
         NEW v, Stands(Without(z, i + 1), v)
  PROVE  ComesFrom(z, v)
  <1>1. PICK L \in Nat : L = Len(z)
    BY LenProperties
  <1>2. L \in Nat /\ i \in 0 .. L /\ i + 1 <= L /\ i + 1 \in 1 .. Len(z)
    BY <1>1
  <1>3. PICK s : s = Without(z, i + 1)
    OBVIOUS
  <1>4. /\ Len(s) = L - 1 /\ (\A j \in 1 .. (i + 1) - 1 : s[j] = z[j])
        /\ \A j \in i + 1 .. L - 1 : s[j] = z[j + 1]
    <2>1. IsWithout(s, Labels, z, i + 1)
      BY <1>2, <1>3, WithoutIs
    <2>2. QED
      BY <1>1, <2>1 DEF IsWithout
  <1>5. /\ v \in Seq(Labels) /\ Len(v) = L - 1
        /\ \A j \in 1 .. L - 1 : IF s[j] = "*" THEN v[j] \in Letters ELSE v[j] = s[j]
    BY <1>3, <1>4 DEF Stands
  <1>6. PICK d : d \in Labels /\ IF z[i + 1] = "*" THEN d \in Letters ELSE d = z[i + 1]
    <2>1. z[i + 1] \in Labels
      BY <1>2, ElementOfSeq
    <2>2. PICK d : d \in Letters
      OBVIOUS
    <2>3. d \in Labels
      BY <2>2, LettersAreLabels
    <2>4. QED
      BY <2>1, <2>2, <2>3
  <1>7. PICK u : u = Inserted(v, i, d)
    OBVIOUS
  <1>8. i \in 0 .. Len(v)
    BY <1>2, <1>5
  <1>9. /\ u \in Seq(Labels) /\ Len(u) = L /\ (\A j \in 1 .. i : u[j] = v[j])
        /\ u[i + 1] = d /\ \A j \in i + 1 .. L - 1 : u[j + 1] = v[j]
    <2>1. IsInserted(u, Labels, v, i, d)
      BY <1>5, <1>6, <1>7, <1>8, InsertedIs
    <2>2. Len(v) + 1 = L
      BY <1>2, <1>5
    <2>3. QED
      BY <1>5, <2>1, <2>2 DEF IsInserted
  <1>10. Stands(z, u)
    <2>1. ASSUME NEW j \in 1 .. L PROVE IF z[j] = "*" THEN u[j] \in Letters ELSE u[j] = z[j]
      <3>1. CASE j \in 1 .. i
        <4>1. j \in 1 .. L - 1 /\ j \in 1 .. (i + 1) - 1
          BY <1>2, <3>1
        <4>2. QED
          BY <1>4, <1>5, <1>9, <3>1, <4>1
      <3>2. CASE j = i + 1
        BY <1>6, <1>9, <3>2
      <3>3. CASE j > i + 1
        <4>1. PICK n \in i + 1 .. L - 1 : n + 1 = j
          <5>1. j - 1 \in i + 1 .. L - 1 /\ (j - 1) + 1 = j
            BY <1>2, <3>3
          <5>2. QED
            BY <5>1
        <4>2. n \in 1 .. L - 1
          BY <1>2
        <4>3. QED
          BY <1>4, <1>5, <1>9, <4>1, <4>2
      <3>4. QED
        BY <1>2, <3>1, <3>2, <3>3
    <2>2. QED
      BY <1>1, <1>9, <2>1 DEF Stands
  <1>11. v = Without(u, i + 1)
    <2>1. PICK w : w = Without(u, i + 1)
      OBVIOUS
    <2>2. /\ w \in Seq(Labels) /\ Len(w) = L - 1 /\ (\A j \in 1 .. (i + 1) - 1 : w[j] = u[j])
          /\ \A j \in i + 1 .. L - 1 : w[j] = u[j + 1]
      <3>1. i + 1 \in 1 .. Len(u)
        BY <1>2, <1>9
      <3>2. IsWithout(w, Labels, u, i + 1)
        BY <1>9, <2>1, <3>1, WithoutIs
      <3>3. QED
        BY <1>9, <3>2 DEF IsWithout
    <2>3. ASSUME NEW j \in 1 .. L - 1 PROVE v[j] = w[j]
      <3>1. (j \in 1 .. i /\ j \in 1 .. (i + 1) - 1) \/ j \in i + 1 .. L - 1
        BY <1>2
      <3>2. QED
        BY <1>9, <2>2, <3>1
    <2>4. v = w
      BY <1>5, <2>2, <2>3, SeqEqual
    <2>5. QED
      BY <2>1, <2>4
  <1>12. v \in Edits(u)
    <2>1. i + 1 <= Len(u) /\ i \in 0 .. Len(u)
      BY <1>2, <1>9
    <2>2. IsEdit(u, v, i)
      BY <1>11, <2>1 DEF IsEdit
    <2>3. QED
      BY <1>9, <2>1, <2>2, EditsAre
  <1>13. QED
    BY <1>10, <1>12 DEF ComesFrom

LEMMA InsertBack ==
  ASSUME NEW z \in Seq(Labels), NEW i \in 0 .. Len(z), NEW v, Stands(Inserted(z, i, "*"), v)
  PROVE  ComesFrom(z, v)
  <1>1. PICK L \in Nat : L = Len(z)
    BY LenProperties
  <1>2. L \in Nat /\ i \in 0 .. L
    BY <1>1
  <1>3. PICK s : s = Inserted(z, i, "*")
    OBVIOUS
  <1>4. /\ Len(s) = L + 1 /\ (\A j \in 1 .. i : s[j] = z[j])
        /\ s[i + 1] = "*" /\ \A j \in i + 1 .. L : s[j + 1] = z[j]
    <2>1. "*" \in Labels
      BY LettersAreLabels
    <2>2. IsInserted(s, Labels, z, i, "*")
      BY <1>3, <2>1, InsertedIs
    <2>3. QED
      BY <1>1, <2>2 DEF IsInserted
  <1>5. /\ v \in Seq(Labels) /\ Len(v) = L + 1
        /\ \A j \in 1 .. L + 1 : IF s[j] = "*" THEN v[j] \in Letters ELSE v[j] = s[j]
    BY <1>3, <1>4 DEF Stands
  <1>6. i + 1 \in 1 .. Len(v) /\ v[i + 1] \in Letters
    <2>1. i + 1 \in 1 .. L + 1
      BY <1>2
    <2>2. QED
      BY <1>4, <1>5, <2>1
  <1>7. PICK u : u = Without(v, i + 1)
    OBVIOUS
  <1>8. /\ u \in Seq(Labels) /\ Len(u) = L /\ (\A j \in 1 .. (i + 1) - 1 : u[j] = v[j])
        /\ \A j \in i + 1 .. L : u[j] = v[j + 1]
    <2>1. IsWithout(u, Labels, v, i + 1)
      BY <1>5, <1>6, <1>7, WithoutIs
    <2>2. Len(v) - 1 = L
      BY <1>2, <1>5
    <2>3. QED
      BY <2>1, <2>2 DEF IsWithout
  <1>9. Stands(z, u)
    <2>1. ASSUME NEW j \in 1 .. L PROVE IF z[j] = "*" THEN u[j] \in Letters ELSE u[j] = z[j]
      <3>1. CASE j \in 1 .. i
        <4>1. j \in 1 .. L + 1 /\ j \in 1 .. (i + 1) - 1
          BY <1>2, <3>1
        <4>2. QED
          BY <1>4, <1>5, <1>8, <3>1, <4>1
      <3>2. CASE j \in i + 1 .. L
        <4>1. j + 1 \in 1 .. L + 1
          OBVIOUS
        <4>2. QED
          BY <1>4, <1>5, <1>8, <3>2, <4>1
      <3>3. QED
        BY <1>2, <3>1, <3>2
    <2>2. QED
      BY <1>1, <1>8, <2>1 DEF Stands
  <1>10. v = Inserted(u, i, v[i + 1])
    <2>1. PICK c, w : c = v[i + 1] /\ w = Inserted(u, i, c)
      OBVIOUS
    <2>2. c \in Labels /\ i \in 0 .. Len(u)
      BY <1>2, <1>5, <1>6, <1>8, <2>1, ElementOfSeq
    <2>3. /\ w \in Seq(Labels) /\ Len(w) = L + 1 /\ (\A j \in 1 .. i : w[j] = u[j])
          /\ w[i + 1] = c /\ \A j \in i + 1 .. L : w[j + 1] = u[j]
      <3>1. IsInserted(w, Labels, u, i, c)
        BY <1>8, <2>1, <2>2, InsertedIs
      <3>2. QED
        BY <1>8, <3>1 DEF IsInserted
    <2>4. ASSUME NEW j \in 1 .. L + 1 PROVE v[j] = w[j]
      <3>1. CASE j \in 1 .. i
        <4>1. j \in 1 .. (i + 1) - 1
          BY <1>2, <3>1
        <4>2. QED
          BY <1>8, <2>3, <3>1, <4>1
      <3>2. CASE j = i + 1
        BY <2>1, <2>3, <3>2
      <3>3. CASE j > i + 1
        <4>1. PICK n \in i + 1 .. L : n + 1 = j
          <5>1. j - 1 \in i + 1 .. L /\ (j - 1) + 1 = j
            BY <1>2, <3>3
          <5>2. QED
            BY <5>1
        <4>2. QED
          BY <1>8, <2>3, <4>1
      <3>4. QED
        BY <1>2, <3>1, <3>2, <3>3
    <2>5. v = w
      BY <1>5, <2>3, <2>4, SeqEqual
    <2>6. QED
      BY <2>1, <2>5
  <1>11. v \in Edits(u)
    <2>1. i \in 0 .. Len(u)
      BY <1>2, <1>8
    <2>2. IsEdit(u, v, i)
      BY <1>6, <1>10 DEF IsEdit
    <2>3. QED
      BY <1>8, <2>1, <2>2, EditsAre
  <1>12. QED
    BY <1>9, <1>11 DEF ComesFrom

LEMMA AlterBack ==
  ASSUME NEW z \in Seq(Labels), NEW i \in 0 .. Len(z), i + 1 <= Len(z),
         NEW v, Stands(Altered(z, i + 1, "*"), v)
  PROVE  ComesFrom(z, v)
  <1>1. PICK L \in Nat : L = Len(z)
    BY LenProperties
  <1>2. L \in Nat /\ i \in 0 .. L /\ i + 1 <= L /\ i + 1 \in 1 .. L /\ i + 1 \in 1 .. Len(z)
    BY <1>1
  <1>3. PICK s : s = Altered(z, i + 1, "*")
    OBVIOUS
  <1>4. Len(s) = L /\ s[i + 1] = "*" /\ \A j \in 1 .. L : j # i + 1 => s[j] = z[j]
    <2>1. "*" \in Labels
      BY LettersAreLabels
    <2>2. IsAltered(s, Labels, z, i + 1, "*")
      BY <1>2, <1>3, <2>1, AlteredIs
    <2>3. QED
      BY <1>1, <2>2 DEF IsAltered
  <1>5. /\ v \in Seq(Labels) /\ Len(v) = L
        /\ \A j \in 1 .. L : IF s[j] = "*" THEN v[j] \in Letters ELSE v[j] = s[j]
    BY <1>3, <1>4 DEF Stands
  <1>6. PICK c : c = v[i + 1] /\ c \in Letters /\ c \in Labels
    <2>1. v[i + 1] \in Letters
      BY <1>2, <1>4, <1>5
    <2>2. QED
      BY <2>1, LettersAreLabels
  <1>7. PICK d : d \in Labels /\ IF z[i + 1] = "*" THEN d \in Letters ELSE d = z[i + 1]
    <2>1. z[i + 1] \in Labels
      BY <1>2, ElementOfSeq
    <2>2. QED
      BY <1>6, <2>1
  <1>8. PICK u : u = Altered(v, i + 1, d)
    OBVIOUS
  <1>9. /\ u \in Seq(Labels) /\ Len(u) = L /\ u[i + 1] = d
        /\ \A j \in 1 .. L : j # i + 1 => u[j] = v[j]
    <2>1. i + 1 \in 1 .. Len(v)
      BY <1>2, <1>5
    <2>2. IsAltered(u, Labels, v, i + 1, d)
      BY <1>5, <1>7, <1>8, <2>1, AlteredIs
    <2>3. QED
      BY <1>5, <2>2 DEF IsAltered
  <1>10. Stands(z, u)
    <2>1. ASSUME NEW j \in 1 .. L PROVE IF z[j] = "*" THEN u[j] \in Letters ELSE u[j] = z[j]
      <3>1. CASE j = i + 1
        BY <1>7, <1>9, <3>1
      <3>2. CASE j # i + 1
        BY <1>4, <1>5, <1>9, <3>2
      <3>3. QED
        BY <3>1, <3>2
    <2>2. QED
      BY <1>1, <1>9, <2>1 DEF Stands
  <1>11. v = Altered(u, i + 1, c)
    <2>1. PICK w : w = Altered(u, i + 1, c)
      OBVIOUS
    <2>2. /\ w \in Seq(Labels) /\ Len(w) = L /\ w[i + 1] = c
          /\ \A j \in 1 .. L : j # i + 1 => w[j] = u[j]
      <3>1. i + 1 \in 1 .. Len(u)
        BY <1>2, <1>9
      <3>2. IsAltered(w, Labels, u, i + 1, c)
        BY <1>6, <1>9, <2>1, <3>1, AlteredIs
      <3>3. QED
        BY <1>9, <3>2 DEF IsAltered
    <2>3. ASSUME NEW j \in 1 .. L PROVE v[j] = w[j]
      BY <1>6, <1>9, <2>2
    <2>4. v = w
      BY <1>5, <2>2, <2>3, SeqEqual
    <2>5. QED
      BY <2>1, <2>4
  <1>12. v \in Edits(u)
    <2>1. i + 1 <= Len(u) /\ i \in 0 .. Len(u)
      BY <1>2, <1>9
    <2>2. IsEdit(u, v, i)
      BY <1>6, <1>11, <2>1 DEF IsEdit
    <2>3. QED
      BY <1>9, <2>1, <2>2, EditsAre
  <1>13. QED
    BY <1>10, <1>12 DEF ComesFrom

LEMMA SwapBack ==
  ASSUME NEW z \in Seq(Labels), NEW i \in 0 .. Len(z), i + 2 <= Len(z),
         NEW v, Stands(Swapped(z, i + 1), v)
  PROVE  ComesFrom(z, v)
  <1>1. PICK L \in Nat : L = Len(z)
    BY LenProperties
  <1>2. /\ L \in Nat /\ i \in 0 .. L /\ i + 2 <= L /\ i + 1 \in 1 .. L /\ i + 1 \in 1 .. Len(z)
        /\ i + 2 \in 1 .. L /\ (i + 1) + 1 = i + 2 /\ i + 1 # i + 2
    BY <1>1
  <1>3. PICK s : s = Swapped(z, i + 1)
    OBVIOUS
  <1>4. /\ Len(s) = L /\ s[i + 1] = z[i + 2] /\ s[i + 2] = z[i + 1]
        /\ \A j \in 1 .. L : j # i + 1 /\ j # i + 2 => s[j] = z[j]
    <2>1. (i + 1) + 1 <= Len(z)
      BY <1>1, <1>2
    <2>2. IsSwapped(s, Labels, z, i + 1)
      BY <1>2, <1>3, <2>1, SwappedIs
    <2>3. QED
      BY <1>1, <1>2, <2>2 DEF IsSwapped
  <1>5. /\ v \in Seq(Labels) /\ Len(v) = L
        /\ \A j \in 1 .. L : IF s[j] = "*" THEN v[j] \in Letters ELSE v[j] = s[j]
    BY <1>3, <1>4 DEF Stands
  <1>6. PICK u : u = Swapped(v, i + 1)
    OBVIOUS
  <1>7. /\ u \in Seq(Labels) /\ Len(u) = L /\ u[i + 1] = v[i + 2] /\ u[i + 2] = v[i + 1]
        /\ \A j \in 1 .. L : j # i + 1 /\ j # i + 2 => u[j] = v[j]
    <2>1. i + 1 \in 1 .. Len(v) /\ (i + 1) + 1 <= Len(v)
      BY <1>2, <1>5
    <2>2. IsSwapped(u, Labels, v, i + 1)
      BY <1>5, <1>6, <2>1, SwappedIs
    <2>3. QED
      BY <1>2, <1>5, <2>2 DEF IsSwapped
  <1>8. Stands(z, u)
    <2>1. ASSUME NEW j \in 1 .. L PROVE IF z[j] = "*" THEN u[j] \in Letters ELSE u[j] = z[j]
      <3>1. CASE j = i + 1
        BY <1>2, <1>4, <1>5, <1>7, <3>1
      <3>2. CASE j = i + 2
        BY <1>2, <1>4, <1>5, <1>7, <3>2
      <3>3. CASE j # i + 1 /\ j # i + 2
        BY <1>4, <1>5, <1>7, <3>3
      <3>4. QED
        BY <3>1, <3>2, <3>3
    <2>2. QED
      BY <1>1, <1>7, <2>1 DEF Stands
  <1>9. v = Swapped(u, i + 1)
    <2>1. PICK w : w = Swapped(u, i + 1)
      OBVIOUS
    <2>2. /\ w \in Seq(Labels) /\ Len(w) = L /\ w[i + 1] = u[i + 2] /\ w[i + 2] = u[i + 1]
          /\ \A j \in 1 .. L : j # i + 1 /\ j # i + 2 => w[j] = u[j]
      <3>1. i + 1 \in 1 .. Len(u) /\ (i + 1) + 1 <= Len(u)
        BY <1>2, <1>7
      <3>2. IsSwapped(w, Labels, u, i + 1)
        BY <1>7, <2>1, <3>1, SwappedIs
      <3>3. QED
        BY <1>2, <1>7, <3>2 DEF IsSwapped
    <2>3. ASSUME NEW j \in 1 .. L PROVE v[j] = w[j]
      BY <1>7, <2>2
    <2>4. v = w
      BY <1>5, <2>2, <2>3, SeqEqual
    <2>5. QED
      BY <2>1, <2>4
  <1>10. v \in Edits(u)
    <2>1. i + 2 <= Len(u) /\ i \in 0 .. Len(u)
      BY <1>2, <1>7
    <2>2. IsEdit(u, v, i)
      BY <1>9, <2>1 DEF IsEdit
    <2>3. QED
      BY <1>7, <2>1, <2>2, EditsAre
  <1>11. QED
    BY <1>8, <1>10 DEF ComesFrom

(* What stands for a word of the term's own is one of the words it spells. *)
LEMMA StandsIsSpelled ==
  ASSUME NEW p \in Seq(Labels), NEW v, Stands(p, v)
  PROVE  v \in Spelled(p)
  <1>1. PICK L \in Nat : L = Len(p) /\ DOMAIN p = 1 .. L
    BY LenProperties
  <1>2. /\ v \in Seq(Labels) /\ Len(v) = L
        /\ \A j \in 1 .. L : IF p[j] = "*" THEN v[j] \in Letters ELSE v[j] = p[j]
    BY <1>1 DEF Stands
  <1>3. \A j \in 1 .. L : v[j] \in Letters \union ToSet(p)
    BY <1>1, <1>2 DEF ToSet
  <1>4. v = [j \in 1 .. L |-> v[j]]
    BY <1>2, LenProperties
  <1>5. v \in [1 .. L -> Letters \union ToSet(p)]
    BY <1>3, <1>4
  <1>6. \A j \in 1 .. L : v[j] = p[j] \/ (p[j] = "*" /\ v[j] \in Letters)
    BY <1>2
  <1>7. QED
    BY <1>1, <1>5, <1>6 DEF Spelled

-----------------------------------------------------------------------------
(* Every word that a frame's edited word stands for is within the edits    *)
(* the frame has used.                                                     *)

Sound(W, z, n) == \A v : Letters # {} /\ Stands(z, v) => v \in W[n]

FrameOK(W, N, f) ==
    \E z, i, k : /\ f = Cut(z, i, k) /\ z \in Seq(Labels) /\ i \in 0 .. Len(z) /\ k \in 0 .. N
                 /\ Sound(W, z, N) /\ (i = Len(z) \/ Sound(W, z, N - k))

LEMMA RoundsGrow ==
  ASSUME NEW N \in Nat, NEW W, NEW words, IsRounds(W, N, words), NEW k \in 0 .. N, NEW j \in 0 .. k
  PROVE  W[j] \subseteq W[k]
  <1>1. \A n \in 1 .. N : W[n - 1] \subseteq W[n]
    BY DEF IsRounds, NextRound
  <1>2. QED
    BY <1>1, Growing

LEMMA SoundEdit ==
  ASSUME NEW N \in Nat, NEW W, NEW words, IsRounds(W, N, words), NEW n \in Nat, n + 1 <= N,
         NEW z, Sound(W, z, n), NEW s, \A v : Letters # {} /\ Stands(s, v) => ComesFrom(z, v)
  PROVE  Sound(W, s, n + 1)
  <1>1. ASSUME NEW v, Letters # {}, Stands(s, v) PROVE v \in W[n + 1]
    <2>1. PICK u : Stands(z, u) /\ v \in Edits(u)
      BY <1>1 DEF ComesFrom
    <2>2. u \in W[n]
      BY <1>1, <2>1 DEF Sound
    <2>3. n + 1 \in 1 .. N /\ (n + 1) - 1 = n
      OBVIOUS
    <2>4. W[n + 1] = NextRound(W[n])
      BY <2>3 DEF IsRounds
    <2>5. QED
      BY <2>1, <2>2, <2>4 DEF NextRound
  <1>2. QED
    BY <1>1 DEF Sound

LEMMA NextOK ==
  ASSUME NEW N \in Nat, NEW W, NEW words, IsRounds(W, N, words),
         NEW z \in Seq(Labels), NEW i \in 0 .. Len(z), NEW k \in 0 .. N, Sound(W, z, N - k),
         NEW g, g \in FuzzyEdits(Cut(z, i, k))
  PROVE  FrameOK(W, N, g)
  <1>1. PICK L \in Nat : L = Len(z)
    BY LenProperties
  <1>2. L \in Nat /\ i \in 0 .. L
    BY <1>1
  <1>3. ASSUME NEW m \in 0 .. N, NEW s, Sound(W, s, m) PROVE Sound(W, s, N)
    <2>1. W[m] \subseteq W[N]
      <3>1. N \in 0 .. N /\ m \in 0 .. N
        OBVIOUS
      <3>2. QED
        BY <3>1, RoundsGrow
    <2>2. QED
      BY <1>3, <2>1 DEF Sound
  <1>4. ASSUME k # 0, NEW s \in Seq(Labels), NEW j \in 0 .. Len(s), NEW n \in 0 .. N,
               \A v : Letters # {} /\ Stands(s, v) => ComesFrom(z, v), g = Cut(s, j, n), n = k - 1 \/ (n = k /\ j = Len(s))
        PROVE  FrameOK(W, N, g)
    <2>1. PICK m \in Nat : m = N - k /\ m + 1 <= N /\ m + 1 = N - (k - 1) /\ m + 1 \in 0 .. N
      <3>1. N - k \in Nat /\ (N - k) + 1 <= N /\ (N - k) + 1 = N - (k - 1) /\ (N - k) + 1 \in 0 .. N
        BY <1>4
      <3>2. QED
        BY <3>1
    <2>2. Sound(W, z, m)
      BY <2>1
    <2>3. Sound(W, s, m + 1)
      BY <1>4, <2>1, <2>2, SoundEdit
    <2>4. Sound(W, s, N)
      BY <1>3, <2>1, <2>3
    <2>5. j = Len(s) \/ Sound(W, s, N - n)
      BY <1>4, <2>1, <2>3
    <2>6. QED
      BY <1>4, <2>4, <2>5 DEF FrameOK
  <1>5. IsNext(z, i, k, g)
    BY CutEdits
  <1>6. "*" \in Labels
    BY LettersAreLabels
  <1>7. CASE i + 1 <= Len(z) /\ g = Cut(z, i + 1, k)
    <2>1. i + 1 \in 0 .. Len(z)
      BY <1>1, <1>7
    <2>2. Sound(W, z, N)
      <3>1. N - k \in 0 .. N
        OBVIOUS
      <3>2. QED
        BY <1>3, <3>1
    <2>3. QED
      BY <1>7, <2>1, <2>2 DEF FrameOK
  <1>8. CASE k # 0 /\ i + 2 <= Len(z) /\ g = Cut(Without(z, i + 1), i + 1, k - 1)
    <2>1. PICK s : s = Without(z, i + 1)
      OBVIOUS
    <2>2. i + 1 \in 1 .. Len(z) /\ i + 1 <= Len(z)
      BY <1>1, <1>8
    <2>3. s \in Seq(Labels) /\ Len(s) = L - 1
      <3>1. IsWithout(s, Labels, z, i + 1)
        BY <2>1, <2>2, WithoutIs
      <3>2. QED
        BY <1>1, <3>1 DEF IsWithout
    <2>4. i + 1 \in 0 .. Len(s) /\ k - 1 \in 0 .. N
      BY <1>1, <1>2, <1>8, <2>3
    <2>5. \A v : Letters # {} /\ Stands(s, v) => ComesFrom(z, v)
      BY <2>1, <2>2, DropBack
    <2>6. g = Cut(s, i + 1, k - 1)
      BY <1>8, <2>1
    <2>7. QED
      BY <1>4, <1>8, <2>3, <2>4, <2>5, <2>6
  <1>9. CASE k # 0 /\ i + 1 = Len(z) /\ g = Cut(Without(z, i + 1), i, k)
    <2>1. PICK s : s = Without(z, i + 1)
      OBVIOUS
    <2>2. i + 1 \in 1 .. Len(z) /\ i + 1 <= Len(z)
      BY <1>1, <1>9
    <2>3. s \in Seq(Labels) /\ Len(s) = L - 1
      <3>1. IsWithout(s, Labels, z, i + 1)
        BY <2>1, <2>2, WithoutIs
      <3>2. QED
        BY <1>1, <3>1 DEF IsWithout
    <2>4. i \in 0 .. Len(s) /\ i = Len(s)
      BY <1>1, <1>2, <1>9, <2>3
    <2>5. \A v : Letters # {} /\ Stands(s, v) => ComesFrom(z, v)
      BY <2>1, <2>2, DropBack
    <2>6. g = Cut(s, i, k)
      BY <1>9, <2>1
    <2>7. QED
      BY <1>4, <1>9, <2>3, <2>4, <2>5, <2>6
  <1>10. CASE k # 0 /\ i + 1 <= Len(z) /\ g = Cut(Altered(z, i + 1, "*"), i + 1, k - 1)
    <2>1. PICK s : s = Altered(z, i + 1, "*")
      OBVIOUS
    <2>2. i + 1 \in 1 .. Len(z)
      BY <1>1, <1>10
    <2>3. s \in Seq(Labels) /\ Len(s) = L
      <3>1. IsAltered(s, Labels, z, i + 1, "*")
        BY <1>6, <2>1, <2>2, AlteredIs
      <3>2. QED
        BY <1>1, <3>1 DEF IsAltered
    <2>4. i + 1 \in 0 .. Len(s) /\ k - 1 \in 0 .. N
      BY <1>1, <1>2, <1>10, <2>3
    <2>5. \A v : Letters # {} /\ Stands(s, v) => ComesFrom(z, v)
      BY <1>10, <2>1, AlterBack
    <2>6. g = Cut(s, i + 1, k - 1)
      BY <1>10, <2>1
    <2>7. QED
      BY <1>4, <1>10, <2>3, <2>4, <2>5, <2>6
  <1>11. CASE k # 0 /\ g = Cut(Inserted(z, i, "*"), i + 1, k - 1)
    <2>1. PICK s : s = Inserted(z, i, "*")
      OBVIOUS
    <2>2. s \in Seq(Labels) /\ Len(s) = L + 1
      <3>1. IsInserted(s, Labels, z, i, "*")
        BY <1>6, <2>1, InsertedIs
      <3>2. QED
        BY <1>1, <3>1 DEF IsInserted
    <2>3. i + 1 \in 0 .. Len(s) /\ k - 1 \in 0 .. N
      BY <1>1, <1>2, <1>11, <2>2
    <2>4. \A v : Letters # {} /\ Stands(s, v) => ComesFrom(z, v)
      BY <2>1, InsertBack
    <2>5. g = Cut(s, i + 1, k - 1)
      BY <1>11, <2>1
    <2>6. QED
      BY <1>4, <1>11, <2>2, <2>3, <2>4, <2>5
  <1>12. CASE k # 0 /\ i + 2 <= Len(z) /\ g = Cut(Swapped(z, i + 1), i + 1, k - 1)
    <2>1. PICK s : s = Swapped(z, i + 1)
      OBVIOUS
    <2>2. i + 1 \in 1 .. Len(z) /\ (i + 1) + 1 <= Len(z)
      BY <1>1, <1>12
    <2>3. s \in Seq(Labels) /\ Len(s) = L
      <3>1. IsSwapped(s, Labels, z, i + 1)
        BY <2>1, <2>2, SwappedIs
      <3>2. QED
        BY <1>1, <3>1 DEF IsSwapped
    <2>4. i + 1 \in 0 .. Len(s) /\ k - 1 \in 0 .. N
      BY <1>1, <1>2, <1>12, <2>3
    <2>5. \A v : Letters # {} /\ Stands(s, v) => ComesFrom(z, v)
      BY <1>12, <2>1, SwapBack
    <2>6. g = Cut(s, i + 1, k - 1)
      BY <1>12, <2>1
    <2>7. QED
      BY <1>4, <1>12, <2>3, <2>4, <2>5, <2>6
  <1>13. QED
    BY <1>5, <1>7, <1>8, <1>9, <1>10, <1>11, <1>12 DEF IsNext

LEMMA CutIs ==
  ASSUME NEW z \in Seq(Labels), NEW i \in 0 .. Len(z), NEW k
  PROVE  /\ Cut(z, i, k).node = SubSeq(z, 1, i) /\ Cut(z, i, k).editsRemaining = k
         /\ Cut(z, i, k).str = After(z, i) /\ (Cut(z, i, k).str = <<>> <=> i = Len(z))
  <1>1. PICK L \in Nat : L = Len(z) /\ i \in 0 .. L
    BY LenProperties
  <1>2. PICK x, y : x = SubSeq(z, 1, i) /\ y = After(z, i)
    OBVIOUS
  <1>3. Cut(z, i, k) = Frame(x, k, y)
    BY <1>2 DEF Cut
  <1>4. Cut(z, i, k).node = x /\ Cut(z, i, k).editsRemaining = k /\ Cut(z, i, k).str = y
    BY <1>3, FrameIs
  <1>5. y \in Seq(Labels) /\ Len(y) = L - i
    BY <1>1, <1>2, AfterIs
  <1>6. y = <<>> <=> Len(y) = 0
    BY <1>5, EmptySeq
  <1>7. Len(y) = 0 <=> i = L
    BY <1>1, <1>5
  <1>8. QED
    BY <1>1, <1>2, <1>4, <1>6, <1>7

(* A pushed frame is at the node of the frame it comes from or at a child. *)
LEMMA NodeGrows ==
  ASSUME NEW x \in Seq(Labels), NEW k, NEW y \in Seq(Labels), NEW g, g \in FuzzyEdits(Frame(x, k, y))
  PROVE  g.node = x \/ \E c \in Labels : g.node = Append(x, c)
  <1>1. IsOneOn(x, k, y, g)
    BY NextFrames
  <1>2. Len(y) \in Nat /\ "*" \in Labels
    BY LenProperties, LettersAreLabels
  <1>3. (Len(y) > 0 => y[1] \in Labels) /\ (Len(y) > 1 => y[2] \in Labels)
    <2>1. (Len(y) > 0 => 1 \in 1 .. Len(y)) /\ (Len(y) > 1 => 2 \in 1 .. Len(y))
      BY <1>2
    <2>2. QED
      BY <2>1, ElementOfSeq
  <1>4. PICK a, b, d : a = Append(x, y[1]) /\ b = Append(x, y[2]) /\ d = Append(x, "*")
    OBVIOUS
  <1>5. /\ Len(y) > 0 => \E c \in Labels : a = Append(x, c)
        /\ Len(y) > 1 => \E c \in Labels : b = Append(x, c)
        /\ \E c \in Labels : d = Append(x, c)
    BY <1>2, <1>3, <1>4
  <1>6. \/ Len(y) > 0 /\ g = Frame(a, k, Tail(y))
        \/ Len(y) > 1 /\ g = Frame(b, k - 1, SubSeq(y, 3, Len(y)))
        \/ g = Frame(x, k, <<>>)
        \/ g = Frame(d, k - 1, Tail(y))
        \/ g = Frame(d, k - 1, y)
        \/ Len(y) > 1 /\ g = Frame(b, k - 1, <<y[1]>> \o SubSeq(y, 3, Len(y)))
    BY <1>1, <1>4, Zenon DEF IsOneOn
  <1>7. \A n, r : Frame(a, n, r).node = a /\ Frame(b, n, r).node = b /\ Frame(x, n, r).node = x
                 /\ Frame(d, n, r).node = d
    BY FrameIs
  <1>8. (Len(y) > 0 /\ g.node = a) \/ (Len(y) > 1 /\ g.node = b) \/ g.node = x \/ g.node = d
    BY <1>6, <1>7, Zenon
  <1>9. QED
    BY <1>5, <1>8

StartFrame(p, N) == [node |-> <<>>, editsRemaining |-> N, str |-> p]

FirstFrames(p, N) == IF p # <<>> THEN {StartFrame(p, N)} ELSE FuzzyEdits(StartFrame(p, N))

LEMMA StartIs ==
  ASSUME NEW p \in Seq(Labels), NEW N
  PROVE  StartFrame(p, N) = Cut(p, 0, N) /\ 0 \in 0 .. Len(p)
  <1>1. PICK L \in Nat : L = Len(p)
    BY LenProperties
  <1>2. PICK e : e = <<>>
    OBVIOUS
  <1>3. e \in Seq(Labels) /\ Len(e) = 0
    BY <1>2, EmptySeq
  <1>4. Len(p) = Len(e) + Len(p) /\ (\A j \in 1 .. Len(e) : p[j] = e[j])
        /\ \A j \in 1 .. Len(p) : p[Len(e) + j] = p[j]
    BY <1>1, <1>3
  <1>5. IsSplit(p, e, p)
    BY <1>3, <1>4 DEF IsSplit
  <1>6. Cut(p, Len(e), N) = Frame(e, N, p)
    BY <1>5, CutOf
  <1>7. Cut(p, 0, N) = Frame(e, N, p)
    BY <1>3, <1>6
  <1>8. QED
    BY <1>1, <1>2, <1>7 DEF Frame, StartFrame

LEMMA FirstOK ==
  ASSUME NEW p \in Seq(Labels), NEW N \in Nat, NEW W, IsRounds(W, N, Spelled(p)),
         NEW f \in FirstFrames(p, N)
  PROVE  FrameOK(W, N, f)
  <1>1. StartFrame(p, N) = Cut(p, 0, N) /\ 0 \in 0 .. Len(p) /\ N \in 0 .. N /\ N - N = 0
    BY StartIs
  <1>2. Sound(W, p, 0)
    <2>1. W[0] = Spelled(p)
      BY DEF IsRounds
    <2>2. QED
      BY <2>1, StandsIsSpelled DEF Sound
  <1>3. Sound(W, p, N)
    <2>1. 0 \in 0 .. N
      OBVIOUS
    <2>2. W[0] \subseteq W[N]
      BY <1>1, <2>1, RoundsGrow
    <2>3. QED
      BY <1>2, <2>2 DEF Sound
  <1>4. Sound(W, p, N - N)
    BY <1>1, <1>2
  <1>5. CASE p # <<>>
    <2>1. f = Cut(p, 0, N)
      BY <1>1, <1>5 DEF FirstFrames
    <2>2. QED
      BY <1>1, <1>3, <1>4, <2>1 DEF FrameOK
  <1>6. CASE p = <<>>
    <2>1. f \in FuzzyEdits(Cut(p, 0, N))
      BY <1>1, <1>6 DEF FirstFrames
    <2>2. QED
      BY <1>1, <1>4, <2>1, NextOK
  <1>7. QED
    BY <1>5, <1>6

(* Of each turn's frames: they are sound, and their nodes form a tree.     *)
FrameNodes(F) == {<<>>} \union {f.node : f \in F}

TurnOK(W, N, F) ==
    /\ \A f \in F : FrameOK(W, N, f)
    /\ IsTree(Labels, FrameNodes(F))

LEMMA NodesGrow ==
  ASSUME NEW F, IsTree(Labels, FrameNodes(F)), NEW G, F \subseteq G,
         \A g \in G \ F : \E u \in FrameNodes(F) : g.node = u \/ \E c \in Labels : g.node = Append(u, c)
  PROVE  IsTree(Labels, FrameNodes(G))
  <1>1. FrameNodes(F) \subseteq Seq(Labels) /\ <<>> \in FrameNodes(G) /\ FrameNodes(F) \subseteq FrameNodes(G)
    BY DEF IsTree, FrameNodes
  <1>2. ASSUME NEW v \in FrameNodes(G), v \notin FrameNodes(F)
        PROVE  v \in Seq(Labels) /\ \E u \in FrameNodes(G), c \in Labels : v = Append(u, c)
    <2>1. PICK g \in G \ F : v = g.node
      BY <1>2 DEF FrameNodes
    <2>2. PICK u \in FrameNodes(F), c \in Labels : v = Append(u, c)
      BY <1>2, <2>1
    <2>3. v \in Seq(Labels)
      BY <1>1, <2>2, AppendProperties
    <2>4. QED
      BY <1>1, <2>2, <2>3
  <1>3. ASSUME NEW v \in FrameNodes(F), v # <<>> PROVE \E u \in FrameNodes(G), c \in Labels : v = Append(u, c)
    BY <1>1, <1>3 DEF IsTree
  <1>4. QED
    BY <1>1, <1>2, <1>3 DEF IsTree

LEMMA FirstTree ==
  ASSUME NEW p \in Seq(Labels), NEW N
  PROVE  IsTree(Labels, FrameNodes(FirstFrames(p, N)))
  <1>1. PICK e : e = <<>>
    OBVIOUS
  <1>2. e \in Seq(Labels)
    BY <1>1, EmptySeq
  <1>3. FrameNodes({}) = {e} /\ e \in FrameNodes({})
    BY <1>1 DEF FrameNodes
  <1>4. IsTree(Labels, FrameNodes({}))
    BY <1>1, <1>2, <1>3 DEF IsTree
  <1>5. ASSUME NEW g \in FirstFrames(p, N)
        PROVE  g.node = e \/ \E c \in Labels : g.node = Append(e, c)
    <2>1. CASE p # <<>>
      BY <1>1, <2>1 DEF FirstFrames, StartFrame
    <2>2. CASE p = <<>>
      <3>1. StartFrame(p, N) = Frame(e, N, p)
        BY <1>1 DEF StartFrame, Frame
      <3>2. g \in FuzzyEdits(Frame(e, N, p))
        BY <2>2, <3>1 DEF FirstFrames
      <3>3. QED
        BY <1>2, <3>2, NodeGrows
    <2>3. QED
      BY <2>1, <2>2
  <1>6. \A g \in FirstFrames(p, N) \ {} :
            \E u \in FrameNodes({}) : g.node = u \/ \E c \in Labels : g.node = Append(u, c)
    BY <1>3, <1>5
  <1>7. {} \subseteq FirstFrames(p, N)
    OBVIOUS
  <1>8. QED
    BY <1>4, <1>6, <1>7, NodesGrow

LEMMA TurnStep ==
  ASSUME NEW N \in Nat, NEW W, NEW words, IsRounds(W, N, words), NEW F, TurnOK(W, N, F)
  PROVE  TurnOK(W, N, NextTurn(F))
  <1>1. PICK G : G = NextTurn(F)
    OBVIOUS
  <1>2. F \subseteq G /\ \A g \in G \ F : \E f \in F : f.str # <<>> /\ g \in FuzzyEdits(f)
    BY <1>1 DEF NextTurn
  <1>3. ASSUME NEW g \in G \ F
        PROVE  /\ FrameOK(W, N, g)
               /\ \E u \in FrameNodes(F) : g.node = u \/ \E c \in Labels : g.node = Append(u, c)
    <2>1. PICK f \in F : f.str # <<>> /\ g \in FuzzyEdits(f)
      BY <1>2
    <2>2. FrameOK(W, N, f)
      BY DEF TurnOK
    <2>3. PICK z, i, k : /\ f = Cut(z, i, k) /\ z \in Seq(Labels) /\ i \in 0 .. Len(z) /\ k \in 0 .. N
                         /\ (i = Len(z) \/ Sound(W, z, N - k))
      BY <2>2 DEF FrameOK
    <2>4. i # Len(z)
      BY <2>1, <2>3, CutIs
    <2>5. Sound(W, z, N - k) /\ g \in FuzzyEdits(Cut(z, i, k))
      BY <2>1, <2>3, <2>4
    <2>6. FrameOK(W, N, g)
      BY <2>3, <2>5, NextOK
    <2>7. PICK L, x, y : IsHere(z, i, L, x, y)
      BY <2>3, SomeHere
    <2>8. x = SubSeq(z, 1, i) /\ x \in Seq(Labels) /\ y = After(z, i) /\ y \in Seq(Labels)
      BY <2>7 DEF IsHere
    <2>9. g \in FuzzyEdits(Frame(x, k, y)) /\ f.node = x
      BY <2>3, <2>5, <2>8, CutIs DEF Cut
    <2>10. g.node = x \/ \E c \in Labels : g.node = Append(x, c)
      <3>1. x \in Seq(Labels) /\ y \in Seq(Labels)
        BY <2>8
      <3>2. g \in FuzzyEdits(Frame(x, k, y))
        BY <2>9
      <3>3. QED
        BY <3>1, <3>2, NodeGrows
    <2>11. x \in FrameNodes(F)
      BY <2>9 DEF FrameNodes
    <2>12. QED
      BY <2>6, <2>10, <2>11
  <1>4. \A g \in G : FrameOK(W, N, g)
    BY <1>3 DEF TurnOK
  <1>5. IsTree(Labels, FrameNodes(G))
    <2>1. IsTree(Labels, FrameNodes(F))
      BY DEF TurnOK
    <2>2. QED
      BY <1>2, <1>3, <2>1, NodesGrow
  <1>6. QED
    BY <1>1, <1>4, <1>5 DEF TurnOK

LEMMA TurnsOK ==
  ASSUME NEW p \in Seq(Labels), NEW N \in Nat, NEW W, IsRounds(W, N, Spelled(p)),
         NEW M \in Nat, NEW F, IsTurns(F, M, FirstFrames(p, N))
  PROVE  TurnOK(W, N, F[M])
  <1> DEFINE T == {t \in Nat : TurnOK(W, N, F[t])}
  <1>1. 0 \in T
    <2>1. F[0] = FirstFrames(p, N)
      BY DEF IsTurns
    <2>2. \A f \in FirstFrames(p, N) : FrameOK(W, N, f)
      BY FirstOK
    <2>3. IsTree(Labels, FrameNodes(FirstFrames(p, N)))
      BY FirstTree
    <2>4. TurnOK(W, N, F[0])
      BY <2>1, <2>2, <2>3 DEF TurnOK
    <2>5. QED
      BY <2>4
  <1>2. ASSUME NEW t \in 1 .. M, t - 1 \in T PROVE t \in T
    <2>1. F[t] = NextTurn(F[t - 1]) /\ t \in Nat
      BY DEF IsTurns
    <2>2. TurnOK(W, N, F[t - 1])
      BY <1>2
    <2>3. TurnOK(W, N, F[t])
      BY <2>1, <2>2, TurnStep
    <2>4. QED
      BY <2>1, <2>3
  <1> HIDE DEF T
  <1>3. \A t \in 0 .. M : t \in T
    BY <1>1, <1>2, Upwards
  <1>4. M \in T
    BY <1>3
  <1>5. QED
    BY <1>4 DEF T

-----------------------------------------------------------------------------
(* A word leads along a path of the trie that it agrees with but for "*".  *)

Covers(PP, u, w, k) ==
    u \in PP /\ Len(u) = k /\ \A i \in 1 .. k : u[i] = w[i] \/ u[i] = "*"

LEMMA TrieIsClosed ==
  ASSUME NEW PP, IsTree(Labels, PP), NEW Fin, NEW Q, Q = Trie(PP, Fin).nodes
  PROVE  QClosed(Q, PP, <<>>)
  <1>1. <<>> \in PP
    BY DEF IsTree
  <1>2. ASSUME NEW u \in PP, NEW e \in DOMAIN Q[u].edges PROVE Q[u].edges[e] \in PP
    <2>1. e \in TrieEdges(PP, u) /\ Q[u].edges[e] = Append(u, e)
      BY TrieIs
    <2>2. QED
      BY <2>1, TrieEdgesAre
  <1>3. QED
    BY <1>1, <1>2 DEF QClosed

LEMMA TrieLeads ==
  ASSUME NEW PP, IsTree(Labels, PP), NEW Fin, NEW Q, Q = Trie(PP, Fin).nodes, NEW w,
         NEW k \in Nat, NEW u
  PROVE  MayLead(Q, PP, <<>>, w, k, u) <=> Covers(PP, u, w, k)
  <1>1. PICK e : e = <<>>
    OBVIOUS
  <1>2. e \in PP /\ PP \subseteq Seq(Labels) /\ Len(e) = 0
    BY <1>1 DEF IsTree
  <1> DEFINE T == {n \in Nat : \A v : MayLead(Q, PP, e, w, n, v) <=> Covers(PP, v, w, n)}
  <1>3. 0 \in T
    <2>1. ASSUME NEW v PROVE MayLead(Q, PP, e, w, 0, v) <=> Covers(PP, v, w, 0)
      <3>1. MayLead(Q, PP, e, w, 0, v) <=> v = e
        BY <1>2, MayStart
      <3>2. Covers(PP, v, w, 0) <=> v = e
        <4>1. ASSUME v \in PP, Len(v) = 0 PROVE v = e
          BY <1>1, <1>2, <4>1, EmptySeq
        <4>2. QED
          BY <1>2, <4>1 DEF Covers
      <3>3. QED
        BY <3>1, <3>2
    <2>2. QED
      BY <2>1
  <1>4. ASSUME NEW n \in 1 .. k, n - 1 \in T PROVE n \in T
    <2>1. PICK m \in Nat : m = n - 1 /\ n = m + 1 /\ n \in Nat
      OBVIOUS
    <2>2. \A v : MayLead(Q, PP, e, w, m, v) <=> Covers(PP, v, w, m)
      BY <1>4, <2>1
    <2>3. ASSUME NEW v, MayLead(Q, PP, e, w, m + 1, v) PROVE Covers(PP, v, w, m + 1)
      <3>1. v \in PP /\ \E x \in PP : MayLead(Q, PP, e, w, m, x) /\ ReadsOne(Q, x, w[m + 1], v)
        BY <2>3, MayGoBack
      <3>2. PICK x \in PP : MayLead(Q, PP, e, w, m, x) /\ ReadsOne(Q, x, w[m + 1], v)
        BY <3>1
      <3>3. PICK d \in DOMAIN Q[x].edges : (d = w[m + 1] \/ d = "*") /\ v = Q[x].edges[d]
        BY <3>2 DEF ReadsOne
      <3>4. d \in TrieEdges(PP, x) /\ v = Append(x, d)
        BY <3>3, TrieIs
      <3>5. Len(x) = m /\ \A i \in 1 .. m : x[i] = w[i] \/ x[i] = "*"
        BY <2>2, <3>2 DEF Covers
      <3>6. x \in Seq(Labels) /\ v \in Seq(Labels)
        BY <1>2, <3>1
      <3>7. d \in Labels
        BY <3>4, <3>6, Parts
      <3>8. Len(v) = m + 1 /\ v[m + 1] = d /\ \A i \in 1 .. m : v[i] = x[i]
        BY <3>4, <3>5, <3>6, <3>7, AppendProperties
      <3>9. ASSUME NEW i \in 1 .. m + 1 PROVE v[i] = w[i] \/ v[i] = "*"
        <4>1. i \in 1 .. m \/ i = m + 1
          OBVIOUS
        <4>2. QED
          BY <3>3, <3>5, <3>8, <4>1
      <3>10. QED
        BY <3>1, <3>8, <3>9 DEF Covers
    <2>4. ASSUME NEW v, Covers(PP, v, w, m + 1) PROVE MayLead(Q, PP, e, w, m + 1, v)
      <3>1. v \in PP /\ v \in Seq(Labels) /\ Len(v) = m + 1 /\ \A i \in 1 .. m + 1 : v[i] = w[i] \/ v[i] = "*"
        BY <1>2, <2>4 DEF Covers
      <3>2. v # <<>>
        BY <3>1, EmptySeq
      <3>3. PICK x \in PP, d \in Labels : v = Append(x, d)
        BY <3>1, <3>2 DEF IsTree
      <3>4. x \in Seq(Labels) /\ Len(x) = m
        BY <1>2, <3>1, <3>3, Parts
      <3>5. v[m + 1] = d /\ \A i \in 1 .. m : v[i] = x[i]
        BY <3>3, <3>4, AppendProperties
      <3>6. Covers(PP, x, w, m)
        <4>1. \A i \in 1 .. m : i \in 1 .. m + 1
          OBVIOUS
        <4>2. QED
          BY <3>1, <3>4, <3>5, <4>1 DEF Covers
      <3>7. MayLead(Q, PP, e, w, m, x)
        BY <2>2, <3>6
      <3>8. d \in TrieEdges(PP, x)
        BY <3>1, <3>3, TrieEdgesAre
      <3>9. d \in DOMAIN Q[x].edges /\ v = Q[x].edges[d]
        BY <3>3, <3>8, TrieIs
      <3>10. d = w[m + 1] \/ d = "*"
        <4>1. m + 1 \in 1 .. m + 1
          OBVIOUS
        <4>2. QED
          BY <3>1, <3>5, <4>1
      <3>11. ReadsOne(Q, x, w[m + 1], v)
        BY <3>9, <3>10 DEF ReadsOne
      <3>12. QED
        BY <3>1, <3>7, <3>11, MayGoOn
    <2>5. QED
      BY <2>1, <2>3, <2>4
  <1> HIDE DEF T
  <1>5. \A n \in 0 .. k : n \in T
    BY <1>3, <1>4, Upwards
  <1>6. k \in T
    BY <1>5
  <1>7. QED
    BY <1>1, <1>6 DEF T

-----------------------------------------------------------------------------
(* The token set of a term with an edit distance.                          *)

Ends(F) == {f.node : f \in {g \in F : g.str = <<>>}}

IsFuzzy(p, N, M, F, t) ==
    /\ M = Len(p) + N /\ IsTurns(F, M, FirstFrames(p, N))
    /\ t = Trie(FrameNodes(F[M]), Ends(F[M]))

LEMMA FromFuzzyIs ==
  ASSUME NEW p \in Seq(Labels), NEW N \in Nat
  PROVE  \E M \in Nat : \E F : IsFuzzy(p, N, M, F, FromFuzzyString(p, N))
  <1>1. PICK M \in Nat : M = Len(p) + N
    <2>1. Len(p) + N \in Nat
      BY LenProperties
    <2>2. QED
      BY <2>1
  <1>2. FromFuzzyString(p, N) = Trie(FrameNodes(FuzzyFrames(FirstFrames(p, N), Len(p) + N)),
                                     Ends(FuzzyFrames(FirstFrames(p, N), Len(p) + N)))
    BY DEF FromFuzzyString, FrameNodes, Ends, FirstFrames, StartFrame
  <1>3. PICK F : IsTurns(F, M, FirstFrames(p, N)) /\ FuzzyFrames(FirstFrames(p, N), M) = F[M]
    BY FuzzyFramesAre
  <1>4. FromFuzzyString(p, N) = Trie(FrameNodes(F[M]), Ends(F[M]))
    BY <1>1, <1>2, <1>3, Zenon
  <1>5. IsFuzzy(p, N, M, F, FromFuzzyString(p, N))
    BY <1>1, <1>3, <1>4 DEF IsFuzzy
  <1>6. QED
    BY <1>5

LEMMA EndIs ==
  ASSUME NEW z \in Seq(Labels), NEW k
  PROVE  Cut(z, Len(z), k).node = z /\ Cut(z, Len(z), k).str = <<>>
  <1>1. PICK L \in Nat : L = Len(z)
    BY LenProperties
  <1>2. L \in 0 .. Len(z)
    BY <1>1
  <1>3. PICK x : x = SubSeq(z, 1, L)
    OBVIOUS
  <1>4. x \in Seq(Labels) /\ Len(x) = L /\ \A j \in 1 .. L : x[j] = z[j]
    BY <1>2, <1>3, BeforeIs
  <1>5. x = z
    BY <1>1, <1>4, SeqEqual
  <1>6. Cut(z, L, k).node = x /\ Cut(z, L, k).str = <<>>
    BY <1>1, <1>2, <1>3, CutIs
  <1>7. QED
    BY <1>1, <1>5, <1>6

(* A word of letters that an end agrees with is within the edits.          *)
LEMMA EndsAreSound ==
  ASSUME NEW N, NEW W, NEW G, TurnOK(W, N, G), NEW PP, NEW u, u \in Ends(G), Letters # {},
         NEW w \in Seq(Letters), Covers(PP, u, w, Len(w))
  PROVE  w \in W[N]
  <1>1. PICK f \in G : f.str = <<>> /\ u = f.node
    BY DEF Ends
  <1>2. FrameOK(W, N, f)
    BY DEF TurnOK
  <1>3. PICK z, i, k : f = Cut(z, i, k) /\ z \in Seq(Labels) /\ i \in 0 .. Len(z) /\ Sound(W, z, N)
    BY <1>2 DEF FrameOK
  <1>4. i = Len(z)
    BY <1>1, <1>3, CutIs
  <1>5. u = z
    BY <1>1, <1>3, <1>4, EndIs
  <1>6. Len(z) = Len(w) /\ \A j \in 1 .. Len(w) : z[j] = w[j] \/ z[j] = "*"
    BY <1>5 DEF Covers
  <1>7. w \in Seq(Labels)
    BY LettersAreLabels, MoreElements
  <1>8. \A j \in 1 .. Len(w) : w[j] \in Letters
    BY ElementOfSeq
  <1>9. Stands(z, w)
    BY <1>6, <1>7, <1>8 DEF Stands
  <1>10. QED
    BY <1>3, <1>9 DEF Sound

-----------------------------------------------------------------------------
(* What is one edit away is found: the frames run along the word, make the *)
(* edit, and run on to its end.                                            *)

LEMMA StepOn ==
  ASSUME NEW M \in Nat, NEW F, NEW first, IsTurns(F, M, first),
         NEW z \in Seq(Labels), NEW i \in 0 .. Len(z), i # Len(z), NEW k,
         NEW t \in Nat, t + 1 <= M, Cut(z, i, k) \in F[t], NEW g, IsNext(z, i, k, g)
  PROVE  g \in F[t + 1]
  <1>1. t + 1 \in 1 .. M /\ (t + 1) - 1 = t
    OBVIOUS
  <1>2. F[t + 1] = NextTurn(F[t])
    BY <1>1 DEF IsTurns
  <1>3. g \in FuzzyEdits(Cut(z, i, k))
    BY CutEdits
  <1>4. Cut(z, i, k).str # <<>>
    BY CutIs
  <1>5. QED
    BY <1>2, <1>3, <1>4 DEF NextTurn

LEMMA RunOn ==
  ASSUME NEW M \in Nat, NEW F, NEW first, IsTurns(F, M, first),
         NEW z \in Seq(Labels), NEW i \in 0 .. Len(z), NEW k,
         NEW t \in Nat, Cut(z, i, k) \in F[t], NEW n \in Nat, i + n <= Len(z), t + n <= M
  PROVE  Cut(z, i + n, k) \in F[t + n]
  <1>1. PICK L \in Nat : L = Len(z)
    BY LenProperties
  <1>2. i \in 0 .. L /\ i + n <= L
    BY <1>1
  <1> DEFINE T == {m \in Nat : Cut(z, i + m, k) \in F[t + m]}
  <1>3. 0 \in T
    <2>1. i + 0 = i /\ t + 0 = t
      BY <1>2
    <2>2. QED
      BY <2>1
  <1>4. ASSUME NEW m \in 1 .. n, m - 1 \in T PROVE m \in T
    <2>1. PICK j, s : j = i + (m - 1) /\ s = t + (m - 1)
      OBVIOUS
    <2>2. /\ j \in 0 .. L /\ j # L /\ j + 1 = i + m /\ j + 1 <= L
          /\ s \in Nat /\ s + 1 = t + m /\ s + 1 <= M
      BY <1>2, <2>1
    <2>3. Cut(z, j, k) \in F[s]
      BY <1>4, <2>1
    <2>4. PICK g : g = Cut(z, j + 1, k)
      OBVIOUS
    <2>5. IsNext(z, j, k, g)
      BY <1>1, <2>2, <2>4 DEF IsNext
    <2>6. g \in F[s + 1]
      <3>1. j \in 0 .. Len(z) /\ j # Len(z)
        BY <1>1, <2>2
      <3>2. QED
        BY <2>2, <2>3, <2>5, <3>1, StepOn
    <2>7. m \in Nat
      OBVIOUS
    <2>8. QED
      BY <2>2, <2>4, <2>6, <2>7
  <1> HIDE DEF T
  <1>5. \A m \in 0 .. n : m \in T
    BY <1>3, <1>4, Upwards
  <1>6. n \in T
    BY <1>5
  <1>7. QED
    BY <1>6 DEF T

LEMMA TurnsGrow ==
  ASSUME NEW M \in Nat, NEW F, NEW first, IsTurns(F, M, first), NEW k \in 0 .. M
  PROVE  F[k] \subseteq F[M]
  <1>1. \A n \in 1 .. M : F[n - 1] \subseteq F[n]
    BY DEF IsTurns, NextTurn
  <1>2. M \in 0 .. M /\ k \in 0 .. M
    OBVIOUS
  <1>3. QED
    BY <1>1, <1>2, Growing

LEMMA RunToEnd ==
  ASSUME NEW M \in Nat, NEW F, NEW first, IsTurns(F, M, first),
         NEW z \in Seq(Labels), NEW i \in 0 .. Len(z), NEW k,
         NEW t \in Nat, Cut(z, i, k) \in F[t], t + (Len(z) - i) <= M
  PROVE  z \in Ends(F[M])
  <1>1. PICK L \in Nat : L = Len(z) /\ i \in 0 .. L
    BY LenProperties
  <1>2. PICK n \in Nat : n = L - i
    <2>1. L - i \in Nat
      BY <1>1
    <2>2. QED
      BY <2>1
  <1>3. i + n = L /\ i + n <= Len(z) /\ t + n <= M /\ t + n \in 0 .. M
    BY <1>1, <1>2
  <1>4. PICK f : f = Cut(z, L, k)
    OBVIOUS
  <1>5. f \in F[t + n]
    <2>1. Cut(z, i + n, k) \in F[t + n]
      BY <1>3, RunOn
    <2>2. QED
      BY <1>3, <1>4, <2>1
  <1>6. f \in F[M]
    <2>1. F[t + n] \subseteq F[M]
      BY <1>3, TurnsGrow
    <2>2. QED
      BY <1>5, <2>1
  <1>7. f.node = z /\ f.str = <<>>
    BY <1>1, <1>4, EndIs
  <1>8. QED
    BY <1>6, <1>7 DEF Ends

LEMMA EditEnds ==
  ASSUME NEW p \in Seq(Labels), NEW N \in Nat, N # 0, NEW M \in Nat, NEW F, M = Len(p) + N,
         IsTurns(F, M, FirstFrames(p, N)), p # <<>>,
         NEW i \in 0 .. Len(p), i # Len(p), NEW s \in Seq(Labels), i + 1 <= Len(s), Len(s) <= Len(p) + 1,
         IsNext(p, i, N, Cut(s, i + 1, N - 1))
  PROVE  s \in Ends(F[M])
  <1>1. PICK L \in Nat, m \in Nat : L = Len(p) /\ m = Len(s)
    <2>1. Len(p) \in Nat /\ Len(s) \in Nat
      BY LenProperties
    <2>2. QED
      BY <2>1
  <1>2. /\ i \in 0 .. L /\ i # L /\ i \in Nat /\ i + 1 <= m /\ m <= L + 1 /\ M = L + N /\ N >= 1
        /\ i + 1 \in Nat /\ 0 + i <= M /\ i + 1 <= M /\ i + 1 \in 0 .. m
    BY <1>1
  <1>3. Cut(p, 0, N) \in F[0] /\ 0 \in 0 .. Len(p)
    <2>1. F[0] = FirstFrames(p, N)
      BY DEF IsTurns
    <2>2. StartFrame(p, N) = Cut(p, 0, N) /\ 0 \in 0 .. Len(p)
      BY StartIs
    <2>3. QED
      BY <2>1, <2>2 DEF FirstFrames
  <1>4. Cut(p, i, N) \in F[i]
    <2>1. 0 + i <= Len(p) /\ 0 \in Nat /\ 0 + i = i
      BY <1>1, <1>2
    <2>2. Cut(p, 0 + i, N) \in F[0 + i]
      BY <1>2, <1>3, <2>1, RunOn
    <2>3. QED
      BY <2>1, <2>2
  <1>5. Cut(s, i + 1, N - 1) \in F[i + 1]
    BY <1>2, <1>4, StepOn
  <1>6. i + 1 \in 0 .. Len(s) /\ (i + 1) + (Len(s) - (i + 1)) <= M
    BY <1>1, <1>2
  <1>7. QED
    BY <1>2, <1>5, <1>6, RunToEnd

Agrees(z, w) == Len(z) = Len(w) /\ \A j \in 1 .. Len(w) : z[j] = w[j] \/ z[j] = "*"

IsEnd(F, w) == \E z \in Seq(Labels) : z \in Ends(F) /\ Agrees(z, w)

LEMMA SpelledIs ==
  ASSUME NEW p \in Seq(Labels), NEW v \in Spelled(p)
  PROVE  v \in Seq(Labels) /\ Len(v) = Len(p) /\ Agrees(p, v)
  <1>1. PICK L \in Nat : L = Len(p) /\ DOMAIN p = 1 .. L
    BY LenProperties
  <1>2. /\ v \in [1 .. L -> Letters \union ToSet(p)]
        /\ \A j \in 1 .. L : v[j] = p[j] \/ (p[j] = "*" /\ v[j] \in Letters)
    BY <1>1 DEF Spelled
  <1>3. \A j \in 1 .. L : v[j] \in Labels
    <2>1. \A j \in 1 .. L : p[j] \in Labels
      BY <1>1, ElementOfSeq
    <2>2. QED
      BY <1>2, <2>1, LettersAreLabels
  <1>4. v \in [1 .. L -> Labels]
    BY <1>2, <1>3
  <1>5. v \in Seq(Labels) /\ Len(v) = L
    BY <1>4, MadeSeq
  <1>6. \A j \in 1 .. Len(v) : p[j] = v[j] \/ p[j] = "*"
    BY <1>2, <1>5
  <1>7. QED
    BY <1>1, <1>5, <1>6 DEF Agrees

LEMMA NoEditEnds ==
  ASSUME NEW p \in Seq(Labels), NEW N \in Nat, NEW M \in Nat, NEW F, M = Len(p) + N,
         IsTurns(F, M, FirstFrames(p, N)), p # <<>>, NEW v \in Spelled(p)
  PROVE  IsEnd(F[M], v)
  <1>1. PICK L \in Nat : L = Len(p)
    BY LenProperties
  <1>2. Cut(p, 0, N) \in F[0] /\ 0 \in 0 .. Len(p)
    <2>1. F[0] = FirstFrames(p, N)
      BY DEF IsTurns
    <2>2. StartFrame(p, N) = Cut(p, 0, N) /\ 0 \in 0 .. Len(p)
      BY StartIs
    <2>3. QED
      BY <2>1, <2>2 DEF FirstFrames
  <1>3. 0 \in Nat /\ 0 + (Len(p) - 0) <= M
    BY <1>1
  <1>4. p \in Ends(F[M])
    BY <1>2, <1>3, RunToEnd
  <1>5. Agrees(p, v)
    BY SpelledIs
  <1>6. QED
    BY <1>4, <1>5 DEF IsEnd

LEMMA DropEnds ==
  ASSUME NEW p \in Seq(Labels), NEW N \in Nat, N # 0, NEW M \in Nat, NEW F, M = Len(p) + N,
         IsTurns(F, M, FirstFrames(p, N)), p # <<>>, NEW v \in Spelled(p),
         NEW i \in 0 .. Len(v), i + 1 <= Len(v), NEW w, w = Without(v, i + 1)
  PROVE  IsEnd(F[M], w)
  <1>1. PICK L \in Nat : L = Len(p) /\ v \in Seq(Labels) /\ Len(v) = L
    BY LenProperties, SpelledIs
  <1>2. \A j \in 1 .. L : p[j] = v[j] \/ p[j] = "*"
    BY <1>1, SpelledIs DEF Agrees
  <1>3. i \in 0 .. L /\ i + 1 <= L /\ i + 1 \in 1 .. Len(v) /\ i + 1 \in 1 .. Len(p)
    BY <1>1
  <1>4. PICK s : s = Without(p, i + 1)
    OBVIOUS
  <1>5. /\ s \in Seq(Labels) /\ Len(s) = L - 1 /\ (\A j \in 1 .. (i + 1) - 1 : s[j] = p[j])
        /\ \A j \in i + 1 .. L - 1 : s[j] = p[j + 1]
    <2>1. IsWithout(s, Labels, p, i + 1)
      BY <1>3, <1>4, WithoutIs
    <2>2. QED
      BY <1>1, <2>1 DEF IsWithout
  <1>6. /\ w \in Seq(Labels) /\ Len(w) = L - 1 /\ (\A j \in 1 .. (i + 1) - 1 : w[j] = v[j])
        /\ \A j \in i + 1 .. L - 1 : w[j] = v[j + 1]
    <2>1. IsWithout(w, Labels, v, i + 1)
      BY <1>1, <1>3, WithoutIs
    <2>2. QED
      BY <1>1, <2>1 DEF IsWithout
  <1>7. Agrees(s, w)
    <2>1. ASSUME NEW j \in 1 .. L - 1 PROVE s[j] = w[j] \/ s[j] = "*"
      <3>1. (j \in 1 .. (i + 1) - 1 /\ j \in 1 .. L) \/ (j \in i + 1 .. L - 1 /\ j + 1 \in 1 .. L)
        BY <1>3
      <3>2. QED
        BY <1>2, <1>5, <1>6, <3>1
    <2>2. QED
      BY <1>5, <1>6, <2>1 DEF Agrees
  <1>8. s \in Ends(F[M])
    <2>1. CASE i + 2 <= L
      <3>1. PICK g : g = Cut(s, i + 1, N - 1)
        OBVIOUS
      <3>2. IsNext(p, i, N, g)
        BY <1>1, <1>4, <2>1, <3>1 DEF IsNext
      <3>3. i \in 0 .. Len(p) /\ i # Len(p) /\ i + 1 <= Len(s) /\ Len(s) <= Len(p) + 1
        BY <1>1, <1>3, <1>5, <2>1
      <3>4. QED
        BY <1>5, <3>1, <3>2, <3>3, EditEnds
    <2>2. CASE i + 1 = L
      <3>1. PICK g : g = Cut(s, i, N)
        OBVIOUS
      <3>2. IsNext(p, i, N, g)
        BY <1>1, <1>4, <2>2, <3>1 DEF IsNext
      <3>3. Cut(p, 0, N) \in F[0] /\ 0 \in 0 .. Len(p)
        <4>1. F[0] = FirstFrames(p, N)
          BY DEF IsTurns
        <4>2. StartFrame(p, N) = Cut(p, 0, N) /\ 0 \in 0 .. Len(p)
          BY StartIs
        <4>3. QED
          BY <4>1, <4>2 DEF FirstFrames
      <3>4. /\ i \in Nat /\ 0 + i = i /\ 0 + i <= Len(p) /\ 0 + i <= M /\ 0 \in Nat /\ i + 1 \in Nat
            /\ i + 1 <= M /\ i \in 0 .. Len(p) /\ i # Len(p)
        BY <1>1, <1>3
      <3>5. Cut(p, i, N) \in F[i]
        <4>1. Cut(p, 0 + i, N) \in F[0 + i]
          BY <3>3, <3>4, RunOn
        <4>2. QED
          BY <3>4, <4>1
      <3>6. g \in F[i + 1]
        BY <3>2, <3>4, <3>5, StepOn
      <3>7. i \in 0 .. Len(s) /\ (i + 1) + (Len(s) - i) <= M
        BY <1>1, <1>3, <1>5, <2>2
      <3>8. QED
        BY <1>5, <3>1, <3>4, <3>6, <3>7, RunToEnd
    <2>3. QED
      BY <1>3, <2>1, <2>2
  <1>9. QED
    BY <1>5, <1>7, <1>8 DEF IsEnd

LEMMA AlterEnds ==
  ASSUME NEW p \in Seq(Labels), NEW N \in Nat, N # 0, NEW M \in Nat, NEW F, M = Len(p) + N,
         IsTurns(F, M, FirstFrames(p, N)), p # <<>>, NEW v \in Spelled(p),
         NEW i \in 0 .. Len(v), i + 1 <= Len(v), NEW c \in Letters, NEW w, w = Altered(v, i + 1, c)
  PROVE  IsEnd(F[M], w)
  <1>1. PICK L \in Nat : L = Len(p) /\ v \in Seq(Labels) /\ Len(v) = L
    BY LenProperties, SpelledIs
  <1>2. \A j \in 1 .. L : p[j] = v[j] \/ p[j] = "*"
    BY <1>1, SpelledIs DEF Agrees
  <1>3. i \in 0 .. L /\ i + 1 <= L /\ i + 1 \in 1 .. Len(v) /\ i + 1 \in 1 .. Len(p)
    BY <1>1
  <1>4. PICK s : s = Altered(p, i + 1, "*")
    OBVIOUS
  <1>5. "*" \in Labels /\ c \in Labels
    BY LettersAreLabels
  <1>6. s \in Seq(Labels) /\ Len(s) = L /\ s[i + 1] = "*" /\ \A j \in 1 .. L : j # i + 1 => s[j] = p[j]
    <2>1. IsAltered(s, Labels, p, i + 1, "*")
      BY <1>3, <1>4, <1>5, AlteredIs
    <2>2. QED
      BY <1>1, <2>1 DEF IsAltered
  <1>7. w \in Seq(Labels) /\ Len(w) = L /\ \A j \in 1 .. L : j # i + 1 => w[j] = v[j]
    <2>1. IsAltered(w, Labels, v, i + 1, c)
      BY <1>1, <1>3, <1>5, AlteredIs
    <2>2. QED
      BY <1>1, <2>1 DEF IsAltered
  <1>8. Agrees(s, w)
    <2>1. ASSUME NEW j \in 1 .. L PROVE s[j] = w[j] \/ s[j] = "*"
      BY <1>2, <1>6, <1>7
    <2>2. QED
      BY <1>6, <1>7, <2>1 DEF Agrees
  <1>9. PICK g : g = Cut(s, i + 1, N - 1)
    OBVIOUS
  <1>10. IsNext(p, i, N, g)
    BY <1>1, <1>3, <1>4, <1>9 DEF IsNext
  <1>11. i \in 0 .. Len(p) /\ i # Len(p) /\ i + 1 <= Len(s) /\ Len(s) <= Len(p) + 1
    BY <1>1, <1>3, <1>6
  <1>12. s \in Ends(F[M])
    BY <1>6, <1>9, <1>10, <1>11, EditEnds
  <1>13. QED
    BY <1>6, <1>8, <1>12 DEF IsEnd

LEMMA SwapEnds ==
  ASSUME NEW p \in Seq(Labels), NEW N \in Nat, N # 0, NEW M \in Nat, NEW F, M = Len(p) + N,
         IsTurns(F, M, FirstFrames(p, N)), p # <<>>, NEW v \in Spelled(p),
         NEW i \in 0 .. Len(v), i + 2 <= Len(v), NEW w, w = Swapped(v, i + 1)
  PROVE  IsEnd(F[M], w)
  <1>1. PICK L \in Nat : L = Len(p) /\ v \in Seq(Labels) /\ Len(v) = L
    BY LenProperties, SpelledIs
  <1>2. \A j \in 1 .. L : p[j] = v[j] \/ p[j] = "*"
    BY <1>1, SpelledIs DEF Agrees
  <1>3. /\ i \in 0 .. L /\ i + 2 <= L /\ i + 1 \in 1 .. Len(v) /\ i + 1 \in 1 .. Len(p)
        /\ (i + 1) + 1 <= Len(v) /\ (i + 1) + 1 <= Len(p) /\ (i + 1) + 1 = i + 2
        /\ i + 1 \in 1 .. L /\ i + 2 \in 1 .. L
    BY <1>1
  <1>4. PICK s : s = Swapped(p, i + 1)
    OBVIOUS
  <1>5. /\ s \in Seq(Labels) /\ Len(s) = L /\ s[i + 1] = p[i + 2] /\ s[i + 2] = p[i + 1]
        /\ \A j \in 1 .. L : j # i + 1 /\ j # i + 2 => s[j] = p[j]
    <2>1. IsSwapped(s, Labels, p, i + 1)
      BY <1>3, <1>4, SwappedIs
    <2>2. QED
      BY <1>1, <1>3, <2>1 DEF IsSwapped
  <1>6. /\ w \in Seq(Labels) /\ Len(w) = L /\ w[i + 1] = v[i + 2] /\ w[i + 2] = v[i + 1]
        /\ \A j \in 1 .. L : j # i + 1 /\ j # i + 2 => w[j] = v[j]
    <2>1. IsSwapped(w, Labels, v, i + 1)
      BY <1>1, <1>3, SwappedIs
    <2>2. QED
      BY <1>1, <1>3, <2>1 DEF IsSwapped
  <1>7. Agrees(s, w)
    <2>1. ASSUME NEW j \in 1 .. L PROVE s[j] = w[j] \/ s[j] = "*"
      <3>1. CASE j = i + 1
        BY <1>2, <1>3, <1>5, <1>6, <3>1
      <3>2. CASE j = i + 2
        BY <1>2, <1>3, <1>5, <1>6, <3>2
      <3>3. CASE j # i + 1 /\ j # i + 2
        BY <1>2, <1>5, <1>6, <3>3
      <3>4. QED
        BY <3>1, <3>2, <3>3
    <2>2. QED
      BY <1>5, <1>6, <2>1 DEF Agrees
  <1>8. PICK g : g = Cut(s, i + 1, N - 1)
    OBVIOUS
  <1>9. IsNext(p, i, N, g)
    BY <1>1, <1>3, <1>4, <1>8 DEF IsNext
  <1>10. i \in 0 .. Len(p) /\ i # Len(p) /\ i + 1 <= Len(s) /\ Len(s) <= Len(p) + 1
    BY <1>1, <1>3, <1>5
  <1>11. s \in Ends(F[M])
    BY <1>5, <1>8, <1>9, <1>10, EditEnds
  <1>12. QED
    BY <1>5, <1>7, <1>11 DEF IsEnd

(* A character put before the last one. *)
IsWithOneMore(v, i, w) ==
    /\ i \in 0 .. Len(v) /\ i # Len(v) /\ Len(w) = Len(v) + 1
    /\ \A j \in 1 .. i : w[j] = v[j]
    /\ \A j \in i + 1 .. Len(v) : w[j + 1] = v[j]

LEMMA InsertEnds ==
  ASSUME NEW p \in Seq(Labels), NEW N \in Nat, N # 0, NEW M \in Nat, NEW F, M = Len(p) + N,
         IsTurns(F, M, FirstFrames(p, N)), p # <<>>, NEW v \in Spelled(p),
         NEW i, NEW w, IsWithOneMore(v, i, w)
  PROVE  IsEnd(F[M], w)
  <1>1. PICK L \in Nat : L = Len(p) /\ v \in Seq(Labels) /\ Len(v) = L
    BY LenProperties, SpelledIs
  <1>2. \A j \in 1 .. L : p[j] = v[j] \/ p[j] = "*"
    BY <1>1, SpelledIs DEF Agrees
  <1>3. i \in 0 .. L /\ i # L /\ i \in 0 .. Len(p)
    BY <1>1 DEF IsWithOneMore
  <1>4. PICK s : s = Inserted(p, i, "*")
    OBVIOUS
  <1>5. /\ s \in Seq(Labels) /\ Len(s) = L + 1 /\ (\A j \in 1 .. i : s[j] = p[j])
        /\ s[i + 1] = "*" /\ \A j \in i + 1 .. L : s[j + 1] = p[j]
    <2>1. "*" \in Labels
      BY LettersAreLabels
    <2>2. IsInserted(s, Labels, p, i, "*")
      BY <1>3, <1>4, <2>1, InsertedIs
    <2>3. QED
      BY <1>1, <2>2 DEF IsInserted
  <1>6. Len(w) = L + 1 /\ (\A j \in 1 .. i : w[j] = v[j]) /\ \A j \in i + 1 .. L : w[j + 1] = v[j]
    BY <1>1 DEF IsWithOneMore
  <1>7. Agrees(s, w)
    <2>1. ASSUME NEW j \in 1 .. L + 1 PROVE s[j] = w[j] \/ s[j] = "*"
      <3>1. CASE j \in 1 .. i
        <4>1. j \in 1 .. L
          BY <1>3, <3>1
        <4>2. QED
          BY <1>2, <1>5, <1>6, <3>1, <4>1
      <3>2. CASE j = i + 1
        BY <1>5, <3>2
      <3>3. CASE j > i + 1
        <4>1. PICK n \in i + 1 .. L : n + 1 = j
          <5>1. j - 1 \in i + 1 .. L /\ (j - 1) + 1 = j
            BY <1>3, <3>3
          <5>2. QED
            BY <5>1
        <4>2. n \in 1 .. L
          BY <1>3
        <4>3. QED
          BY <1>2, <1>5, <1>6, <4>1, <4>2
      <3>4. QED
        BY <1>3, <3>1, <3>2, <3>3
    <2>2. QED
      BY <1>5, <1>6, <2>1 DEF Agrees
  <1>8. PICK g : g = Cut(s, i + 1, N - 1)
    OBVIOUS
  <1>9. IsNext(p, i, N, g)
    BY <1>4, <1>8 DEF IsNext
  <1>10. i # Len(p) /\ i + 1 <= Len(s) /\ Len(s) <= Len(p) + 1
    BY <1>1, <1>3, <1>5
  <1>11. s \in Ends(F[M])
    BY <1>3, <1>5, <1>8, <1>9, <1>10, EditEnds
  <1>12. QED
    BY <1>5, <1>7, <1>11 DEF IsEnd

IsClose(v, N, w) == (w = v \/ (N # 0 /\ w \in Edits(v))) /\ (Len(w) > Len(v) => Last(w) = Last(v))

LEMMA CloseEnds ==
  ASSUME NEW p \in Seq(Labels), NEW N \in Nat, NEW M \in Nat, NEW F, M = Len(p) + N,
         IsTurns(F, M, FirstFrames(p, N)), NEW v \in Spelled(p),
         NEW w \in Seq(Letters), w # <<>>, IsClose(v, N, w)
  PROVE  IsEnd(F[M], w)
  <1>1. PICK L \in Nat : L = Len(p) /\ v \in Seq(Labels) /\ Len(v) = L
    BY LenProperties, SpelledIs
  <1>2. (w = v \/ (N # 0 /\ w \in Edits(v))) /\ (Len(w) > Len(v) => Last(w) = Last(v))
    BY DEF IsClose
  <1>3. (p = <<>> <=> L = 0) /\ (v = <<>> <=> L = 0)
    BY <1>1, EmptySeq
  <1>4. CASE p # <<>> /\ w = v
    BY <1>4, NoEditEnds
  <1>5. CASE p = <<>>
    <2>1. N # 0 /\ w \in Edits(v) /\ L = 0 /\ p \in Seq(Labels) /\ 0 \in 0 .. Len(p)
      BY <1>1, <1>2, <1>3, <1>5
    <2>2. PICK i \in 0 .. Len(v) : IsEdit(v, w, i)
      BY <1>1, <2>1, EditsAre
    <2>3. PICK c \in Letters : w = Inserted(v, 0, c)
      BY <1>1, <2>1, <2>2 DEF IsEdit
    <2>4. Len(w) = 1
      <3>1. c \in Labels /\ 0 \in 0 .. Len(v)
        BY <1>1, LettersAreLabels
      <3>2. IsInserted(w, Labels, v, 0, c)
        BY <1>1, <2>3, <3>1, InsertedIs
      <3>3. Len(w) = Len(v) + 1
        BY <3>2 DEF IsInserted
      <3>4. Len(v) = 0
        BY <1>1, <2>1
      <3>5. QED
        BY <3>3, <3>4
    <2>5. PICK s : s = Inserted(p, 0, "*")
      OBVIOUS
    <2>6. s \in Seq(Labels) /\ Len(s) = 1 /\ s[1] = "*"
      <3>1. IsInserted(s, Labels, p, 0, "*")
        BY <2>1, <2>5, LettersAreLabels, InsertedIs
      <3>2. s \in Seq(Labels) /\ Len(s) = Len(p) + 1 /\ s[0 + 1] = "*"
        BY <3>1 DEF IsInserted
      <3>3. Len(p) = 0 /\ 0 + 1 = 1
        BY <1>1, <2>1
      <3>4. QED
        BY <3>2, <3>3
    <2>7. PICK g : g = Cut(s, 1, N - 1)
      OBVIOUS
    <2>8. IsNext(p, 0, N, g)
      BY <2>1, <2>5, <2>7 DEF IsNext
    <2>9. g \in FuzzyEdits(Cut(p, 0, N))
      BY <2>1, <2>8, CutEdits
    <2>10. g \in F[0]
      <3>1. StartFrame(p, N) = Cut(p, 0, N) /\ F[0] = FirstFrames(p, N)
        BY StartIs DEF IsTurns
      <3>2. QED
        BY <1>5, <2>9, <3>1 DEF FirstFrames
    <2>11. 1 \in 0 .. Len(s) /\ 0 \in Nat /\ 0 + (Len(s) - 1) <= M
      BY <2>6
    <2>12. s \in Ends(F[M])
      BY <2>6, <2>7, <2>10, <2>11, RunToEnd
    <2>13. Agrees(s, w)
      BY <2>4, <2>6 DEF Agrees
    <2>14. QED
      BY <2>6, <2>12, <2>13 DEF IsEnd
  <1>6. CASE p # <<>> /\ N # 0 /\ w \in Edits(v)
    <2>1. PICK i \in 0 .. Len(v) : IsEdit(v, w, i)
      BY <1>1, <1>6, EditsAre
    <2>2. ASSUME NEW c \in Letters, w = Inserted(v, i, c) PROVE IsEnd(F[M], w)
      <3>1. /\ Len(w) = L + 1 /\ (\A j \in 1 .. i : w[j] = v[j])
            /\ w[i + 1] = c /\ \A j \in i + 1 .. L : w[j + 1] = v[j]
        <4>1. c \in Labels
          BY LettersAreLabels
        <4>2. IsInserted(w, Labels, v, i, c)
          BY <1>1, <2>2, <4>1, InsertedIs
        <4>3. QED
          BY <1>1, <4>2 DEF IsInserted
      <3>2. CASE i # L
        <4>1. IsWithOneMore(v, i, w)
          BY <1>1, <3>1, <3>2 DEF IsWithOneMore
        <4>2. QED
          BY <1>6, <4>1, InsertEnds
      <3>3. CASE i = L
        <4>1. PICK n \in Nat : n = L - 1 /\ n + 1 = L
          <5>1. L - 1 \in Nat /\ (L - 1) + 1 = L
            BY <1>1, <1>3, <1>6
          <5>2. QED
            BY <5>1
        <4>2. w[L + 1] = v[L]
          <5>1. Len(w) > Len(v)
            BY <1>1, <3>1
          <5>2. Last(w) = Last(v)
            BY <1>2, <5>1
          <5>3. QED
            BY <1>1, <3>1, <5>2 DEF Last
        <4>3. n \in 0 .. Len(v) /\ n # Len(v) /\ Len(w) = Len(v) + 1
          BY <1>1, <3>1, <4>1
        <4>4. \A j \in 1 .. n : w[j] = v[j]
          BY <3>1, <3>3, <4>1
        <4>5. \A j \in n + 1 .. Len(v) : w[j + 1] = v[j]
          <5>1. \A j \in n + 1 .. L : j = L
            BY <4>1
          <5>2. QED
            BY <1>1, <4>2, <5>1
        <4>6. IsWithOneMore(v, n, w)
          BY <4>3, <4>4, <4>5 DEF IsWithOneMore
        <4>7. QED
          BY <1>6, <4>6, InsertEnds
      <3>4. QED
        BY <3>2, <3>3
    <2>3. CASE i + 1 <= Len(v) /\ w = Without(v, i + 1)
      BY <1>6, <2>3, DropEnds
    <2>4. CASE i + 1 <= Len(v) /\ \E c \in Letters : w = Altered(v, i + 1, c)
      BY <1>6, <2>4, AlterEnds
    <2>5. CASE i + 2 <= Len(v) /\ w = Swapped(v, i + 1)
      BY <1>6, <2>5, SwapEnds
    <2>6. QED
      BY <2>1, <2>2, <2>3, <2>4, <2>5 DEF IsEdit
  <1>7. QED
    BY <1>2, <1>4, <1>5, <1>6

-----------------------------------------------------------------------------
(* What a term with an edit distance finds.                                *)

LEMMA FuzzyFinds ==
  ASSUME NEW nodes, Closed(nodes), NEW PP, IsTree(Labels, PP), NEW Fin,
         NEW Q, Q = Trie(PP, Fin).nodes, NEW w
  PROVE  IsFound(nodes, Q, PP, <<>>, w) <=>
             /\ w \in Seq(Letters) /\ Len(w) <= Len(nodes) /\ w # <<>> /\ Accepts(nodes, 1, w)
             /\ \E u \in Fin : Covers(PP, u, w, Len(w))
  <1>1. CASE w \notin Seq(Letters)
    BY <1>1 DEF IsFound, InBoth
  <1>2. CASE w \in Seq(Letters)
    <2>1. PICK k \in Nat : k = Len(w)
      BY <1>2, LenProperties
    <2>2. \A u : MayLead(Q, PP, <<>>, w, k, u) <=> Covers(PP, u, w, k)
      BY TrieLeads
    <2>3. \A u \in PP : Q[u].final <=> u \in Fin
      BY TrieIs
    <2>4. ASSUME IsFound(nodes, Q, PP, <<>>, w)
          PROVE  /\ Len(w) <= Len(nodes) /\ w # <<>> /\ Accepts(nodes, 1, w)
                 /\ \E u \in Fin : Covers(PP, u, w, Len(w))
      <3>1. PICK n, u : InBoth(nodes, Q, PP, <<>>, w, n, u) /\ nodes[n].final /\ Q[u].final /\ w # <<>>
        BY <2>4 DEF IsFound
      <3>2. /\ Len(w) <= Len(nodes) /\ n \in 1 .. Len(nodes) /\ u \in PP
            /\ Leads(nodes, 1, w, n) /\ MayLead(Q, PP, <<>>, w, Len(w), u)
        BY <3>1 DEF InBoth
      <3>3. Accepts(nodes, 1, w)
        BY <3>1, <3>2 DEF Leads, Accepts
      <3>4. Covers(PP, u, w, Len(w))
        BY <2>1, <2>2, <3>2
      <3>5. u \in Fin
        BY <2>3, <3>1, <3>2
      <3>6. QED
        BY <3>1, <3>2, <3>3, <3>4, <3>5
    <2>5. ASSUME Len(w) <= Len(nodes), w # <<>>, Accepts(nodes, 1, w),
                 NEW u \in Fin, Covers(PP, u, w, Len(w))
          PROVE  IsFound(nodes, Q, PP, <<>>, w)
      <3>1. PICK r : IsRun(nodes, 1, r, w) /\ nodes[r[Len(w)]].final
        BY <2>5 DEF Accepts
      <3>2. Len(w) \in 0 .. Len(w)
        BY <2>1
      <3>3. PICK n \in 1 .. Len(nodes) : n = r[Len(w)]
        BY <3>1, <3>2 DEF IsRun
      <3>4. Leads(nodes, 1, w, n) /\ nodes[n].final
        BY <3>1, <3>3 DEF Leads
      <3>5. u \in PP /\ MayLead(Q, PP, <<>>, w, Len(w), u)
        BY <2>1, <2>2, <2>5 DEF Covers
      <3>6. Q[u].final
        BY <2>3, <3>5
      <3>7. InBoth(nodes, Q, PP, <<>>, w, n, u)
        BY <1>2, <2>5, <3>3, <3>4, <3>5 DEF InBoth
      <3>8. QED
        BY <2>5, <3>4, <3>6, <3>7 DEF IsFound
    <2>6. QED
      BY <1>2, <2>4, <2>5
  <1>3. QED
    BY <1>1, <1>2

FuzzyOK(c, words) ==
    /\ words \subseteq inserted \intersect Edited(c.term, c.editDistance)
    /\ \A v \in Spelled(c.term) : \A w \in inserted \ {<<>>} :
           IsClose(v, c.editDistance, w) => w \in words

LEMMA FuzzyTermFinds ==
  ASSUME NoDigits, Inv, NEW c \in Clauses, "editDistance" \in DOMAIN c
  PROVE  FuzzyOK(c, ExpandedTerms(Root(builder), c))
  <1>1. PICK nodes : nodes = builder.nodes
    OBVIOUS
  <1>2. Closed(nodes) /\ Len(nodes) >= 1 /\ Len(nodes) \in Nat
    BY <1>1, InvIsClosed
  <1>3. PICK a : a = Root(builder) /\ a.nodes = nodes /\ a.root = 1
    BY <1>1, RootIs
  <1>4. PICK p \in Seq(Labels) : p = c.term
    <2>1. c.term \in Seq(STRING)
      BY ClausesAssumption
    <2>2. STRING \subseteq Labels
      BY DEF Labels
    <2>3. c.term \in Seq(Labels)
      BY <2>1, <2>2, MoreElements
    <2>4. QED
      BY <2>3
  <1>5. PICK N \in Nat : N = c.editDistance
    BY ClausesAssumption
  <1>6. PICK b : b = FromFuzzyString(p, N)
    OBVIOUS
  <1>7. PICK M, F : M \in Nat /\ IsFuzzy(p, N, M, F, b)
    BY <1>6, FromFuzzyIs
  <1>8. M = Len(p) + N /\ IsTurns(F, M, FirstFrames(p, N))
    BY <1>7 DEF IsFuzzy
  <1>9. PICK G, PP, Fin, Q : /\ G = F[M] /\ PP = FrameNodes(G) /\ Fin = Ends(G)
                             /\ b = Trie(PP, Fin) /\ Q = b.nodes
    BY <1>7 DEF IsFuzzy
  <1>10. b.root = <<>> /\ Q = Trie(PP, Fin).nodes
    BY <1>9, TrieIs
  <1>11. PICK W : IsRounds(W, N, Spelled(p)) /\ Edited(p, N) = W[N]
    BY EditedAre
  <1>12. ExpandedTerms(a, c) = ToArray(Intersect(a, b))
    BY <1>4, <1>5, <1>6 DEF ExpandedTerms, FromClause
  <1>13. TurnOK(W, N, G)
    BY <1>8, <1>9, <1>11, TurnsOK
  <1>14. IsTree(Labels, PP)
    BY <1>9, <1>13 DEF TurnOK
  <1>15. \A w : w \in inserted <=> w \in Seq(Letters) /\ Len(w) <= Len(nodes) /\ Accepts(nodes, 1, w)
    BY <1>1 DEF Inv
  <1>16. ASSUME NEW w
         PROVE  w \in ToArray(Intersect(a, b)) <=>
                    w \in inserted /\ w # <<>> /\ \E u \in Fin : Covers(PP, u, w, Len(w))
    <2>1. QClosed(Q, PP, <<>>)
      BY <1>10, <1>14, TrieIsClosed
    <2>2. w \in ToArray(Intersect(a, b)) <=> IsFound(nodes, Q, PP, <<>>, w)
      BY <1>2, <1>3, <1>9, <1>10, <2>1, FindsInBoth
    <2>3. IsFound(nodes, Q, PP, <<>>, w) <=>
              /\ w \in Seq(Letters) /\ Len(w) <= Len(nodes) /\ w # <<>> /\ Accepts(nodes, 1, w)
              /\ \E u \in Fin : Covers(PP, u, w, Len(w))
      BY <1>2, <1>10, <1>14, FuzzyFinds
    <2>4. QED
      BY <1>15, <2>2, <2>3
  <1>17. ASSUME NEW w \in ToArray(Intersect(a, b)) PROVE w \in inserted \intersect Edited(p, N)
    <2>1. w \in inserted /\ w # <<>> /\ w \in Seq(Letters)
      BY <1>15, <1>16
    <2>2. PICK u \in Fin : Covers(PP, u, w, Len(w))
      BY <1>16
    <2>3. Letters # {}
      <3>1. Len(w) \in Nat /\ Len(w) # 0
        BY <2>1, LenProperties, EmptySeq
      <3>2. 1 \in 1 .. Len(w)
        BY <3>1
      <3>3. QED
        BY <2>1, <3>2, ElementOfSeq
    <2>4. w \in W[N]
      BY <1>9, <1>13, <2>1, <2>2, <2>3, EndsAreSound
    <2>5. QED
      BY <1>11, <2>1, <2>4
  <1>18. ASSUME NEW v \in Spelled(p), NEW w \in inserted \ {<<>>}, IsClose(v, N, w)
         PROVE  w \in ToArray(Intersect(a, b))
    <2>1. w \in inserted /\ w # <<>> /\ w \in Seq(Letters)
      BY <1>15
    <2>2. IsEnd(G, w)
      BY <1>8, <1>9, <1>18, <2>1, CloseEnds
    <2>3. PICK u \in Ends(G) : Agrees(u, w)
      BY <2>2 DEF IsEnd
    <2>4. u \in PP
      BY <1>9, <2>3 DEF Ends, FrameNodes
    <2>5. Covers(PP, u, w, Len(w))
      BY <2>3, <2>4 DEF Agrees, Covers
    <2>6. QED
      BY <1>9, <1>16, <2>1, <2>3, <2>5
  <1>19. ToArray(Intersect(a, b)) \subseteq inserted \intersect Edited(p, N)
    BY <1>17
  <1>20. QED
    BY <1>3, <1>4, <1>5, <1>12, <1>18, <1>19 DEF FuzzyOK

(* A term with an edit distance finds only words within the distance, and  *)
(* all that are one edit away but for one more character at the end, for   *)
(* every alphabet without digits, any words, term and distance.            *)
THEOREM FuzzyTermsMatch ==
  ASSUME NoDigits
  PROVE  Spec => []FuzzyWithinDistance
  <1>1. Init => Inv /\ Answered
    BY InvInit DEF Init, Answered
  <1>2. Inv /\ Answered /\ [Next]_vars => Inv' /\ Answered'
    BY InvNext, AnsweredNext
  <1>3. ASSUME Inv, Answered, query # NoQuery, "editDistance" \in DOMAIN query
        PROVE  /\ found \subseteq inserted \intersect WithinDistance[query]
               /\ (inserted \intersect OneEditAway[query]) \ {<<>>} \subseteq found
    <2>1. PICK c \in Clauses : c = query /\ found = ExpandedTerms(Root(builder), c)
      BY <1>3 DEF Answered
    <2>2. "editDistance" \in DOMAIN c /\ c \in FuzzyClauses
      BY <1>3, <2>1 DEF FuzzyClauses
    <2>3. FuzzyOK(c, found)
      BY <1>3, <2>1, <2>2, FuzzyTermFinds
    <2>4. WithinDistance[c] = Edited(c.term, c.editDistance)
      BY <2>2 DEF WithinDistance
    <2>5. ASSUME NEW w \in inserted, w \in OneEditAway[c], w # <<>> PROVE w \in found
      <3>1. OneEditAway[c] =
                UNION {{x \in {v} \union (IF c.editDistance > 0 THEN Edits(v) ELSE {}) :
                            Len(x) > Len(v) => Last(x) = Last(v)} : v \in Spelled(c.term)}
        BY <2>2 DEF OneEditAway
      <3>2. PICK v \in Spelled(c.term) :
                /\ w \in {v} \union (IF c.editDistance > 0 THEN Edits(v) ELSE {})
                /\ Len(w) > Len(v) => Last(w) = Last(v)
        BY <2>5, <3>1
      <3>3. w = v \/ (c.editDistance > 0 /\ w \in Edits(v))
        BY <3>2
      <3>4. c.editDistance \in Nat
        BY <2>2, ClausesAssumption
      <3>5. c.editDistance > 0 => c.editDistance # 0
        BY <3>4
      <3>6. IsClose(v, c.editDistance, w)
        BY <3>2, <3>3, <3>5 DEF IsClose
      <3>7. QED
        BY <2>3, <2>5, <3>2, <3>6 DEF FuzzyOK
    <2>6. found \subseteq inserted \intersect WithinDistance[c]
      BY <2>3, <2>4 DEF FuzzyOK
    <2>7. QED
      BY <2>1, <2>5, <2>6
  <1>4. Inv /\ Answered => FuzzyWithinDistance
    BY <1>3 DEF FuzzyWithinDistance
  <1>5. QED
    BY <1>1, <1>2, <1>4, PTL DEF Spec
=============================================================================
