---------------------------- MODULE SearchProofs ----------------------------
(***************************************************************************)
(* The search box and its query language.                                  *)
(*                                                                         *)
(* lunr's lexer and parser, for strings of every length over every         *)
(* alphabet: the lexemes of a query never overlap or go back, and the      *)
(* escape characters remembered are those of the lexeme being read; the    *)
(* lexemes have the characters of the string, each once and in its place;  *)
(* and the clauses mean the terms.                                         *)
(*                                                                         *)
(* The page and its worker, for any queries, answers, numbers of keys and  *)
(* of hits on a page: when nothing is on its way the results shown are     *)
(* those of the query in the box, and they never go back to an earlier     *)
(* key's.                                                                  *)
(***************************************************************************)
EXTENDS QueryStrings, DocumentationSearch, FiniteSetTheorems, SequenceTheorems, WellFoundedInduction, TLAPS

-----------------------------------------------------------------------------
(* QueryStrings. *)

(* LexemesInOrder has two parts, the positions and the lexemes. *)
PositionsInOrder ==
    /\ pos \in Nat /\ start \in Nat /\ escapeCharPositions \subseteq Nat
    /\ start <= pos /\ pos <= Len(str) + 1
    /\ \A p \in escapeCharPositions : start <= p /\ p + 2 <= pos

Follow ==
    /\ lexemes \in Seq(Lexeme)
    /\ \A i \in DOMAIN lexemes :
           /\ lexemes[i].start <= lexemes[i].end
           /\ lexemes[i].end <= IF i = Len(lexemes) THEN start ELSE lexemes[i + 1].start

(* What the lexer's state functions find when they begin: lexField and     *)
(* lexTerm have a character to give back, the two number states stand in   *)
(* front of their operator, which is still to be skipped.                  *)
StateFits ==
    /\ state \in {"lexField", "lexTerm"} => start < pos /\ pos <= Len(str)
    /\ state \in {"lexEditDistance", "lexBoost"} => start = pos /\ pos < Len(str)

LexerInv == str \in Seq(STRING) /\ LexemesInOrder /\ StateFits

-----------------------------------------------------------------------------
(* Sets of positions. *)

(* A set of naturals has a least element. *)
LEMMA LeastPosition ==
  ASSUME NEW T, T \subseteq Nat, T # {}
  PROVE  \E x \in T : \A y \in T : x <= y
  <1>1. IsWellFoundedOn(OpToRel(<, Nat), Nat)
    BY NatLessThanWellFounded
  <1>2. PICK x \in T : \A y \in T : ~ (<<y, x>> \in OpToRel(<, Nat))
    BY <1>1, WFMin
  <1>3. ASSUME NEW y \in Nat, NEW z \in Nat, <<y, z>> \notin OpToRel(<, Nat)
        PROVE  z <= y
    BY <1>3 DEF OpToRel
  <1>4. QED
    BY <1>2, <1>3, Zenon

(* The elements of a finite set of naturals can be counted upwards: for    *)
(* each number there is the element with so many before it.                *)
LEMMA PositionOfRank ==
  ASSUME NEW K, K \subseteq Nat, IsFiniteSet(K)
  PROVE  \A i \in 1 .. Cardinality(K) : \E p \in K : Cardinality({q \in K : q < p}) = i - 1
  <1> DEFINE Below(p) == {q \in K : q < p}
             Missing == {i \in 1 .. Cardinality(K) : \A p \in K : Cardinality(Below(p)) # i - 1}
  <1>1. Cardinality(K) \in Nat
    BY FS_CardinalityType
  <1>2. SUFFICES ASSUME Missing # {} PROVE FALSE
    OBVIOUS
  <1>3. PICK i \in Missing : \A j \in Missing : i <= j
    <2>1. Missing \subseteq Nat
      BY <1>1
    <2>2. QED
      BY <1>2, <2>1, LeastPosition
  <1>4. i \in 1 .. Cardinality(K) /\ \A p \in K : Cardinality(Below(p)) # i - 1
    OBVIOUS
  <1>5. CASE i = 1
    <2>1. K # {}
      <3>1. Cardinality(K) # 0
        BY <1>1, <1>4
      <3>2. QED
        BY <3>1, FS_EmptySet
    <2>2. PICK p \in K : \A q \in K : p <= q
      BY <2>1, LeastPosition
    <2>3. Below(p) = {}
      <3>1. \A q \in K : ~ (q < p)
        BY <2>2
      <3>2. QED
        BY <3>1
    <2>4. QED
      BY <1>4, <1>5, <2>3, FS_EmptySet
  <1>6. CASE i # 1
    <2>1. PICK p \in K : Cardinality(Below(p)) = i - 2
      <3>1. i - 1 \in 1 .. Cardinality(K) /\ i - 1 \notin Missing
        BY <1>1, <1>3, <1>4, <1>6
      <3>2. PICK p \in K : Cardinality(Below(p)) = (i - 1) - 1
        BY <3>1
      <3>3. QED
        BY <3>2, <1>1, <1>4
    <2> DEFINE UpTo == Below(p) \union {p}
    <2>2. IsFiniteSet(Below(p))
      BY FS_Subset
    <2>3. IsFiniteSet(UpTo) /\ Cardinality(UpTo) = i - 1
      <3>1. p \notin Below(p)
        OBVIOUS
      <3>2. Cardinality(UpTo) = Cardinality(Below(p)) + 1 /\ IsFiniteSet(UpTo)
        BY <2>2, <3>1, FS_AddElement
      <3>3. QED
        BY <1>1, <1>4, <2>1, <3>2
    <2>4. K \ UpTo # {}
      <3>1. UpTo \subseteq K
        OBVIOUS
      <3>2. UpTo # K
        BY <1>1, <1>4, <2>3
      <3>3. QED
        BY <3>1, <3>2
    <2>5. PICK r \in K \ UpTo : \A q \in K \ UpTo : r <= q
      BY <2>4, LeastPosition
    <2>6. Below(r) = UpTo
      <3>1. \A q \in UpTo : q < r
        BY <2>5
      <3>2. \A q \in K : q < r => q \in UpTo
        BY <2>5
      <3>3. QED
        BY <3>1, <3>2
    <2>7. QED
      BY <1>4, <2>3, <2>5, <2>6
  <1>7. QED
    BY <1>5, <1>6

(* A run of digits ends within the string, and has nothing but digits. *)
LEMMA DigitRunEnds ==
  ASSUME str \in Seq(STRING), NEW p \in Nat, p <= Len(str)
  PROVE  /\ DigitRunEnd(p) \in p .. Len(str)
         /\ \A q \in p .. (DigitRunEnd(p) - 1) : str[q + 1] \in DOMAIN DigitValue
  <1> DEFINE Stops == {e \in p .. Len(str) : e = Len(str) \/ str[e + 1] \notin DOMAIN DigitValue}
  <1>1. PICK e \in Stops : \A f \in Stops : e <= f
    <2>1. Len(str) \in Stops /\ Stops \subseteq Nat
      OBVIOUS
    <2>2. QED
      BY <2>1, LeastPosition
  <1>2. \A q \in p .. (e - 1) : str[q + 1] \in DOMAIN DigitValue
    <2> SUFFICES ASSUME NEW q \in p .. (e - 1), str[q + 1] \notin DOMAIN DigitValue PROVE FALSE
      OBVIOUS
    <2>1. q \in Stops /\ q < e
      OBVIOUS
    <2>2. QED
      BY <1>1, <2>1
  <1>3. e \in p .. Len(str) /\ (e = Len(str) \/ str[e + 1] \notin DOMAIN DigitValue)
    OBVIOUS
  <1>4. QED
    BY <1>2, <1>3 DEF DigitRunEnd

(* What emit puts into a lexeme are characters of the string. *)
LEMMA SliceIsString ==
  ASSUME str \in Seq(STRING), NEW from \in Nat, NEW to \in Nat
  PROVE  SliceString(from, to) \in Seq(STRING)
  <1> DEFINE kept == {p \in from .. (to - 1) : p < Len(str) /\ p \notin escapeCharPositions}
             At(i) == CHOOSE p \in kept : Cardinality({q \in kept : q < p}) = i - 1
  <1>1. kept \subseteq Nat /\ IsFiniteSet(kept)
    <2>1. IsFiniteSet(from .. (to - 1))
      BY FS_Interval
    <2>2. QED
      BY <2>1, FS_Subset
  <1>2. ASSUME NEW i \in 1 .. Cardinality(kept) PROVE At(i) \in kept
    <2>1. \E p \in kept : Cardinality({q \in kept : q < p}) = i - 1
      <3> HIDE DEF kept
      <3>1. QED
        BY <1>1, PositionOfRank
    <2>2. QED
      BY <2>1
  <1>3. ASSUME NEW i \in 1 .. Cardinality(kept) PROVE str[At(i) + 1] \in STRING
    <2>1. At(i) \in kept
      BY <1>2
    <2>2. \A p \in kept : p + 1 \in 1 .. Len(str)
      OBVIOUS
    <2>3. At(i) + 1 \in DOMAIN str
      <3> HIDE DEF At, kept
      <3>1. QED
        BY <2>1, <2>2
    <2>4. QED
      <3> HIDE DEF At
      <3>1. QED
        BY <2>3
  <1>4. Cardinality(kept) \in Nat
    BY <1>1, FS_CardinalityType
  <1>5. [i \in 1 .. Cardinality(kept) |-> str[At(i) + 1]] \in Seq(STRING)
    <2> HIDE DEF At, kept
    <2>1. QED
      BY <1>3, <1>4
  <1>6. QED
    BY <1>5 DEF SliceString

-----------------------------------------------------------------------------

LEMMA LexerInvInit == QueryInit => LexerInv
  <1> SUFFICES ASSUME QueryInit PROVE LexerInv
    OBVIOUS
  <1>1. str \in Seq(STRING)
    BY InputsAssumption DEF QueryInit, StartQuery
  <1>2. QED
    BY <1>1 DEF QueryInit, StartQuery, LexerInv, LexemesInOrder, StateFits

(* What LexemesInOrder says of one lexeme. *)
LEMMA LexemeBounds ==
  ASSUME LexerInv, NEW i \in 1 .. Len(lexemes)
  PROVE  /\ lexemes[i].start \in Nat /\ lexemes[i].end \in Nat
         /\ lexemes[i].start <= lexemes[i].end
         /\ lexemes[i].end <= IF i = Len(lexemes) THEN start ELSE lexemes[i + 1].start
  <1>1. lexemes \in Seq(Lexeme)
    BY DEF LexerInv, LexemesInOrder
  <1>2. lexemes[i] \in Lexeme
    BY <1>1
  <1>3. lexemes[i].start \in Nat /\ lexemes[i].end \in Nat
    BY <1>2 DEF Lexeme
  <1>4. i \in DOMAIN lexemes
    BY <1>1
  <1>5. QED
    BY <1>3, <1>4 DEF LexerInv, LexemesInOrder

(* A lexeme that begins where the last one may end, and ends before the    *)
(* next can begin, goes at the end of the others.                          *)
LEMMA AppendKeepsOrder ==
  ASSUME LexerInv,
         NEW type \in {"TERM", "FIELD", "EDIT_DISTANCE", "BOOST"}, NEW s \in Seq(STRING),
         NEW from \in Nat, NEW to \in Nat, NEW next \in Nat,
         start <= from, from <= to, to <= next,
         lexemes' = Append(lexemes, [type |-> type, str |-> s, start |-> from, end |-> to]),
         start' = next
  PROVE  Follow'
  <1> DEFINE new == [type |-> type, str |-> s, start |-> from, end |-> to]
             n == Len(lexemes)
  <1>1. new \in Lexeme /\ lexemes \in Seq(Lexeme)
    BY DEF Lexeme, LexerInv, LexemesInOrder
  <1>2. lexemes' \in Seq(Lexeme) /\ Len(lexemes') = n + 1 /\ n \in Nat
    BY <1>1
  <1>3. lexemes'[n + 1] = new
    BY <1>1
  <1>4. \A i \in 1 .. n : lexemes'[i] = lexemes[i]
    BY <1>1
  <1>5. ASSUME NEW i \in 1 .. n + 1
        PROVE  /\ lexemes'[i].start <= lexemes'[i].end
               /\ lexemes'[i].end <= IF i = n + 1 THEN start' ELSE lexemes'[i + 1].start
    <2>1. CASE i = n + 1
      BY <1>3, <2>1
    <2>2. CASE i = n /\ i \in 1 .. n
      <3>1. /\ lexemes[i].start <= lexemes[i].end
            /\ lexemes[i].end \in Nat /\ lexemes[i].end <= start /\ start \in Nat
        BY <2>2, LexemeBounds DEF LexerInv, LexemesInOrder
      <3>2. lexemes[i].end <= from
        <4> HIDE DEF n
        <4>1. QED
          BY <3>1
      <3>3. lexemes'[i + 1].start = from
        BY <1>3, <2>2
      <3>4. lexemes'[i] = lexemes[i] /\ i # n + 1
        BY <1>2, <1>4, <2>2
      <3>5. QED
        BY <3>1, <3>2, <3>3, <3>4
    <2>3. CASE i \in 1 .. n - 1
      <3>1. lexemes[i].start <= lexemes[i].end /\ lexemes[i].end <= lexemes[i + 1].start
        BY <1>2, <2>3, LexemeBounds
      <3>2. lexemes'[i] = lexemes[i] /\ lexemes'[i + 1] = lexemes[i + 1]
        BY <1>2, <1>4, <2>3
      <3>3. QED
        BY <3>1, <3>2, <1>2, <2>3
    <2>4. QED
      BY <2>1, <2>2, <2>3, <1>2
  <1>6. DOMAIN lexemes' = 1 .. n + 1
    BY <1>2
  <1>7. QED
    BY <1>2, <1>5, <1>6 DEF Follow

(* Where no lexeme is added the next one may still begin later. *)
LEMMA MovingOnKeepsOrder ==
  ASSUME LexerInv, lexemes' = lexemes, start' \in Nat, start <= start'
  PROVE  Follow'
  <1>1. lexemes \in Seq(Lexeme) /\ start \in Nat
    BY DEF LexerInv, LexemesInOrder
  <1>2. ASSUME NEW i \in 1 .. Len(lexemes)
        PROVE  /\ lexemes[i].start <= lexemes[i].end
               /\ lexemes[i].end <= IF i = Len(lexemes) THEN start' ELSE lexemes[i + 1].start
    <2>1. CASE i = Len(lexemes)
      <3>1. lexemes[i].end \in Nat /\ lexemes[i].end <= start
        BY <2>1, LexemeBounds
      <3>2. lexemes[i].end <= start'
        BY <1>1, <3>1
      <3>3. QED
        BY <3>2, <2>1, LexemeBounds
    <2>2. CASE i # Len(lexemes)
      BY <2>2, LexemeBounds
    <2>3. QED
      BY <2>1, <2>2
  <1>3. DOMAIN lexemes = 1 .. Len(lexemes)
    BY <1>1
  <1>4. QED
    BY <1>1, <1>2, <1>3 DEF Follow

LEMMA InOrderParts ==
  ASSUME LexerInv, str' = str, PositionsInOrder', Follow', StateFits'
  PROVE  LexerInv'
  BY DEF LexerInv, LexemesInOrder, PositionsInOrder, Follow

(* The same parts, of the state before. *)
LEMMA PartsOfOrder ==
  ASSUME LexerInv
  PROVE  str \in Seq(STRING) /\ Len(str) \in Nat /\ PositionsInOrder /\ Follow /\ StateFits
  <1>1. str \in Seq(STRING) /\ LexemesInOrder /\ StateFits
    BY DEF LexerInv
  <1>2. Len(str) \in Nat
    BY <1>1
  <1>3. PositionsInOrder
    BY <1>1, Zenon DEF LexemesInOrder, PositionsInOrder
  <1>4. Follow
    BY <1>1, Zenon DEF LexemesInOrder, Follow
  <1>5. QED
    BY <1>1, <1>2, <1>3, <1>4

(* The text ends. *)
LEMMA LexTextEndsKeepsOrder ==
  ASSUME LexerInv, LexTextEnds
  PROVE  LexerInv'
  <1>1. PositionsInOrder' /\ StateFits'
    BY PartsOfOrder DEF LexTextEnds, PositionsInOrder, StateFits, More, lexer, parser
  <1>2. Follow'
    BY MovingOnKeepsOrder, PartsOfOrder DEF LexTextEnds, PositionsInOrder, lexer, parser
  <1>3. QED
    BY <1>1, <1>2, InOrderParts DEF LexTextEnds

(* The escape character and the one after it are read. *)
LEMMA EscapeCharacterKeepsOrder ==
  ASSUME LexerInv, EscapeCharacter
  PROVE  LexerInv'
  <1>1. PositionsInOrder' /\ StateFits'
    BY PartsOfOrder DEF EscapeCharacter, PositionsInOrder, StateFits, More, lexer, parser
  <1>2. Follow'
    BY MovingOnKeepsOrder, PartsOfOrder DEF EscapeCharacter, PositionsInOrder, lexer, parser
  <1>3. QED
    BY <1>1, <1>2, InOrderParts DEF EscapeCharacter

(* A field name has been read. *)
LEMMA ReadFieldMarkKeepsOrder ==
  ASSUME LexerInv, ReadFieldMark
  PROVE  LexerInv'
  <1>1. PositionsInOrder' /\ StateFits'
    BY PartsOfOrder DEF ReadFieldMark, PositionsInOrder, StateFits, More, lexer, parser
  <1>2. Follow'
    BY MovingOnKeepsOrder, PartsOfOrder DEF ReadFieldMark, PositionsInOrder, lexer, parser
  <1>3. QED
    BY <1>1, <1>2, InOrderParts DEF ReadFieldMark

(* One more character of a term, or its separator. *)
LEMMA ReadCharacterKeepsOrder ==
  ASSUME LexerInv, ReadCharacter
  PROVE  LexerInv'
  <1>1. PositionsInOrder' /\ StateFits'
    BY PartsOfOrder DEF ReadCharacter, PositionsInOrder, StateFits, More, lexer, parser
  <1>2. Follow'
    BY MovingOnKeepsOrder, PartsOfOrder DEF ReadCharacter, PositionsInOrder, lexer, parser
  <1>3. QED
    BY <1>1, <1>2, InOrderParts DEF ReadCharacter

(* The term in front of an operator, if there is one, is complete. *)
LEMMA ReadOperatorKeepsOrder ==
  ASSUME LexerInv, ReadOperator
  PROVE  LexerInv'
  <1>1. PositionsInOrder' /\ StateFits'
    BY PartsOfOrder DEF ReadOperator, Emit, PositionsInOrder, StateFits, More, parser
  <1>2. CASE pos > start
    <2>1. SliceString(start, pos) \in Seq(STRING)
      BY PartsOfOrder, SliceIsString DEF PositionsInOrder
    <2>2. Follow'
      BY <1>2, <2>1, PartsOfOrder, AppendKeepsOrder DEF ReadOperator, Emit, PositionsInOrder
    <2>3. QED
      BY <1>1, <2>2, InOrderParts DEF ReadOperator
  <1>3. CASE ~ (pos > start)
    <2>1. Follow'
      BY <1>3, MovingOnKeepsOrder, PartsOfOrder DEF ReadOperator, PositionsInOrder
    <2>2. QED
      BY <1>1, <2>1, InOrderParts DEF ReadOperator
  <1>4. QED
    BY <1>2, <1>3

(* The last term is complete. *)
LEMMA LexEOSKeepsOrder ==
  ASSUME LexerInv, LexEOS
  PROVE  LexerInv'
  <1>1. PositionsInOrder' /\ StateFits'
    BY PartsOfOrder DEF LexEOS, Emit, PositionsInOrder, StateFits, parser
  <1>2. CASE pos > start
    <2>1. SliceString(start, pos) \in Seq(STRING)
      BY PartsOfOrder, SliceIsString DEF PositionsInOrder
    <2>2. Follow'
      BY <1>2, <2>1, PartsOfOrder, AppendKeepsOrder DEF LexEOS, Emit, PositionsInOrder
    <2>3. QED
      BY <1>1, <2>2, InOrderParts DEF LexEOS
  <1>3. CASE ~ (pos > start)
    <2>1. Follow'
      BY <1>3, MovingOnKeepsOrder, PartsOfOrder DEF LexEOS, PositionsInOrder
    <2>2. QED
      BY <1>1, <2>1, InOrderParts DEF LexEOS
  <1>4. QED
    BY <1>2, <1>3

(* The field's mark is not part of its name. *)
LEMMA LexFieldKeepsOrder ==
  ASSUME LexerInv, LexField
  PROVE  LexerInv'
  <1>1. pos \in Nat /\ start \in Nat /\ start < pos /\ pos <= Len(str) /\ Len(str) \in Nat
    BY PartsOfOrder DEF LexField, PositionsInOrder, StateFits
  <1>2. pos' = pos /\ start' = pos /\ escapeCharPositions' = {} /\ pos - 1 \in Nat
    BY <1>1 DEF LexField, Emit, Ignore
  <1>3. PositionsInOrder' /\ StateFits'
    BY <1>1, <1>2 DEF LexField, PositionsInOrder, StateFits
  <1>4. SliceString(start, pos - 1) \in Seq(STRING)
    BY <1>1, <1>2, PartsOfOrder, SliceIsString
  <1>5. start <= pos - 1 /\ pos - 1 <= pos
    BY <1>1
  <1>6. Follow'
    BY <1>1, <1>2, <1>4, <1>5, AppendKeepsOrder DEF LexField, Emit
  <1>7. QED
    BY <1>3, <1>6, InOrderParts DEF LexField

(* A separator ends a term, or stands alone and is skipped. *)
LEMMA LexTermKeepsOrder ==
  ASSUME LexerInv, LexTerm
  PROVE  LexerInv'
  <1>1. pos \in Nat /\ start \in Nat /\ start < pos /\ pos <= Len(str) /\ Len(str) \in Nat
    BY PartsOfOrder DEF LexTerm, PositionsInOrder, StateFits
  <1>2. pos' = pos /\ start' = pos /\ pos - 1 \in Nat
    BY <1>1 DEF LexTerm, Ignore
  <1>3. StateFits'
    BY DEF LexTerm, StateFits
  <1>4. CASE pos - start > 1
    <2>1. PositionsInOrder'
      BY <1>1, <1>2, <1>4 DEF LexTerm, Emit, PositionsInOrder
    <2>2. SliceString(start, pos - 1) \in Seq(STRING)
      BY <1>1, <1>2, PartsOfOrder, SliceIsString
    <2>3. start <= pos - 1 /\ pos - 1 <= pos
      BY <1>1
    <2>4. Follow'
      BY <1>1, <1>2, <1>4, <2>2, <2>3, AppendKeepsOrder DEF LexTerm, Emit
    <2>5. QED
      BY <1>3, <2>1, <2>4, InOrderParts DEF LexTerm
  <1>5. CASE ~ (pos - start > 1)
    <2>1. escapeCharPositions' = escapeCharPositions
      BY <1>5 DEF LexTerm
    <2>2. escapeCharPositions = {}
      <3>1. \A p \in escapeCharPositions : p \in Nat /\ start <= p /\ p + 2 <= pos
        BY PartsOfOrder DEF PositionsInOrder
      <3>2. \A p \in escapeCharPositions : FALSE
        BY <1>1, <1>5, <3>1
      <3>3. QED
        BY <3>2
    <2>3. PositionsInOrder'
      BY <1>1, <1>2, <2>1, <2>2 DEF LexTerm, PositionsInOrder
    <2>4. Follow'
      BY <1>1, <1>2, <1>5, MovingOnKeepsOrder DEF LexTerm
    <2>5. QED
      BY <1>3, <2>3, <2>4, InOrderParts DEF LexTerm
  <1>6. QED
    BY <1>4, <1>5

(* The operator is skipped and the digits after it, if any, are read. *)
LEMMA LexNumberKeepsOrder ==
  ASSUME LexerInv, state \in {"lexEditDistance", "lexBoost"},
         NEW type \in {"EDIT_DISTANCE", "BOOST"}, LexNumber(type)
  PROVE  LexerInv'
  <1>1. pos \in Nat /\ start = pos /\ pos < Len(str) /\ Len(str) \in Nat
    BY PartsOfOrder DEF PositionsInOrder, StateFits
  <1>2. Ignore(start, pos) = pos + 1
    BY <1>1 DEF Ignore
  <1>3. pos' = DigitRunEnd(pos + 1) /\ start' = pos' /\ escapeCharPositions' = {}
    BY <1>2 DEF LexNumber
  <1>4. pos' \in (pos + 1) .. Len(str)
    BY <1>1, <1>3, DigitRunEnds, PartsOfOrder
  <1>5. PositionsInOrder' /\ StateFits'
    BY <1>1, <1>3, <1>4 DEF LexNumber, PositionsInOrder, StateFits
  <1>6. SubSeq(str, pos + 2, pos') \in Seq(STRING)
    <2>1. str \in Seq(STRING) /\ pos + 2 \in Nat /\ pos' \in Nat
      BY <1>1, <1>4, PartsOfOrder
    <2>2. \A i \in (pos + 2) .. pos' : str[i] \in STRING
      BY <1>1, <1>4, <2>1
    <2>3. QED
      BY <2>1, <2>2, <1>1, <1>4
  <1>7. lexemes' = Append(lexemes, [type |-> type, str |-> SubSeq(str, pos + 2, pos'),
                                    start |-> pos + 1, end |-> pos'])
    <2>1. (pos + 1) + 1 = pos + 2
      BY <1>1
    <2>2. QED
      BY <1>2, <2>1 DEF LexNumber
  <1>8. start <= pos + 1 /\ pos + 1 <= pos' /\ pos' <= start' /\ pos + 1 \in Nat /\ pos' \in Nat
    BY <1>1, <1>3, <1>4
  <1>9. Follow'
    BY <1>3, <1>6, <1>7, <1>8, AppendKeepsOrder
  <1>10. QED
    BY <1>5, <1>9, InOrderParts DEF LexNumber

(* The parser reads the lexemes and changes none. *)
LEMMA ParserKeepsOrder ==
  ASSUME LexerInv, UNCHANGED <<str, lexer>>,
         state' \in ParseStates \union Ended
  PROVE  LexerInv'
  <1>1. PositionsInOrder'
    BY PartsOfOrder DEF PositionsInOrder, lexer
  <1>2. StateFits'
    BY DEF StateFits, ParseStates, Ended
  <1>3. Follow'
    BY PartsOfOrder DEF Follow, lexer
  <1>4. QED
    BY <1>1, <1>2, <1>3, InOrderParts

(* What the parser's state functions share. *)
ParserReads == ParseFieldOrTerm \/ ParseField \/ ParseTerm \/ ParseEditDistance \/ ParseBoost

LEMMA ParserReadsOnly ==
  ASSUME ParserReads
  PROVE  UNCHANGED <<str, lexer>> /\ state \in ParseStates /\ state' \in ParseStates \union Ended
  <1>1. state \in ParseStates
    BY DEF ParserReads, ParseFieldOrTerm, ParseField, ParseTerm, ParseEditDistance, ParseBoost,
           ParseStates
  <1>2. CASE ParseFieldOrTerm
    BY <1>1, <1>2 DEF ParseFieldOrTerm, Throw, ParseStates, Ended
  <1>3. CASE ParseField
    BY <1>1, <1>3 DEF ParseField, Throw, ParseStates, Ended
  <1>4. ASSUME NEW clause, NEW i, Continue(clause, i)
        PROVE  UNCHANGED <<str, lexer>> /\ state' \in ParseStates \union Ended
    BY <1>4 DEF Continue, ParseStates, Ended
  <1>5. CASE ParseTerm
    BY <1>1, <1>4, <1>5 DEF ParseTerm
  <1>6. ASSUME NEW property, ParseNumber(property)
        PROVE  UNCHANGED <<str, lexer>> /\ state' \in ParseStates \union Ended
    <2>1. CASE Throw
      BY <2>1 DEF Throw, ParseStates, Ended
    <2>2. QED
      BY <1>4, <1>6, <2>1 DEF ParseNumber
  <1>7. CASE ParseEditDistance \/ ParseBoost
    BY <1>1, <1>6, <1>7 DEF ParseEditDistance, ParseBoost
  <1>8. QED
    BY <1>2, <1>3, <1>5, <1>7 DEF ParserReads

LEMMA LexerInvStep == LexerInv /\ [QueryNext]_queryVars => LexerInv'
  <1> SUFFICES ASSUME LexerInv, [QueryNext]_queryVars PROVE LexerInv'
    OBVIOUS
  <1>1. CASE LexTextEnds
    BY <1>1, LexTextEndsKeepsOrder
  <1>2. CASE EscapeCharacter
    BY <1>2, EscapeCharacterKeepsOrder
  <1>3. CASE ReadFieldMark
    BY <1>3, ReadFieldMarkKeepsOrder
  <1>4. CASE ReadOperator
    BY <1>4, ReadOperatorKeepsOrder
  <1>5. CASE ReadCharacter
    BY <1>5, ReadCharacterKeepsOrder
  <1>6. CASE LexField
    BY <1>6, LexFieldKeepsOrder
  <1>7. CASE LexTerm
    BY <1>7, LexTermKeepsOrder
  <1>8. CASE LexEditDistance
    BY <1>8, LexNumberKeepsOrder DEF LexEditDistance
  <1>9. CASE LexBoost
    BY <1>9, LexNumberKeepsOrder DEF LexBoost
  <1>10. CASE LexEOS
    BY <1>10, LexEOSKeepsOrder
  <1>11. CASE ParserReads
    BY <1>11, ParserReadsOnly, ParserKeepsOrder
  <1>12. CASE UNCHANGED queryVars
    <2>1. str' = str /\ PositionsInOrder' /\ Follow' /\ StateFits'
      BY <1>12, PartsOfOrder DEF queryVars, lexer, PositionsInOrder, Follow, StateFits
    <2>2. QED
      BY <2>1, InOrderParts
  <1>13. QED
    BY <1>1, <1>2, <1>3, <1>4, <1>5, <1>6, <1>7, <1>8, <1>9, <1>10, <1>11, <1>12
       DEF QueryNext, ParserReads

(* The lexemes of every string follow one another, each before the place   *)
(* where the lexer reads on, and no escape character outlives its lexeme.  *)
THEOREM LexemesFollow == QuerySpec => []LexemesInOrder
  <1>1. LexerInv => LexemesInOrder
    BY DEF LexerInv
  <1>2. QED
    BY <1>1, LexerInvInit, LexerInvStep, PTL DEF QuerySpec

-----------------------------------------------------------------------------
(* The parser's clauses. *)

Operators == {"EDIT_DISTANCE", "BOOST"}

(* What WellFormed says of one lexeme. *)
WellFormedAt(i) ==
    /\ lexemes[i].type = "FIELD" => lexemes[i].str \in Fields /\ i + 1 \in Terms
    /\ lexemes[i].type \in Operators =>
           lexemes[i].str # <<>> /\ i > 1 /\ lexemes[i - 1].type # "FIELD"

Rank(i) == Cardinality({j \in Terms : j <= i})

IsSequence(s) == s \in Seq({s[n] : n \in DOMAIN s})

(* The terms before m have their clauses, and no others have. *)
ClausesUpTo(m) ==
    /\ IsSequence(clauses)
    /\ Len(clauses) = Cardinality({j \in Terms : j < m})
    /\ \A i \in Terms : i < m => MeansTerm(clauses[Rank(i)], i)

OperatorsBefore(t, type, k) == {j \in OperatorsOf(t, type) : j < k}

(* Property p of a clause is given just if there is such an operator, and  *)
(* is the number of the last one.                                          *)
Gives(c, p, ops) ==
    IF ops = {} THEN p \notin DOMAIN c
    ELSE p \in DOMAIN c /\ c[p] = ParseInt(lexemes[Latest(ops)].str)

(* What the parser has gathered of the term at t before it reads lexeme k. *)
ClauseSoFar(c, t, k) ==
    /\ "term" \in DOMAIN c
    /\ c["term"] = [n \in DOMAIN lexemes[t].str |-> LowerCase(lexemes[t].str[n])]
    /\ IF t > 1 /\ lexemes[t - 1].type = "FIELD"
       THEN "fields" \in DOMAIN c /\ c["fields"] = {lexemes[t - 1].str}
       ELSE "fields" \notin DOMAIN c
    /\ Gives(c, "boost", OperatorsBefore(t, "BOOST", k))
    /\ Gives(c, "editDistance", OperatorsBefore(t, "EDIT_DISTANCE", k))

(* The lexemes from t to k belong to the term at t. *)
InClause(t, k) ==
    /\ t \in Terms /\ t < k
    /\ \A j \in (t + 1) .. (k - 1) : lexemes[j].type \in Operators
    /\ ClausesUpTo(t)

Reads(k, type) ==
    /\ k \in DOMAIN lexemes /\ lexemes[k].type = type
    /\ \A i \in DOMAIN lexemes : i < k => WellFormedAt(i)

ParserInv ==
    /\ state \in LexStates \union ParseStates \union Ended
    /\ state \in LexStates \union {"parseFieldOrTerm"} =>
           lexemeIdx = 1 /\ currentClause = NoClause /\ clauses = <<>>
    /\ state = "parseField" =>
           /\ Reads(lexemeIdx, "FIELD") /\ ClausesUpTo(lexemeIdx)
           /\ currentClause = NoClause
    /\ state = "parseTerm" =>
           /\ Reads(lexemeIdx, "TERM") /\ ClausesUpTo(lexemeIdx)
           /\ currentClause = IF lexemeIdx > 1 /\ lexemes[lexemeIdx - 1].type = "FIELD"
                              THEN With(NoClause, "fields", {lexemes[lexemeIdx - 1].str})
                              ELSE NoClause
    /\ state = "parseEditDistance" =>
           /\ Reads(lexemeIdx, "EDIT_DISTANCE")
           /\ \E t \in Terms : InClause(t, lexemeIdx) /\ ClauseSoFar(currentClause, t, lexemeIdx)
    /\ state = "parseBoost" =>
           /\ Reads(lexemeIdx, "BOOST")
           /\ \E t \in Terms : InClause(t, lexemeIdx) /\ ClauseSoFar(currentClause, t, lexemeIdx)
    /\ ClausesMeanTerms
LEMMA AppendIsSequence ==
  ASSUME NEW s, IsSequence(s), NEW e
  PROVE  /\ IsSequence(Append(s, e)) /\ Len(s) \in Nat
         /\ Len(Append(s, e)) = Len(s) + 1
         /\ \A n \in 1 .. Len(s) : Append(s, e)[n] = s[n]
         /\ Append(s, e)[Len(s) + 1] = e
  <1> DEFINE S == {s[n] : n \in DOMAIN s} \union {e}
             r == Append(s, e)
  <1>1. s \in Seq(S)
    BY DEF IsSequence
  <1> HIDE DEF S
  <1>2. e \in S
    BY DEF S
  <1>3. /\ r \in Seq(S) /\ Len(s) \in Nat /\ Len(r) = Len(s) + 1 /\ r[Len(s) + 1] = e
        /\ \A n \in 1 .. Len(s) : r[n] = s[n]
    BY <1>1, <1>2
  <1> HIDE DEF r
  <1>4. r = [n \in 1 .. Len(r) |-> r[n]] /\ DOMAIN r = 1 .. Len(r) /\ Len(r) \in Nat
    BY <1>3
  <1>5. r \in Seq({r[n] : n \in DOMAIN r})
    <2>1. r \in [1 .. Len(r) -> {r[n] : n \in DOMAIN r}]
      BY <1>4
    <2>2. QED
      BY <1>4, <2>1
  <1>6. QED
    BY <1>3, <1>5 DEF IsSequence, r

(* The parser leaves the lexemes as they are, and with them what they mean. *)
LEMMA SameMeaning ==
  ASSUME lexemes' = lexemes
  PROVE  /\ Terms' = Terms
         /\ \A i : Rank(i)' = Rank(i)
         /\ \A c, i : MeansTerm(c, i)' <=> MeansTerm(c, i)
         /\ \A i : WellFormedAt(i)' <=> WellFormedAt(i)
         /\ WellFormed' <=> WellFormed
         /\ \A t, type, k : OperatorsBefore(t, type, k)' = OperatorsBefore(t, type, k)
         /\ \A c, p, ops : Gives(c, p, ops)' <=> Gives(c, p, ops)
         /\ \A c, t, k : ClauseSoFar(c, t, k)' <=> ClauseSoFar(c, t, k)
         /\ \A k, type : Reads(k, type)' <=> Reads(k, type)
  <1>1. Terms' = Terms
    BY DEF Terms
  <1>2. \A i : Rank(i)' = Rank(i)
    BY <1>1 DEF Rank
  <1>3. \A t, type : OperatorsOf(t, type)' = OperatorsOf(t, type)
    BY DEF OperatorsOf
  <1>4. \A c, i : MeansTerm(c, i)' <=> MeansTerm(c, i)
    BY <1>3 DEF MeansTerm
  <1>5. \A i : WellFormedAt(i)' <=> WellFormedAt(i)
    BY <1>1 DEF WellFormedAt
  <1>6. WellFormed' <=> WellFormed
    BY <1>1 DEF WellFormed
  <1>7. \A t, type, k : OperatorsBefore(t, type, k)' = OperatorsBefore(t, type, k)
    BY <1>3 DEF OperatorsBefore
  <1>8. \A c, p, ops : Gives(c, p, ops)' <=> Gives(c, p, ops)
    BY DEF Gives
  <1>9. \A c, t, k : ClauseSoFar(c, t, k)' <=> ClauseSoFar(c, t, k)
    BY <1>7, <1>8 DEF ClauseSoFar
  <1>10. \A k, type : Reads(k, type)' <=> Reads(k, type)
    BY <1>5 DEF Reads
  <1>11. QED
    BY <1>1, <1>2, <1>4, <1>5, <1>6, <1>7, <1>8, <1>9, <1>10

LEMMA LexemesTyped ==
  ASSUME LexerInv
  PROVE  /\ Len(lexemes) \in Nat /\ DOMAIN lexemes = 1 .. Len(lexemes)
         /\ \A i \in DOMAIN lexemes : /\ lexemes[i].type \in {"TERM", "FIELD"} \union Operators
                                     /\ lexemes[i].str \in Seq(STRING)
         /\ Terms \subseteq DOMAIN lexemes /\ IsFiniteSet(Terms)
  <1>1. lexemes \in Seq(Lexeme)
    BY DEF LexerInv, LexemesInOrder
  <1>2. Len(lexemes) \in Nat /\ DOMAIN lexemes = 1 .. Len(lexemes)
    BY <1>1
  <1>3. \A i \in DOMAIN lexemes : lexemes[i] \in Lexeme
    BY <1>1, <1>2
  <1>4. IsFiniteSet(Terms)
    <2>1. IsFiniteSet(1 .. Len(lexemes))
      BY <1>2, FS_Interval
    <2>2. QED
      BY <1>2, <2>1, FS_Subset DEF Terms
  <1>5. QED
    BY <1>2, <1>3, <1>4 DEF Lexeme, Terms, Operators

(* The clause of a term is complete when the next lexeme is no operator.   *)
LEMMA ClauseMeans ==
  ASSUME LexerInv, NEW t \in Terms, NEW m \in Nat, t < m, NEW c, ClauseSoFar(c, t, m),
         m \in DOMAIN lexemes => lexemes[m].type \notin Operators,
         m <= Len(lexemes) + 1
  PROVE  MeansTerm(Clause(c), t)
  <1>1. ASSUME NEW type PROVE OperatorsBefore(t, type, m) = OperatorsOf(t, type)
    <2>1. SUFFICES ASSUME NEW j \in OperatorsOf(t, type) PROVE j < m
      BY DEF OperatorsBefore
    <2>2. j \in DOMAIN lexemes /\ j > t /\ \A k \in (t + 1) .. j : lexemes[k].type \in Operators
      BY DEF OperatorsOf, Operators
    <2>3. t \in Nat /\ j \in Nat /\ j <= Len(lexemes) /\ Len(lexemes) \in Nat
      BY <2>2, LexemesTyped
    <2>4. CASE m \in DOMAIN lexemes
      <3>1. m \notin (t + 1) .. j
        BY <2>2, <2>4
      <3>2. QED
        BY <2>3, <3>1
    <2>5. CASE m \notin DOMAIN lexemes
      <3>1. m = Len(lexemes) + 1
        BY <2>3, <2>5, LexemesTyped
      <3>2. QED
        BY <2>3, <3>1
    <2>6. QED
      BY <2>4, <2>5
  <1> DEFINE full == Clause(c)
  <1>2. /\ DOMAIN full = DOMAIN c \union {"fields", "boost", "usePipeline"}
        /\ \A p \in DOMAIN c : full[p] = c[p]
        /\ "fields" \notin DOMAIN c => full["fields"] = Fields
        /\ "boost" \notin DOMAIN c => full["boost"] = 1
    BY DEF Clause
  <1> HIDE DEF full
  <1>3. full["term"] = [n \in DOMAIN lexemes[t].str |-> LowerCase(lexemes[t].str[n])]
    BY <1>2 DEF ClauseSoFar
  <1>4. full["fields"] = IF t > 1 /\ lexemes[t - 1].type = "FIELD" THEN {lexemes[t - 1].str}
                         ELSE Fields
    BY <1>2 DEF ClauseSoFar
  <1>5. full["boost"] = IF OperatorsOf(t, "BOOST") = {} THEN 1
                        ELSE ParseInt(lexemes[Latest(OperatorsOf(t, "BOOST"))].str)
    BY <1>1, <1>2 DEF ClauseSoFar, Gives
  <1>6. IF OperatorsOf(t, "EDIT_DISTANCE") = {} THEN "editDistance" \notin DOMAIN full
        ELSE full["editDistance"] = ParseInt(lexemes[Latest(OperatorsOf(t, "EDIT_DISTANCE"))].str)
    BY <1>1, <1>2 DEF ClauseSoFar, Gives
  <1>7. MeansTerm(full, t)
    BY <1>3, <1>4, <1>5, <1>6 DEF MeansTerm
  <1>8. QED
    BY <1>7 DEF full

(* The clause added is in the place of its term. *)
LEMMA ClausesGrow ==
  ASSUME LexerInv, lexemes' = lexemes, NEW t \in Terms, ClausesUpTo(t), NEW c, MeansTerm(c, t),
         clauses' = Append(clauses, c),
         NEW m \in Nat, t < m, \A j \in (t + 1) .. (m - 1) : lexemes[j].type \in Operators
  PROVE  ClausesUpTo(m)'
  <1> DEFINE Below(k) == {j \in Terms : j < k}
  <1>1. t \in Nat /\ (\A j \in Terms : j \in Nat) /\ IsFiniteSet(Terms)
    BY LexemesTyped
  <1>2. Below(m) = Below(t) \union {t} /\ t \notin Below(t)
    <2>1. ASSUME NEW j \in Terms, j < m, ~ (j < t) PROVE j = t
      <3>1. j \notin (t + 1) .. (m - 1)
        BY DEF Terms, Operators
      <3>2. QED
        BY <1>1, <2>1, <3>1
    <2>2. \A j \in Terms : j < m <=> j < t \/ j = t
      BY <1>1, <2>1
    <2>3. ~ (t < t)
      BY <1>1
    <2>4. QED
      BY <2>2, <2>3
  <1>3. {j \in Terms : j <= t} = Below(m)
    <2>1. \A j \in Terms : j <= t <=> j < t \/ j = t
      BY <1>1
    <2>2. QED
      BY <1>2, <2>1
  <1>4. IsFiniteSet(Below(t)) /\ Cardinality(Below(t)) \in Nat
    BY <1>1, FS_Subset, FS_CardinalityType
  <1>5. Cardinality(Below(m)) = Cardinality(Below(t)) + 1
    BY <1>2, <1>4, FS_AddElement
  <1>6. Rank(t) = Cardinality(Below(t)) + 1
    BY <1>3, <1>5 DEF Rank
  <1>7. /\ IsSequence(clauses') /\ Len(clauses) = Cardinality(Below(t))
        /\ Len(clauses') = Len(clauses) + 1
        /\ \A n \in 1 .. Len(clauses) : clauses'[n] = clauses[n]
        /\ clauses'[Len(clauses) + 1] = c
    BY AppendIsSequence DEF ClausesUpTo
  <1>8. ASSUME NEW i \in Terms, i < m PROVE MeansTerm(clauses'[Rank(i)], i)
    <2>1. CASE i = t
      BY <1>6, <1>7, <2>1
    <2>2. CASE i < t
      <3> DEFINE K == {j \in Terms : j <= i}
      <3>1. K \subseteq Below(t) /\ i \in K
        <4>1. \A j \in Terms : j <= i => j < t
          BY <1>1, <2>2
        <4>2. i <= i
          BY <1>1
        <4>3. QED
          BY <4>1, <4>2
      <3>2. IsFiniteSet(K) /\ Cardinality(K) <= Cardinality(Below(t)) /\ Cardinality(K) \in Nat
        BY <1>4, <3>1, FS_Subset, FS_CardinalityType
      <3>3. Cardinality(K) # 0
        BY <3>1, <3>2, FS_EmptySet
      <3>4. Rank(i) \in 1 .. Len(clauses)
        BY <1>4, <1>7, <3>2, <3>3 DEF Rank
      <3>5. QED
        BY <1>7, <2>2, <3>4 DEF ClausesUpTo
    <2>3. QED
      BY <1>1, <1>2, <1>8, <2>1, <2>2
  <1>9. QED
    BY <1>2, <1>5, <1>7, <1>8, SameMeaning DEF ClausesUpTo

(* WellFormed says it of every lexeme. *)
LEMMA WellFormedEverywhere ==
  ASSUME LexerInv
  PROVE  WellFormed <=> \A i \in DOMAIN lexemes : WellFormedAt(i)
  <1>1. ASSUME NEW i \in DOMAIN lexemes
        PROVE  WellFormedAt(i) <=>
                   CASE lexemes[i].type = "FIELD" -> lexemes[i].str \in Fields /\ i + 1 \in Terms
                     [] lexemes[i].type = "TERM" -> TRUE
                     [] OTHER -> lexemes[i].str # <<>> /\ i > 1 /\ lexemes[i - 1].type # "FIELD"
    BY LexemesTyped DEF WellFormedAt, Operators
  <1>2. QED
    BY <1>1 DEF WellFormed

(* The next lexeme adds to the clause of the term at t or completes it. *)
LEMMA ContinueKeepsMeaning ==
  ASSUME LexerInv, NEW t \in Terms, NEW k \in DOMAIN lexemes, NEW c,
         InClause(t, k + 1), ClauseSoFar(c, t, k + 1),
         \A i \in DOMAIN lexemes : i <= k => WellFormedAt(i),
         Continue(c, k + 1)
  PROVE  ParserInv'
  <1> DEFINE m == k + 1
             next == IF HasLexeme(m) THEN lexemes[m].type ELSE "EOS"
  <1>1. /\ Len(lexemes) \in Nat /\ DOMAIN lexemes = 1 .. Len(lexemes)
        /\ k \in Nat \ {0} /\ m \in Nat \ {0} /\ m <= Len(lexemes) + 1
        /\ HasLexeme(m) <=> m \in DOMAIN lexemes
    BY LexemesTyped DEF HasLexeme
  <1>2. lexemes' = lexemes /\ lexemeIdx' = m
    BY DEF Continue, lexer
  <1>3. \A i \in DOMAIN lexemes : i < m => WellFormedAt(i)
    BY <1>1
  <1>4. lexemes[k].type # "FIELD"
    <2>1. t < m /\ \A j \in (t + 1) .. (m - 1) : lexemes[j].type \in Operators
      BY DEF InClause
    <2>2. t \in Nat /\ m - 1 = k
      BY <1>1, LexemesTyped
    <2>3. k = t \/ k \in (t + 1) .. k
      BY <1>1, <2>1, <2>2
    <2>4. QED
      BY <2>1, <2>2, <2>3 DEF Terms, Operators
  <1>5. m \in DOMAIN lexemes => lexemes[m].type \in {"TERM", "FIELD", "EDIT_DISTANCE", "BOOST"}
    BY LexemesTyped DEF Operators
  <1>6. next \in {"TERM", "FIELD", "EDIT_DISTANCE", "BOOST", "EOS"}
        /\ (next # "EOS" => m \in DOMAIN lexemes /\ lexemes[m].type = next)
        /\ (next = "EOS" => m = Len(lexemes) + 1)
    BY <1>1, <1>5
  <1>7. CASE next \in Operators
    <2>1. /\ currentClause' = c /\ clauses' = clauses
          /\ state' = IF next = "BOOST" THEN "parseBoost" ELSE "parseEditDistance"
      BY <1>7 DEF Continue, Operators
    <2>2. InClause(t, m)'
      <3>1. ClausesUpTo(t)'
        BY <1>2, <2>1, SameMeaning DEF ClausesUpTo, InClause
      <3>2. QED
        BY <1>2, <3>1, SameMeaning DEF InClause
    <2>3. ClauseSoFar(c, t, m)' /\ t \in Terms'
      BY <1>2, SameMeaning
    <2>4. (\E u \in Terms : InClause(u, lexemeIdx) /\ ClauseSoFar(currentClause, u, lexemeIdx))'
      <3> HIDE DEF next, m
      <3>1. QED
        BY <1>2, <2>1, <2>2, <2>3
    <2>5. CASE next = "BOOST"
      <3>1. Reads(m, "BOOST")'
        <4>1. Reads(m, "BOOST")
          BY <1>3, <1>6, <2>5 DEF Reads
        <4>2. QED
          BY <1>2, <4>1, SameMeaning
      <3> HIDE DEF m
      <3>2. QED
        BY <1>2, <2>1, <2>4, <2>5, <3>1
           DEF ParserInv, ParseStates, LexStates, Ended, ClausesMeanTerms
    <2>6. CASE next = "EDIT_DISTANCE"
      <3>1. Reads(m, "EDIT_DISTANCE")'
        <4>1. Reads(m, "EDIT_DISTANCE")
          BY <1>3, <1>6, <2>6 DEF Reads
        <4>2. QED
          BY <1>2, <4>1, SameMeaning
      <3> HIDE DEF m
      <3>2. QED
        BY <1>2, <2>1, <2>4, <2>6, <3>1
           DEF ParserInv, ParseStates, LexStates, Ended, ClausesMeanTerms
    <2>7. QED
      BY <1>7, <2>5, <2>6 DEF Operators
  <1>8. CASE next \notin Operators
    <2>1. /\ clauses' = Append(clauses, Clause(c)) /\ currentClause' = NoClause
          /\ state' = CASE next = "TERM" -> "parseTerm"
                        [] next = "FIELD" -> "parseField"
                        [] OTHER -> "done"
      BY <1>8 DEF Continue, Operators
    <2>2. MeansTerm(Clause(c), t)
      BY <1>1, <1>6, <1>8, ClauseMeans DEF InClause
    <2>3. ClausesUpTo(m)'
      BY <1>1, <1>2, <2>1, <2>2, ClausesGrow DEF InClause
    <2>4. lexemes'[m - 1].type # "FIELD"
      BY <1>1, <1>2, <1>4
    <2>5. CASE next = "TERM"
      <3>1. Reads(m, "TERM")'
        <4>1. Reads(m, "TERM")
          BY <1>3, <1>6, <2>5 DEF Reads
        <4>2. QED
          BY <1>2, <4>1, SameMeaning
      <3> HIDE DEF m
      <3>2. QED
        BY <1>2, <2>1, <2>3, <2>4, <2>5, <3>1
           DEF ParserInv, ParseStates, LexStates, Ended, ClausesMeanTerms
    <2>6. CASE next = "FIELD"
      <3>1. Reads(m, "FIELD")'
        <4>1. Reads(m, "FIELD")
          BY <1>3, <1>6, <2>6 DEF Reads
        <4>2. QED
          BY <1>2, <4>1, SameMeaning
      <3> HIDE DEF m
      <3>2. QED
        BY <1>2, <2>1, <2>3, <2>6, <3>1
           DEF ParserInv, ParseStates, LexStates, Ended, ClausesMeanTerms
    <2>7. CASE next = "EOS"
      <3>1. state' = "done"
        BY <2>1, <2>7
      <3>2. WellFormed'
        <4>1. \A i \in DOMAIN lexemes : WellFormedAt(i)
          BY <1>1, <1>3, <1>6, <2>7
        <4>2. QED
          BY <1>2, <4>1, WellFormedEverywhere, SameMeaning
      <3>3. \A i \in Terms : i < m
        <4>1. \A i \in Terms : i \in 1 .. Len(lexemes)
          BY LexemesTyped
        <4>2. QED
          BY <1>1, <1>6, <2>7, <4>1
      <3>4. {j \in Terms : j < m} = Terms
        BY <3>3
      <3> HIDE DEF m
      <3>5. Len(clauses') = Cardinality(Terms')
        BY <1>2, <2>3, <3>4, SameMeaning DEF ClausesUpTo
      <3>6. \A i \in Terms' : MeansTerm(clauses[Rank(i)], i)'
        BY <1>2, <2>3, <3>3, SameMeaning DEF ClausesUpTo
      <3>7. ClausesMeanTerms'
        BY <3>1, <3>2, <3>5, <3>6 DEF ClausesMeanTerms, Rank
      <3>8. QED
        BY <3>1, <3>7 DEF ParserInv, ParseStates, LexStates, Ended
    <2>8. QED
      BY <1>6, <1>8, <2>5, <2>6, <2>7 DEF Operators
  <1>9. QED
    BY <1>7, <1>8

(* A refused query is not well formed. *)
LEMMA ThrowMeans ==
  ASSUME LexerInv, Throw, NEW i \in DOMAIN lexemes, ~ WellFormedAt(i)
  PROVE  ParserInv'
  <1>1. lexemes' = lexemes /\ state' = "error"
    BY DEF Throw, lexer
  <1>2. ~ WellFormed'
    BY <1>1, WellFormedEverywhere, SameMeaning
  <1>3. QED
    BY <1>1, <1>2 DEF ParserInv, ParseStates, LexStates, Ended, ClausesMeanTerms

LEMMA ParserInvInit == QueryInit => ParserInv
  BY DEF QueryInit, StartQuery, ParserInv, LexStates, ClausesMeanTerms

(* The lexer goes round without the parser. *)
LEMMA LexerKeepsMeaning ==
  ASSUME ParserInv, state \in LexStates, UNCHANGED parser,
         state' \in LexStates \union {"parseFieldOrTerm"}
  PROVE  ParserInv'
  BY DEF ParserInv, LexStates, ParseStates, Ended, parser, ClausesMeanTerms

LEMMA ParseFieldOrTermKeepsMeaning ==
  ASSUME LexerInv, ParserInv, ParseFieldOrTerm
  PROVE  ParserInv'
  <1>1. /\ lexemeIdx = 1 /\ currentClause = NoClause /\ clauses = <<>>
        /\ lexemes' = lexemes /\ UNCHANGED parser
    BY DEF ParseFieldOrTerm, ParserInv, Throw, lexer
  <1>2. /\ Len(lexemes) \in Nat /\ DOMAIN lexemes = 1 .. Len(lexemes)
        /\ HasLexeme(1) <=> 1 \in DOMAIN lexemes
    BY LexemesTyped DEF HasLexeme
  <1>3. \A i \in DOMAIN lexemes : ~ (i < 1)
    BY <1>2
  <1>4. ClausesUpTo(1)
    <2>1. {j \in Terms : j < 1} = {}
      BY <1>3 DEF Terms
    <2>2. Cardinality({j \in Terms : j < 1}) = 0 /\ \A i \in Terms : ~ (i < 1)
      BY <2>1, FS_EmptySet
    <2>3. IsSequence(<<>>) /\ Len(<<>>) = 0
      BY DEF IsSequence
    <2>4. QED
      BY <1>1, <2>2, <2>3 DEF ClausesUpTo
  <1>5. ClausesUpTo(1)'
    BY <1>1, <1>4, SameMeaning DEF ClausesUpTo, parser
  <1>6. CASE ~ HasLexeme(1) /\ state' = "done"
    <2>1. DOMAIN lexemes = {} /\ Terms = {}
      BY <1>2, <1>6 DEF Terms
    <2>2. WellFormed'
      BY <1>1, <2>1, SameMeaning DEF WellFormed
    <2>3. Terms' = {} /\ Cardinality({}) = 0 /\ Len(<<>>) = 0
      BY <1>1, <2>1, SameMeaning, FS_EmptySet
    <2>4. clauses' = <<>>
      BY <1>1 DEF parser
    <2>5. ClausesMeanTerms'
      BY <1>6, <2>2, <2>3, <2>4 DEF ClausesMeanTerms
    <2>6. QED
      BY <1>6, <2>5 DEF ParserInv, ParseStates, LexStates, Ended
  <1>7. CASE HasLexeme(1) /\ lexemes[1].type = "FIELD" /\ state' = "parseField"
    <2>1. Reads(1, "FIELD")'
      <3>1. Reads(1, "FIELD")
        BY <1>2, <1>3, <1>7 DEF Reads
      <3>2. QED
        BY <1>1, <3>1, SameMeaning
    <2>2. QED
      BY <1>1, <1>5, <1>7, <2>1
         DEF ParserInv, ParseStates, LexStates, Ended, ClausesMeanTerms, parser
  <1>8. CASE HasLexeme(1) /\ lexemes[1].type = "TERM" /\ state' = "parseTerm"
    <2>1. Reads(1, "TERM")'
      <3>1. Reads(1, "TERM")
        BY <1>2, <1>3, <1>8 DEF Reads
      <3>2. QED
        BY <1>1, <3>1, SameMeaning
    <2>2. QED
      BY <1>1, <1>5, <1>8, <2>1
         DEF ParserInv, ParseStates, LexStates, Ended, ClausesMeanTerms, parser
  <1>9. CASE HasLexeme(1) /\ lexemes[1].type \notin {"FIELD", "TERM"} /\ Throw
    <2>1. 1 \in DOMAIN lexemes /\ ~ WellFormedAt(1)
      BY <1>2, <1>9, LexemesTyped DEF WellFormedAt
    <2>2. QED
      BY <1>9, <2>1, ThrowMeans
  <1>10. QED
    BY <1>1, <1>6, <1>7, <1>8, <1>9 DEF ParseFieldOrTerm

LEMMA ParseFieldKeepsMeaning ==
  ASSUME LexerInv, ParserInv, ParseField
  PROVE  ParserInv'
  <1> DEFINE k == lexemeIdx
             accepted == /\ lexemes[k].str \in Fields
                         /\ HasLexeme(k + 1)
                         /\ lexemes[k + 1].type = "TERM"
  <1>1. /\ k \in DOMAIN lexemes /\ lexemes[k].type = "FIELD"
        /\ \A i \in DOMAIN lexemes : i < k => WellFormedAt(i)
        /\ ClausesUpTo(k) /\ currentClause = NoClause
    BY DEF ParseField, ParserInv, Reads
  <1>2. /\ Len(lexemes) \in Nat /\ DOMAIN lexemes = 1 .. Len(lexemes) /\ k \in Nat \ {0}
        /\ HasLexeme(k + 1) <=> k + 1 \in DOMAIN lexemes
        /\ \A i \in Terms : i \in Nat
    BY <1>1, LexemesTyped DEF HasLexeme
  <1>3. accepted <=> WellFormedAt(k)
    BY <1>1, <1>2 DEF WellFormedAt, Terms, Operators
  <1>4. CASE accepted
    <2>1. /\ currentClause' = With(NoClause, "fields", {lexemes[k].str})
          /\ lexemeIdx' = k + 1 /\ state' = "parseTerm"
          /\ lexemes' = lexemes /\ clauses' = clauses
      BY <1>1, <1>4 DEF ParseField, lexer
    <2>2. \A i \in DOMAIN lexemes : i < k + 1 => WellFormedAt(i)
      BY <1>1, <1>2, <1>3, <1>4
    <2>3. Reads(k + 1, "TERM")
      BY <1>2, <1>4, <2>2 DEF Reads
    <2>4. ClausesUpTo(k + 1)
      <3>1. \A i \in Terms : i < k + 1 <=> i < k
        BY <1>1, <1>2 DEF Terms
      <3>2. {j \in Terms : j < k + 1} = {j \in Terms : j < k}
        BY <3>1
      <3>3. QED
        BY <1>1, <3>1, <3>2 DEF ClausesUpTo
    <2>5. PICK m \in Nat \ {0, 1} : m = k + 1
      BY <1>2
    <2>6. ClausesUpTo(m)' /\ Reads(m, "TERM")'
      <3>1. Reads(m, "TERM") /\ ClausesUpTo(m)
        BY <2>3, <2>4, <2>5
      <3>2. QED
        BY <2>1, <3>1, SameMeaning DEF ClausesUpTo
    <2>7. lexemeIdx' = m /\ m > 1 /\ lexemes'[m - 1] = lexemes[k] /\ lexemes[k].type = "FIELD"
      BY <1>1, <1>2, <2>1, <2>5
    <2> HIDE DEF k
    <2>8. currentClause' = IF m > 1 /\ lexemes'[m - 1].type = "FIELD"
                           THEN With(NoClause, "fields", {lexemes'[m - 1].str}) ELSE NoClause
      BY <2>1, <2>7
    <2>9. QED
      BY <2>1, <2>6, <2>7, <2>8
         DEF ParserInv, ParseStates, LexStates, Ended, ClausesMeanTerms
  <1>5. CASE ~ accepted
    <2>1. Throw
      BY <1>5 DEF ParseField
    <2>2. QED
      BY <1>1, <1>3, <1>5, <2>1, ThrowMeans
  <1>6. QED
    BY <1>4, <1>5

LEMMA ParseTermKeepsMeaning ==
  ASSUME LexerInv, ParserInv, ParseTerm
  PROVE  ParserInv'
  <1> DEFINE k == lexemeIdx
             term == [i \in DOMAIN lexemes[k].str |-> LowerCase(lexemes[k].str[i])]
             c == With(currentClause, "term", term)
             d == IF \E i \in DOMAIN lexemes[k].str : lexemes[k].str[i] = "*"
                  THEN With(c, "usePipeline", FALSE) ELSE c
  <1>1. /\ k \in DOMAIN lexemes /\ lexemes[k].type = "TERM" /\ k \in Terms
        /\ \A i \in DOMAIN lexemes : i < k => WellFormedAt(i)
        /\ ClausesUpTo(k)
        /\ currentClause = IF k > 1 /\ lexemes[k - 1].type = "FIELD"
                           THEN With(NoClause, "fields", {lexemes[k - 1].str}) ELSE NoClause
    BY DEF ParseTerm, ParserInv, Reads, Terms
  <1>2. Len(lexemes) \in Nat /\ DOMAIN lexemes = 1 .. Len(lexemes) /\ k \in Nat \ {0}
    BY <1>1, LexemesTyped
  <1>3. Continue(d, k + 1)
    BY DEF ParseTerm
  <1>4. /\ DOMAIN currentClause \subseteq {"fields"}
        /\ IF k > 1 /\ lexemes[k - 1].type = "FIELD"
           THEN "fields" \in DOMAIN currentClause /\ currentClause["fields"] = {lexemes[k - 1].str}
           ELSE "fields" \notin DOMAIN currentClause
    <2>1. DOMAIN NoClause = {}
      BY DEF NoClause
    <2>2. QED
      BY <1>1, <2>1 DEF With
  <1> HIDE DEF term
  <1>5. /\ DOMAIN c = DOMAIN currentClause \union {"term"} /\ c["term"] = term
        /\ \A q \in DOMAIN currentClause : q # "term" => c[q] = currentClause[q]
    BY DEF c, With
  <1> HIDE DEF c
  <1>6. /\ DOMAIN d \subseteq {"fields", "term", "usePipeline"}
        /\ "term" \in DOMAIN d /\ d["term"] = term
        /\ IF k > 1 /\ lexemes[k - 1].type = "FIELD"
           THEN "fields" \in DOMAIN d /\ d["fields"] = {lexemes[k - 1].str}
           ELSE "fields" \notin DOMAIN d
    <2>1. CASE d = c
      BY <1>4, <1>5, <2>1
    <2>2. CASE d = With(c, "usePipeline", FALSE)
      <3> HIDE DEF d
      <3>1. /\ DOMAIN d = DOMAIN c \union {"usePipeline"}
            /\ \A q \in DOMAIN c : q # "usePipeline" => d[q] = c[q]
        BY <2>2 DEF With
      <3>2. QED
        BY <1>4, <1>5, <3>1
    <2>3. QED
      BY <2>1, <2>2
  <1> HIDE DEF d
  <1>7. ASSUME NEW type PROVE OperatorsBefore(k, type, k + 1) = {}
    <2>1. SUFFICES ASSUME NEW j \in OperatorsBefore(k, type, k + 1) PROVE FALSE
      OBVIOUS
    <2>2. j \in DOMAIN lexemes /\ j > k /\ j < k + 1
      BY DEF OperatorsBefore, OperatorsOf
    <2>3. QED
      BY <1>2, <2>2
  <1>8. ClauseSoFar(d, k, k + 1)
    BY <1>6, <1>7 DEF ClauseSoFar, Gives, term
  <1>9. InClause(k, k + 1)
    BY <1>1, <1>2 DEF InClause
  <1>10. \A i \in DOMAIN lexemes : i <= k => WellFormedAt(i)
    BY <1>1, <1>2 DEF WellFormedAt, Operators
  <1>11. QED
    BY <1>1, <1>3, <1>8, <1>9, <1>10, ContinueKeepsMeaning

(* An operator's number is that of the last operator of its kind. *)
LEMMA ParseNumberKeepsMeaning ==
  ASSUME LexerInv, ParserInv, NEW property, NEW type, NEW other, NEW otherType,
         \/ /\ property = "boost" /\ type = "BOOST" /\ state = "parseBoost"
            /\ other = "editDistance" /\ otherType = "EDIT_DISTANCE"
         \/ /\ property = "editDistance" /\ type = "EDIT_DISTANCE" /\ state = "parseEditDistance"
            /\ other = "boost" /\ otherType = "BOOST",
         ParseNumber(property)
  PROVE  ParserInv'
  <1> DEFINE k == lexemeIdx
             number == ParseInt(lexemes[k].str)
             c == With(currentClause, property, number)
  <1>1. /\ k \in DOMAIN lexemes /\ lexemes[k].type = type /\ type \in Operators
        /\ \A i \in DOMAIN lexemes : i < k => WellFormedAt(i)
        /\ \E t \in Terms : InClause(t, k) /\ ClauseSoFar(currentClause, t, k)
    BY DEF ParserInv, Reads, Operators
  <1>2. PICK t \in Terms : InClause(t, k) /\ ClauseSoFar(currentClause, t, k)
    BY <1>1
  <1>3. /\ Len(lexemes) \in Nat /\ DOMAIN lexemes = 1 .. Len(lexemes) /\ k \in Nat \ {0}
        /\ t \in Nat \ {0} /\ t < k /\ lexemes[t].type = "TERM"
        /\ \A j \in (t + 1) .. (k - 1) : lexemes[j].type \in Operators
        /\ ClausesUpTo(t)
    <2>1. t \in DOMAIN lexemes
      BY LexemesTyped
    <2>2. QED
      BY <1>1, <1>2, <2>1, LexemesTyped DEF InClause, Terms
  <1>4. lexemes[k - 1].type # "FIELD"
    <2>1. k - 1 = t \/ k - 1 \in (t + 1) .. (k - 1)
      BY <1>3
    <2>2. QED
      BY <1>3, <2>1 DEF Operators
  <1>5. k > 1
    BY <1>3
  <1>6. CASE lexemes[k].str = <<>>
    <2>1. Throw
      <3>1. Throw \/ lexemes[k].str # <<>>
        BY DEF ParseNumber
      <3>2. QED
        BY <1>6, <3>1
    <2>2. ~ WellFormedAt(k)
      BY <1>1, <1>6 DEF WellFormedAt
    <2>3. QED
      BY <1>1, <2>1, <2>2, ThrowMeans
  <1>7. CASE lexemes[k].str # <<>>
    <2>1. Continue(c, k + 1)
      BY <1>7 DEF ParseNumber, Throw
    <2>2. WellFormedAt(k)
      BY <1>1, <1>4, <1>5, <1>7 DEF WellFormedAt, Operators
    <2>3. \A i \in DOMAIN lexemes : i <= k => WellFormedAt(i)
      BY <1>1, <1>3, <2>2
    <2>4. \A j \in (t + 1) .. k : lexemes[j].type \in Operators
      <3>1. \A j \in (t + 1) .. k : j = k \/ j \in (t + 1) .. (k - 1)
        BY <1>3
      <3>2. QED
        BY <1>1, <1>3, <3>1
    <2>5. InClause(t, k + 1)
      <3>1. (k + 1) - 1 = k /\ t < k + 1
        BY <1>3
      <3>2. QED
        BY <1>3, <2>4, <3>1 DEF InClause
    <2>6. OperatorsBefore(t, type, k + 1) = OperatorsBefore(t, type, k) \union {k}
      <3>1. k \in OperatorsOf(t, type)
        BY <1>1, <1>3, <2>4 DEF OperatorsOf, Operators
      <3>2. \A j \in OperatorsOf(t, type) : j \in Nat
        BY <1>3 DEF OperatorsOf
      <3>3. \A j \in OperatorsOf(t, type) : j < k + 1 <=> j < k \/ j = k
        BY <1>3, <3>2
      <3>4. QED
        BY <3>1, <3>3 DEF OperatorsBefore
    <2>7. OperatorsBefore(t, otherType, k + 1) = OperatorsBefore(t, otherType, k)
      <3>1. \A j \in OperatorsOf(t, otherType) : j \in Nat /\ j # k
        BY <1>1, <1>3 DEF OperatorsOf
      <3>2. \A j \in OperatorsOf(t, otherType) : j < k + 1 <=> j < k
        BY <1>3, <3>1
      <3>3. QED
        BY <3>2 DEF OperatorsBefore
    <2>8. Latest(OperatorsBefore(t, type, k + 1)) = k
      <3> DEFINE S == OperatorsBefore(t, type, k + 1)
      <3>1. k \in S /\ \A j \in S : j \in Nat /\ j <= k
        <4>1. k \in S
          BY <2>6
        <4>2. \A j \in S : j \in Nat /\ j < k + 1
          BY <1>3 DEF OperatorsBefore, OperatorsOf
        <4>3. QED
          BY <1>3, <4>1, <4>2
      <3>2. k \in Nat
        BY <1>3
      <3> HIDE DEF S, k
      <3>3. \A i \in S : (\A j \in S : j <= i) => i = k
        BY <3>1, <3>2
      <3>4. Latest(S) = k
        BY <3>1, <3>3 DEF Latest
      <3>5. QED
        BY <3>4 DEF S
    <2> HIDE DEF number, k
    <2>9. /\ DOMAIN c = DOMAIN currentClause \union {property} /\ c[property] = number
          /\ \A q \in DOMAIN currentClause : q # property => c[q] = currentClause[q]
      BY DEF With
    <2> HIDE DEF c
    <2>10. /\ "term" \in DOMAIN c
           /\ c["term"] = [n \in DOMAIN lexemes[t].str |-> LowerCase(lexemes[t].str[n])]
      BY <1>2, <2>9 DEF ClauseSoFar
    <2>11. IF t > 1 /\ lexemes[t - 1].type = "FIELD"
           THEN "fields" \in DOMAIN c /\ c["fields"] = {lexemes[t - 1].str}
           ELSE "fields" \notin DOMAIN c
      BY <1>2, <2>9 DEF ClauseSoFar
    <2>12. Gives(c, property, OperatorsBefore(t, type, k + 1))
      BY <2>6, <2>8, <2>9 DEF Gives, number
    <2>13. Gives(c, other, OperatorsBefore(t, otherType, k + 1))
      <3>1. Gives(currentClause, other, OperatorsBefore(t, otherType, k))
        BY <1>2 DEF ClauseSoFar
      <3>2. other # property
        OBVIOUS
      <3>3. QED
        BY <2>7, <2>9, <3>1, <3>2 DEF Gives
    <2>14. ClauseSoFar(c, t, k + 1)
      BY <2>10, <2>11, <2>12, <2>13 DEF ClauseSoFar
    <2>15. QED
      BY <1>1, <2>1, <2>3, <2>5, <2>14, ContinueKeepsMeaning
  <1>8. QED
    BY <1>6, <1>7

LEMMA ParserInvStep == LexerInv /\ ParserInv /\ [QueryNext]_queryVars => ParserInv'
  <1> SUFFICES ASSUME LexerInv, ParserInv, [QueryNext]_queryVars PROVE ParserInv'
    OBVIOUS
  <1>1. CASE LexTextEnds \/ EscapeCharacter \/ ReadFieldMark \/ ReadOperator \/ ReadCharacter
    <2>1. /\ state \in LexStates /\ UNCHANGED parser
          /\ state' \in LexStates \union {"parseFieldOrTerm"}
      BY <1>1 DEF LexTextEnds, EscapeCharacter, ReadFieldMark, ReadOperator, ReadCharacter,
                  LexStates
    <2>2. QED
      BY <2>1, LexerKeepsMeaning
  <1>2. CASE LexField \/ LexTerm \/ LexEditDistance \/ LexBoost \/ LexEOS
    <2>1. /\ state \in LexStates /\ UNCHANGED parser
          /\ state' \in LexStates \union {"parseFieldOrTerm"}
      BY <1>2 DEF LexField, LexTerm, LexEditDistance, LexBoost, LexNumber, LexEOS, LexStates
    <2>2. QED
      BY <2>1, LexerKeepsMeaning
  <1>3. CASE ParseFieldOrTerm
    BY <1>3, ParseFieldOrTermKeepsMeaning
  <1>4. CASE ParseField
    BY <1>4, ParseFieldKeepsMeaning
  <1>5. CASE ParseTerm
    BY <1>5, ParseTermKeepsMeaning
  <1>6. CASE ParseEditDistance
    BY <1>6, ParseNumberKeepsMeaning DEF ParseEditDistance
  <1>7. CASE ParseBoost
    BY <1>7, ParseNumberKeepsMeaning DEF ParseBoost
  <1>8. CASE UNCHANGED queryVars
    <2>1. state' = state /\ UNCHANGED <<lexemes, lexemeIdx, currentClause, clauses>>
      BY <1>8 DEF queryVars, lexer, parser
    <2>2. /\ \A m : ClausesUpTo(m)' <=> ClausesUpTo(m)
          /\ ClausesMeanTerms' <=> ClausesMeanTerms
      BY <2>1, SameMeaning DEF ClausesUpTo, ClausesMeanTerms
    <2>3. \A t, k : InClause(t, k)' <=> InClause(t, k)
      BY <2>1, <2>2, SameMeaning DEF InClause
    <2>4. QED
      BY <2>1, <2>2, <2>3, SameMeaning DEF ParserInv
  <1>9. QED
    BY <1>1, <1>2, <1>3, <1>4, <1>5, <1>6, <1>7, <1>8 DEF QueryNext

(* The clauses of a parsed query are its terms, each with its own field    *)
(* and operators, and just the ill-formed queries are refused, for strings *)
(* of every length, any fields, separators and case mapping.               *)
THEOREM ClausesMean == QuerySpec => []ClausesMeanTerms
  <1>1. ParserInv => ClausesMeanTerms
    BY DEF ParserInv
  <1>2. QueryInit => LexerInv /\ ParserInv
    BY LexerInvInit, ParserInvInit
  <1>3. LexerInv /\ ParserInv /\ [QueryNext]_queryVars => (LexerInv /\ ParserInv)'
    BY LexerInvStep, ParserInvStep
  <1>4. QED
    BY <1>1, <1>2, <1>3, PTL DEF QuerySpec

-----------------------------------------------------------------------------
(* The characters of a string at a set of places, in their order. *)

Nth(K, n) == CHOOSE i \in K : Cardinality({j \in K : j <= i}) = n

At(K) == [n \in 1 .. Cardinality(K) |-> str[Nth(K, n)]]

UpTo(K, i) == {j \in K : j <= i}

LEMMA DisjointSizes ==
  ASSUME NEW S, NEW T, IsFiniteSet(S), IsFiniteSet(T), S \cap T = {}
  PROVE  Cardinality(S \union T) = Cardinality(S) + Cardinality(T)
  <1>1. Cardinality(S \union T) = Cardinality(S) + Cardinality(T) - Cardinality(S \cap T)
    BY FS_Union
  <1>2. Cardinality(S \cap T) = 0
    BY FS_EmptySet
  <1>3. Cardinality(S) \in Nat /\ Cardinality(T) \in Nat
    BY FS_CardinalityType
  <1>4. QED
    BY <1>1, <1>2, <1>3

LEMMA UpToIsFinite ==
  ASSUME NEW K, K \subseteq Nat, IsFiniteSet(K), NEW i \in K
  PROVE  IsFiniteSet(UpTo(K, i)) /\ Cardinality(UpTo(K, i)) \in 1 .. Cardinality(K)
  <1>1. UpTo(K, i) \in SUBSET K
    BY DEF UpTo
  <1>2. /\ IsFiniteSet(UpTo(K, i)) /\ Cardinality(UpTo(K, i)) <= Cardinality(K)
        /\ Cardinality(UpTo(K, i)) \in Nat /\ Cardinality(K) \in Nat
    BY <1>1, FS_Subset, FS_CardinalityType
  <1>3. i \in UpTo(K, i)
    BY DEF UpTo
  <1>4. Cardinality(UpTo(K, i)) # 0
    BY <1>2, <1>3, FS_EmptySet
  <1>5. QED
    BY <1>2, <1>4

(* An element is the n-th when n elements do not exceed it. *)
LEMMA NthIs ==
  ASSUME NEW K, K \subseteq Nat, IsFiniteSet(K), NEW i \in K
  PROVE  Nth(K, Cardinality(UpTo(K, i))) = i
  <1>1. ASSUME NEW a \in K, NEW b \in K, a < b
        PROVE  Cardinality(UpTo(K, a)) # Cardinality(UpTo(K, b))
    <2>1. UpTo(K, a) \in SUBSET UpTo(K, b)
      <3>1. \A j \in K : j <= a => j <= b
        BY <1>1
      <3>2. QED
        BY <3>1 DEF UpTo
    <2>2. b \in UpTo(K, b) /\ b \notin UpTo(K, a)
      BY <1>1 DEF UpTo
    <2>3. QED
      BY <2>1, <2>2, UpToIsFinite, FS_Subset
  <1>2. ASSUME NEW j \in K, Cardinality(UpTo(K, j)) = Cardinality(UpTo(K, i)) PROVE j = i
    <2>1. j < i \/ i < j \/ j = i
      OBVIOUS
    <2>2. QED
      BY <1>1, <1>2, <2>1
  <1>3. QED
    BY <1>2 DEF Nth, UpTo

LEMMA NthExists ==
  ASSUME NEW K, K \subseteq Nat, IsFiniteSet(K), NEW n \in 1 .. Cardinality(K)
  PROVE  Nth(K, n) \in K /\ Cardinality(UpTo(K, Nth(K, n))) = n
  <1>1. PICK i \in K : Cardinality({q \in K : q < i}) = n - 1
    BY PositionOfRank
  <1>2. UpTo(K, i) = {q \in K : q < i} \union {i}
    <2>1. \A q \in K : q <= i <=> q < i \/ q = i
      OBVIOUS
    <2>2. QED
      BY <2>1 DEF UpTo
  <1>3. i \notin {q \in K : q < i} /\ IsFiniteSet({q \in K : q < i})
    BY FS_Subset
  <1>4. Cardinality(K) \in Nat
    BY FS_CardinalityType
  <1>5. Cardinality(UpTo(K, i)) = (n - 1) + 1
    BY <1>1, <1>2, <1>3, FS_AddElement
  <1>6. Cardinality(UpTo(K, i)) = n
    BY <1>4, <1>5
  <1>7. QED
    BY <1>6, NthIs

LEMMA AtIsString ==
  ASSUME str \in Seq(STRING), NEW K, K \subseteq 1 .. Len(str)
  PROVE  /\ IsFiniteSet(K) /\ Cardinality(K) \in Nat /\ K \subseteq Nat
         /\ At(K) \in Seq(STRING) /\ Len(At(K)) = Cardinality(K)
         /\ \A n \in 1 .. Cardinality(K) : At(K)[n] = str[Nth(K, n)]
  <1>1. Len(str) \in Nat /\ DOMAIN str = 1 .. Len(str)
    OBVIOUS
  <1>2. IsFiniteSet(1 .. Len(str))
    BY <1>1, FS_Interval
  <1>3. IsFiniteSet(K) /\ Cardinality(K) \in Nat /\ K \subseteq Nat
    <2>1. K \in SUBSET (1 .. Len(str))
      OBVIOUS
    <2>2. IsFiniteSet(K)
      BY <1>2, <2>1, FS_Subset
    <2>3. QED
      BY <1>1, <2>2, FS_CardinalityType
  <1>4. \A n \in 1 .. Cardinality(K) : str[Nth(K, n)] \in STRING
    <2>1. \A n \in 1 .. Cardinality(K) : Nth(K, n) \in 1 .. Len(str)
      BY <1>3, NthExists
    <2>2. QED
      BY <1>1, <2>1
  <1>5. At(K) \in [1 .. Cardinality(K) -> STRING]
    BY <1>4 DEF At
  <1>6. At(K) \in Seq(STRING) /\ Len(At(K)) = Cardinality(K)
    BY <1>3, <1>5
  <1>7. QED
    BY <1>3, <1>6 DEF At

(* Places that follow others give characters that follow theirs. *)
LEMMA AtUnion ==
  ASSUME str \in Seq(STRING), NEW K, K \subseteq 1 .. Len(str), NEW L, L \subseteq 1 .. Len(str),
         \A k \in K, l \in L : k < l
  PROVE  At(K \union L) = At(K) \o At(L)
  <1> DEFINE U == K \union L
             c == Cardinality(K)
             d == Cardinality(L)
  <1>1. /\ IsFiniteSet(K) /\ c \in Nat /\ K \subseteq Nat
        /\ At(K) \in Seq(STRING) /\ Len(At(K)) = c
        /\ \A n \in 1 .. c : At(K)[n] = str[Nth(K, n)]
    BY AtIsString
  <1>2. /\ IsFiniteSet(L) /\ d \in Nat /\ L \subseteq Nat
        /\ At(L) \in Seq(STRING) /\ Len(At(L)) = d
        /\ \A n \in 1 .. d : At(L)[n] = str[Nth(L, n)]
    BY AtIsString
  <1>3. /\ IsFiniteSet(U) /\ U \subseteq Nat /\ U \subseteq 1 .. Len(str)
        /\ At(U) \in Seq(STRING) /\ Len(At(U)) = Cardinality(U)
        /\ \A n \in 1 .. Cardinality(U) : At(U)[n] = str[Nth(U, n)]
    BY AtIsString
  <1>4. Cardinality(U) = c + d
    <2>1. K \cap L = {}
      <3>1. \A k \in K : k \in Nat /\ ~ (k < k)
        BY <1>1
      <3>2. QED
        BY <3>1
    <2>2. QED
      BY <1>1, <1>2, <2>1, DisjointSizes
  <1>5. ASSUME NEW n \in 1 .. c PROVE Nth(U, n) = Nth(K, n)
    <2> DEFINE i == Nth(K, n)
    <2>1. i \in K /\ Cardinality(UpTo(K, i)) = n
      BY <1>1, NthExists
    <2> HIDE DEF i
    <2>2. UpTo(U, i) = UpTo(K, i)
      <3>1. i \in Nat /\ \A l \in L : l \in Nat /\ i < l
        BY <1>1, <1>2, <2>1, Zenon
      <3>2. \A l \in L : ~ (l <= i)
        BY <3>1
      <3>3. QED
        BY <3>2 DEF UpTo
    <2>3. Nth(U, Cardinality(UpTo(U, i))) = i
      <3>1. i \in U
        BY <2>1
      <3> HIDE DEF U
      <3>2. QED
        BY <1>3, <3>1, NthIs
    <2>4. QED
      BY <2>1, <2>2, <2>3 DEF i
  <1>6. ASSUME NEW n \in 1 .. d PROVE Nth(U, c + n) = Nth(L, n)
    <2> DEFINE i == Nth(L, n)
    <2>1. i \in L /\ Cardinality(UpTo(L, i)) = n /\ IsFiniteSet(UpTo(L, i))
      BY <1>2, NthExists, UpToIsFinite
    <2> HIDE DEF i
    <2>2. UpTo(U, i) = K \union UpTo(L, i)
      <3>1. i \in Nat /\ \A k \in K : k \in Nat /\ k < i
        BY <1>1, <1>2, <2>1, Zenon
      <3>2. \A k \in K : k <= i
        BY <3>1
      <3>3. QED
        BY <3>2 DEF UpTo
    <2>3. K \cap UpTo(L, i) = {}
      <3>1. \A k \in K : k \in Nat /\ ~ (k < k)
        BY <1>1
      <3>2. QED
        BY <3>1 DEF UpTo
    <2>4. Cardinality(K \union UpTo(L, i)) = c + n
      BY <1>1, <2>1, <2>3, DisjointSizes
    <2>5. Cardinality(UpTo(U, i)) = c + n
      BY <2>2, <2>4
    <2>6. Nth(U, Cardinality(UpTo(U, i))) = i
      <3>1. i \in U
        BY <2>1
      <3> HIDE DEF U
      <3>2. QED
        BY <1>3, <3>1, NthIs
    <2>7. QED
      BY <2>5, <2>6 DEF i
  <1> HIDE DEF U, c, d
  <1>7. ASSUME NEW n \in 1 .. c + d
        PROVE  At(U)[n] = IF n <= c THEN At(K)[n] ELSE At(L)[n - c]
    <2>1. CASE n <= c
      BY <1>1, <1>2, <1>3, <1>4, <1>5, <2>1
    <2>2. CASE ~ (n <= c)
      <3>1. n - c \in 1 .. d /\ c + (n - c) = n
        BY <1>1, <1>2, <2>2
      <3>2. Nth(U, n) = Nth(L, n - c)
        BY <1>6, <3>1
      <3>3. QED
        BY <1>2, <1>3, <1>4, <2>2, <3>1, <3>2
    <2>3. QED
      BY <2>1, <2>2
  <1>8. /\ At(K) \o At(L) \in Seq(STRING) /\ Len(At(K) \o At(L)) = c + d
        /\ \A n \in 1 .. c + d :
               (At(K) \o At(L))[n] = IF n <= c THEN At(K)[n] ELSE At(L)[n - c]
    BY <1>1, <1>2, ConcatProperties
  <1>9. At(U) = At(K) \o At(L)
    <2>1. \A n \in 1 .. c + d : At(U)[n] = (At(K) \o At(L))[n]
      BY <1>7, <1>8
    <2> DEFINE both == At(K) \o At(L)
    <2> HIDE DEF both
    <2>2. both \in Seq(STRING) /\ Len(both) = c + d /\ \A n \in 1 .. c + d : At(U)[n] = both[n]
      BY <1>8, <2>1 DEF both
    <2>3. At(U) = both
      BY <1>1, <1>2, <1>3, <1>4, <2>2
    <2>4. QED
      BY <2>3 DEF both
  <1>10. QED
    BY <1>9 DEF U

(* Counting the places from 1 instead of from 0 changes no number of them. *)
LEMMA ShiftedSize ==
  ASSUME NEW P, P \subseteq Nat, IsFiniteSet(P)
  PROVE  IsFiniteSet({p + 1 : p \in P}) /\ Cardinality({p + 1 : p \in P}) = Cardinality(P)
  <1> DEFINE T == {p + 1 : p \in P}
             f == [p \in P |-> p + 1]
  <1>1. f \in [P -> T] /\ (\A t \in T : \E p \in P : f[p] = t)
    OBVIOUS
  <1>2. \A p, q \in P : f[p] = f[q] => p = q
    OBVIOUS
  <1>3. f \in Bijection(P, T)
    BY <1>1, <1>2 DEF Bijection, Injection, Surjection, IsInjective
  <1>4. ExistsBijection(P, T)
    BY <1>3 DEF ExistsBijection
  <1>5. QED
    BY <1>4, FS_Bijection

(* What sliceString puts together are the characters at the places kept.   *)
LEMMA SliceIsAt ==
  ASSUME str \in Seq(STRING), NEW from \in Nat, NEW to \in Nat
  PROVE  SliceString(from, to)
           = At({i \in (from + 1) .. to : i <= Len(str) /\ i - 1 \notin escapeCharPositions})
  <1> DEFINE kept == {p \in from .. (to - 1) : p < Len(str) /\ p \notin escapeCharPositions}
             Pos(n) == CHOOSE p \in kept : Cardinality({q \in kept : q < p}) = n - 1
             K == {i \in (from + 1) .. to : i <= Len(str) /\ i - 1 \notin escapeCharPositions}
  <1>1. kept \subseteq Nat /\ IsFiniteSet(kept) /\ Cardinality(kept) \in Nat
    <2>1. IsFiniteSet(from .. (to - 1))
      BY FS_Interval
    <2>2. kept \in SUBSET (from .. (to - 1))
      OBVIOUS
    <2>3. IsFiniteSet(kept)
      BY <2>1, <2>2, FS_Subset
    <2>4. kept \subseteq Nat
      OBVIOUS
    <2>5. QED
      BY <2>3, <2>4, FS_CardinalityType
  <1>2. K = {p + 1 : p \in kept}
    <2>1. ASSUME NEW i \in K PROVE \E p \in kept : p + 1 = i
      <3>1. i - 1 \in kept /\ (i - 1) + 1 = i
        OBVIOUS
      <3>2. QED
        BY <3>1
    <2>2. ASSUME NEW p \in kept PROVE p + 1 \in K
      <3>1. (p + 1) - 1 = p /\ p + 1 \in (from + 1) .. to /\ p + 1 <= Len(str)
        OBVIOUS
      <3>2. p \notin escapeCharPositions
        OBVIOUS
      <3>3. QED
        BY <3>1, <3>2
    <2> HIDE DEF kept, K
    <2>3. QED
      BY <2>1, <2>2
  <1>3. K \subseteq 1 .. Len(str)
    OBVIOUS
  <1> HIDE DEF kept, K
  <1>4. IsFiniteSet(K) /\ Cardinality(K) = Cardinality(kept) /\ K \subseteq Nat
    BY <1>1, <1>2, <1>3, ShiftedSize, AtIsString
  <1>5. ASSUME NEW n \in 1 .. Cardinality(kept) PROVE Nth(K, n) = Pos(n) + 1
    <2> DEFINE p == Pos(n)
               Earlier == {q \in kept : q < p}
    <2>1. p \in kept /\ Cardinality(Earlier) = n - 1
      <3>1. \E q \in kept : Cardinality({r \in kept : r < q}) = n - 1
        BY <1>1, PositionOfRank
      <3>2. QED
        BY <3>1
    <2> HIDE DEF p
    <2>2. p \in Nat /\ Earlier \subseteq Nat /\ IsFiniteSet(Earlier)
      <3>1. Earlier \in SUBSET kept
        OBVIOUS
      <3>2. QED
        BY <1>1, <2>1, <3>1, FS_Subset
    <2>3. UpTo(K, p + 1) = {q + 1 : q \in Earlier} \union {p + 1}
      <3>1. ASSUME NEW i \in K, i <= p + 1 PROVE i = p + 1 \/ \E q \in Earlier : q + 1 = i
        <4>1. PICK q \in kept : q + 1 = i
          BY <1>2
        <4>2. q \in Nat
          BY <1>1
        <4>3. q = p \/ q < p
          BY <2>2, <3>1, <4>1, <4>2
        <4>4. QED
          BY <4>1, <4>3
      <3>2. ASSUME NEW q \in Earlier PROVE q + 1 \in K /\ q + 1 <= p + 1
        <4>1. q \in kept /\ q < p /\ q \in Nat
          BY <1>1
        <4>2. QED
          BY <1>2, <2>2, <4>1
      <3>3. p + 1 \in K /\ p + 1 <= p + 1
        BY <1>2, <2>1, <2>2
      <3> HIDE DEF Earlier
      <3>4. QED
        BY <3>1, <3>2, <3>3 DEF UpTo
    <2> DEFINE Shifted == {q + 1 : q \in Earlier}
    <2>4. IsFiniteSet(Shifted) /\ Cardinality(Shifted) = n - 1
      BY <2>1, <2>2, ShiftedSize
    <2>5. p + 1 \notin Shifted
      <3>1. \A q \in Earlier : q \in Nat /\ q < p
        BY <2>2
      <3> HIDE DEF Earlier
      <3>2. \A q \in Earlier : q + 1 # p + 1
        BY <2>2, <3>1
      <3>3. QED
        BY <3>2
    <2>6. Cardinality(UpTo(K, p + 1)) = n
      <3> HIDE DEF Shifted, Earlier
      <3>1. Cardinality(Shifted \union {p + 1}) = (n - 1) + 1
        BY <2>4, <2>5, FS_AddElement
      <3>2. UpTo(K, p + 1) = Shifted \union {p + 1}
        BY <2>3 DEF Shifted
      <3>3. (n - 1) + 1 = n
        BY <1>1
      <3>4. QED
        BY <3>1, <3>2, <3>3, Zenon
    <2>7. p + 1 \in K
      BY <1>2, <2>1
    <2>8. QED
      BY <1>4, <2>6, <2>7, NthIs DEF p
  <1>6. At(K) = [n \in 1 .. Cardinality(kept) |-> str[Pos(n) + 1]]
    <2> HIDE DEF Pos
    <2>1. QED
      BY <1>4, <1>5 DEF At
  <1>7. SliceString(from, to) = [n \in 1 .. Cardinality(kept) |-> str[Pos(n) + 1]]
    BY DEF SliceString, kept
  <1>8. QED
    BY <1>6, <1>7 DEF K

LEMMA RunIsAt ==
  ASSUME str \in Seq(STRING), NEW from \in Nat, NEW to \in Nat, from <= to, to <= Len(str)
  PROVE  SubSeq(str, from + 1, to) = At((from + 1) .. to)
  <1> DEFINE K == (from + 1) .. to
  <1>1. K \subseteq 1 .. Len(str)
    OBVIOUS
  <1>2. Cardinality(K) = to - from /\ IsFiniteSet(K) /\ K \subseteq Nat
    <2>1. Cardinality(K) = IF from + 1 > to THEN 0 ELSE (to - (from + 1)) + 1
      BY FS_Interval
    <2>2. QED
      BY <1>1, <2>1, AtIsString
  <1>3. ASSUME NEW n \in 1 .. to - from PROVE Nth(K, n) = from + n
    <2>1. from + n \in K
      OBVIOUS
    <2>2. UpTo(K, from + n) = (from + 1) .. (from + n)
      BY DEF UpTo
    <2>3. Cardinality((from + 1) .. (from + n)) = n
      <3>1. from + 1 \in Int /\ from + n \in Int /\ ~ (from + 1 > from + n)
        OBVIOUS
      <3>2. Cardinality((from + 1) .. (from + n)) = ((from + n) - (from + 1)) + 1
        BY <3>1, FS_Interval
      <3>3. QED
        BY <3>2
    <2> HIDE DEF K
    <2>4. QED
      BY <1>2, <2>1, <2>2, <2>3, NthIs
  <1>4. /\ At(K) \in Seq(STRING) /\ Len(At(K)) = to - from
        /\ \A n \in 1 .. to - from : At(K)[n] = str[from + n]
    BY <1>1, <1>2, <1>3, AtIsString
  <1> DEFINE run == SubSeq(str, from + 1, to)
  <1>5. /\ run \in Seq(STRING) /\ Len(run) = to - from
        /\ \A n \in 1 .. to - from : run[n] = str[from + n]
    <2>1. \A i \in from + 1 .. to : str[i] \in STRING
      OBVIOUS
    <2>2. /\ run \in Seq(STRING)
          /\ Len(run) = IF from + 1 <= to THEN to - (from + 1) + 1 ELSE 0
          /\ \A n \in 1 .. to - (from + 1) + 1 : run[n] = str[from + 1 + n - 1]
      BY <2>1, SubSeqProperties
    <2>3. \A n \in 1 .. to - from : from + 1 + n - 1 = from + n
      OBVIOUS
    <2>4. to - (from + 1) + 1 = to - from
      OBVIOUS
    <2> HIDE DEF run
    <2>5. QED
      BY <2>2, <2>3, <2>4
  <1> HIDE DEF K, run
  <1>6. run = At(K)
    BY <1>4, <1>5
  <1>7. QED
    BY <1>6 DEF run, K

-----------------------------------------------------------------------------
(* Functions defined along the naturals. *)

HasRecursion(N, S, base, g) ==
    \E f \in [0 .. N -> S] : f[0] = base /\ \A n \in 1 .. N : f[n] = g[n][f[n - 1]]

(* Where each value follows from the one before, there is such a function. *)
LEMMA RecursionExists ==
  ASSUME NEW N \in Nat, NEW S, NEW base \in S, NEW g \in [1 .. N -> [S -> S]]
  PROVE  HasRecursion(N, S, base, g)
  <1> DEFINE Fits(f, m) == f[0] = base /\ \A n \in 1 .. m : f[n] = g[n][f[n - 1]]
             Missing == {m \in 0 .. N : ~ \E f \in [0 .. m -> S] : Fits(f, m)}
  <1>1. SUFFICES ASSUME Missing # {} PROVE FALSE
    <2>1. N \in 0 .. N
      OBVIOUS
    <2>2. QED
      BY <2>1 DEF HasRecursion
  <1>2. PICK m \in Missing : \A k \in Missing : m <= k
    <2>1. Missing \subseteq Nat
      OBVIOUS
    <2>2. QED
      BY <1>1, <2>1, LeastPosition
  <1>3. CASE m = 0
    <2> DEFINE f == [n \in 0 .. 0 |-> base]
    <2>1. f \in [0 .. 0 -> S] /\ f[0] = base /\ 1 .. 0 = {}
      OBVIOUS
    <2>2. QED
      BY <1>2, <1>3, <2>1
  <1>4. CASE m # 0
    <2>1. m - 1 \in 0 .. N /\ m - 1 \notin Missing /\ m \in 1 .. N
      <3>1. m \in 0 .. N
        BY <1>2
      <3>2. m - 1 \in 0 .. N /\ m \in 1 .. N /\ ~ (m <= m - 1)
        BY <1>4, <3>1
      <3> HIDE DEF Missing
      <3>3. QED
        BY <1>2, <3>2
    <2>2. PICK f \in [0 .. m - 1 -> S] : Fits(f, m - 1)
      BY <2>1
    <2> DEFINE h == [n \in 0 .. m |-> IF n = m THEN g[m][f[m - 1]] ELSE f[n]]
    <2>3. f[m - 1] \in S /\ g[m] \in [S -> S]
      BY <2>1
    <2>4. g[m][f[m - 1]] \in S
      BY <2>3
    <2>5. h \in [0 .. m -> S]
      <3>1. \A n \in 0 .. m : n # m => n \in 0 .. m - 1
        BY <2>1
      <3>2. QED
        BY <2>4, <3>1
    <2>6. h[m] = g[m][f[m - 1]] /\ \A n \in 0 .. m - 1 : h[n] = f[n]
      BY <2>1
    <2> HIDE DEF h
    <2>7. h[0] = base
      BY <2>1, <2>2, <2>6
    <2>8. ASSUME NEW n \in 1 .. m PROVE h[n] = g[n][h[n - 1]]
      <3>1. CASE n = m
        BY <2>1, <2>6, <3>1
      <3>2. CASE n # m
        <4>1. n \in 1 .. m - 1 /\ n - 1 \in 0 .. m - 1 /\ n \in 0 .. m - 1
          BY <2>1, <3>2
        <4>2. QED
          BY <2>2, <2>6, <4>1
      <3>3. QED
        BY <3>1, <3>2
    <2>9. QED
      BY <1>2, <2>5, <2>7, <2>8
  <1>5. QED
    BY <1>3, <1>4

(* CharactersOf and Escaped are such functions. *)
LEMMA CharactersFollow ==
  ASSUME NEW lexs \in Seq(Lexeme)
  PROVE  \E c \in [0 .. Len(lexs) -> Seq(STRING)] :
             /\ c[0] = <<>> /\ \A n \in 1 .. Len(lexs) : c[n] = c[n - 1] \o lexs[n].str
             /\ CharactersOf(lexs) = c[Len(lexs)]
  <1> DEFINE N == Len(lexs)
             g == [n \in 1 .. N |-> [s \in Seq(STRING) |-> s \o lexs[n].str]]
             Step(c) == [n \in 0 .. N |-> IF n = 0 THEN <<>> ELSE c[n - 1] \o lexs[n].str]
             chars == CHOOSE c : c = Step(c)
  <1>1. N \in Nat /\ \A n \in 1 .. N : lexs[n].str \in Seq(STRING)
    <2>1. \A n \in 1 .. N : lexs[n] \in Lexeme
      OBVIOUS
    <2>2. QED
      BY <2>1 DEF Lexeme
  <1> HIDE DEF N
  <1>2. g \in [1 .. N -> [Seq(STRING) -> Seq(STRING)]]
    <2>1. ASSUME NEW n \in 1 .. N, NEW s \in Seq(STRING) PROVE s \o lexs[n].str \in Seq(STRING)
      BY <1>1, ConcatProperties
    <2>2. QED
      BY <2>1
  <1>3. <<>> \in Seq(STRING)
    OBVIOUS
  <1>4. PICK f \in [0 .. N -> Seq(STRING)] : f[0] = <<>> /\ \A n \in 1 .. N : f[n] = g[n][f[n - 1]]
    <2> HIDE DEF g
    <2>1. HasRecursion(N, Seq(STRING), <<>>, g)
      BY <1>1, <1>2, <1>3, RecursionExists
    <2>2. QED
      BY <2>1 DEF HasRecursion
  <1>5. f[0] = <<>> /\ \A n \in 1 .. N : f[n] = f[n - 1] \o lexs[n].str
    <2>1. ASSUME NEW n \in 1 .. N PROVE f[n] = f[n - 1] \o lexs[n].str
      <3>1. f[n - 1] \in Seq(STRING)
        BY <1>1
      <3>2. QED
        BY <1>4, <3>1
    <2>2. QED
      BY <1>4, <2>1
  <1>6. f = Step(f)
    <2>1. \A n \in 0 .. N : n = 0 \/ n \in 1 .. N
      BY <1>1
    <2>2. \A n \in 0 .. N : f[n] = IF n = 0 THEN <<>> ELSE f[n - 1] \o lexs[n].str
      BY <1>5, <2>1
    <2>3. QED
      BY <2>2
  <1>7. chars = Step(chars)
    BY <1>6
  <1> HIDE DEF chars
  <1>8. \A n \in 0 .. N : chars[n] = IF n = 0 THEN <<>> ELSE chars[n - 1] \o lexs[n].str
    BY <1>7, Zenon
  <1>9. chars[0] = <<>> /\ \A n \in 1 .. N : chars[n] = chars[n - 1] \o lexs[n].str
    <2>1. 0 \in 0 .. N /\ \A n \in 1 .. N : n \in 0 .. N /\ n # 0
      BY <1>1
    <2>2. QED
      BY <1>8, <2>1, Zenon
  <1>10. \A n \in 0 .. N : chars[n] = f[n]
    <2> DEFINE Differ == {n \in 0 .. N : chars[n] # f[n]}
    <2>1. SUFFICES ASSUME Differ # {} PROVE FALSE
      OBVIOUS
    <2>2. PICK m \in Differ : \A k \in Differ : m <= k
      <3>1. Differ \subseteq Nat
        BY <1>1
      <3>2. QED
        BY <2>1, <3>1, LeastPosition
    <2>3. m \in 0 .. N /\ chars[m] # f[m]
      BY <2>2
    <2>4. m # 0
      BY <1>5, <1>9, <2>3
    <2>5. m \in 1 .. N /\ m - 1 \in 0 .. N /\ ~ (m <= m - 1)
      BY <1>1, <2>3, <2>4
    <2>6. m - 1 \notin Differ
      BY <2>2, <2>5
    <2>7. chars[m - 1] = f[m - 1]
      BY <2>5, <2>6
    <2>8. QED
      BY <1>5, <1>9, <2>3, <2>5, <2>7
  <1>11. CharactersOf(lexs) = chars[N]
    BY DEF CharactersOf, chars, N
  <1>12. CharactersOf(lexs) = f[N]
    BY <1>1, <1>10, <1>11
  <1>13. QED
    BY <1>5, <1>12 DEF N

LEMMA CharactersAppend ==
  ASSUME NEW lexs \in Seq(Lexeme), NEW x \in Lexeme
  PROVE  CharactersOf(Append(lexs, x)) = CharactersOf(lexs) \o x.str
  <1> DEFINE N == Len(lexs)
             r == Append(lexs, x)
  <1>1. /\ r \in Seq(Lexeme) /\ N \in Nat /\ Len(r) = N + 1 /\ r[N + 1] = x
        /\ \A n \in 1 .. N : r[n] = lexs[n]
    OBVIOUS
  <1>2. PICK c : /\ c[0] = <<>> /\ \A n \in 1 .. N : c[n] = c[n - 1] \o lexs[n].str
                 /\ CharactersOf(lexs) = c[N]
    BY CharactersFollow
  <1> HIDE DEF N, r
  <1>3. PICK d : /\ d[0] = <<>> /\ \A n \in 1 .. N + 1 : d[n] = d[n - 1] \o r[n].str
                 /\ CharactersOf(r) = d[N + 1]
    <2>1. \E d \in [0 .. Len(r) -> Seq(STRING)] :
             /\ d[0] = <<>> /\ \A n \in 1 .. Len(r) : d[n] = d[n - 1] \o r[n].str
             /\ CharactersOf(r) = d[Len(r)]
      BY <1>1, CharactersFollow
    <2>2. QED
      BY <1>1, <2>1
  <1>4. c[N] = d[N]
    <2> DEFINE Differ == {n \in 0 .. N : c[n] # d[n]}
    <2>1. SUFFICES ASSUME Differ # {} PROVE FALSE
      BY <1>1
    <2>2. PICK m \in Differ : \A k \in Differ : m <= k
      <3>1. Differ \subseteq Nat
        BY <1>1
      <3>2. QED
        BY <2>1, <3>1, LeastPosition
    <2>3. m \in 0 .. N /\ c[m] # d[m]
      BY <2>2
    <2>4. m # 0
      BY <1>2, <1>3, <2>3
    <2>5. m \in 1 .. N /\ m \in 1 .. N + 1 /\ m - 1 \in 0 .. N /\ ~ (m <= m - 1)
      BY <1>1, <2>3, <2>4
    <2>6. m - 1 \notin Differ
      BY <2>2, <2>5
    <2>7. c[m - 1] = d[m - 1]
      BY <2>5, <2>6
    <2>8. r[m] = lexs[m]
      BY <1>1, <2>5
    <2>9. c[m] = c[m - 1] \o lexs[m].str /\ d[m] = d[m - 1] \o r[m].str
      BY <1>2, <1>3, <2>5
    <2>10. QED
      BY <2>3, <2>7, <2>8, <2>9
  <1>5. d[N + 1] = d[N] \o x.str
    <2>1. N + 1 \in 1 .. N + 1 /\ (N + 1) - 1 = N
      BY <1>1
    <2>2. d[N + 1] = d[(N + 1) - 1] \o r[N + 1].str
      BY <1>3, <2>1
    <2>3. QED
      BY <1>1, <2>1, <2>2
  <1>6. QED
    BY <1>2, <1>3, <1>4, <1>5 DEF r

LEMMA NoCharacters == CharactersOf(<<>>) = <<>>
  <1>1. <<>> \in Seq(Lexeme) /\ Len(<<>>) = 0
    OBVIOUS
  <1>2. QED
    BY <1>1, CharactersFollow

(* A character is escaped by an escape character that is not escaped itself. *)
LEMMA EscapedFollows ==
  ASSUME str \in Seq(STRING), NEW i \in 0 .. Len(str)
  PROVE  /\ Escaped(i) \in BOOLEAN
         /\ Escaped(i) <=> i > 1 /\ str[i - 1] = "\\" /\ ~ Escaped(i - 1)
  <1> DEFINE N == Len(str)
             g == [j \in 1 .. N |-> [b \in BOOLEAN |-> j > 1 /\ str[j - 1] = "\\" /\ ~ b]]
             Step(e) == [j \in 0 .. N |-> j > 1 /\ str[j - 1] = "\\" /\ ~ e[j - 1]]
             esc == CHOOSE e : e = Step(e)
  <1>1. N \in Nat
    OBVIOUS
  <1> HIDE DEF N
  <1>2. PICK f \in [0 .. N -> BOOLEAN] : f[0] = FALSE /\ \A n \in 1 .. N : f[n] = g[n][f[n - 1]]
    <2>1. g \in [1 .. N -> [BOOLEAN -> BOOLEAN]]
      OBVIOUS
    <2> HIDE DEF g
    <2>2. FALSE \in BOOLEAN
      OBVIOUS
    <2>3. HasRecursion(N, BOOLEAN, FALSE, g)
      BY <1>1, <2>1, <2>2, RecursionExists
    <2>4. QED
      BY <2>3 DEF HasRecursion
  <1>3. f = Step(f)
    <2>1. ASSUME NEW n \in 1 .. N
          PROVE  f[n] = (n > 1 /\ str[n - 1] = "\\" /\ ~ f[n - 1])
      <3>1. f[n - 1] \in BOOLEAN
        BY <1>1
      <3>2. QED
        BY <1>2, <3>1
    <2>2. \A n \in 0 .. N : n = 0 \/ n \in 1 .. N
      BY <1>1
    <2> HIDE DEF g
    <2>3. f[0] = (0 > 1 /\ str[0 - 1] = "\\" /\ ~ f[0 - 1])
      <3>1. ~ (0 > 1)
        OBVIOUS
      <3>2. QED
        BY <1>2, <3>1, Zenon
    <2>4. \A n \in 0 .. N : f[n] = (n > 1 /\ str[n - 1] = "\\" /\ ~ f[n - 1])
      BY <2>1, <2>2, <2>3
    <2>5. QED
      BY <2>4
  <1>4. esc = Step(esc)
    BY <1>3
  <1> HIDE DEF esc
  <1>5. \A j \in 0 .. N : esc[j] = (j > 1 /\ str[j - 1] = "\\" /\ ~ esc[j - 1])
    BY <1>4
  <1>6. \A j : Escaped(j) = esc[j]
    BY DEF Escaped, esc, N
  <1>7. QED
    BY <1>5, <1>6 DEF N

-----------------------------------------------------------------------------
(* The characters of the lexemes. *)

LiteralsUpTo(p) == {i \in Literals : i <= p}

(* Of the characters read since the last lexeme, those that are not escape *)
(* characters are what it will have.                                       *)
ReadUpTo(p) ==
    \A i \in 1 .. Len(str) :
        start < i /\ i <= p => (i \in Literals <=> i - 1 \notin escapeCharPositions)

(* The lexer stands in front of a character that is not escaped.           *)
ReadSoFar ==
    /\ pos < Len(str) => ~ Escaped(pos + 1)
    /\ state \in {"lexField", "lexTerm"} => pos \notin Literals /\ ReadUpTo(pos - 1)
    /\ state \in {"lexText", "lexEOS"} => ReadUpTo(pos)
    /\ state \in {"lexEditDistance", "lexBoost"} => str[pos + 1] \in {"~", "^"}
    /\ state = "lexEOS" => Len(str) <= pos

(* The lexemes have the characters of the string up to the last one's end. *)
TextInv ==
    /\ state \in LexStates \union ParseStates \union Ended
    /\ state \in LexStates => ReadSoFar
    /\ state \in ParseStates \union Ended => Len(str) <= start
    /\ CharactersOf(lexemes) = At(LiteralsUpTo(start))

LEMMA SameText ==
  ASSUME str' = str
  PROVE  /\ Literals' = Literals
         /\ \A i : Escaped(i)' <=> Escaped(i)
         /\ \A K : At(K)' = At(K)
  <1>1. \A i : Escaped(i)' <=> Escaped(i)
    BY DEF Escaped
  <1>2. Literals' = Literals
    BY <1>1 DEF Literals
  <1>3. \A K : At(K)' = At(K)
    BY DEF At, Nth
  <1>4. QED
    BY <1>1, <1>2, <1>3

(* An unescaped character escapes the next if it is an escape character.   *)
LEMMA NextCharacter ==
  ASSUME str \in Seq(STRING), NEW i \in Nat, 1 <= i, i < Len(str), ~ Escaped(i)
  PROVE  Escaped(i + 1) <=> str[i] = "\\"
  <1>1. i + 1 \in 0 .. Len(str) /\ i + 1 > 1 /\ (i + 1) - 1 = i
    OBVIOUS
  <1>2. Escaped(i + 1) <=> i + 1 > 1 /\ str[(i + 1) - 1] = "\\" /\ ~ Escaped((i + 1) - 1)
    BY <1>1, EscapedFollows
  <1>3. QED
    BY <1>1, <1>2, Zenon

LEMMA LiteralsAre ==
  ASSUME NEW i \in 1 .. Len(str)
  PROVE  i \in Literals <=> Escaped(i) \/ str[i] \notin {"\\", ":", "~", "^"} \union Separators
  BY DEF Literals

LEMMA TextInvInit == QueryInit => TextInv
  <1> SUFFICES ASSUME QueryInit PROVE TextInv
    OBVIOUS
  <1>1. /\ str \in Seq(STRING) /\ state = "lexText" /\ pos = 0 /\ start = 0
        /\ lexemes = <<>> /\ escapeCharPositions = {}
    BY LexerInvInit DEF LexerInv, QueryInit, StartQuery
  <1>2. ReadSoFar
    <2>1. pos < Len(str) => ~ Escaped(pos + 1)
      <3>1. SUFFICES ASSUME 0 < Len(str) PROVE ~ Escaped(1)
        BY <1>1
      <3>2. 1 \in 0 .. Len(str) /\ ~ (1 > 1)
        BY <1>1, <3>1
      <3>3. QED
        BY <1>1, <3>2, EscapedFollows
    <2>2. ReadUpTo(pos)
      BY <1>1 DEF ReadUpTo
    <2>3. QED
      BY <1>1, <2>1, <2>2 DEF ReadSoFar
  <1>3. CharactersOf(lexemes) = At(LiteralsUpTo(start))
    <2>1. LiteralsUpTo(start) = {}
      <3>1. \A i \in Literals : i \in 1 .. Len(str)
        BY DEF Literals
      <3>2. \A i \in Literals : ~ (i <= start)
        BY <1>1, <3>1
      <3>3. QED
        BY <3>2 DEF LiteralsUpTo
    <2>2. At({}) = <<>>
      <3>1. At({}) \in Seq(STRING) /\ Len(At({})) = Cardinality({})
        BY <1>1, AtIsString
      <3>2. Len(At({})) = 0
        BY <3>1, FS_EmptySet
      <3>3. QED
        BY <3>1, <3>2
    <2>3. QED
      BY <1>1, <2>1, <2>2, NoCharacters
  <1>4. QED
    BY <1>1, <1>2, <1>3 DEF TextInv, LexStates, ParseStates, Ended

(* Where no lexeme is added, no literal has been left behind. *)
LEMMA NothingLeftBehind ==
  ASSUME LexerInv, TextInv, str' = str, lexemes' = lexemes,
         \A i \in Literals : i <= start' <=> i <= start
  PROVE  (CharactersOf(lexemes) = At(LiteralsUpTo(start)))'
  <1>1. LiteralsUpTo(start)' = LiteralsUpTo(start)
    BY SameText DEF LiteralsUpTo
  <1>2. CharactersOf(lexemes)' = CharactersOf(lexemes)
    OBVIOUS
  <1>3. At(LiteralsUpTo(start))' = At(LiteralsUpTo(start))
    BY <1>1, SameText DEF At, Nth
  <1>4. QED
    BY <1>2, <1>3 DEF TextInv

(* A lexeme brings the literals from the end of the last one to its own.   *)
LEMMA LiteralsAdded ==
  ASSUME LexerInv, TextInv, str' = str, NEW x \in Lexeme, lexemes' = Append(lexemes, x),
         start' \in Nat, start <= start',
         x.str = At({i \in Literals : start < i /\ i <= start'})
  PROVE  (CharactersOf(lexemes) = At(LiteralsUpTo(start)))'
  <1> DEFINE K == LiteralsUpTo(start)
             L == {i \in Literals : start < i /\ i <= start'}
  <1>1. str \in Seq(STRING) /\ start \in Nat /\ lexemes \in Seq(Lexeme)
    BY PartsOfOrder DEF PositionsInOrder, Follow
  <1>2. Literals \subseteq 1 .. Len(str)
    BY DEF Literals
  <1>3. \A i \in Literals : i \in Nat
    BY <1>2
  <1>4. LiteralsUpTo(start)' = K \union L
    <2>1. LiteralsUpTo(start)' = {i \in Literals : i <= start'}
      BY SameText DEF LiteralsUpTo
    <2>2. \A i \in Literals : i <= start' <=> i <= start \/ (start < i /\ i <= start')
      BY <1>1, <1>3
    <2>3. QED
      BY <2>1, <2>2 DEF LiteralsUpTo
  <1>5. At(K \union L) = At(K) \o At(L)
    <2>1. K \subseteq 1 .. Len(str) /\ L \subseteq 1 .. Len(str)
      BY <1>2 DEF LiteralsUpTo
    <2>2. \A k \in K, l \in L : k < l
      BY <1>1, <1>3 DEF LiteralsUpTo
    <2> HIDE DEF K, L
    <2>3. QED
      BY <1>1, <2>1, <2>2, AtUnion
  <1>6. CharactersOf(lexemes)' = CharactersOf(lexemes) \o x.str
    BY <1>1, CharactersAppend
  <1>7. At(LiteralsUpTo(start))' = At(K \union L)
    BY <1>4, SameText DEF At, Nth
  <1>8. QED
    BY <1>5, <1>6, <1>7 DEF TextInv

(* The slice of what has been read is its literals. *)
LEMMA SliceIsText ==
  ASSUME LexerInv, NEW to \in Nat, start <= to, ReadUpTo(to)
  PROVE  SliceString(start, to) = At({i \in Literals : start < i /\ i <= to})
  <1> DEFINE K == {i \in (start + 1) .. to : i <= Len(str) /\ i - 1 \notin escapeCharPositions}
             L == {i \in Literals : start < i /\ i <= to}
  <1>1. str \in Seq(STRING) /\ start \in Nat /\ Len(str) \in Nat
    BY PartsOfOrder DEF PositionsInOrder
  <1>2. SliceString(start, to) = At(K)
    BY <1>1, SliceIsAt
  <1>3. ASSUME NEW i \in 1 .. Len(str) PROVE i \in K <=> i \in L
    BY <1>1, <1>3 DEF ReadUpTo
  <1>4. K \subseteq 1 .. Len(str) /\ L \subseteq 1 .. Len(str)
    BY <1>1 DEF Literals
  <1> HIDE DEF K, L
  <1>5. K = L
    BY <1>3, <1>4
  <1>6. QED
    BY <1>2, <1>5 DEF L

LEMMA EmitAddsLiterals ==
  ASSUME LexerInv, TextInv, str' = str,
         NEW type \in {"TERM", "FIELD"}, NEW end \in Nat, start <= end, Emit(type, end),
         ReadUpTo(end), start' \in Nat, end <= start',
         \A i \in Literals : i <= start' => i <= end
  PROVE  (CharactersOf(lexemes) = At(LiteralsUpTo(start)))'
  <1> DEFINE s == SliceString(start, end)
             x == [type |-> type, str |-> s, start |-> start, end |-> end]
  <1>1. str \in Seq(STRING) /\ start \in Nat
    BY PartsOfOrder DEF PositionsInOrder
  <1>2. s \in Seq(STRING)
    BY <1>1, SliceIsString
  <1>3. s = At({i \in Literals : start < i /\ i <= end})
    BY SliceIsText
  <1>4. {i \in Literals : start < i /\ i <= end} = {i \in Literals : start < i /\ i <= start'}
    <2>1. \A i \in Literals : i \in Nat
      BY DEF Literals
    <2>2. \A i \in Literals : i <= end <=> i <= start'
      BY <2>1
    <2>3. QED
      BY <2>2
  <1>5. lexemes' = Append(lexemes, x)
    BY DEF Emit
  <1> HIDE DEF s
  <1>6. x \in Lexeme /\ x.str = s
    BY <1>1, <1>2 DEF Lexeme
  <1>7. start <= start'
    BY <1>1
  <1> HIDE DEF x
  <1>8. QED
    BY <1>3, <1>4, <1>5, <1>6, <1>7, LiteralsAdded

(* What the lexer has read so far stays read. *)
LEMMA StillRead ==
  ASSUME str' = str, start' = start, UNCHANGED escapeCharPositions, NEW p \in Nat, ReadUpTo(p)
  PROVE  ReadUpTo(p)'
  BY SameText DEF ReadUpTo

(* Where nothing is read since the last lexeme there is nothing to know.   *)
LEMMA NothingRead ==
  ASSUME str' = str, str \in Seq(STRING), start' \in Nat, NEW p \in Nat, p <= start'
  PROVE  ReadUpTo(p)'
  <1>1. \A i \in 1 .. Len(str) : ~ (start' < i /\ i <= p)
    OBVIOUS
  <1>2. QED
    BY <1>1 DEF ReadUpTo

LEMMA LexTextEndsKeepsText ==
  ASSUME LexerInv, TextInv, LexTextEnds
  PROVE  TextInv'
  <1>1. /\ str' = str /\ pos' = pos /\ start' = start /\ lexemes' = lexemes
        /\ escapeCharPositions' = escapeCharPositions
        /\ state = "lexText" /\ state' = "lexEOS" /\ ~ (pos < Len(str))
        /\ pos \in Nat /\ Len(str) \in Nat
    BY PartsOfOrder DEF LexTextEnds, lexer, More, PositionsInOrder
  <1>2. ReadUpTo(pos)
    BY <1>1 DEF TextInv, LexStates, ReadSoFar
  <1>3. ReadUpTo(pos)'
    BY <1>1, <1>2, SameText DEF ReadUpTo
  <1>4. (CharactersOf(lexemes) = At(LiteralsUpTo(start)))'
    BY <1>1, NothingLeftBehind
  <1>5. ReadSoFar'
    BY <1>1, <1>3 DEF ReadSoFar
  <1>6. QED
    BY <1>1, <1>4, <1>5 DEF TextInv, LexStates, ParseStates, Ended

(* What the lexer knows in lexText of the character it is about to read.   *)
LEMMA InText ==
  ASSUME LexerInv, TextInv, state = "lexText", More(pos)
  PROVE  /\ str \in Seq(STRING) /\ Len(str) \in Nat /\ pos \in Nat /\ start \in Nat
         /\ start <= pos /\ pos < Len(str)
         /\ pos + 1 \in 1 .. Len(str) /\ pos \notin escapeCharPositions
         /\ \A p \in escapeCharPositions : p \in Nat /\ p + 2 <= pos
         /\ ReadUpTo(pos) /\ ~ Escaped(pos + 1)
         /\ pos + 1 \in Literals <=> Char \notin {"\\", ":", "~", "^"} \union Separators
         /\ (pos + 1 < Len(str) => (Escaped(pos + 2) <=> Char = "\\"))
  <1>1. /\ str \in Seq(STRING) /\ Len(str) \in Nat /\ pos \in Nat /\ start \in Nat
        /\ start <= pos /\ pos < Len(str)
        /\ \A p \in escapeCharPositions : p \in Nat /\ p + 2 <= pos
    BY PartsOfOrder DEF PositionsInOrder, More
  <1>2. pos + 1 \in 1 .. Len(str) /\ pos \notin escapeCharPositions
    BY <1>1
  <1>3. ReadUpTo(pos) /\ ~ Escaped(pos + 1)
    BY <1>1 DEF TextInv, LexStates, ReadSoFar
  <1>4. pos + 1 \in Literals <=> Char \notin {"\\", ":", "~", "^"} \union Separators
    BY <1>2, <1>3, LiteralsAre DEF Char
  <1>5. ASSUME pos + 1 < Len(str) PROVE Escaped(pos + 2) <=> Char = "\\"
    <2>1. pos + 1 \in Nat /\ 1 <= pos + 1 /\ (pos + 1) + 1 = pos + 2
      BY <1>1
    <2>2. Escaped((pos + 1) + 1) <=> str[pos + 1] = "\\"
      BY <1>1, <1>3, <1>5, <2>1, NextCharacter
    <2>3. QED
      BY <2>1, <2>2 DEF Char
  <1>6. QED
    BY <1>1, <1>2, <1>3, <1>4, <1>5

(* A character that is not an escape character is read. *)
LEMMA ReadFurther ==
  ASSUME LexerInv, TextInv, state = "lexText", More(pos), Char # "\\",
         UNCHANGED <<str, start, escapeCharPositions, lexemes>>, pos' = pos + 1,
         state' \in {"lexText", "lexField", "lexTerm"},
         state' \in {"lexField", "lexTerm"} => pos + 1 \notin Literals,
         state' = "lexText" => pos + 1 \in Literals
  PROVE  TextInv'
  <1>1. /\ pos \in Nat /\ Len(str) \in Nat /\ start \in Nat /\ ReadUpTo(pos)
        /\ pos \notin escapeCharPositions
        /\ (pos + 1 < Len(str) => ~ Escaped(pos + 2))
    BY InText
  <1>2. (pos + 1) + 1 = pos + 2 /\ (pos + 1) - 1 = pos
    BY <1>1
  <1>3. (pos < Len(str) => ~ Escaped(pos + 1))'
    <2>1. pos + 1 < Len(str) => ~ Escaped((pos + 1) + 1)
      BY <1>1, <1>2
    <2>2. QED
      BY <2>1, SameText
  <1>4. (state \in {"lexField", "lexTerm"} => pos \notin Literals /\ ReadUpTo(pos - 1))'
    <2>1. ReadUpTo(pos - 1)'
      <3>1. \A i \in 1 .. Len(str) :
                start < i /\ i <= pos => (i \in Literals <=> i - 1 \notin escapeCharPositions)
        BY <1>1 DEF ReadUpTo
      <3>2. pos' - 1 = pos
        BY <1>2
      <3>3. QED
        BY <3>1, <3>2, SameText DEF ReadUpTo
    <2>2. QED
      BY <2>1, SameText
  <1>5. (state \in {"lexText", "lexEOS"} => ReadUpTo(pos))'
    <2>1. SUFFICES ASSUME state' = "lexText" PROVE ReadUpTo(pos)'
      OBVIOUS
    <2>2. ASSUME NEW i \in 1 .. Len(str), start < i, i <= pos + 1
          PROVE  i \in Literals <=> i - 1 \notin escapeCharPositions
      <3>1. CASE i <= pos
        BY <1>1, <2>2, <3>1 DEF ReadUpTo
      <3>2. CASE i = pos + 1
        BY <1>1, <1>2, <2>1, <3>2
      <3>3. QED
        BY <1>1, <2>2, <3>1, <3>2
    <2>3. QED
      BY <2>2, SameText DEF ReadUpTo
  <1>6. ReadSoFar'
    BY <1>3, <1>4, <1>5 DEF ReadSoFar
  <1>7. (CharactersOf(lexemes) = At(LiteralsUpTo(start)))'
    BY NothingLeftBehind
  <1>8. QED
    BY <1>6, <1>7 DEF TextInv, LexStates, ParseStates, Ended

LEMMA ReadFieldMarkKeepsText ==
  ASSUME LexerInv, TextInv, ReadFieldMark
  PROVE  TextInv'
  <1>1. /\ state = "lexText" /\ More(pos) /\ Char = ":" /\ pos' = pos + 1 /\ state' = "lexField"
        /\ UNCHANGED <<str, start, escapeCharPositions, lexemes>>
    BY DEF ReadFieldMark
  <1>2. pos + 1 \notin Literals
    BY <1>1, InText
  <1>3. QED
    BY <1>1, <1>2, ReadFurther

LEMMA ReadCharacterKeepsText ==
  ASSUME LexerInv, TextInv, ReadCharacter
  PROVE  TextInv'
  <1>1. /\ state = "lexText" /\ More(pos) /\ Char \notin {"\\", ":", "~", "^"} /\ pos' = pos + 1
        /\ state' = IF Char \in Separators THEN "lexTerm" ELSE "lexText"
        /\ UNCHANGED <<str, start, escapeCharPositions, lexemes>>
    BY DEF ReadCharacter
  <1>2. pos + 1 \in Literals <=> Char \notin Separators
    BY <1>1, InText
  <1>3. QED
    BY <1>1, <1>2, ReadFurther

(* The character after an escape character is part of the text. *)
LEMMA EscapeCharacterKeepsText ==
  ASSUME LexerInv, TextInv, EscapeCharacter
  PROVE  TextInv'
  <1>1. /\ state = "lexText" /\ More(pos) /\ Char = "\\" /\ pos' = pos + 2 /\ state' = "lexText"
        /\ UNCHANGED <<str, start, lexemes>>
        /\ escapeCharPositions' = escapeCharPositions \union {pos}
    BY DEF EscapeCharacter
  <1>2. /\ str \in Seq(STRING) /\ pos \in Nat /\ Len(str) \in Nat /\ start \in Nat /\ ReadUpTo(pos)
        /\ \A p \in escapeCharPositions : p \in Nat /\ p + 2 <= pos
        /\ pos + 1 \notin Literals
        /\ (pos + 1 < Len(str) => Escaped(pos + 2))
    BY <1>1, InText
  <1>3. ASSUME pos + 2 < Len(str) PROVE ~ Escaped(pos + 3)
    <2>1. pos + 3 \in 0 .. Len(str) /\ (pos + 3) - 1 = pos + 2 /\ pos + 1 < Len(str)
      BY <1>2, <1>3
    <2>2. Escaped(pos + 3) <=> pos + 3 > 1 /\ str[(pos + 3) - 1] = "\\" /\ ~ Escaped((pos + 3) - 1)
      BY <1>2, <2>1, EscapedFollows
    <2>3. QED
      BY <1>2, <2>1, <2>2
  <1>4. (pos < Len(str) => ~ Escaped(pos + 1))'
    <2>1. (pos + 2) + 1 = pos + 3
      BY <1>2
    <2>2. pos + 2 < Len(str) => ~ Escaped((pos + 2) + 1)
      BY <1>3, <2>1
    <2>3. QED
      BY <1>1, <2>2, SameText
  <1>5. ReadUpTo(pos)'
    <2>1. ASSUME NEW i \in 1 .. Len(str), start < i, i <= pos + 2
          PROVE  i \in Literals <=> i - 1 \notin escapeCharPositions \union {pos}
      <3>1. CASE i <= pos
        <4>1. i - 1 # pos
          BY <1>2, <3>1
        <4>2. QED
          BY <1>2, <2>1, <3>1, <4>1 DEF ReadUpTo
      <3>2. CASE i = pos + 1
        BY <1>2, <3>2
      <3>3. CASE i = pos + 2
        <4>1. i - 1 # pos /\ i - 1 \notin escapeCharPositions /\ pos + 1 < Len(str)
          BY <1>2, <3>3
        <4>2. i \in Literals
          BY <1>2, <3>3, <4>1, LiteralsAre
        <4>3. QED
          BY <4>1, <4>2
      <3>4. QED
        BY <1>2, <2>1, <3>1, <3>2, <3>3
    <2>2. QED
      BY <1>1, <2>1, SameText DEF ReadUpTo
  <1>6. ReadSoFar'
    BY <1>1, <1>4, <1>5 DEF ReadSoFar
  <1>7. (CharactersOf(lexemes) = At(LiteralsUpTo(start)))'
    BY <1>1, NothingLeftBehind
  <1>8. QED
    BY <1>1, <1>6, <1>7 DEF TextInv, LexStates, ParseStates, Ended

(* A lexer in lexText that has no lexeme begun has read nothing. *)
LEMMA BackInText ==
  ASSUME LexerInv, TextInv, str' = str, pos' \in Nat, start' = pos',
         state' \in {"lexText", "lexEditDistance", "lexBoost", "parseFieldOrTerm"},
         pos' < Len(str) => ~ Escaped(pos' + 1),
         state' \in {"lexEditDistance", "lexBoost"} => str[pos' + 1] \in {"~", "^"},
         state' = "parseFieldOrTerm" => Len(str) <= pos',
         (CharactersOf(lexemes) = At(LiteralsUpTo(start)))'
  PROVE  TextInv'
  <1>1. ReadUpTo(pos)'
    <2>1. \A i \in 1 .. Len(str) : ~ (start' < i /\ i <= pos')
      OBVIOUS
    <2>2. QED
      BY <2>1 DEF ReadUpTo
  <1>2. (pos < Len(str) => ~ Escaped(pos + 1))'
    BY SameText
  <1>3. state' # "parseFieldOrTerm" => ReadSoFar'
    BY <1>1, <1>2 DEF ReadSoFar
  <1>4. QED
    BY <1>3 DEF TextInv, LexStates, ParseStates, Ended

(* The mark of a field, the character before pos, is left out. *)
LEMMA LexFieldKeepsText ==
  ASSUME LexerInv, TextInv, LexField
  PROVE  TextInv'
  <1>1. /\ pos \in Nat /\ start \in Nat /\ start < pos /\ pos <= Len(str) /\ Len(str) \in Nat
    BY PartsOfOrder DEF LexField, PositionsInOrder, StateFits
  <1>2. pos - 1 \in Nat /\ start <= pos - 1 /\ (pos - 1) + 1 = pos
    BY <1>1
  <1>3. /\ state = "lexField" /\ str' = str /\ pos' = pos /\ start' = pos /\ state' = "lexText"
        /\ Emit("FIELD", pos - 1)
    BY <1>2 DEF LexField, Ignore
  <1>4. ReadSoFar
    BY <1>3 DEF TextInv, LexStates
  <1>5. pos \notin Literals /\ ReadUpTo(pos - 1) /\ (pos < Len(str) => ~ Escaped(pos + 1))
    BY <1>3, <1>4 DEF ReadSoFar
  <1>6. \A i \in Literals : i <= pos => i <= pos - 1
    <2>1. \A i \in Literals : i \in Nat
      BY DEF Literals
    <2>2. QED
      BY <1>1, <1>5, <2>1
  <1>7. (CharactersOf(lexemes) = At(LiteralsUpTo(start)))'
    <2>1. pos - 1 <= start' /\ start' \in Nat
      BY <1>1, <1>3
    <2>2. QED
      BY <1>2, <1>3, <1>5, <1>6, <2>1, EmitAddsLiterals
  <1>8. QED
    BY <1>1, <1>3, <1>5, <1>7, BackInText

(* A separator is left out, and ends the term before it if there is one. *)
LEMMA LexTermKeepsText ==
  ASSUME LexerInv, TextInv, LexTerm
  PROVE  TextInv'
  <1>1. /\ pos \in Nat /\ start \in Nat /\ start < pos /\ pos <= Len(str) /\ Len(str) \in Nat
    BY PartsOfOrder DEF LexTerm, PositionsInOrder, StateFits
  <1>2. pos - 1 \in Nat /\ start <= pos - 1 /\ (pos - 1) + 1 = pos
    BY <1>1
  <1>3. /\ state = "lexTerm" /\ str' = str /\ pos' = pos /\ start' = pos
        /\ state' = IF pos < Len(str) THEN "lexText" ELSE "parseFieldOrTerm"
    BY <1>1, <1>2 DEF LexTerm, Ignore, More
  <1>4. ReadSoFar
    BY <1>3 DEF TextInv, LexStates
  <1>5. pos \notin Literals /\ ReadUpTo(pos - 1) /\ (pos < Len(str) => ~ Escaped(pos + 1))
    BY <1>3, <1>4 DEF ReadSoFar
  <1>6. \A i \in Literals : i \in Nat
    BY DEF Literals
  <1>7. (CharactersOf(lexemes) = At(LiteralsUpTo(start)))'
    <2>1. CASE pos - start > 1
      <3>1. Emit("TERM", pos - 1)
        BY <2>1 DEF LexTerm
      <3>2. \A i \in Literals : i <= pos => i <= pos - 1
        BY <1>1, <1>5, <1>6
      <3>3. pos - 1 <= start' /\ start' \in Nat
        BY <1>1, <1>3
      <3>4. QED
        BY <1>2, <1>3, <1>5, <3>1, <3>2, <3>3, EmitAddsLiterals
    <2>2. CASE ~ (pos - start > 1)
      <3>1. lexemes' = lexemes
        BY <2>2 DEF LexTerm
      <3>2. pos = start + 1
        BY <1>1, <2>2
      <3>3. \A i \in Literals : i <= start' <=> i <= start
        BY <1>1, <1>3, <1>5, <1>6, <3>2
      <3>4. QED
        BY <1>3, <3>1, <3>3, NothingLeftBehind
    <2>3. QED
      BY <2>1, <2>2
  <1>8. QED
    BY <1>1, <1>3, <1>5, <1>7, BackInText

(* The term in front of an operator has all literals before the operator.  *)
LEMMA ReadOperatorKeepsText ==
  ASSUME LexerInv, TextInv, ReadOperator
  PROVE  TextInv'
  <1>1. /\ state = "lexText" /\ More(pos) /\ Char \in {"~", "^"} /\ str' = str /\ pos' = pos
        /\ state' \in {"lexEditDistance", "lexBoost"}
    BY DEF ReadOperator
  <1>2. /\ str \in Seq(STRING) /\ pos \in Nat /\ Len(str) \in Nat /\ start \in Nat /\ start <= pos
        /\ ReadUpTo(pos) /\ ~ Escaped(pos + 1)
    BY <1>1, InText
  <1>3. start' = pos
    BY <1>2 DEF ReadOperator
  <1>4. (CharactersOf(lexemes) = At(LiteralsUpTo(start)))'
    <2>1. CASE pos > start
      <3>1. Emit("TERM", pos)
        BY <2>1 DEF ReadOperator
      <3>2. pos <= start' /\ start' \in Nat /\ \A i \in Literals : i <= start' => i <= pos
        BY <1>2, <1>3
      <3>3. QED
        BY <1>1, <1>2, <3>1, <3>2, EmitAddsLiterals
    <2>2. CASE ~ (pos > start)
      <3>1. lexemes' = lexemes /\ start' = start
        BY <2>2 DEF ReadOperator
      <3>2. QED
        BY <1>1, <3>1, NothingLeftBehind
    <2>3. QED
      BY <2>1, <2>2
  <1>5. pos' \in Nat /\ start' = pos' /\ str[pos' + 1] \in {"~", "^"} /\ ~ Escaped(pos' + 1)
    BY <1>1, <1>2, <1>3 DEF Char
  <1>6. QED
    BY <1>1, <1>4, <1>5, BackInText

(* The last term has the literals left. *)
LEMMA LexEOSKeepsText ==
  ASSUME LexerInv, TextInv, LexEOS
  PROVE  TextInv'
  <1>1. state = "lexEOS" /\ str' = str /\ pos' = pos /\ state' = "parseFieldOrTerm"
    BY DEF LexEOS
  <1>2. /\ str \in Seq(STRING) /\ pos \in Nat /\ Len(str) \in Nat /\ start \in Nat /\ start <= pos
    BY PartsOfOrder DEF PositionsInOrder
  <1>3. ReadSoFar
    BY <1>1 DEF TextInv, LexStates
  <1>4. ReadUpTo(pos) /\ Len(str) <= pos
    BY <1>1, <1>3 DEF ReadSoFar
  <1>5. start' = pos
    BY <1>2 DEF LexEOS
  <1>6. (CharactersOf(lexemes) = At(LiteralsUpTo(start)))'
    <2>1. CASE pos > start
      <3>1. Emit("TERM", pos)
        BY <2>1 DEF LexEOS
      <3>2. pos <= start' /\ start' \in Nat /\ \A i \in Literals : i <= start' => i <= pos
        BY <1>2, <1>5
      <3>3. QED
        BY <1>1, <1>2, <1>4, <3>1, <3>2, EmitAddsLiterals
    <2>2. CASE ~ (pos > start)
      <3>1. lexemes' = lexemes /\ start' = start
        BY <2>2 DEF LexEOS
      <3>2. QED
        BY <1>1, <3>1, NothingLeftBehind
    <2>3. QED
      BY <2>1, <2>2
  <1>7. QED
    BY <1>1, <1>2, <1>4, <1>5, <1>6, BackInText

(* A digit is a literal wherever it stands. *)
LEMMA DigitsAreLiterals ==
  ASSUME NEW i \in 1 .. Len(str), str[i] \in DOMAIN DigitValue
  PROVE  i \in Literals /\ str[i] # "\\"
  <1>1. str[i] \notin Separators
    BY SeparatorsAssumption
  <1>2. str[i] \notin {"\\", ":", "~", "^"}
    BY DEF DigitValue
  <1>3. QED
    BY <1>1, <1>2, LiteralsAre

(* The operator is left out, and its number has the digits that follow.    *)
LEMMA LexNumberKeepsText ==
  ASSUME LexerInv, TextInv, state \in {"lexEditDistance", "lexBoost"},
         NEW type \in {"EDIT_DISTANCE", "BOOST"}, LexNumber(type)
  PROVE  TextInv'
  <1>1. pos \in Nat /\ start = pos /\ pos < Len(str) /\ Len(str) \in Nat /\ str \in Seq(STRING)
    BY PartsOfOrder DEF PositionsInOrder, StateFits
  <1>2. Ignore(start, pos) = pos + 1 /\ (pos + 1) + 1 = pos + 2
    BY <1>1 DEF Ignore
  <1>3. pos' = DigitRunEnd(pos + 1) /\ start' = pos' /\ str' = str /\ state' = "lexText"
    BY <1>2 DEF LexNumber
  <1>4. /\ pos' \in (pos + 1) .. Len(str)
        /\ \A q \in (pos + 1) .. (pos' - 1) : str[q + 1] \in DOMAIN DigitValue
    <2>1. pos + 1 \in Nat /\ pos + 1 <= Len(str)
      BY <1>1
    <2>2. /\ DigitRunEnd(pos + 1) \in (pos + 1) .. Len(str)
          /\ \A q \in (pos + 1) .. (DigitRunEnd(pos + 1) - 1) : str[q + 1] \in DOMAIN DigitValue
      BY <1>1, <2>1, DigitRunEnds
    <2>3. QED
      BY <1>3, <2>2
  <1>5. pos' \in Nat /\ pos + 1 <= pos' /\ pos' <= Len(str)
    BY <1>1, <1>4
  <1>6. ReadSoFar
    BY DEF TextInv, LexStates
  <1>7. ~ Escaped(pos + 1) /\ str[pos + 1] \in {"~", "^"}
    BY <1>1, <1>6 DEF ReadSoFar
  <1>8. pos + 1 \in 1 .. Len(str) /\ pos + 1 \notin Literals
    BY <1>1, <1>7, LiteralsAre
  <1>9. ASSUME NEW i \in (pos + 2) .. pos'
        PROVE  i \in 1 .. Len(str) /\ i \in Literals /\ str[i] # "\\"
    <2>1. PICK e \in Nat : e = pos'
      BY <1>5
    <2>2. pos + 1 <= e /\ e <= Len(str) /\ i \in (pos + 2) .. e
      BY <1>5, <2>1
    <2>3. i \in 1 .. Len(str) /\ i - 1 \in (pos + 1) .. (e - 1) /\ (i - 1) + 1 = i
      <3>1. ASSUME NEW n \in Nat, NEW p \in Nat, e <= n, NEW j \in (p + 2) .. e
            PROVE  j \in 1 .. n /\ j - 1 \in (p + 1) .. (e - 1) /\ (j - 1) + 1 = j
        BY <3>1
      <3>2. QED
        BY <1>1, <2>2, <3>1
    <2>4. str[i] \in DOMAIN DigitValue
      <3>1. \A q \in (pos + 1) .. (e - 1) : str[q + 1] \in DOMAIN DigitValue
        BY <1>4, <2>1
      <3>2. QED
        BY <2>3, <3>1
    <2>5. QED
      BY <2>3, <2>4, DigitsAreLiterals
  <1>10. {i \in Literals : start < i /\ i <= pos'} = (pos + 2) .. pos'
    <2>1. ASSUME NEW i \in Literals, start < i, i <= pos' PROVE i \in (pos + 2) .. pos'
      <3>1. i \in Nat /\ i # pos + 1
        BY <1>8 DEF Literals
      <3>2. QED
        BY <1>1, <1>5, <2>1, <3>1
    <2>2. ASSUME NEW i \in (pos + 2) .. pos' PROVE i \in Literals /\ start < i /\ i <= pos'
      BY <1>1, <1>5, <1>9, <2>2
    <2>3. QED
      BY <2>1, <2>2
  <1> DEFINE s == SubSeq(str, pos + 2, pos')
             x == [type |-> type, str |-> s, start |-> pos + 1, end |-> pos']
  <1>11. s = At((pos + 2) .. pos')
    <2>1. pos + 1 \in Nat
      BY <1>1
    <2>2. SubSeq(str, (pos + 1) + 1, pos') = At(((pos + 1) + 1) .. pos')
      BY <1>1, <1>5, <2>1, RunIsAt
    <2>3. QED
      BY <1>2, <2>2
  <1>12. s \in Seq(STRING)
    <2>1. (pos + 2) .. pos' \subseteq 1 .. Len(str)
      BY <1>1, <1>5
    <2> HIDE DEF s
    <2>2. QED
      BY <1>1, <1>11, <2>1, AtIsString
  <1>13. lexemes' = Append(lexemes, x)
    BY <1>2, <1>3 DEF LexNumber
  <1> HIDE DEF s
  <1>14. x \in Lexeme /\ x.str = s
    BY <1>1, <1>5, <1>12 DEF Lexeme
  <1> HIDE DEF x
  <1>15. x.str = At({i \in Literals : start < i /\ i <= start'})
    BY <1>3, <1>10, <1>11, <1>14
  <1>16. (CharactersOf(lexemes) = At(LiteralsUpTo(start)))'
    <2>1. start' \in Nat /\ start <= start'
      BY <1>1, <1>3, <1>5
    <2>2. QED
      BY <1>3, <1>13, <1>14, <1>15, <2>1, LiteralsAdded
  <1>17. pos' < Len(str) => ~ Escaped(pos' + 1)
    <2>1. str[pos'] # "\\"
      <3>1. CASE pos' = pos + 1
        BY <1>7, <3>1
      <3>2. CASE pos' # pos + 1
        <4>1. pos' \in (pos + 2) .. pos'
          BY <1>1, <1>5, <3>2
        <4>2. QED
          BY <1>9, <4>1
      <3>3. QED
        BY <3>1, <3>2
    <2>2. SUFFICES ASSUME pos' < Len(str) PROVE ~ Escaped(pos' + 1)
      OBVIOUS
    <2>3. pos' + 1 \in 0 .. Len(str) /\ (pos' + 1) - 1 = pos'
      <3>1. \A e \in Nat : e < Len(str) => e + 1 \in 0 .. Len(str) /\ (e + 1) - 1 = e
        BY <1>1
      <3>2. QED
        BY <1>5, <2>2, <3>1
    <2>4. Escaped(pos' + 1) => str[(pos' + 1) - 1] = "\\"
      BY <1>1, <2>3, EscapedFollows
    <2>5. QED
      BY <2>1, <2>3, <2>4
  <1>18. QED
    BY <1>3, <1>5, <1>16, <1>17, BackInText

LEMMA ParserKeepsText ==
  ASSUME LexerInv, TextInv, state \in ParseStates, UNCHANGED <<str, lexer>>,
         state' \in ParseStates \union Ended
  PROVE  TextInv'
  <1>1. str' = str /\ start' = start /\ lexemes' = lexemes /\ Len(str) <= start
    BY DEF lexer, TextInv
  <1>2. (CharactersOf(lexemes) = At(LiteralsUpTo(start)))'
    BY <1>1, NothingLeftBehind
  <1>3. state' \notin LexStates
    BY DEF LexStates, ParseStates, Ended
  <1>4. QED
    BY <1>1, <1>2, <1>3 DEF TextInv

LEMMA TextInvStep == LexerInv /\ TextInv /\ [QueryNext]_queryVars => TextInv'
  <1> SUFFICES ASSUME LexerInv, TextInv, [QueryNext]_queryVars PROVE TextInv'
    OBVIOUS
  <1>1. CASE LexTextEnds
    BY <1>1, LexTextEndsKeepsText
  <1>2. CASE EscapeCharacter
    BY <1>2, EscapeCharacterKeepsText
  <1>3. CASE ReadFieldMark
    BY <1>3, ReadFieldMarkKeepsText
  <1>4. CASE ReadOperator
    BY <1>4, ReadOperatorKeepsText
  <1>5. CASE ReadCharacter
    BY <1>5, ReadCharacterKeepsText
  <1>6. CASE LexField
    BY <1>6, LexFieldKeepsText
  <1>7. CASE LexTerm
    BY <1>7, LexTermKeepsText
  <1>8. CASE LexEditDistance
    BY <1>8, LexNumberKeepsText DEF LexEditDistance
  <1>9. CASE LexBoost
    BY <1>9, LexNumberKeepsText DEF LexBoost
  <1>10. CASE LexEOS
    BY <1>10, LexEOSKeepsText
  <1>11. CASE ParserReads
    BY <1>11, ParserReadsOnly, ParserKeepsText
  <1>12. CASE UNCHANGED queryVars
    <2>1. str' = str /\ start' = start /\ lexemes' = lexemes /\ state' = state
      BY <1>12 DEF queryVars, lexer
    <2>2. (CharactersOf(lexemes) = At(LiteralsUpTo(start)))'
      BY <2>1, NothingLeftBehind
    <2>3. pos' = pos /\ escapeCharPositions' = escapeCharPositions
      BY <1>12 DEF queryVars, lexer
    <2>4. ReadSoFar => ReadSoFar'
      BY <2>1, <2>3, SameText DEF ReadSoFar, ReadUpTo
    <2>5. QED
      BY <2>1, <2>2, <2>4 DEF TextInv
  <1>13. QED
    BY <1>1, <1>2, <1>3, <1>4, <1>5, <1>6, <1>7, <1>8, <1>9, <1>10, <1>11, <1>12
       DEF QueryNext, ParserReads

(* The lexemes of every string have its characters, without separators,    *)
(* operators and escape characters, each once and in its place             *)
(* (QueryLexer.emit, ignore, backup, sliceString).                         *)
THEOREM LiteralsStay == QuerySpec => []LiteralsKept
  <1>1. LexerInv /\ TextInv => LiteralsKept
    <2> SUFFICES ASSUME LexerInv, TextInv, state \in ParseStates \union Ended
                 PROVE  CharactersOf(lexemes) = At(Literals)
      BY DEF LiteralsKept, At, Nth
    <2>1. Len(str) <= start /\ start \in Nat /\ Len(str) \in Nat
      BY PartsOfOrder DEF TextInv, PositionsInOrder
    <2>2. LiteralsUpTo(start) = Literals
      <3>1. \A i \in Literals : i \in 1 .. Len(str)
        BY DEF Literals
      <3>2. \A i \in Literals : i <= start
        BY <2>1, <3>1
      <3>3. QED
        BY <3>2 DEF LiteralsUpTo
    <2>3. QED
      BY <2>2 DEF TextInv
  <1>2. QueryInit => LexerInv /\ TextInv
    BY LexerInvInit, TextInvInit
  <1>3. LexerInv /\ TextInv /\ [QueryNext]_queryVars => (LexerInv /\ TextInv)'
    BY LexerInvStep, TextInvStep
  <1>4. QED
    BY <1>1, <1>2, <1>3, PTL DEF QuerySpec

-----------------------------------------------------------------------------
(* DocumentationSearch. *)

USE HitsAssumption DEF HitsAssumption

-----------------------------------------------------------------------------
(* The invariant.                                                          *)

Posted == [q : Long, key : Nat]
IsReady == [e |-> "index-ready"]
Answered == [e : {"query-ready"}, key : Nat, d : Seq(Nat)]
Handler == [key : Nat, d : Seq(Nat)]

TypeOK ==
    /\ query \in Long \cup Short \cup {NoQuery}
    /\ shown \in {"results", "contents"}
    /\ keyHandlers \in Nat /\ keys \in Nat
    /\ queryReadyBound \in BOOLEAN /\ lunrIndex \in BOOLEAN
    /\ pageHandlers \in Seq(Handler)
    /\ pagination \in [totalPages : Nat, current : Nat]
    /\ items \in Items \cup {NoItems}
    /\ toWorker \in Seq(Posted)
    /\ toPage \in Seq(Answered \cup {IsReady})

(* The page is told once that the index is ready, and nothing is posted or *)
(* answered before.                                                        *)
BeforeReady ==
    /\ ~ queryReadyBound =>
           /\ toWorker = <<>> /\ items = NoItems /\ pagination = NoPages
           /\ toPage = <<>> \/ toPage = <<IsReady>>
    /\ queryReadyBound => \A i \in DOMAIN toPage : toPage[i] \in Answered
    /\ searchData = "loading" => ~ queryReadyBound /\ toPage = <<>>

(* A key's query passes through the worker and back without being overtaken. *)
InOrder ==
    /\ \A i, j \in DOMAIN toWorker : i < j => toWorker[i].key <= toWorker[j].key
    /\ \A i \in DOMAIN toWorker : toWorker[i].key <= keys
    /\ queryReadyBound =>
           /\ \A i, j \in DOMAIN toPage : i < j => toPage[i].key <= toPage[j].key
           /\ \A i \in DOMAIN toPage : toPage[i].key <= keys
           /\ \A i \in DOMAIN toPage, j \in DOMAIN toWorker : toPage[i].key <= toWorker[j].key
    /\ items # NoItems =>
           /\ items.key <= keys
           /\ \A i \in DOMAIN toPage : items.key <= toPage[i].key
           /\ \A i \in DOMAIN toWorker : items.key <= toWorker[i].key

(* While there are pages, the items are one of the newest handler's. *)
NewestShown ==
    pagination # NoPages =>
        /\ pageHandlers # <<>> /\ items # NoItems
        /\ LET newest == pageHandlers[Len(pageHandlers)] IN
           /\ items.key = newest.key
           /\ items.hits = PageOf(newest.d, pagination.current)
           /\ newest.d # <<>> /\ pagination.totalPages = TotalPages(newest.d)
           /\ items.key = keys => newest.d = HitsOf[query]

(* What carries the number of the last key belongs to the query in the box. *)
OfTheQuery ==
    /\ \A i \in DOMAIN toWorker : toWorker[i].key = keys => toWorker[i].q = query
    /\ queryReadyBound => \A i \in DOMAIN toPage :
           toPage[i].key = keys => query \in Long \ Refused /\ toPage[i].d = HitsOf[query]
    /\ items # NoItems /\ items.key = keys =>
           /\ query \in Long \ Refused
           /\ HitsOf[query] = <<>> => items.hits = <<>> /\ pagination = NoPages
           /\ HitsOf[query] # <<>> => pagination # NoPages /\ items.links = query
    /\ shown = "results" => query \in Long /\ heading = query

(* The query in the box is on its way or answered, with the exceptions of  *)
(* ResultsAnswerTheQuery.                                                  *)
NotForgotten ==
    queryReadyBound /\ shown = "results" /\ query \notin Refused /\ keys \notin lost =>
        \/ \E i \in DOMAIN toWorker : toWorker[i].key = keys
        \/ \E i \in DOMAIN toPage : toPage[i].key = keys
        \/ items # NoItems /\ items.key = keys

SearchInv == TypeOK /\ BeforeReady /\ InOrder /\ NewestShown /\ OfTheQuery /\ NotForgotten

-----------------------------------------------------------------------------
(* Pages and page events.                                                  *)

(* The handlers run from the oldest to the newest, and the newest is the   *)
(* one whose page stays.                                                   *)
LEMMA NewestHandlerWins ==
    ASSUME NEW handlers \in Seq(Handler), handlers # <<>>, NEW page \in Nat
    PROVE  TriggerPage(handlers, page)
             = [key |-> handlers[Len(handlers)].key,
                hits |-> PageOf(handlers[Len(handlers)].d, page), links |-> query]
<1> DEFINE Shows(h) == [key |-> h.key, hits |-> PageOf(h.d, page), links |-> query]
           Step[S \in SUBSET DOMAIN handlers] ==
               IF S = {} THEN items ELSE Shows(handlers[Max(S)])
<1>1. TriggerPage(handlers, page) = Step[DOMAIN handlers]
  BY DEF TriggerPage, FoldLeft, MapThenFoldSet
<1>2. DOMAIN handlers = 1 .. Len(handlers) /\ Len(handlers) \in Nat \ {0}
  BY EmptySeq, LenProperties
<1>3. Max(1 .. Len(handlers)) = Len(handlers)
  BY <1>2 DEF Max
<1> QED BY <1>1, <1>2, <1>3

LEMMA Quotient ==
    ASSUME NEW a \in Nat, NEW b \in Nat \ {0}
    PROVE  a \div b \in Nat /\ (a \div b) * b <= a /\ a < (a \div b) * b + b
BY SMT

LEMMA PagesOfHits ==
    ASSUME NEW hits \in Seq(Nat), hits # <<>>
    PROVE  /\ TotalPages(hits) \in Nat \ {0}
           /\ Len(hits) <= TotalPages(hits) * NumPerPage
           /\ (TotalPages(hits) - 1) * NumPerPage < Len(hits)
<1> DEFINE n == Len(hits)
           t == (n + NumPerPage - 1) \div NumPerPage
<1>1. n \in Nat \ {0}
  BY EmptySeq, LenProperties
<1> HIDE DEF n
<1>2. n + NumPerPage - 1 \in Nat
  BY <1>1
<1>3. /\ t \in Nat
      /\ t * NumPerPage <= n + NumPerPage - 1
      /\ n + NumPerPage - 1 < t * NumPerPage + NumPerPage
  BY <1>2, Quotient
<1> HIDE DEF t
<1>4. t # 0
  BY <1>1, <1>3
<1>5. n <= t * NumPerPage
  BY <1>1, <1>3
<1>6. (t - 1) * NumPerPage = t * NumPerPage - NumPerPage
  BY <1>3, SMTT(60)
<1>7. (t - 1) * NumPerPage < n
  BY <1>1, <1>3, <1>6
<1>8. TotalPages(hits) = t
  BY DEF t, n, TotalPages
<1> QED BY <1>3, <1>4, <1>5, <1>7, <1>8 DEF n

LEMMA NoPageIsEmpty ==
    ASSUME NEW hits \in Seq(Nat), hits # <<>>, NEW p \in 1 .. TotalPages(hits)
    PROVE  PageOf(hits, p) \in Seq(Nat) /\ PageOf(hits, p) # <<>>
<1> DEFINE n == Len(hits)
           first == (p - 1) * NumPerPage
           end == first + NumPerPage
           last == IF end < n THEN end ELSE n
<1>1. n \in Nat \ {0}
  BY EmptySeq, LenProperties
<1>2. TotalPages(hits) \in Nat \ {0} /\ (TotalPages(hits) - 1) * NumPerPage < n
  BY PagesOfHits
<1>3. p - 1 \in Nat /\ p - 1 <= TotalPages(hits) - 1
  BY <1>2
<1>4. first \in Nat /\ first <= (TotalPages(hits) - 1) * NumPerPage
  BY <1>2, <1>3, SMTT(60)
<1> HIDE DEF first, n
<1>5. first < n
  BY <1>1, <1>2, <1>4
<1>6. last \in 1 .. n /\ first + 1 <= last
  BY <1>1, <1>4, <1>5
<1>7. last \in 1 .. Len(hits) /\ first + 1 \in 1 .. Len(hits) /\ first + 1 <= last
  BY <1>1, <1>4, <1>6 DEF n
<1> HIDE DEF last
<1>8. SubSeq(hits, first + 1, last) \in Seq(Nat) /\ Len(SubSeq(hits, first + 1, last)) > 0
  BY <1>7
<1>9. PageOf(hits, p) = SubSeq(hits, first + 1, last)
  BY DEF PageOf, first, last, end, n
<1> QED BY <1>8, <1>9
-----------------------------------------------------------------------------
(* Queues of messages.                                                     *)

LEMMA TailOfQueue ==
    ASSUME NEW S, NEW queue \in Seq(S), queue # <<>>
    PROVE  /\ 1 \in DOMAIN queue /\ Head(queue) = queue[1] /\ Head(queue) \in S
           /\ Tail(queue) \in Seq(S)
           /\ \A i \in DOMAIN Tail(queue) :
                  i + 1 \in DOMAIN queue /\ Tail(queue)[i] = queue[i + 1]
           /\ \A i \in DOMAIN queue : i = 1 \/ i - 1 \in DOMAIN Tail(queue)
           /\ DOMAIN Tail(queue) \subseteq Nat \ {0} /\ DOMAIN queue \subseteq Nat \ {0}
<1>1. Len(queue) \in Nat \ {0} /\ DOMAIN queue = 1 .. Len(queue)
  BY EmptySeq, LenProperties
<1>2. /\ Head(queue) = queue[1] /\ Head(queue) \in S /\ Tail(queue) \in Seq(S)
      /\ Len(Tail(queue)) = Len(queue) - 1
      /\ \A i \in 1 .. Len(Tail(queue)) : Tail(queue)[i] = queue[i + 1]
  BY HeadTailProperties
<1>3. DOMAIN Tail(queue) = 1 .. Len(queue) - 1
  BY <1>2, LenProperties
<1> QED BY <1>1, <1>2, <1>3

LEMMA AppendToQueue ==
    ASSUME NEW S, NEW queue \in Seq(S), NEW e \in S
    PROVE  /\ Append(queue, e) \in Seq(S)
           /\ \A i \in DOMAIN Append(queue, e) :
                  \/ i \in DOMAIN queue /\ Append(queue, e)[i] = queue[i]
                  \/ i = Len(queue) + 1 /\ Append(queue, e)[i] = e
           /\ DOMAIN queue \subseteq DOMAIN Append(queue, e)
           /\ \A i \in DOMAIN queue : Append(queue, e)[i] = queue[i] /\ i <= Len(queue)
           /\ Len(queue) + 1 \in DOMAIN Append(queue, e)
           /\ Append(queue, e)[Len(queue) + 1] = e
           /\ Len(Append(queue, e)) = Len(queue) + 1
           /\ Len(queue) \in Nat /\ DOMAIN queue \subseteq Nat
<1>1. Len(queue) \in Nat /\ DOMAIN queue = 1 .. Len(queue)
  BY LenProperties
<1>2. /\ Append(queue, e) \in Seq(S)
      /\ Len(Append(queue, e)) = Len(queue) + 1
      /\ \A i \in 1 .. Len(queue) : Append(queue, e)[i] = queue[i]
      /\ Append(queue, e)[Len(queue) + 1] = e
  BY AppendProperties
<1>3. DOMAIN Append(queue, e) = 1 .. Len(queue) + 1
  BY <1>2, LenProperties
<1> QED BY <1>1, <1>2, <1>3

-----------------------------------------------------------------------------
(* Every step keeps the invariant.                                         *)

LEMMA InitSearch == Init => SearchInv
<1> SUFFICES ASSUME Init PROVE SearchInv
  OBVIOUS
<1>1. TypeOK
  <2>1. /\ pageHandlers \in Seq(Handler) /\ toWorker \in Seq(Posted)
        /\ toPage \in Seq(Answered \cup {IsReady})
    BY EmptySeq DEF Init
  <2>2. pagination \in [totalPages : Nat, current : Nat]
    BY DEF Init, NoPages
  <2>3. /\ query \in Long \cup Short \cup {NoQuery} /\ shown \in {"results", "contents"}
        /\ keyHandlers \in Nat /\ keys \in Nat /\ items \in Items \cup {NoItems}
    BY DEF Init
  <2>4. queryReadyBound \in BOOLEAN /\ lunrIndex \in BOOLEAN
    BY DEF Init
  <2> QED BY <2>1, <2>2, <2>3, <2>4 DEF TypeOK
<1>2. DOMAIN toWorker = {} /\ DOMAIN toPage = {}
  BY DEF Init
<1>3. BeforeReady
  BY <1>2 DEF Init, BeforeReady
<1>4. InOrder
  BY <1>2 DEF Init, InOrder
<1>5. NewestShown
  BY DEF Init, NewestShown
<1>6. OfTheQuery
  BY <1>2 DEF Init, OfTheQuery
<1>7. NotForgotten
  BY DEF Init, NotForgotten
<1> QED BY <1>1, <1>3, <1>4, <1>5, <1>6, <1>7 DEF SearchInv

LEMMA StopWordsKeep == SearchInv /\ StopWordsArrive => SearchInv'
<1> SUFFICES ASSUME SearchInv, StopWordsArrive PROVE SearchInv'
  OBVIOUS
<1> USE DEF SearchInv, StopWordsArrive, BuildIndex, pageVars
<1>1. TypeOK'
  BY DEF TypeOK
<1>2. BeforeReady'
  BY DEF BeforeReady
<1>3. InOrder'
  BY DEF InOrder
<1>4. NewestShown'
  BY DEF NewestShown
<1>5. OfTheQuery'
  BY DEF OfTheQuery
<1>6. NotForgotten'
  BY DEF NotForgotten
<1> QED BY <1>1, <1>2, <1>3, <1>4, <1>5, <1>6

LEMMA NavbarKeeps == SearchInv /\ NavbarArrives => SearchInv'
<1> SUFFICES ASSUME SearchInv, NavbarArrives PROVE SearchInv'
  OBVIOUS
<1> USE DEF SearchInv, NavbarArrives, ShowSearch, workerVars
<1>1. TypeOK'
  BY DEF TypeOK
<1>2. BeforeReady'
  BY DEF BeforeReady
<1>3. InOrder'
  BY DEF InOrder
<1>4. NewestShown'
  BY DEF NewestShown
<1>5. OfTheQuery'
  BY DEF OfTheQuery
<1>6. NotForgotten'
  BY DEF NotForgotten
<1> QED BY <1>1, <1>2, <1>3, <1>4, <1>5, <1>6

LEMMA SearchDataKeep == SearchInv /\ SearchDataArrive => SearchInv'
<1> SUFFICES ASSUME SearchInv, SearchDataArrive PROVE SearchInv'
  OBVIOUS
<1> USE DEF SearchInv
<1>1. searchData = "loading" /\ ~ queryReadyBound /\ toPage = <<>>
  BY DEF SearchDataArrive, BeforeReady
<1>2. /\ searchData' # "loading"
      /\ toPage' = <<>> \/ toPage' = <<IsReady>>
      /\ UNCHANGED <<pageVars, toWorker, keys, lost>>
      /\ lunrIndex' \in BOOLEAN
  <2>1. searchData' # "loading" /\ UNCHANGED <<pageVars, toWorker, keys, lost>>
    BY DEF SearchDataArrive
  <2>2. Append(toPage, IsReady) = <<IsReady>>
    BY <1>1
  <2>3. toPage' = <<>> \/ toPage' = <<IsReady>>
    BY <1>1, <2>2 DEF SearchDataArrive, IsReady
  <2>4. lunrIndex' \in BOOLEAN
    <3>1. lunrIndex \in BOOLEAN
      BY DEF TypeOK
    <3>2. CASE UNCHANGED lunrIndex
      BY <3>1, <3>2
    <3>3. CASE \E data \in {"loaded", "empty"} : BuildIndex(stopWords, data)
      BY <3>3 DEF BuildIndex
    <3> QED BY <3>2, <3>3 DEF SearchDataArrive
  <2> QED BY <2>1, <2>3, <2>4
<1>3. ~ queryReadyBound'
  BY <1>1, <1>2 DEF pageVars
<1>4. toWorker' = <<>> /\ items' = NoItems /\ pagination' = NoPages
  BY <1>1, <1>2 DEF BeforeReady, pageVars
<1>5. TypeOK'
  <2>1. <<>> \in Seq(Answered \cup {IsReady}) /\ <<IsReady>> \in Seq(Answered \cup {IsReady})
    <3>1. IsReady \in Answered \cup {IsReady}
      OBVIOUS
    <3> HIDE DEF IsReady
    <3> QED BY <3>1
  <2>2. toPage' \in Seq(Answered \cup {IsReady})
    BY <1>2, <2>1
  <2> QED BY <1>2, <2>2 DEF TypeOK, pageVars
<1>6. BeforeReady'
  BY <1>2, <1>3, <1>4 DEF BeforeReady
<1>7. InOrder'
  BY <1>3, <1>4 DEF InOrder
<1>8. NewestShown'
  BY <1>4 DEF NewestShown
<1>9. OfTheQuery'
  BY <1>2, <1>3, <1>4 DEF OfTheQuery, pageVars
<1>10. NotForgotten'
  BY <1>3 DEF NotForgotten
<1> QED BY <1>5, <1>6, <1>7, <1>8, <1>9, <1>10

LEMMA WorkerKeeps == SearchInv /\ WorkerOnMessage => SearchInv'
<1> SUFFICES ASSUME SearchInv, WorkerOnMessage PROVE SearchInv'
  OBVIOUS
<1> USE DEF SearchInv
<1> DEFINE m == Head(toWorker)
           answer == [e |-> "query-ready", key |-> m.key, d |-> HitsOf[m.q]]
           Messages == Answered \cup {IsReady}
<1>1. /\ toWorker \in Seq(Posted) /\ toWorker # <<>> /\ toWorker' = Tail(toWorker)
      /\ toPage \in Seq(Messages)
      /\ UNCHANGED <<pageVars, workerVars, keys>>
  BY DEF WorkerOnMessage, TypeOK
<1>2. /\ 1 \in DOMAIN toWorker /\ m = toWorker[1] /\ m \in Posted
      /\ toWorker' \in Seq(Posted)
      /\ \A i \in DOMAIN toWorker' : i + 1 \in DOMAIN toWorker /\ toWorker'[i] = toWorker[i + 1]
      /\ \A i \in DOMAIN toWorker : i = 1 \/ i - 1 \in DOMAIN toWorker'
      /\ DOMAIN toWorker' \subseteq Nat \ {0} /\ DOMAIN toWorker \subseteq Nat \ {0}
  BY <1>1, TailOfQueue
<1>3. m.q \in Long /\ m.key \in Nat
  BY <1>2 DEF Posted
<1>4. queryReadyBound /\ searchData # "loading"
  BY <1>1 DEF BeforeReady
<1>5. /\ \A i, j \in DOMAIN toWorker' : i < j => toWorker'[i].key <= toWorker'[j].key
      /\ \A i \in DOMAIN toWorker' : toWorker'[i].key <= keys
  <2>1. ASSUME NEW i \in DOMAIN toWorker', NEW j \in DOMAIN toWorker', i < j
        PROVE  toWorker'[i].key <= toWorker'[j].key
    <3>1. i + 1 \in DOMAIN toWorker /\ j + 1 \in DOMAIN toWorker /\ i + 1 < j + 1
      BY <1>2, <2>1
    <3>2. toWorker[i + 1].key <= toWorker[j + 1].key
      BY <3>1 DEF InOrder
    <3> QED BY <1>2, <3>2
  <2>2. \A i \in DOMAIN toWorker' : toWorker'[i].key <= keys
    BY <1>2 DEF InOrder
  <2> QED BY <2>1, <2>2
<1>6. CASE lunrIndex /\ m.q \notin Refused
  <2>1. toPage' = Append(toPage, answer) /\ lost' = lost
    BY <1>6 DEF WorkerOnMessage
  <2>2. answer \in Answered
    BY <1>3, <1>6 DEF Answered
  <2>3. /\ toPage' \in Seq(Messages)
        /\ \A i \in DOMAIN toPage' :
               \/ i \in DOMAIN toPage /\ toPage'[i] = toPage[i]
               \/ i = Len(toPage) + 1 /\ toPage'[i] = answer
        /\ DOMAIN toPage \subseteq DOMAIN toPage'
        /\ \A i \in DOMAIN toPage : toPage'[i] = toPage[i] /\ i <= Len(toPage)
        /\ Len(toPage) + 1 \in DOMAIN toPage' /\ toPage'[Len(toPage) + 1] = answer
        /\ Len(toPage) \in Nat /\ DOMAIN toPage \subseteq Nat
    BY <1>1, <2>1, <2>2, AppendToQueue
  <2>4. answer.key = m.key /\ answer.d = HitsOf[m.q]
    OBVIOUS
  <2> HIDE DEF answer, m, Messages
  <2>5. TypeOK'
    BY <1>1, <1>2, <2>3 DEF TypeOK, pageVars, workerVars, Messages
  <2>6. BeforeReady'
    BY <1>1, <1>4, <2>2, <2>3 DEF BeforeReady, pageVars, workerVars
  <2>7. InOrder'
    <3>2. \A i \in DOMAIN toWorker' : m.key <= toWorker'[i].key
      BY <1>2 DEF InOrder
    <3>3. \A i \in DOMAIN toPage : toPage[i].key <= m.key
      BY <1>2, <1>4 DEF InOrder
    <3>4. m.key <= keys
      BY <1>2 DEF InOrder
    <3>5. \A i, j \in DOMAIN toPage' : i < j => toPage'[i].key <= toPage'[j].key
      BY <1>4, <2>3, <2>4, <3>3 DEF InOrder
    <3>6. \A i \in DOMAIN toPage' : toPage'[i].key <= keys
      BY <1>4, <2>3, <2>4, <3>4 DEF InOrder
    <3>7. \A i \in DOMAIN toPage', j \in DOMAIN toWorker' : toPage'[i].key <= toWorker'[j].key
      BY <1>2, <1>4, <2>3, <2>4, <3>2 DEF InOrder
    <3>8. items # NoItems => \A i \in DOMAIN toPage' : items.key <= toPage'[i].key
      BY <1>2, <2>3, <2>4 DEF InOrder
    <3>9. items # NoItems => /\ items.key <= keys
                             /\ \A i \in DOMAIN toWorker' : items.key <= toWorker'[i].key
      BY <1>2 DEF InOrder
    <3> QED BY <1>1, <1>5, <3>5, <3>6, <3>7, <3>8, <3>9 DEF InOrder, pageVars
  <2>8. NewestShown'
    BY <1>1 DEF NewestShown, pageVars
  <2>9. OfTheQuery'
    <3>1. \A i \in DOMAIN toWorker' : toWorker'[i].key = keys => toWorker'[i].q = query
      BY <1>2 DEF OfTheQuery
    <3>2. m.key = keys => m.q = query
      BY <1>2 DEF OfTheQuery
    <3>3. \A i \in DOMAIN toPage' : toPage'[i].key = keys =>
              query \in Long \ Refused /\ toPage'[i].d = HitsOf[query]
      BY <1>3, <1>4, <1>6, <2>3, <2>4, <3>2 DEF OfTheQuery
    <3> QED BY <1>1, <3>1, <3>3 DEF OfTheQuery, pageVars
  <2>10. NotForgotten'
    <3> SUFFICES ASSUME shown = "results", query \notin Refused, keys \notin lost,
                        ~ (items # NoItems /\ items.key = keys)
                 PROVE  \/ \E i \in DOMAIN toWorker' : toWorker'[i].key = keys
                        \/ \E i \in DOMAIN toPage' : toPage'[i].key = keys
      BY <1>1, <2>1 DEF NotForgotten, pageVars
    <3>1. CASE \E i \in DOMAIN toPage : toPage[i].key = keys
      BY <2>3, <3>1
    <3>2. CASE \E i \in DOMAIN toWorker : toWorker[i].key = keys
      <4>1. PICK i \in DOMAIN toWorker : toWorker[i].key = keys
        BY <3>2
      <4>2. CASE i = 1
        BY <1>2, <2>3, <2>4, <4>1, <4>2
      <4>3. CASE i # 1
        <5>1. i - 1 \in DOMAIN toWorker' /\ (i - 1) + 1 = i
          BY <1>2, <4>3
        <5>2. toWorker'[i - 1] = toWorker[i]
          BY <1>2, <5>1
        <5> QED BY <4>1, <5>1, <5>2
      <4> QED BY <4>2, <4>3
    <3> QED BY <1>4, <3>1, <3>2 DEF NotForgotten
  <2> QED BY <2>5, <2>6, <2>7, <2>8, <2>9, <2>10
<1>7. CASE ~ (lunrIndex /\ m.q \notin Refused)
  <2>1. toPage' = toPage /\ lost \subseteq lost' /\ (~ lunrIndex => m.key \in lost')
    BY <1>7 DEF WorkerOnMessage
  <2> HIDE DEF answer, m, Messages
  <2>2. TypeOK'
    BY <1>1, <1>2, <2>1 DEF TypeOK, pageVars, workerVars
  <2>3. BeforeReady'
    BY <1>1, <1>4, <2>1 DEF BeforeReady, pageVars, workerVars
  <2>4. InOrder'
    <3>2. \A i \in DOMAIN toPage, j \in DOMAIN toWorker' : toPage[i].key <= toWorker'[j].key
      BY <1>2, <1>4 DEF InOrder
    <3>3. items # NoItems => \A i \in DOMAIN toWorker' : items.key <= toWorker'[i].key
      BY <1>2 DEF InOrder
    <3> QED BY <1>1, <1>4, <1>5, <2>1, <3>2, <3>3 DEF InOrder, pageVars
  <2>5. NewestShown'
    BY <1>1 DEF NewestShown, pageVars
  <2>6. OfTheQuery'
    <3>1. \A i \in DOMAIN toWorker' : toWorker'[i].key = keys => toWorker'[i].q = query
      BY <1>2 DEF OfTheQuery
    <3> QED BY <1>1, <2>1, <3>1 DEF OfTheQuery, pageVars
  <2>7. NotForgotten'
    <3> SUFFICES ASSUME shown = "results", query \notin Refused, keys \notin lost',
                        ~ (items # NoItems /\ items.key = keys)
                 PROVE  \/ \E i \in DOMAIN toWorker' : toWorker'[i].key = keys
                        \/ \E i \in DOMAIN toPage' : toPage'[i].key = keys
      BY <1>1 DEF NotForgotten, pageVars
    <3>1. CASE \E i \in DOMAIN toPage : toPage[i].key = keys
      BY <2>1, <3>1
    <3>2. CASE \E i \in DOMAIN toWorker : toWorker[i].key = keys
      <4>1. PICK i \in DOMAIN toWorker : toWorker[i].key = keys
        BY <3>2
      <4>2. i # 1
        BY <1>2, <1>7, <2>1, <4>1 DEF OfTheQuery
      <4>3. i - 1 \in DOMAIN toWorker' /\ (i - 1) + 1 = i
        BY <1>2, <4>2
      <4>4. toWorker'[i - 1] = toWorker[i]
        BY <1>2, <4>3
      <4> QED BY <4>1, <4>3, <4>4
    <3> QED BY <1>4, <2>1, <3>1, <3>2 DEF NotForgotten
  <2> QED BY <2>2, <2>3, <2>4, <2>5, <2>6, <2>7
<1> QED BY <1>6, <1>7

LEMMA KeyUpKeeps ==
    ASSUME SearchInv, NEW text \in Long \cup Short, KeyUp(text)
    PROVE  SearchInv'
<1> USE DEF SearchInv
<1> DEFINE post == [q |-> text, key |-> keys + 1]
           posts == [i \in 1 .. keyHandlers |-> post]
<1>1. /\ keys \in Nat /\ keys' = keys + 1 /\ query' = text /\ keyHandlers \in Nat \ {0}
      /\ toWorker \in Seq(Posted)
      /\ UNCHANGED <<navbar, keyHandlers, queryReadyBound, pageHandlers, pagination, items,
                     workerVars, toPage, lost>>
  BY DEF KeyUp, TypeOK
<1>2. \/ /\ text \in Short /\ shown' = "contents" /\ UNCHANGED <<heading, toWorker>>
      \/ /\ text \in Long /\ shown' = "results" /\ heading' = text
         /\ toWorker' = IF queryReadyBound THEN toWorker \o posts ELSE toWorker
  BY DEF KeyUp, FlipContents, PostQuery
<1>3. post.key = keys + 1 /\ post.q = text /\ (text \in Long => post \in Posted)
  BY <1>1 DEF Posted
<1> HIDE DEF post
<1>4. ASSUME text \in Long
      PROVE  /\ toWorker \o posts \in Seq(Posted)
             /\ \A i \in DOMAIN (toWorker \o posts) :
                    \/ i \in DOMAIN toWorker /\ (toWorker \o posts)[i] = toWorker[i]
                    \/ i > Len(toWorker) /\ (toWorker \o posts)[i] = post
             /\ \E i \in DOMAIN (toWorker \o posts) : (toWorker \o posts)[i] = post
  <2>1. posts \in Seq(Posted) /\ Len(posts) = keyHandlers /\ DOMAIN posts = 1 .. keyHandlers
    <3>1. posts \in [1 .. keyHandlers -> Posted]
      BY <1>3, <1>4
    <3> QED BY <1>1, <3>1, IsASeq, LenProperties
  <2>2. Len(toWorker) \in Nat /\ DOMAIN toWorker = 1 .. Len(toWorker)
    BY <1>1, LenProperties
  <2>3. /\ toWorker \o posts \in Seq(Posted)
        /\ Len(toWorker \o posts) = Len(toWorker) + keyHandlers
        /\ \A i \in 1 .. Len(toWorker) + keyHandlers :
               (toWorker \o posts)[i] = IF i <= Len(toWorker) THEN toWorker[i]
                                        ELSE posts[i - Len(toWorker)]
    BY <1>1, <2>1, ConcatProperties
  <2>4. DOMAIN (toWorker \o posts) = 1 .. Len(toWorker) + keyHandlers
    BY <2>3, LenProperties
  <2>5. \A i \in 1 .. Len(toWorker) + keyHandlers :
            i > Len(toWorker) => posts[i - Len(toWorker)] = post
    BY <1>1, <2>2
  <2> HIDE DEF posts
  <2>6. Len(toWorker) + 1 \in DOMAIN (toWorker \o posts)
        /\ (toWorker \o posts)[Len(toWorker) + 1] = post
    BY <1>1, <2>2, <2>3, <2>4, <2>5
  <2> QED BY <1>1, <2>2, <2>3, <2>4, <2>5, <2>6
<1> HIDE DEF posts
<1>5. /\ toWorker' \in Seq(Posted)
      /\ \A i \in DOMAIN toWorker' :
             \/ i \in DOMAIN toWorker /\ toWorker'[i] = toWorker[i]
             \/ i > Len(toWorker) /\ toWorker'[i] = post /\ text \in Long
  BY <1>1, <1>2, <1>4
<1>6. queryReadyBound /\ shown' = "results" =>
          \E i \in DOMAIN toWorker' : toWorker'[i] = post
  BY <1>2, <1>4
<1>7. Len(toWorker) \in Nat /\ DOMAIN toWorker = 1 .. Len(toWorker)
  BY <1>1, LenProperties
<1>8. /\ \A i \in DOMAIN toWorker : toWorker[i].key \in Nat /\ toWorker[i].key <= keys
      /\ queryReadyBound => \A i \in DOMAIN toPage : toPage[i].key \in Nat /\ toPage[i].key <= keys
      /\ items # NoItems => items.key \in Nat /\ items.key <= keys
  <2>1. \A i \in DOMAIN toWorker : toWorker[i] \in Posted
    BY <1>1, <1>7, ElementOfSeq
  <2>2. queryReadyBound => \A i \in DOMAIN toPage : toPage[i].key \in Nat
    BY DEF BeforeReady, Answered
  <2>3. items # NoItems => items.key \in Nat
    BY DEF TypeOK, Items
  <2> QED BY <2>1, <2>2, <2>3 DEF InOrder, Posted
<1>9. TypeOK'
  <2>1. shown' \in {"results", "contents"}
    BY <1>2
  <2> QED BY <1>1, <1>5, <2>1 DEF TypeOK, workerVars
<1>10. BeforeReady'
  <2>1. ~ queryReadyBound => toWorker' = toWorker
    BY <1>2
  <2> QED BY <1>1, <2>1 DEF BeforeReady, workerVars
<1>11. InOrder'
  <2>1. \A i \in DOMAIN toWorker' : toWorker'[i].key <= keys'
    BY <1>1, <1>3, <1>5, <1>8
  <2>2. ASSUME NEW i \in DOMAIN toWorker', NEW j \in DOMAIN toWorker', i < j
        PROVE  toWorker'[i].key <= toWorker'[j].key
    <3>1. CASE j \in DOMAIN toWorker /\ toWorker'[j] = toWorker[j]
      <4>1. i \in DOMAIN toWorker /\ toWorker'[i] = toWorker[i]
        BY <1>5, <1>7, <2>2, <3>1
      <4> QED BY <2>2, <3>1, <4>1 DEF InOrder
    <3>2. CASE toWorker'[j] = post
      BY <1>1, <1>3, <1>5, <1>8, <3>2
    <3> QED BY <1>5, <3>1, <3>2
  <2>3. queryReadyBound => \A i \in DOMAIN toPage, j \in DOMAIN toWorker' :
            toPage[i].key <= toWorker'[j].key
    BY <1>1, <1>3, <1>5, <1>8 DEF InOrder
  <2>4. items # NoItems => \A i \in DOMAIN toWorker' : items.key <= toWorker'[i].key
    BY <1>1, <1>3, <1>5, <1>8 DEF InOrder
  <2>5. queryReadyBound => \A i \in DOMAIN toPage : toPage[i].key <= keys'
    BY <1>1, <1>8
  <2>6. items # NoItems => items.key <= keys'
    BY <1>1, <1>8
  <2> QED BY <1>1, <2>1, <2>2, <2>3, <2>4, <2>5, <2>6 DEF InOrder
<1>12. NewestShown'
  <2>1. items # NoItems => items.key # keys'
    BY <1>1, <1>8
  <2> QED BY <1>1, <2>1 DEF NewestShown
<1>13. OfTheQuery'
  <2>1. \A i \in DOMAIN toWorker' : toWorker'[i].key = keys' => toWorker'[i].q = query'
    BY <1>1, <1>3, <1>5, <1>8
  <2>2. queryReadyBound => \A i \in DOMAIN toPage : toPage[i].key # keys'
    BY <1>1, <1>8
  <2>3. items # NoItems => items.key # keys'
    BY <1>1, <1>8
  <2>4. shown' = "results" => query' \in Long /\ heading' = query'
    BY <1>1, <1>2
  <2> QED BY <1>1, <2>1, <2>2, <2>3, <2>4 DEF OfTheQuery
<1>14. NotForgotten'
  BY <1>1, <1>3, <1>6 DEF NotForgotten
<1> QED BY <1>9, <1>10, <1>11, <1>12, <1>13, <1>14

LEMMA IndexReadyKeeps == SearchInv /\ IndexReady => SearchInv'
<1> SUFFICES ASSUME SearchInv, IndexReady PROVE SearchInv'
  OBVIOUS
<1> USE DEF SearchInv
<1> DEFINE post == [q |-> query, key |-> keys]
           Messages == Answered \cup {IsReady}
<1>1. /\ toPage \in Seq(Messages) /\ toPage # <<>> /\ Head(toPage).e = "index-ready"
      /\ toPage' = Tail(toPage) /\ queryReadyBound' = TRUE /\ keys \in Nat
      /\ toWorker' = IF query \in Long THEN Append(toWorker, post) ELSE toWorker
      /\ UNCHANGED <<query, shown, heading, navbar, keyHandlers, pageHandlers, pagination,
                     items, workerVars, keys, lost>>
  BY DEF IndexReady, TypeOK
<1>2. ~ queryReadyBound
  <2>1. 1 \in DOMAIN toPage /\ Head(toPage) = toPage[1]
    BY <1>1, TailOfQueue
  <2>2. SUFFICES ASSUME queryReadyBound PROVE FALSE
    BY DEF TypeOK
  <2>3. toPage[1] \in Answered
    BY <2>1, <2>2 DEF BeforeReady
  <2> QED BY <1>1, <2>1, <2>3 DEF Answered
<1>3. /\ toWorker = <<>> /\ items = NoItems /\ pagination = NoPages
      /\ toPage = <<IsReady>> /\ searchData # "loading"
  BY <1>1, <1>2 DEF BeforeReady
<1>4. toPage' = <<>>
  <2> HIDE DEF IsReady
  <2> QED BY <1>1, <1>3
<1>5. post.q = query /\ post.key = keys /\ (query \in Long => post \in Posted)
  BY <1>1 DEF Posted
<1> HIDE DEF post
<1>6. /\ toWorker' = <<>> \/ (query \in Long /\ toWorker' = <<post>>)
      /\ query \in Long => toWorker' = <<post>>
  BY <1>1, <1>3
<1>7. /\ \A i \in DOMAIN toWorker' : i = 1 /\ toWorker'[i] = post
      /\ query \in Long => 1 \in DOMAIN toWorker'
      /\ DOMAIN toPage' = {}
  BY <1>4, <1>6
<1>8. toWorker' \in Seq(Posted)
  <2>1. CASE query \in Long
    <3>1. <<post>> \in Seq(Posted)
      BY <1>5, <2>1
    <3> QED BY <1>6, <2>1, <3>1
  <2>2. CASE query \notin Long
    BY <1>6, <2>2, EmptySeq
  <2> QED BY <2>1, <2>2
<1>9. TypeOK'
  <2>1. toPage' \in Seq(Messages)
    BY <1>4, EmptySeq
  <2> QED BY <1>1, <1>8, <2>1 DEF TypeOK, workerVars
<1>10. BeforeReady'
  BY <1>1, <1>3, <1>7 DEF BeforeReady, workerVars
<1>11. InOrder'
  BY <1>1, <1>3, <1>5, <1>7 DEF InOrder
<1>12. NewestShown'
  BY <1>1, <1>3 DEF NewestShown
<1>13. OfTheQuery'
  BY <1>1, <1>3, <1>5, <1>7 DEF OfTheQuery
<1>14. NotForgotten'
  BY <1>1, <1>5, <1>7 DEF NotForgotten, OfTheQuery
<1> QED BY <1>9, <1>10, <1>11, <1>12, <1>13, <1>14

(* What a page event leaves: a page of the newest handler. *)
LEMMA PageEvent ==
    ASSUME SearchInv, NEW handlers \in Seq(Handler), handlers # <<>>,
           handlers[Len(handlers)].d # <<>>,
           NEW page \in 1 .. TotalPages(handlers[Len(handlers)].d)
    PROVE  LET shownNow == TriggerPage(handlers, page)
               newest == handlers[Len(handlers)]
           IN  /\ shownNow \in Items /\ shownNow # NoItems
               /\ shownNow.key = newest.key
               /\ shownNow.hits = PageOf(newest.d, page)
               /\ shownNow.links = query
<1> DEFINE newest == handlers[Len(handlers)]
           left == [key |-> newest.key, hits |-> PageOf(newest.d, page), links |-> query]
<1>1. newest \in Handler
  BY EmptySeq, LenProperties, ElementOfSeq
<1>2. newest.key \in Nat /\ newest.d \in Seq(Nat)
  BY <1>1 DEF Handler
<1>3. page \in Nat /\ PageOf(newest.d, page) \in Seq(Nat)
  BY <1>2, NoPageIsEmpty, PagesOfHits
<1>4. TriggerPage(handlers, page) = left
  BY <1>3, NewestHandlerWins
<1>5. left \in Items
  BY <1>2, <1>3 DEF Items, SearchInv, TypeOK
<1>6. left.key = newest.key /\ left.hits = PageOf(newest.d, page) /\ left.links = query
  OBVIOUS
<1> HIDE DEF left, newest
<1> QED BY <1>4, <1>5, <1>6 DEF newest

LEMMA ResultsKeep ==
    ASSUME SearchInv, HandleSearchResults
    PROVE  SearchInv' /\ items' # NoItems /\ items'.key = Head(toPage).key
<1> USE DEF SearchInv
<1> DEFINE m == Head(toPage)
           answer == [key |-> m.key, d |-> m.d]
           Messages == Answered \cup {IsReady}
<1>1. /\ toPage \in Seq(Messages) /\ toPage # <<>> /\ m.e = "query-ready"
      /\ toPage' = Tail(toPage) /\ pageHandlers \in Seq(Handler)
      /\ UNCHANGED <<query, shown, heading, navbar, keyHandlers, queryReadyBound,
                     workerVars, toWorker, keys, lost>>
  BY DEF HandleSearchResults, TypeOK
<1>2. /\ 1 \in DOMAIN toPage /\ m = toPage[1] /\ m \in Messages /\ toPage' \in Seq(Messages)
      /\ \A i \in DOMAIN toPage' : i + 1 \in DOMAIN toPage /\ toPage'[i] = toPage[i + 1]
      /\ \A i \in DOMAIN toPage : i = 1 \/ i - 1 \in DOMAIN toPage'
      /\ DOMAIN toPage' \subseteq Nat \ {0} /\ DOMAIN toPage \subseteq Nat \ {0}
  BY <1>1, TailOfQueue
<1>3. m \in Answered /\ m.key \in Nat /\ m.d \in Seq(Nat)
  BY <1>1, <1>2 DEF IsReady, Answered
<1>4. queryReadyBound /\ searchData # "loading"
  <2>1. toPage # <<IsReady>>
    BY <1>1, <1>2 DEF IsReady
  <2> QED BY <1>1, <2>1 DEF BeforeReady
<1>5. answer \in Handler /\ answer.key = m.key /\ answer.d = m.d
  BY <1>3 DEF Handler
<1>6. /\ \A i \in DOMAIN toPage' : m.key <= toPage'[i].key
      /\ \A i \in DOMAIN toWorker : m.key <= toWorker[i].key
      /\ m.key <= keys
      /\ m.key = keys => query \in Long \ Refused /\ m.d = HitsOf[query]
  BY <1>2, <1>4 DEF InOrder, OfTheQuery
<1> HIDE DEF answer, m, Messages
(* Either way, the items are of this answer now. *)
<1>7. /\ items' \in Items /\ items' # NoItems /\ items'.key = m.key
      /\ pageHandlers' \in Seq(Handler) /\ pagination' \in [totalPages : Nat, current : Nat]
      /\ m.d = <<>> => items'.hits = <<>> /\ pagination' = NoPages
      /\ m.d # <<>> => items'.links = query /\ pagination' # NoPages
      /\ NewestShown'
  <2>1. CASE m.d = <<>>
    <3> DEFINE left == [key |-> m.key, hits |-> <<>>, links |-> NoQuery]
    <3>1. pagination' = NoPages /\ items' = left /\ pageHandlers' = pageHandlers
      BY <1>5, <2>1 DEF HandleSearchResults, answer, m
    <3>2. left \in Items /\ left.key = m.key /\ left.hits = <<>>
      BY <1>3, EmptySeq DEF Items
    <3> HIDE DEF left
    <3>3. NoPages \in [totalPages : Nat, current : Nat]
      BY DEF NoPages
    <3>4. left # NoItems
      BY <3>2
    <3> QED BY <1>1, <2>1, <3>1, <3>2, <3>3, <3>4 DEF NewestShown
  <2>2. CASE m.d # <<>>
    <3>1. /\ pageHandlers' = Append(pageHandlers, answer)
          /\ pagination' = [totalPages |-> TotalPages(m.d), current |-> 1]
          /\ items' = TriggerPage(pageHandlers', 1)
      BY <1>5, <2>2 DEF HandleSearchResults, Bind, answer, m
    <3>2. /\ pageHandlers' \in Seq(Handler)
          /\ Len(pageHandlers') = Len(pageHandlers) + 1
          /\ pageHandlers'[Len(pageHandlers) + 1] = answer
          /\ Len(pageHandlers) \in Nat
      BY <1>1, <1>5, <3>1, AppendToQueue
    <3>3. pageHandlers' # <<>> /\ pageHandlers'[Len(pageHandlers')] = answer
      BY <3>2
    <3>4. TotalPages(m.d) \in Nat \ {0}
      BY <1>3, <2>2, PagesOfHits
    <3>5. /\ items' \in Items /\ items' # NoItems /\ items'.key = m.key
          /\ items'.hits = PageOf(m.d, 1) /\ items'.links = query
      <4>1. PICK handlers \in Seq(Handler) : handlers = pageHandlers'
        BY <3>2
      <4>2. handlers # <<>> /\ handlers[Len(handlers)].d = m.d
            /\ handlers[Len(handlers)].key = m.key
        BY <1>5, <3>3, <4>1
      <4>3. 1 \in 1 .. TotalPages(handlers[Len(handlers)].d)
        BY <3>4, <4>2
      <4>4. /\ TriggerPage(handlers, 1) \in Items /\ TriggerPage(handlers, 1) # NoItems
            /\ TriggerPage(handlers, 1).key = handlers[Len(handlers)].key
            /\ TriggerPage(handlers, 1).hits = PageOf(handlers[Len(handlers)].d, 1)
            /\ TriggerPage(handlers, 1).links = query
        BY <2>2, <4>2, <4>3, PageEvent
      <4>5. items' = TriggerPage(handlers, 1)
        BY <3>1, <4>1
      <4> QED BY <4>2, <4>4, <4>5
    <3>6. /\ pagination' \in [totalPages : Nat, current : Nat]
          /\ pagination'.totalPages = TotalPages(m.d) /\ pagination'.current = 1
      BY <3>1, <3>4
    <3>7. pagination' # NoPages
      BY <3>4, <3>6 DEF NoPages
    <3>8. items'.key = keys' => m.d = HitsOf[query']
      BY <1>1, <1>6, <3>5
    <3> QED BY <1>5, <2>2, <3>2, <3>3, <3>5, <3>6, <3>7, <3>8 DEF NewestShown
  <2> QED BY <2>1, <2>2
<1>8. TypeOK'
  BY <1>1, <1>2, <1>7 DEF TypeOK, workerVars, Messages
<1>9. BeforeReady'
  <2>1. \A i \in DOMAIN toPage' : toPage'[i] \in Answered
    BY <1>2, <1>4 DEF BeforeReady
  <2> QED BY <1>1, <1>4, <2>1 DEF BeforeReady, workerVars
<1>10. InOrder'
  <2>1. ASSUME NEW i \in DOMAIN toPage', NEW j \in DOMAIN toPage', i < j
        PROVE  toPage'[i].key <= toPage'[j].key
    <3>1. i + 1 \in DOMAIN toPage /\ j + 1 \in DOMAIN toPage /\ i + 1 < j + 1
      BY <1>2, <2>1
    <3>2. toPage[i + 1].key <= toPage[j + 1].key
      BY <1>4, <3>1 DEF InOrder
    <3> QED BY <1>2, <3>2
  <2>2. \A i \in DOMAIN toPage' : toPage'[i].key <= keys
    BY <1>2, <1>4 DEF InOrder
  <2>3. \A i \in DOMAIN toPage', j \in DOMAIN toWorker : toPage'[i].key <= toWorker[j].key
    BY <1>2, <1>4 DEF InOrder
  <2> QED BY <1>1, <1>6, <1>7, <2>1, <2>2, <2>3 DEF InOrder
<1>11. OfTheQuery'
  <2>1. \A i \in DOMAIN toPage' :
            toPage'[i].key = keys => query \in Long \ Refused /\ toPage'[i].d = HitsOf[query]
    BY <1>2, <1>4 DEF OfTheQuery
  <2> QED BY <1>1, <1>6, <1>7, <2>1 DEF OfTheQuery
<1>12. NotForgotten'
  <2> SUFFICES ASSUME shown = "results", query \notin Refused, keys \notin lost,
                      items'.key # keys,
                      ~ \E i \in DOMAIN toWorker : toWorker[i].key = keys
               PROVE  \E i \in DOMAIN toPage' : toPage'[i].key = keys
    BY <1>1, <1>7 DEF NotForgotten
  <2>1. ~ (items # NoItems /\ items.key = keys)
    <3> SUFFICES ASSUME items # NoItems, items.key = keys PROVE FALSE
      OBVIOUS
    <3>1. keys <= m.key /\ keys \in Nat
      BY <1>2 DEF InOrder, TypeOK
    <3> QED BY <1>3, <1>6, <1>7, <3>1
  <2>2. PICK i \in DOMAIN toPage : toPage[i].key = keys
    BY <1>4, <2>1 DEF NotForgotten
  <2>3. i # 1
    BY <1>2, <1>7, <2>2
  <2>4. i - 1 \in DOMAIN toPage' /\ (i - 1) + 1 = i
    BY <1>2, <2>3
  <2>5. toPage'[i - 1] = toPage[i]
    BY <1>2, <2>4
  <2> QED BY <2>2, <2>4, <2>5
<1> QED BY <1>7, <1>8, <1>9, <1>10, <1>11, <1>12 DEF m

LEMMA ClickKeeps ==
    ASSUME SearchInv, NEW page \in 1 .. pagination.totalPages, ClickPage(page)
    PROVE  SearchInv' /\ items # NoItems /\ items' # NoItems /\ items'.key = items.key
<1> USE DEF SearchInv
<1> DEFINE newest == pageHandlers[Len(pageHandlers)]
<1>1. /\ pageHandlers \in Seq(Handler) /\ pagination \in [totalPages : Nat, current : Nat]
      /\ shown = "results"
      /\ pagination' = [pagination EXCEPT !.current = page]
      /\ items' = TriggerPage(pageHandlers, page)
      /\ UNCHANGED <<query, shown, heading, navbar, keyHandlers, queryReadyBound,
                     pageHandlers, workerVars, toWorker, toPage, keys, lost>>
  BY DEF ClickPage, TypeOK
<1>2. pagination # NoPages
  <2> SUFFICES ASSUME pagination = NoPages PROVE FALSE
    OBVIOUS
  <2>1. pagination.totalPages = 0
    BY DEF NoPages
  <2> QED BY <2>1
<1>3. /\ pageHandlers # <<>> /\ items # NoItems /\ items.key = newest.key
      /\ newest.d # <<>> /\ pagination.totalPages = TotalPages(newest.d)
      /\ items.key = keys => newest.d = HitsOf[query]
  BY <1>2 DEF NewestShown
<1>4. page \in 1 .. TotalPages(newest.d) /\ page \in Nat
  BY <1>1, <1>3
<1>5. /\ items' \in Items /\ items' # NoItems /\ items'.key = newest.key
      /\ items'.hits = PageOf(newest.d, page) /\ items'.links = query
  BY <1>1, <1>3, <1>4, PageEvent
<1>6. /\ pagination' \in [totalPages : Nat, current : Nat]
      /\ pagination'.totalPages = pagination.totalPages /\ pagination'.current = page
  BY <1>1, <1>4
<1>7. pagination' # NoPages
  BY <1>4, <1>6 DEF NoPages
<1>8. newest' = newest
  BY <1>1
<1>9. TypeOK'
  BY <1>1, <1>5, <1>6 DEF TypeOK, workerVars
<1>10. BeforeReady'
  BY <1>1, <1>3 DEF BeforeReady, workerVars
<1>11. InOrder'
  BY <1>1, <1>3, <1>5 DEF InOrder
<1>12. NewestShown'
  BY <1>1, <1>3, <1>5, <1>6, <1>8 DEF NewestShown
<1>13. OfTheQuery'
  <2>1. items.key = keys => query \in Long \ Refused /\ HitsOf[query] # <<>>
    BY <1>3 DEF OfTheQuery
  <2> QED BY <1>1, <1>3, <1>5, <1>7, <2>1 DEF OfTheQuery
<1>14. NotForgotten'
  BY <1>1, <1>3, <1>5 DEF NotForgotten
<1> QED BY <1>3, <1>5, <1>9, <1>10, <1>11, <1>12, <1>13, <1>14

-----------------------------------------------------------------------------

LEMMA NextKeeps == SearchInv /\ [Next]_vars => SearchInv'
<1> SUFFICES ASSUME SearchInv, [Next]_vars PROVE SearchInv'
  OBVIOUS
<1>1. CASE StopWordsArrive
  BY <1>1, StopWordsKeep
<1>2. CASE SearchDataArrive
  BY <1>2, SearchDataKeep
<1>3. CASE WorkerOnMessage
  BY <1>3, WorkerKeeps
<1>4. CASE NavbarArrives
  BY <1>4, NavbarKeeps
<1>5. CASE \E text \in Long \cup Short : KeyUp(text)
  BY <1>5, KeyUpKeeps
<1>6. CASE IndexReady
  BY <1>6, IndexReadyKeeps
<1>7. CASE HandleSearchResults
  BY <1>7, ResultsKeep
<1>8. CASE \E page \in 1 .. pagination.totalPages : ClickPage(page)
  BY <1>8, ClickKeeps
<1>9. CASE UNCHANGED vars
  BY <1>9 DEF SearchInv, TypeOK, BeforeReady, InOrder, NewestShown, OfTheQuery, NotForgotten,
              vars, pageVars, workerVars
<1> QED BY <1>1, <1>2, <1>3, <1>4, <1>5, <1>6, <1>7, <1>8, <1>9 DEF Next

(* The invariant holds for any queries, answers and page lengths: messages *)
(* keep the order of the keys (docfx.js, search-worker.js).                *)
THEOREM SearchKept == Spec => []SearchInv
<1> QED BY InitSearch, NextKeeps, PTL DEF Spec

(* With nothing on its way, the results shown are those of the query in    *)
(* the box: the property of the runs, for any HitsOf and NumPerPage        *)
(* (docfx.js handleSearchResults; search-worker.js onmessage).             *)
THEOREM ResultsAnswer == Spec => []ResultsAnswerTheQuery
<1>1. SearchInv => ResultsAnswerTheQuery
  <2> SUFFICES ASSUME SearchInv, Idle, shown = "results", queryReadyBound,
                      query \notin Refused, keys \notin lost
               PROVE  /\ heading = query
                      /\ items # NoItems
                      /\ items.key = keys
                      /\ HitsOf[query] = <<>> => items.hits = <<>> /\ pagination = NoPages
                      /\ HitsOf[query] # <<>> =>
                             /\ items.hits = PageOf(HitsOf[query], pagination.current)
                             /\ items.links = query
                             /\ \A p \in 1 .. pagination.totalPages :
                                    PageOf(HitsOf[query], p) # <<>>
                             /\ Len(HitsOf[query]) <= pagination.totalPages * NumPerPage
    BY DEF ResultsAnswerTheQuery
  <2>1. DOMAIN toWorker = {} /\ DOMAIN toPage = {}
    BY DEF Idle
  <2>2. items # NoItems /\ items.key = keys
    BY <2>1 DEF SearchInv, NotForgotten
  <2>3. /\ query \in Long \ Refused /\ heading = query
        /\ HitsOf[query] = <<>> => items.hits = <<>> /\ pagination = NoPages
        /\ HitsOf[query] # <<>> => pagination # NoPages /\ items.links = query
    BY <2>2 DEF SearchInv, OfTheQuery
  <2>4. ASSUME HitsOf[query] # <<>>
        PROVE  /\ items.hits = PageOf(HitsOf[query], pagination.current)
               /\ pagination.totalPages = TotalPages(HitsOf[query])
    BY <2>2, <2>3, <2>4 DEF SearchInv, NewestShown
  <2>5. ASSUME HitsOf[query] # <<>>
        PROVE  /\ \A p \in 1 .. TotalPages(HitsOf[query]) : PageOf(HitsOf[query], p) # <<>>
               /\ Len(HitsOf[query]) <= TotalPages(HitsOf[query]) * NumPerPage
    <3>1. HitsOf[query] \in Seq(Nat)
      BY <2>3
    <3> QED BY <2>5, <3>1, PagesOfHits, NoPageIsEmpty
  <2> QED BY <2>2, <2>3, <2>4, <2>5
<1> QED BY <1>1, SearchKept, PTL

(* Results never give way to those of an earlier key, however often the    *)
(* navbar has bound the key handlers (docfx.js webWorkerSearch, onPageClick). *)
THEOREM ResultsOnward == Spec => ResultsNeverGoBack
<1>1. SearchInv /\ [Next]_vars
          => [items # NoItems => items' # NoItems /\ items'.key >= items.key]_vars
  <2> SUFFICES ASSUME SearchInv, [Next]_vars, items # NoItems
               PROVE  items' # NoItems /\ items'.key >= items.key
    OBVIOUS
  <2>1. items.key \in Nat
    BY DEF SearchInv, TypeOK, Items
  <2>2. CASE UNCHANGED items
    BY <2>1, <2>2
  <2>3. CASE HandleSearchResults
    <3>1. items' # NoItems /\ items'.key = Head(toPage).key
      BY <2>3, ResultsKeep
    <3>2. 1 \in DOMAIN toPage /\ Head(toPage) = toPage[1] /\ Head(toPage).key \in Nat
      <4>1. toPage \in Seq(Answered \cup {IsReady}) /\ toPage # <<>>
            /\ Head(toPage).e = "query-ready"
        BY <2>3 DEF HandleSearchResults, SearchInv, TypeOK
      <4>2. /\ 1 \in DOMAIN toPage /\ Head(toPage) = toPage[1]
            /\ Head(toPage) \in Answered \cup {IsReady}
        BY <4>1, TailOfQueue
      <4> QED BY <4>1, <4>2 DEF IsReady, Answered
    <3>3. items.key <= Head(toPage).key
      BY <3>2 DEF SearchInv, InOrder
    <3> QED BY <2>1, <3>1, <3>2, <3>3
  <2>4. CASE \E page \in 1 .. pagination.totalPages : ClickPage(page)
    <3>1. items' # NoItems /\ items'.key = items.key
      <4>1. PICK page \in 1 .. pagination.totalPages : ClickPage(page)
        BY <2>4
      <4> QED BY <4>1, ClickKeeps
    <3> QED BY <2>1, <3>1
  <2> QED BY <2>2, <2>3, <2>4
          DEF Next, vars, pageVars, StopWordsArrive, SearchDataArrive, WorkerOnMessage,
              NavbarArrives, KeyUp, IndexReady
<1> QED BY <1>1, SearchKept, PTL DEF Spec, ResultsNeverGoBack
=============================================================================
