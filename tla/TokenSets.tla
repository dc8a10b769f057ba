------------------------------ MODULE TokenSets ------------------------------
(***************************************************************************)
(* The token sets of lunr, the text index of the documentation site        *)
(* (docs/styles/lunr.js, which the search worker loads in its minified     *)
(* form).  A token set is an automaton whose edges are labelled with       *)
(* characters: the set of all words of an index, or the words a term of a  *)
(* query stands for, where the label "*" matches any character.  Words are *)
(* sequences of characters.  A token set is a record of a root and of      *)
(* nodes; the nodes of a builder are numbered as `_nextId' numbers them.   *)
(***************************************************************************)
EXTENDS Naturals, Sequences, SequencesExt, FiniteSets, TLC

CONSTANT Alphabet   \* the characters of words, in the order of their codes

ASSUME AlphabetAssumption ==
    /\ Alphabet \in Seq(STRING)
    /\ \A i, j \in DOMAIN Alphabet : Alphabet[i] = Alphabet[j] => i = j

Letters == {Alphabet[i] : i \in DOMAIN Alphabet}

Code(c) == CHOOSE i \in DOMAIN Alphabet : Alphabet[i] = c

(* v < w, the comparison of JavaScript strings. *)
Before(v, w) ==
    \E i \in 1 .. Len(w) :
        /\ i - 1 <= Len(v)
        /\ SubSeq(v, 1, i - 1) = SubSeq(w, 1, i - 1)
        /\ i <= Len(v) => Code(v[i]) < Code(w[i])

(* A property of an object is set. *)
Put(map, key, value) == [k \in {key} \union DOMAIN map |-> IF k = key THEN value ELSE map[k]]

Node(final) == [final |-> final, edges |-> [c \in {} |-> 0]]

-----------------------------------------------------------------------------
(* The builder: words are inserted in order; the nodes that later words    *)
(* cannot change any more are replaced by equal ones met before.           *)

NewBuilder ==
    [nodes |-> <<Node(FALSE)>>, unchecked |-> <<>>,
     minimized |-> [k \in {} |-> 0], previousWord |-> <<>>]

Digits == <<"0", "1", "2", "3", "4", "5", "6", "7", "8", "9">>

DecimalDigits[n \in Nat] ==
    IF n < 10 THEN <<Digits[n + 1]>> ELSE Append(DecimalDigits[n \div 10], Digits[(n % 10) + 1])

(* Mutant: the key says nothing of the node's finality. *)
KeyWithoutFinality(node) ==
    LET key[i \in 0 .. Len(Alphabet)] ==
            IF i = 0 THEN <<"0">>
            ELSE IF Alphabet[i] \in DOMAIN node.edges
            THEN key[i - 1] \o <<Alphabet[i]>> \o DecimalDigits[node.edges[Alphabet[i]]]
            ELSE key[i - 1]
    IN  key[Len(Alphabet)]

(* The key of a node: its finality, then each label with the number of the *)
(* node it leads to, nothing in between.                                   *)
NodeKey(node) ==
    LET key[i \in 0 .. Len(Alphabet)] ==
            IF i = 0 THEN <<IF node.final THEN "1" ELSE "0">>
            ELSE IF Alphabet[i] \in DOMAIN node.edges
            THEN key[i - 1] \o <<Alphabet[i]>> \o DecimalDigits[node.edges[Alphabet[i]]]
            ELSE key[i - 1]
    IN  key[Len(Alphabet)]

(* Mutant: an equal node met before is not used. *)
CheckWithoutSharing(b) ==
    LET u == Last(b.unchecked)
    IN  [b EXCEPT !.minimized = Put(@, NodeKey(b.nodes[u.child]), u.child),
                  !.unchecked = Front(@)]

CheckLast(b) ==
    LET u == Last(b.unchecked)
        key == NodeKey(b.nodes[u.child])
    IN  IF key \in DOMAIN b.minimized
        THEN [b EXCEPT !.nodes[u.parent].edges[u.char] = b.minimized[key],
                       !.unchecked = Front(@)]
        ELSE [b EXCEPT !.minimized = Put(@, key, u.child), !.unchecked = Front(@)]

(* The builder after the nodes above downTo have been checked, the last    *)
(* one first.                                                              *)
Minimize(b, downTo) ==
    LET checked[k \in 0 .. Len(b.unchecked)] ==
            IF k = 0 THEN b ELSE CheckLast(checked[k - 1])
    IN  IF Len(b.unchecked) <= downTo THEN b ELSE checked[Len(b.unchecked) - downTo]

InOrder(b, word) == ~ Before(word, b.previousWord)

CommonPrefix(v, w) ==
    CHOOSE n \in 0 .. Len(v) :
        /\ n <= Len(w) /\ \A i \in 1 .. n : v[i] = w[i]
        /\ n < Len(v) /\ n < Len(w) => v[n + 1] # w[n + 1]

LastNode(b) == IF b.unchecked = <<>> THEN 1 ELSE Last(b.unchecked).child

(* A new node, at the end of a new edge from the last one. *)
Extend(b, char) ==
    LET child == Len(b.nodes) + 1
        linked == [b.nodes EXCEPT ![LastNode(b)].edges = Put(@, char, child)]
    IN  [b EXCEPT !.nodes = Append(linked, Node(FALSE)),
                  !.unchecked = Append(@, [parent |-> LastNode(b), char |-> char,
                                           child |-> child])]

InsertWord(b, word) ==
    LET common == CommonPrefix(word, b.previousWord)
        extended[i \in common .. Len(word)] ==
            IF i = common THEN Minimize(b, common) ELSE Extend(extended[i - 1], word[i])
        e == extended[Len(word)]
    IN  [e EXCEPT !.nodes[LastNode(e)].final = TRUE, !.previousWord = word]

FinishWords(b) == Minimize(b, 0)

Root(b) == [root |-> 1, nodes |-> b.nodes]

FromArray(words) == Root(FinishWords(FoldLeft(InsertWord, NewBuilder, words)))

-----------------------------------------------------------------------------
(* Mutant: a wildcard matches exactly one character. *)
WildcardWithoutLoop(str) ==
    [root |-> 1,
     nodes |-> [i \in 1 .. Len(str) + 1 |->
                   IF i > Len(str) THEN Node(i > 1)
                   ELSE [final |-> FALSE, edges |-> (str[i] :> (i + 1))]]]

(* The token set of one term: with wildcards, or with an edit distance.    *)

(* One character: a wildcard is an edge from the node to itself; any other *)
(* leads to a new node, which after a wildcard has an edge to the root.    *)
AddCharacter(s, char, final) ==
    LET next == Len(s.nodes) + 1
        linked == [s.nodes EXCEPT ![s.node].edges = Put(@, char, next)]
        new == Node(final)
    IN  IF char = "*"
        THEN [node |-> s.node, wildcardFound |-> TRUE,
              nodes |-> [s.nodes EXCEPT ![s.node] = [final |-> final,
                                                     edges |-> Put(@.edges, "*", s.node)]]]
        ELSE [node |-> next, wildcardFound |-> s.wildcardFound,
              nodes |-> Append(linked, IF s.wildcardFound
                                       THEN [new EXCEPT !.edges = Put(@, "*", 1)] ELSE new)]

FromString(str) ==
    LET set[i \in 0 .. Len(str)] ==
            IF i = 0 THEN [node |-> 1, wildcardFound |-> FALSE, nodes |-> <<Node(FALSE)>>]
            ELSE AddCharacter(set[i - 1], str[i], i = Len(str))
    IN  [root |-> 1, nodes |-> set[Len(str)].nodes]

(* Mutant: a deletion costs nothing of the distance. *)
EditsWithFreeDeletion(f) ==
    IF Len(f.str) = 0 THEN {} ELSE
        {[node |-> Append(f.node, f.str[1]), editsRemaining |-> f.editsRemaining, str |-> Tail(f.str)],
         [node |-> f.node, editsRemaining |-> f.editsRemaining, str |-> Tail(f.str)]}

(* What one frame of fromFuzzyString leads to: a node, named by the labels *)
(* on the way to it, with the characters and the edits left.  Where no     *)
(* character is left the node becomes final and no frame is pushed.        *)
FuzzyEdits(f) ==
    LET n == Len(f.str)
        Edit(to, left, rest) == {[node |-> to, editsRemaining |-> left, str |-> rest]}
        k == f.editsRemaining
    IN  (IF n > 0 THEN Edit(Append(f.node, f.str[1]), k, Tail(f.str)) ELSE {}) \union
        IF k = 0 THEN {} ELSE
            (IF n > 1 THEN Edit(Append(f.node, f.str[2]), k - 1, SubSeq(f.str, 3, n)) ELSE {})
            \union (IF n = 1 THEN Edit(f.node, k, <<>>) ELSE {})
            \union (IF n >= 1 THEN Edit(Append(f.node, "*"), k - 1, Tail(f.str)) ELSE {})
            \union Edit(Append(f.node, "*"), k - 1, f.str)
            \union (IF n > 1 THEN Edit(Append(f.node, f.str[2]), k - 1,
                                       <<f.str[1]>> \o SubSeq(f.str, 3, n)) ELSE {})

(* The frames pushed within some turns of the loop. *)
FuzzyFrames(first, turns) ==
    LET frames[k \in 0 .. turns] ==
            IF k = 0 THEN first
            ELSE LET pushed == frames[k - 1]
                 IN  pushed \union UNION {FuzzyEdits(f) : f \in {g \in pushed : g.str # <<>>}}
    IN  frames[turns]

(* A token set whose nodes are named by the labels on the way to them. *)
Trie(paths, final) ==
    [root |-> <<>>,
     nodes |-> [p \in paths |->
                   [final |-> p \in final,
                    edges |-> [c \in {Last(q) : q \in {r \in paths : r # <<>> /\ Front(r) = p}} |->
                                   Append(p, c)]]]]

FromFuzzyString(str, editDistance) ==
    LET start == [node |-> <<>>, editsRemaining |-> editDistance, str |-> str]
        first == IF str # <<>> THEN {start} ELSE FuzzyEdits(start)
        frames == FuzzyFrames(first, Len(str) + editDistance)
    IN  Trie({<<>>} \union {f.node : f \in frames}, {f.node : f \in {g \in frames : g.str = <<>>}})

FromClause(clause) ==
    IF "editDistance" \in DOMAIN clause
    THEN FromFuzzyString(clause.term, clause.editDistance)
    ELSE FromString(clause.term)

-----------------------------------------------------------------------------
(* Words of the one set that the other, a query, matches. *)

(* The frames of an output node, which the labels on the way to it name.   *)
(* The one set has no cycles, so its nodes bound the length of the way.    *)
IntersectFrames(a, b) ==
    LET start == [output |-> <<>>, node |-> a.root, qNode |-> b.root]
        Successors(f) ==
            {[output |-> Append(f.output, e[1]),
              node |-> a.nodes[f.node].edges[e[1]], qNode |-> b.nodes[f.qNode].edges[e[2]]] :
                e \in {p \in (DOMAIN a.nodes[f.node].edges) \X (DOMAIN b.nodes[f.qNode].edges) :
                           p[1] = p[2] \/ p[2] = "*"}}
        frames[k \in 0 .. Cardinality(DOMAIN a.nodes)] ==
            IF k = 0 THEN {start}
            ELSE LET pushed == frames[k - 1]
                 IN  pushed \union
                     UNION {Successors(f) : f \in {g \in pushed : Len(g.output) = k - 1}}
    IN  frames[Cardinality(DOMAIN a.nodes)] \ {start}

Intersect(a, b) ==
    LET frames == IntersectFrames(a, b)
    IN  Trie({<<>>} \union {f.output : f \in frames},
             {f.output : f \in {g \in frames : a.nodes[g.node].final /\ b.nodes[g.qNode].final}})

(* The words of a token set without cycles, as a set: their order only     *)
(* decides the order in which postings are looked up.                      *)
WordsFrom(t, from) ==
    LET Push(f) == {[prefix |-> Append(f.prefix, c), node |-> t.nodes[f.node].edges[c]] :
                       c \in DOMAIN t.nodes[f.node].edges}
        frames[k \in 0 .. Cardinality(DOMAIN t.nodes)] ==
            IF k = 0 THEN {[prefix |-> <<>>, node |-> from]}
            ELSE LET pushed == frames[k - 1]
                 IN  pushed \union
                     UNION {Push(f) : f \in {g \in pushed : Len(g.prefix) = k - 1}}
    IN  {f.prefix : f \in {g \in frames[Cardinality(DOMAIN t.nodes)] : t.nodes[g.node].final}}

ToArray(t) == WordsFrom(t, t.root)

ExpandedTerms(t, clause) == ToArray(Intersect(t, FromClause(clause)))
=============================================================================
