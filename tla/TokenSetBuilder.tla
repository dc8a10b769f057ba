--------------------------- MODULE TokenSetBuilder ---------------------------
(***************************************************************************)
(* The builder of an index's token set, word by word, and the lookups in   *)
(* the finished set: the words an index has been given are the words it    *)
(* finds again.                                                            *)
(***************************************************************************)
EXTENDS TokenSets

CONSTANTS Words,      \* the words that may be inserted
          MaxWords,   \* bound: how many are inserted
          Clauses     \* the clauses looked up

ASSUME WordsAssumption == Words \subseteq Seq(Letters)

ASSUME ClausesAssumption ==
    \A c \in Clauses : /\ c.term \in Seq(STRING)
                       /\ "editDistance" \in DOMAIN c => c.editDistance \in Nat

VARIABLES builder, finished, inserted,   \* inserted: history, the words given
          query, found                   \* the last clause looked up and what it found

vars == <<builder, finished, inserted, query, found>>

NoQuery == [term |-> <<>>]

Init ==
    /\ builder = NewBuilder
    /\ finished = FALSE
    /\ inserted = {}
    /\ query = NoQuery
    /\ found = {}

Insert(word) ==
    /\ ~ finished
    /\ Cardinality(inserted \union {word}) <= MaxWords
    /\ InOrder(builder, word)
    /\ builder' = InsertWord(builder, word)
    /\ inserted' = inserted \union {word}
    /\ UNCHANGED <<finished, query, found>>

Finish ==
    /\ ~ finished
    /\ builder' = FinishWords(builder)
    /\ finished' = TRUE
    /\ UNCHANGED <<inserted, query, found>>

Lookup(c) ==
    /\ finished
    /\ query = NoQuery
    /\ query' = c
    /\ found' = ExpandedTerms(Root(builder), c)
    /\ UNCHANGED <<builder, finished, inserted>>

Next ==
    \/ \E word \in Words : Insert(word)
    \/ Finish
    \/ \E c \in Clauses : Lookup(c)

Spec == Init /\ [][Next]_vars

-----------------------------------------------------------------------------
(* The words read off the automaton are the words inserted, at every       *)
(* moment: sharing nodes while further words come never adds, loses or     *)
(* changes one (docs/styles/lunr.js, Builder.insert and minimize).  Words  *)
(* of digits are the exception: there NodeKey can give one key to two      *)
(* nodes.                                                                  *)
LanguageKept == ToArray(Root(builder)) = inserted

Reachable == UNION {{n} \union {builder.nodes[n].edges[c] : c \in DOMAIN builder.nodes[n].edges} :
                        n \in {1} \union {builder.minimized[k] : k \in DOMAIN builder.minimized}}

(* A finished set is the minimal automaton the comment on TokenSet         *)
(* promises: no two of its nodes stand for the same endings.               *)
Minimal ==
    finished => \A m, n \in Reachable \ {1} :
        m # n => WordsFrom(Root(builder), m) # WordsFrom(Root(builder), n)

(* A pattern matches a word, "*" any characters: matched[i] are the        *)
(* lengths of the beginnings of the word that its first i characters match.*)
Matches(pattern, w) ==
    LET matched[i \in 0 .. Len(pattern)] ==
            IF i = 0 THEN {0}
            ELSE IF pattern[i] = "*"
            THEN {k \in 0 .. Len(w) : \E j \in matched[i - 1] : j <= k}
            ELSE {k \in 1 .. Len(w) : k - 1 \in matched[i - 1] /\ w[k] = pattern[i]}
    IN  Len(w) \in matched[Len(pattern)]

(* A term without edit distance finds exactly the indexed words its        *)
(* wildcards match; the edge to the root that fromString adds to every     *)
(* node after a wildcard lets no other word through.  (The empty word,     *)
(* which the trimmer can produce, is never found.)                         *)
WildcardsExact ==
    query # NoQuery /\ "editDistance" \notin DOMAIN query =>
        found = {w \in inserted \ {<<>>} : Matches(query.term, w)}

(* The words one edit away: a character is inserted, deleted or replaced,  *)
(* or two neighbours change places.                                        *)
Edits(v) ==
    UNION {LET before == SubSeq(v, 1, i)
               after == SubSeq(v, i + 1, Len(v))
               With(middle, k) == before \o middle \o SubSeq(after, k, Len(after))
           IN  {With(<<c>>, 1) : c \in Letters} \union
               IF Len(after) = 0 THEN {} ELSE
                   {With(<<>>, 2)} \union {With(<<c>>, 2) : c \in Letters} \union
                   IF Len(after) = 1 THEN {} ELSE {With(<<after[2], after[1]>>, 3)} :
               i \in 0 .. Len(v)}

(* The words a term stands for: a "*" is any one letter here.              *)
Spelled(term) ==
    {v \in [1 .. Len(term) -> Letters \union ToSet(term)] :
        \A i \in 1 .. Len(term) : v[i] = term[i] \/ (term[i] = "*" /\ v[i] \in Letters)}

(* The words that at most so many edits make of these. *)
Edited(term, edits) ==
    LET words[n \in 0 .. edits] ==
            IF n = 0 THEN Spelled(term)
            ELSE words[n - 1] \union UNION {Edits(v) : v \in words[n - 1]}
    IN  words[edits]

FuzzyClauses == {c \in Clauses : "editDistance" \in DOMAIN c}

WithinDistance == [c \in FuzzyClauses |-> Edited(c.term, c.editDistance)]

(* At most one edit away; a longer word ends as the term does.             *)
OneEditAway == [c \in FuzzyClauses |->
    UNION {{w \in {v} \union (IF c.editDistance > 0 THEN Edits(v) ELSE {}) :
               Len(w) > Len(v) => Last(w) = Last(v)} : v \in Spelled(c.term)}]

(* A term with an edit distance finds only words within that distance, and *)
(* all of them that are at most one edit away, except those with another   *)
(* character put at the end: no frame is pushed after the last character.  *)
(* (Further away words can be missed, although the comment on              *)
(* fromFuzzyString counts every edit as one: a deletion also consumes the  *)
(* next character, so two neighbours cannot be deleted.)                   *)
FuzzyWithinDistance ==
    query # NoQuery /\ "editDistance" \in DOMAIN query =>
        /\ found \subseteq inserted \intersect WithinDistance[query]
        /\ (inserted \intersect OneEditAway[query]) \ {<<>>} \subseteq found
=============================================================================
