------------------------------ MODULE LunrIndex ------------------------------
(***************************************************************************)
(* A text index as lunr builds and queries it (docs/styles/lunr.js), set   *)
(* up as the search worker does (docs/styles/search-worker.js): documents  *)
(* go through the tokenizer and the pipeline into an inverted index and    *)
(* one vector per field of a document; the index is built, perhaps         *)
(* serialised and loaded again, and then asked one query, which            *)
(* QueryStrings parses and TokenSets expands.                              *)
(*                                                                         *)
(* Abstracted: a weight is the rounded BM25 formula without the logarithm  *)
(* of its first factor, and a similarity is kept as its three sums instead *)
(* of their quotient.  Stemming is a constant.  No metadata is             *)
(* whitelisted, as in the worker.                                          *)
(***************************************************************************)
EXTENDS QueryStrings, TokenSets

CONSTANTS Documents,        \* reference |-> field |-> text, all sequences of characters
          TokenSeparators,  \* lunr.tokenizer.separator, as the worker sets it
          NonWord,          \* the other characters the trimmer takes off
          Stem(_),          \* lunr.stemmer
          StopWords,        \* of the site, for docfxStopWordFilter
          Precision,        \* weights are rounded to multiples of 1 / Precision
          NaN, NoIndex, NoResults,
          TypeError, QueryParseError   \* what a query throws

ASSUME PrecisionAssumption == Precision \in Nat \ {0}

VARIABLES added,            \* the references of the documents added
          builder,          \* documentCount, invertedIndex, termIndex, fieldTermFrequencies, fieldLengths
          index,            \* the built index
          reloaded,         \* it has been serialised and loaded
          results           \* what the query returned, or threw

indexVars == <<added, builder, index, reloaded, results>>
vars == <<queryVars, indexVars>>

None == [x \in {} |-> 0]

-----------------------------------------------------------------------------
(* Text to terms. *)

Lower(s) == [i \in DOMAIN s |-> LowerCase(s[i])]

Tokenizer(text) ==
    LET slices == {p \in (DOMAIN text) \X (DOMAIN text) :
                      /\ p[1] <= p[2]
                      /\ \A k \in p[1] .. p[2] : text[k] \notin TokenSeparators
                      /\ p[1] = 1 \/ text[p[1] - 1] \in TokenSeparators
                      /\ p[2] = Len(text) \/ text[p[2] + 1] \in TokenSeparators}
        sorted == SetToSortSeq(slices, LAMBDA p, q : p[1] < q[1])
    IN  [i \in DOMAIN sorted |-> Lower(SubSeq(text, sorted[i][1], sorted[i][2]))]

Trimmer(token) ==
    LET word == {i \in DOMAIN token : token[i] \notin NonWord}
    IN  IF word = {} THEN <<>>
        ELSE SubSeq(token, CHOOSE i \in word : \A j \in word : i <= j,
                           CHOOSE i \in word : \A j \in word : j <= i)

StopWordFilter(words, token) == IF token \in words THEN <<>> ELSE <<token>>

PipelineFunction(fn, token) ==
    CASE fn = "trimmer" -> <<Trimmer(token)>>
      [] fn = "stemmer" -> <<Stem(token)>>
      [] fn = "docfxStopWordFilter" -> StopWordFilter(StopWords, token)

PipelineRun(stack, tokens) ==
    FoldLeft(LAMBDA ts, fn : FlattenSeq([i \in DOMAIN ts |-> PipelineFunction(fn, ts[i])]),
             tokens, stack)

PipelineRemove(stack, fn) == SelectSeq(stack, LAMBDA f : f # fn)

(* lunr's default pipelines as the worker changes them: its stop words     *)
(* come after the documents and so keep no word out of the index.          *)
Pipeline == PipelineRemove(<<"trimmer", "stopWordFilter", "stemmer">>, "stopWordFilter")

(* Mutant: words are stemmed in documents only. *)
SearchPipelineUnstemmed == <<"docfxStopWordFilter">>

SearchPipeline == <<"stemmer", "docfxStopWordFilter">>

(* The key of a field of a document, and its parts again. *)
FieldRef(docRef, fieldName) == fieldName \o <<"/">> \o docRef

(* Mutant: the last "/" separates the parts. *)
SplitAtLast(s) ==
    LET n == CHOOSE i \in DOMAIN s : s[i] = "/" /\ \A j \in (i + 1) .. Len(s) : s[j] # "/"
    IN  [fieldName |-> SubSeq(s, 1, n - 1), docRef |-> SubSeq(s, n + 1, Len(s))]

FromFieldRef(s) ==
    LET n == CHOOSE i \in DOMAIN s : s[i] = "/" /\ \A j \in 1 .. (i - 1) : s[j] # "/"
    IN  [fieldName |-> SubSeq(s, 1, n - 1), docRef |-> SubSeq(s, n + 1, Len(s))]

-----------------------------------------------------------------------------
(* Vectors: pairs of a term's index and its value, by ascending index.     *)

RECURSIVE SearchIndex(_, _, _, _)
SearchIndex(v, index_, from, end) ==
    LET pivot == from + ((end - from) \div 2)
    IN  IF end - from <= 1 \/ v[pivot + 1][1] = index_ THEN pivot
        ELSE IF v[pivot + 1][1] < index_ THEN SearchIndex(v, index_, pivot, end)
        ELSE SearchIndex(v, index_, from, pivot)

(* Mutant: the place is always that of the pair the search stopped at. *)
PositionOfPivot(v, index_) == IF v = <<>> THEN 0 ELSE SearchIndex(v, index_, 0, Len(v))

(* How many pairs come before the place of an index in the vector. *)
PositionForIndex(v, index_) ==
    IF v = <<>> THEN 0
    ELSE LET pivot == SearchIndex(v, index_, 0, Len(v))
         IN  IF v[pivot + 1][1] >= index_ THEN pivot ELSE pivot + 1

(* The value of an index that is there already becomes the sum. *)
Upsert(v, index_, val) ==
    LET position == PositionForIndex(v, index_)
    IN  IF position < Len(v) /\ v[position + 1][1] = index_
        THEN [v EXCEPT ![position + 1][2] = @ + val]
        ELSE InsertAt(v, position + 1, <<index_, val>>)

(* An index that is there already is an error. *)
Insert(v, index_, val) ==
    LET position == PositionForIndex(v, index_)
    IN  IF position < Len(v) /\ v[position + 1][1] = index_
        THEN [v EXCEPT ![position + 1][2] = NaN]
        ELSE InsertAt(v, position + 1, <<index_, val>>)

SumOfSquares(v) == FoldLeft(LAMBDA sum, e : sum + e[2] * e[2], 0, v)

RECURSIVE Dot(_, _)
Dot(a, b) ==
    IF a = <<>> \/ b = <<>> THEN 0
    ELSE IF Head(a)[1] < Head(b)[1] THEN Dot(Tail(a), b)
    ELSE IF Head(a)[1] > Head(b)[1] THEN Dot(a, Tail(b))
    ELSE Head(a)[2] * Head(b)[2] + Dot(Tail(a), Tail(b))

(* A quotient, of which only the parts are kept. *)
Similarity(a, b) ==
    IF SumOfSquares(a) = 0 \/ SumOfSquares(b) = 0 THEN NaN
    ELSE [dot |-> Dot(a, b), squares |-> SumOfSquares(a) * SumOfSquares(b)]

-----------------------------------------------------------------------------
(* The builder. *)

NewIndexBuilder ==
    [documentCount |-> 0, invertedIndex |-> None, termIndex |-> 0,
     fieldTermFrequencies |-> None, fieldLengths |-> None]

(* One term of a field: its frequency, and its entry in the posting, which *)
(* is made when the term is new.                                           *)
AddTerm(b, term, docRef, fieldName) ==
    LET ref == FieldRef(docRef, fieldName)
        tf == b.fieldTermFrequencies[ref]
        n == IF term \in DOMAIN tf THEN tf[term] ELSE 0
        posting == IF term \in DOMAIN b.invertedIndex THEN b.invertedIndex[term]
                   ELSE [index |-> b.termIndex, refs |-> [f \in Fields |-> {}]]
    IN  [b EXCEPT !.fieldTermFrequencies[ref] = (term :> n + 1) @@ @,
                  !.termIndex = IF term \in DOMAIN b.invertedIndex THEN @ ELSE @ + 1,
                  !.invertedIndex = (term :> [posting EXCEPT !.refs[fieldName] = @ \union {docRef}])
                                    @@ @]

AddField(b, docRef, fieldName) ==
    LET terms == PipelineRun(Pipeline, Tokenizer(Documents[docRef][fieldName]))
        ref == FieldRef(docRef, fieldName)
    IN  FoldLeft(LAMBDA c, term : AddTerm(c, term, docRef, fieldName),
                 [b EXCEPT !.fieldTermFrequencies = (ref :> None) @@ @,
                           !.fieldLengths = (ref :> Len(terms)) @@ @], terms)

AverageFieldLength(b, fieldName) ==
    LET refs == {r \in DOMAIN b.fieldLengths : FromFieldRef(r).fieldName = fieldName}
    IN  [total |-> FoldFunctionOnSet(+, 0, b.fieldLengths, refs), documents |-> Cardinality(refs)]

(* How rare a term is, as a fraction: the logarithm of one more than it is *)
(* left out.  A document counts once for each of its fields.               *)
Idf(b, term) ==
    LET refs == b.invertedIndex[term].refs
        n == 2 * FoldSet(LAMBDA f, sum : sum + Cardinality(refs[f]), 0, DOMAIN refs)
        d == 2 * b.documentCount + 1 - n
    IN  [num |-> IF d < 0 THEN - d ELSE d, den |-> n + 1]

(* The frequency, dampened by k1 = 6/5 and, by b = 3/4, with the length of *)
(* the field, as a fraction.                                               *)
Saturation(b, ref, term) ==
    LET average == AverageFieldLength(b, FromFieldRef(ref).fieldName)
        tf == b.fieldTermFrequencies[ref][term]
    IN  [num |-> 22 * tf * average.total,
         den |-> 3 * average.total + 9 * b.fieldLengths[ref] * average.documents
                     + 10 * average.total * tf]

(* In multiples of 1 / Precision: the weight of a term that is in about as *)
(* many fields as there are documents may round to 0.                      *)
Weight(b, ref, term) ==
    LET idf == Idf(b, term)
        saturation == Saturation(b, ref, term)
        den == idf.den * saturation.den
    IN  (2 * Precision * idf.num * saturation.num + den) \div (2 * den)

FieldVector(b, ref) ==
    FoldSet(LAMBDA term, v : Insert(v, b.invertedIndex[term].index, Weight(b, ref, term)),
            <<>>, DOMAIN b.fieldTermFrequencies[ref])

Sorted(terms) ==
    [n \in 1 .. Cardinality(terms) |->
        CHOOSE t \in terms : Cardinality({u \in terms : Before(u, t)}) = n - 1]

BuildIndex(b) ==
    [invertedIndex |-> b.invertedIndex,
     fieldVectors |-> [ref \in DOMAIN b.fieldTermFrequencies |-> FieldVector(b, ref)],
     tokenSet |-> FromArray(Sorted(DOMAIN b.invertedIndex)),
     fields |-> Fields,
     pipeline |-> SearchPipeline]

IndexToJSON(i) ==
    LET terms == Sorted(DOMAIN i.invertedIndex)
    IN  [fields |-> i.fields, fieldVectors |-> i.fieldVectors, pipeline |-> i.pipeline,
         invertedIndex |-> [n \in DOMAIN terms |-> <<terms[n], i.invertedIndex[terms[n]]>>]]

IndexLoad(json) ==
    LET pairs == json.invertedIndex
    IN  [invertedIndex |-> [term \in {pairs[n][1] : n \in DOMAIN pairs} |->
                               (CHOOSE p \in ToSet(pairs) : p[1] = term)[2]],
         fieldVectors |-> json.fieldVectors,
         tokenSet |-> FromArray([n \in DOMAIN pairs |-> pairs[n][1]]),
         fields |-> json.fields,
         pipeline |-> json.pipeline]

-----------------------------------------------------------------------------
(* The query. *)

(* The words of the index each clause stands for, after the search         *)
(* pipeline unless the term has wildcards.                                 *)
ExpandClause(i, clause) ==
    LET terms == IF clause.usePipeline THEN PipelineRun(i.pipeline, <<clause.term>>)
                 ELSE <<clause.term>>
    IN  UNION {ExpandedTerms(i.tokenSet, [clause EXCEPT !.term = terms[m]]) : m \in DOMAIN terms}

(* The turns of the loops over clauses, expanded terms and fields. *)
Lookups(i) ==
    UNION {[clause : {n}, term : ExpandClause(i, clauses[n]), field : clauses[n].fields] :
              n \in DOMAIN clauses}

QueryVector(i, lookups, field) ==
    FoldSet(LAMBDA l, v : Upsert(v, i.invertedIndex[l.term].index, clauses[l.clause].boost),
            <<>>, {l \in lookups : l.field = field})

(* Which terms matched in which field of a document: MatchData, combined. *)
MatchingFields(i, lookups) ==
    LET matches == UNION {{<<FieldRef(r, l.field), <<l.term, l.field>>>> :
                              r \in i.invertedIndex[l.term].refs[l.field]} : l \in lookups}
    IN  [ref \in {m[1] : m \in matches} |-> {m[2] : m \in {o \in matches : o[1] = ref}}]

QueryIndex(i) ==
    LET lookups == Lookups(i)
        missing == {l \in lookups : l.term \notin DOMAIN i.invertedIndex}
        matching == MatchingFields(i, lookups)
        fieldsOf(doc) == {ref \in DOMAIN matching : FromFieldRef(ref).docRef = doc}
    IN  IF missing # {} THEN TypeError ELSE
        [doc \in {FromFieldRef(ref).docRef : ref \in DOMAIN matching} |->
            [score |-> [ref \in fieldsOf(doc) |->
                           Similarity(QueryVector(i, lookups, FromFieldRef(ref).fieldName),
                                      i.fieldVectors[ref])],
             matchData |-> UNION {matching[ref] : ref \in fieldsOf(doc)}]]

-----------------------------------------------------------------------------

Init ==
    /\ QueryInit
    /\ added = {}
    /\ builder = NewIndexBuilder
    /\ index = NoIndex
    /\ reloaded = FALSE
    /\ results = NoResults

AddDocument(docRef) ==
    /\ index = NoIndex
    /\ docRef \notin added
    /\ added' = added \union {docRef}
    /\ builder' = FoldLeft(LAMBDA b, f : AddField(b, docRef, f),
                            [builder EXCEPT !.documentCount = @ + 1], SetToSeq(Fields))
    /\ UNCHANGED <<queryVars, index, reloaded, results>>

Build ==
    /\ index = NoIndex
    /\ index' = BuildIndex(builder)
    /\ UNCHANGED <<queryVars, added, builder, reloaded, results>>

Reload ==
    /\ index # NoIndex /\ ~ reloaded /\ results = NoResults
    /\ index' = IndexLoad(IndexToJSON(index))
    /\ reloaded' = TRUE
    /\ UNCHANGED <<queryVars, added, builder, results>>

Parse ==
    /\ index # NoIndex
    /\ QueryNext
    /\ UNCHANGED indexVars

Query ==
    /\ results = NoResults
    /\ state = "done"
    /\ results' = QueryIndex(index)
    /\ UNCHANGED <<queryVars, added, builder, index, reloaded>>

QueryThrows ==
    /\ results = NoResults
    /\ state = "error"
    /\ results' = QueryParseError
    /\ UNCHANGED <<queryVars, added, builder, index, reloaded>>

Next ==
    \/ \E docRef \in DOMAIN Documents : AddDocument(docRef)
    \/ Build
    \/ Reload
    \/ Parse
    \/ Query
    \/ QueryThrows

Spec == Init /\ [][Next]_vars

-----------------------------------------------------------------------------

Answered == results \notin {NoResults, QueryParseError}

DocumentTerms(docRef, field) ==
    ToSet(PipelineRun(Pipeline, Tokenizer(Documents[docRef][field])))

(* A word matches a clause by itself. *)
Means(clause, word) ==
    \E term \in ToSet(IF clause.usePipeline THEN PipelineRun(SearchPipeline, <<clause.term>>)
                      ELSE <<clause.term>>) :
        word \in ExpandedTerms(FromArray(<<word>>), [clause EXCEPT !.term = term])

MatchesIn(docRef) ==
    {<<word, field>> \in (UNION {DocumentTerms(docRef, f) : f \in Fields}) \X Fields :
        /\ word \in DocumentTerms(docRef, field)
        /\ \E n \in DOMAIN clauses : field \in clauses[n].fields /\ Means(clauses[n], word)}

(* A query returns the documents with a field in which some clause matches *)
(* a word, taken by itself, and reports exactly those words and fields:    *)
(* sharing all words in one automaton, all postings in one dictionary and  *)
(* all matches under one key loses and confuses nothing, in a built index  *)
(* or in one loaded from its serialised form (Index.query, FieldRef,       *)
(* MatchData.combine, Builder.add, Index.load).  In particular no expanded *)
(* term lacks its posting, which would be a TypeError.                     *)
HitsAreMatches ==
    Answered =>
        /\ results # TypeError
        /\ DOMAIN results = {r \in added : MatchesIn(r) # {}}
        /\ \A r \in DOMAIN results : results[r].matchData = MatchesIn(r)

(* The boosts of the clauses that a word matches in a field. *)
Boost(field, word) ==
    FoldSet(LAMBDA n, sum : sum + clauses[n].boost, 0,
            {n \in DOMAIN clauses : field \in clauses[n].fields /\ Means(clauses[n], word)})

(* Each vector lists its terms once and in order, which its binary search  *)
(* and the merge in dot rely on, however their indexes came to it; and the *)
(* score of a field compares what the clauses give to each of its words,   *)
(* added up, with the word's weight.  It is "not a number" just when all   *)
(* those boosts are 0, or all weights have been rounded to 0               *)
(* (Vector.upsert, dot, similarity, createFieldVectors, Index.query).      *)
ScoresFollowWeights ==
    /\ index # NoIndex =>
           \A ref \in DOMAIN index.fieldVectors :
               LET v == index.fieldVectors[ref] IN
               /\ \A n \in 1 .. Len(v) - 1 : v[n][1] < v[n + 1][1]
               /\ ToSet(v) = {<<index.invertedIndex[t].index, Weight(builder, ref, t)>> :
                                 t \in DOMAIN builder.fieldTermFrequencies[ref]}
    /\ Answered =>
           \A docRef \in DOMAIN results, field \in Fields :
               LET ref == FieldRef(docRef, field)
                   score == results[docRef].score
                   words == DocumentTerms(docRef, field)
                   isZero == \/ \A w \in words : Weight(builder, ref, w) = 0
                             \/ \A w \in DOMAIN builder.invertedIndex : Boost(field, w) = 0
               IN  ref \in DOMAIN score =>
                       IF isZero THEN score[ref] = NaN
                       ELSE /\ score[ref] # NaN
                            /\ score[ref].dot =
                                   FoldSet(LAMBDA w, sum : sum + Boost(field, w) * Weight(builder, ref, w),
                                           0, words)

(* Whoever types a word of a document gets the document, if the tokenizer  *)
(* and the query's lexer cut it out alike, it begins and ends in word      *)
(* characters, and its stem is no stop word of the site.  (Queries are     *)
(* stemmed before their stop words are taken out, and never trimmed.)      *)
WordsAreFound ==
    Answered /\ Len(clauses) = 1 =>
        \A docRef \in added, field \in Fields :
            LET c == clauses[1] IN
            /\ c = Clause([term |-> c.term])
            /\ c.term \in ToSet(Tokenizer(Documents[docRef][field]))
            /\ Trimmer(c.term) = c.term
            /\ Stem(c.term) \notin StopWords
            => docRef \in DOMAIN results
=============================================================================
