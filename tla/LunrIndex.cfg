\* Up to three documents in any order, one query out of 46.  Weights are multiples
\* of 1/2, so that those of a term in three fields of three documents are 0; with
\* the code's 1/1000 this takes a thousand documents.
CONSTANTS
    Inputs <- MCInputs
    Separators = {" "}
    Fields <- MCFields
    LowerCase <- MCLowerCase
    Alphabet <- MCAlphabet
    Documents <- MCDocuments
    TokenSeparators = {" ", "."}
    NonWord = {","}
    Stem <- MCStem
    StopWords <- MCStopWords
    Precision = 2
    NaN = NaN
    NoIndex = NoIndex
    NoResults = NoResults
    TypeError = TypeError
    QueryParseError = QueryParseError
SPECIFICATION Spec
CHECK_DEADLOCK FALSE
INVARIANTS
    HitsAreMatches
    ScoresFollowWeights
    WordsAreFound
