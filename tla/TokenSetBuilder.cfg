\* Words of at most three letters out of two, and one with a third letter, up to three
\* of them in an index; terms of at most three characters with wildcards or edits.
CONSTANTS
    Alphabet <- MCAlphabet
    Words <- MCWords
    MaxWords = 3
    Clauses <- MCClauses
    MaxWordLength = 3
    MaxTermLength = 3
SPECIFICATION Spec
CHECK_DEADLOCK FALSE
INVARIANTS
    LanguageKept
    Minimal
    WildcardsExact
    FuzzyWithinDistance
