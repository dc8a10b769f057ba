\* The fewest numbers of two digits that take the minimisation wrong.
CONSTANTS
    Alphabet <- DigitAlphabet
    Words <- Numbers
    MaxWords = 19
    Clauses = {}
    MaxWordLength = 5
    MaxTermLength = 1
SPECIFICATION NumbersSpec
CHECK_DEADLOCK FALSE
INVARIANT LanguageKept
