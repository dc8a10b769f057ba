\* Every string of at most four characters.
CONSTANTS
    MaxLength = 4
    Inputs <- MCInputs
    Separators = {" "}
    Fields <- MCFields
    LowerCase <- MCLowerCase
SPECIFICATION QuerySpec
CHECK_DEADLOCK FALSE
INVARIANTS
    LexemesInOrder
    LiteralsKept
    ClausesMeanTerms
PROPERTY QueriesEnd
