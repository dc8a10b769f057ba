\* Three keys, two hits on a page; the navbar is in the page or loaded, which
\* makes one key handler or two.
CONSTANTS
    abc = abc
    abcd = abcd
    none = none
    bad = bad
    Long = {abc, abcd, none, bad}
    Short = {ab}
    Refused = {bad}
    HitsOf <- MCHitsOf
    NumPerPage = 2
    MaxKeys = 3
    NoQuery = NoQuery
    NoItems = NoItems
SPECIFICATION FairSpec
CHECK_DEADLOCK FALSE
INVARIANT ResultsAnswerTheQuery
PROPERTIES
    ResultsNeverGoBack
    LatestQueryIsAnswered
