\* Two threads, four identifiers that wrap, as many items as identifiers: the
\* collection fills up, empties, and reuses identifiers out of order.
SPECIFICATION FairSpec
CONSTANTS
    Capacity = 4
    Threads = {t1, t2}
    Values = {a, b, c, d}
    Absent = Absent
    AbsentRemovals = FALSE
INVARIANTS Consistent SearchFindsNewID
PROPERTIES NeverReassigned AddReturns
