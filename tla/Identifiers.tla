----------------------------- MODULE Identifiers -----------------------------
(***************************************************************************)
(* The 16-bit identifiers every table of Imp.NET is indexed by             *)
(* (src/Imp/IdentifiedCollection.cs).  `ushort' arithmetic is unchecked in *)
(* the project's builds, so ++ wraps at the width; Capacity stands for the *)
(* number of values of the type (65536 in the code), small in TLC's runs.  *)
(***************************************************************************)
EXTENDS Integers, FiniteSets

CONSTANT Capacity

ASSUME CapacityAssumption == Capacity \in Nat \ {0}

IDs == 0 .. (Capacity - 1)

\* newID++ on a ushort: wraps to 0 at the width.
NextID(id) == IF id = Capacity - 1 THEN 0 ELSE id + 1

\* (ushort)InternalDictionary.Count: where the search for a free ID starts.
\* A full table casts Capacity itself, which is 0 at this width.
FirstProbe(used) ==
    IF Cardinality(used) = Capacity THEN 0 ELSE Cardinality(used)

\* How many times newID++ runs before the search reaches id.
ProbeDistance(start, id) ==
    IF id >= start THEN id - start ELSE id + Capacity - start

CountedID(used) == Cardinality(used)    \* mutant: the search is left out

\* What Add's loop returns when an identifier is free: the first free one at
\* or after Count, cyclically.  IdentifiedCollection runs the loop step by step
\* and checks that it stops here; the other modules allocate with this operator.
NewID(used) ==
    CHOOSE id \in IDs \ used : \A other \in IDs \ used :
        ProbeDistance(FirstProbe(used), id)
            <= ProbeDistance(FirstProbe(used), other)
=============================================================================
