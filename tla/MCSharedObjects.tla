--------------------------- MODULE MCSharedObjects ---------------------------
(* Model checking SharedObjects: which of its values are interchangeable.  *)
EXTENDS SharedObjectsInvariant, TLC

Symmetry == Permutations(Refs \ {RootRef})
              \cup Permutations(Proxies \ {RootProxy})
              \cup Permutations(Objects \ {Root})
              \cup Permutations(Writers)
=============================================================================
