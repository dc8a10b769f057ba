------------------------- MODULE IdentifierTheorems -------------------------
(***************************************************************************)
(* What the other proofs need to know of identifier allocation.            *)
(***************************************************************************)
EXTENDS Identifiers, FiniteSetTheorems, WellFoundedInduction, TLAPS

\* A search among naturals that has a candidate has a first one.
LEMMA LeastNatural ==
    ASSUME NEW T, T \subseteq Nat, T # {}
    PROVE  \E x \in T : \A y \in T : x <= y
<1>1. IsWellFoundedOn(OpToRel(<, Nat), Nat)
  BY NatLessThanWellFounded
<1>2. PICK x \in T : \A y \in T : ~ (<<y, x>> \in OpToRel(<, Nat))
  BY <1>1, WFMin
<1>3. ASSUME NEW y \in Nat, NEW z \in Nat, ~ (<<y, z>> \in OpToRel(<, Nat))
      PROVE  z <= y
  BY <1>3 DEF OpToRel
<1> QED
  BY <1>2, <1>3, Zenon

\* Add never hands out an identifier in use: as long as one of the 65536 is
\* free the search returns a free one (IdentifiedCollection.cs, Add).
THEOREM NewIDIsFree ==
    ASSUME NEW used, used \subseteq IDs, used # IDs
    PROVE  NewID(used) \in IDs \ used
<1> DEFINE start == FirstProbe(used)
           Far(id) == ProbeDistance(start, id)
           distances == {Far(id) : id \in IDs \ used}
<1>1. IsFiniteSet(used) /\ Cardinality(used) \in 0 .. Capacity
  <2>1. IsFiniteSet(IDs) /\ Cardinality(IDs) = Capacity
    BY FS_Interval, CapacityAssumption DEF IDs
  <2> QED
    BY <2>1, FS_Subset, FS_CardinalityType
<1>2. start \in IDs
  <2>1. CASE Cardinality(used) = Capacity
    BY <2>1, CapacityAssumption DEF FirstProbe, IDs
  <2>2. CASE Cardinality(used) # Capacity
    BY <1>1, <2>2, CapacityAssumption DEF FirstProbe, IDs
  <2> QED
    BY <2>1, <2>2
<1>3. \A id \in IDs : Far(id) \in Nat
  BY <1>2, CapacityAssumption DEF ProbeDistance, IDs
<1>4. PICK d \in distances : \A e \in distances : d <= e
  BY <1>3, LeastNatural
<1>5. PICK id \in IDs \ used : d = Far(id)
  BY <1>4
<1>6. \A other \in IDs \ used : Far(id) <= Far(other)
  BY <1>4, <1>5
<1> QED
  BY <1>6 DEF NewID

\* The search stays inside the width: ++ wraps.
LEMMA NextIDIsID == \A id \in IDs : NextID(id) \in IDs
BY CapacityAssumption DEF NextID, IDs
=============================================================================
