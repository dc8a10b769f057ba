--------------------- MODULE IdentifiedCollectionProofs ---------------------
(***************************************************************************)
(* For every width, every number of threads and every set of items: the two*)
(* dictionaries of IdentifiedCollection agree whenever its monitor is free,*)
(* as long as no caller removes an item that has already left.             *)
(***************************************************************************)
EXTENDS IdentifiedCollection, IdentifierTheorems

\* The two dictionaries, leaving aside the ID i and the item x a thread is
\* adding or removing: nothing else leads to i or to x.
InverseExcept(i, x) ==
    \A id \in IDs, v \in Values :
        /\ id # i /\ v # x => (forward[id] = v <=> reverse[v] = id)
        /\ id # i => forward[id] # x
        /\ v # x => reverse[v] # i

InverseEntries == \A id \in IDs, v \in Values : forward[id] = v <=> reverse[v] = id

\* Exactly the owner of the monitor is inside a call.
Exclusive == \A t \in Threads : pc[t] # "idle" <=> lock = t

\* What the owner knows at each step of its call.
OwnerKnows(t) ==
    /\ pc[t] # "idle" => item[t] \in Values
    /\ pc[t] = "probe" => InverseEntries /\ reverse[item[t]] = Absent
    /\ pc[t] = "storeReverse" =>
          /\ InverseExcept(newID[t], item[t])
          /\ forward[newID[t]] = item[t]
          /\ reverse[item[t]] = Absent
    /\ pc[t] = "dropReverse" =>
          /\ InverseExcept(newID[t], item[t])
          /\ forward[newID[t]] = Absent
    /\ pc[t] = "dropForward" =>
          /\ InverseExcept(newID[t], item[t])
          /\ forward[newID[t]] = item[t]
          /\ reverse[item[t]] = Absent

\* Consistent alone is not inductive: a thread in the middle of a call must be
\* shown to restore it.
IInv ==
    /\ TypeOK
    /\ Exclusive
    /\ lock = Absent => InverseEntries
    /\ \A t \in Threads : OwnerKnows(t)

-----------------------------------------------------------------------------
LEMMA FirstProbeIsID ==
    ASSUME NEW used, used \subseteq IDs PROVE FirstProbe(used) \in IDs
<1>1. IsFiniteSet(IDs) /\ Cardinality(IDs) = Capacity
  BY FS_Interval, CapacityAssumption DEF IDs
<1>2. Cardinality(used) \in 0 .. Capacity
  BY <1>1, FS_Subset, FS_CardinalityType
<1> QED
  BY <1>2, CapacityAssumption DEF FirstProbe, IDs

LEMMA TypeStep == TypeOK /\ [Next]_vars => TypeOK'
<1> SUFFICES ASSUME TypeOK, [Next]_vars PROVE TypeOK'
  OBVIOUS
<1> USE CapacityAssumption, CollectionAssumption DEF TypeOK, Steps
<1>1. ASSUME NEW t \in Threads, NEW v \in Values, BeginAdd(t, v)
      PROVE  TypeOK'
  <2>1. FirstProbe(UsedIDs) \in IDs
    BY FirstProbeIsID DEF UsedIDs
  <2> QED
    BY <1>1, <2>1 DEF BeginAdd, Acquire
<1>2. ASSUME NEW t \in Threads, NEW v \in Values, BeginRemoveValue(t, v)
      PROVE  TypeOK'
  BY <1>2 DEF BeginRemoveValue, Acquire, IDs
<1>3. ASSUME NEW t \in Threads, NEW id \in IDs, BeginRemoveID(t, id)
      PROVE  TypeOK'
  BY <1>3 DEF BeginRemoveID, Acquire
<1>4. ASSUME NEW t \in Threads, Probe(t) PROVE TypeOK'
  <2>1. NextID(newID[t]) \in IDs
    BY NextIDIsID
  <2> QED
    BY <1>4, <2>1 DEF Probe
<1>5. ASSUME NEW t \in Threads, StoreForward(t) PROVE TypeOK'
  BY <1>5 DEF StoreForward
<1>6. ASSUME NEW t \in Threads, StoreReverse(t) PROVE TypeOK'
  <2> CASE item[t] \in Values
    BY <1>6 DEF StoreReverse, Release
  <2> CASE item[t] \notin Values
    BY <1>6 DEF StoreReverse, Release
  <2> QED
    OBVIOUS
<1>7. ASSUME NEW t \in Threads, DropReverse(t) PROVE TypeOK'
  BY <1>7 DEF DropReverse, Release
<1>8. ASSUME NEW t \in Threads, DropForward(t) PROVE TypeOK'
  BY <1>8 DEF DropForward, Release
<1>9. ASSUME UNCHANGED vars PROVE TypeOK'
  BY <1>9 DEF vars
<1> QED
  BY <1>1, <1>2, <1>3, <1>4, <1>5, <1>6, <1>7, <1>8, <1>9 DEF Next, Continue

\* The types hold of every behaviour, whatever callers remove.
THEOREM TypeCorrect == Spec => []TypeOK
<1> USE CapacityAssumption, CollectionAssumption
<1>1. Init => TypeOK
  BY DEF Init, TypeOK, IDs, Steps
<1>2. TypeOK /\ [Next]_vars => TypeOK'
  BY TypeStep
<1> QED
  BY <1>1, <1>2, PTL DEF Spec

LEMMA InitIInv == Init => IInv
BY CapacityAssumption, CollectionAssumption
   DEF Init, IInv, TypeOK, Exclusive, InverseEntries, OwnerKnows, IDs, Steps

-----------------------------------------------------------------------------
\* One step per action: the thread that moves owns the monitor before or after.
LEMMA NextIInv ==
    ASSUME AbsentRemovals = FALSE, IInv, [Next]_vars
    PROVE  IInv'
<1> USE CapacityAssumption, CollectionAssumption
<1>t. TypeOK' BY TypeStep DEF IInv
<1>1. ASSUME NEW t \in Threads, NEW v \in Values, BeginAdd(t, v)
      PROVE  IInv'
  BY <1>1, <1>t DEF IInv, BeginAdd, Acquire, TypeOK, Exclusive, InverseEntries, OwnerKnows
<1>2. ASSUME NEW t \in Threads, NEW v \in Values, BeginRemoveValue(t, v)
      PROVE  IInv'
  BY <1>2, <1>t DEF IInv, BeginRemoveValue, Acquire, TypeOK, Exclusive, InverseEntries,
                    InverseExcept, OwnerKnows
<1>3. ASSUME NEW t \in Threads, NEW id \in IDs, BeginRemoveID(t, id)
      PROVE  IInv'
  BY <1>3, <1>t DEF IInv, BeginRemoveID, Acquire, TypeOK, Exclusive, InverseEntries,
                    InverseExcept, OwnerKnows
<1>4. ASSUME NEW t \in Threads, Probe(t) PROVE IInv'
  BY <1>4, <1>t DEF IInv, Probe, TypeOK, Exclusive, InverseEntries, InverseExcept, OwnerKnows
<1>5. ASSUME NEW t \in Threads, StoreForward(t) PROVE IInv'
  BY <1>5, <1>t DEF IInv, StoreForward, TypeOK, Exclusive, InverseEntries,
                    InverseExcept, OwnerKnows
<1>6. ASSUME NEW t \in Threads, StoreReverse(t) PROVE IInv'
  BY <1>6, <1>t DEF IInv, StoreReverse, Release, TypeOK, Exclusive, InverseEntries,
                    InverseExcept, OwnerKnows
<1>7. ASSUME NEW t \in Threads, DropReverse(t) PROVE IInv'
  BY <1>7, <1>t DEF IInv, DropReverse, Release, TypeOK, Exclusive, InverseEntries,
                    InverseExcept, OwnerKnows
<1>8. ASSUME NEW t \in Threads, DropForward(t) PROVE IInv'
  BY <1>8, <1>t DEF IInv, DropForward, Release, TypeOK, Exclusive, InverseEntries,
                    InverseExcept, OwnerKnows
<1>9. ASSUME UNCHANGED vars PROVE IInv'
  BY <1>9, <1>t DEF vars, IInv, TypeOK, Exclusive, InverseEntries, InverseExcept, OwnerKnows
<1> QED
  BY <1>1, <1>2, <1>3, <1>4, <1>5, <1>6, <1>7, <1>8, <1>9 DEF Next, Continue

\* While no caller removes an absent value, the two dictionaries are inverse
\* whenever the monitor is free, for every width and number of threads.
THEOREM CollectionConsistent ==
    ASSUME AbsentRemovals = FALSE
    PROVE  Spec => []Consistent
<1>1. Init => IInv
  BY InitIInv
<1>2. IInv /\ [Next]_vars => IInv'
  BY NextIInv
<1>3. IInv => Consistent
  BY DEF IInv, Consistent, InverseEntries
<1> QED
  BY <1>1, <1>2, <1>3, PTL DEF Spec

\* An ID in use is never handed to another item, nor an item given a second ID.
THEOREM AllocationExclusive ==
    ASSUME AbsentRemovals = FALSE
    PROVE  Spec => NeverReassigned
<1> DEFINE Keeps ==
      /\ \A id \in IDs : forward[id] # Absent => forward'[id] \in {forward[id], Absent}
      /\ \A v \in Values : reverse[v] # Absent => reverse'[v] \in {reverse[v], Absent}
<1>1. Init => IInv
  BY InitIInv
<1>2. IInv /\ [Next]_vars => IInv'
  BY NextIInv
<1>3. IInv /\ [Next]_vars => [Keeps]_vars
  <2> SUFFICES ASSUME IInv, Next PROVE Keeps
    OBVIOUS
  <2> USE DEF IInv, TypeOK
  <2>1. ASSUME NEW t \in Threads, NEW v \in Values,
               BeginAdd(t, v) \/ BeginRemoveValue(t, v)
        PROVE  Keeps
    BY <2>1 DEF BeginAdd, BeginRemoveValue
  <2>2. ASSUME NEW t \in Threads, NEW id \in IDs, BeginRemoveID(t, id)
        PROVE  Keeps
    BY <2>2 DEF BeginRemoveID
  <2>3. ASSUME NEW t \in Threads,
               Probe(t) \/ StoreForward(t) \/ DropReverse(t) \/ DropForward(t)
        PROVE  Keeps
    BY <2>3 DEF Probe, StoreForward, DropReverse, DropForward
  <2>4. ASSUME NEW t \in Threads, StoreReverse(t) PROVE Keeps
    BY <2>4 DEF StoreReverse, OwnerKnows
  <2> QED
    BY <2>1, <2>2, <2>3, <2>4 DEF Next, Continue
<1> QED
  BY <1>1, <1>2, <1>3, PTL DEF Spec, NeverReassigned
-----------------------------------------------------------------------------
(* The search for a free ID.                                               *)

\* The loop of Add has left out no free ID between its start and where it is.
NothingSkipped(t) ==
    pc[t] = "probe" => \A id \in IDs \ UsedIDs :
        ProbeDistance(FirstProbe(UsedIDs), newID[t]) <= ProbeDistance(FirstProbe(UsedIDs), id)

\* It needs no assumption on removals: the table only has to stay as it is while
\* a thread searches it, which the monitor sees to.
SearchInv == TypeOK /\ Exclusive /\ \A t \in Threads : NothingSkipped(t)

\* Around the IDs, one further is next, except at the end of the circle.
LEMMA NextDistance ==
    ASSUME NEW start \in IDs, NEW id \in IDs, NEW other \in IDs,
           ProbeDistance(start, id) <= ProbeDistance(start, other), id # other
    PROVE  ProbeDistance(start, NextID(id)) <= ProbeDistance(start, other)
BY CapacityAssumption DEF ProbeDistance, NextID, IDs

\* Two IDs at the same distance are the same.
LEMMA DistanceIsOwn ==
    ASSUME NEW start \in IDs, NEW id \in IDs, NEW other \in IDs,
           ProbeDistance(start, id) <= ProbeDistance(start, other),
           ProbeDistance(start, other) <= ProbeDistance(start, id)
    PROVE  id = other
BY CapacityAssumption DEF ProbeDistance, IDs

\* NewID is the free ID that no other free one comes before.
LEMMA NewIDIsFirst ==
    ASSUME NEW used, used \subseteq IDs, NEW id \in IDs \ used,
           \A other \in IDs \ used :
               ProbeDistance(FirstProbe(used), id) <= ProbeDistance(FirstProbe(used), other)
    PROVE  id = NewID(used)
<1>1. /\ NewID(used) \in IDs \ used
      /\ \A other \in IDs \ used :
             ProbeDistance(FirstProbe(used), NewID(used)) <= ProbeDistance(FirstProbe(used), other)
  BY DEF NewID
<1>2. FirstProbe(used) \in IDs
  BY FirstProbeIsID
<1> QED
  BY <1>1, <1>2, DistanceIsOwn

LEMMA SearchInvStep == SearchInv /\ [Next]_vars => SearchInv'
<1> SUFFICES ASSUME SearchInv, [Next]_vars PROVE SearchInv'
  OBVIOUS
<1> USE CollectionAssumption
<1>t. TypeOK' BY TypeStep DEF SearchInv
<1>u. UsedIDs \subseteq IDs /\ FirstProbe(UsedIDs) \in IDs
  BY FirstProbeIsID DEF UsedIDs
<1>1. ASSUME NEW t \in Threads, NEW v \in Values, BeginAdd(t, v)
      PROVE  SearchInv'
  <2>1. Exclusive' /\ UsedIDs' = UsedIDs
    BY <1>1 DEF SearchInv, BeginAdd, Acquire, TypeOK, Exclusive, UsedIDs
  <2>2. newID'[t] = FirstProbe(UsedIDs)
    BY <1>1 DEF BeginAdd, SearchInv, TypeOK
  <2>3. \A id \in IDs : ProbeDistance(FirstProbe(UsedIDs), FirstProbe(UsedIDs))
                            <= ProbeDistance(FirstProbe(UsedIDs), id)
    BY <1>u, CapacityAssumption DEF ProbeDistance, IDs
  <2>4. ASSUME NEW o \in Threads PROVE NothingSkipped(o)'
    <3>1. CASE o = t
      BY <3>1, <2>1, <2>2, <2>3 DEF NothingSkipped
    <3>2. CASE o # t
      BY <3>2, <1>1, <2>1 DEF SearchInv, BeginAdd, Acquire, TypeOK, NothingSkipped
    <3> QED
      BY <3>1, <3>2
  <2> QED
    BY <1>t, <2>1, <2>4 DEF SearchInv
<1>2. ASSUME NEW t \in Threads, Probe(t) PROVE SearchInv'
  <2>1. Exclusive' /\ UsedIDs' = UsedIDs /\ newID[t] \in UsedIDs /\ newID[t] \in IDs
    BY <1>2 DEF SearchInv, Probe, TypeOK, Exclusive, UsedIDs
  <2>2. newID'[t] = NextID(newID[t]) /\ pc' = pc /\ pc[t] = "probe"
    BY <1>2 DEF SearchInv, TypeOK, Probe
  <2>3. ASSUME NEW o \in Threads PROVE NothingSkipped(o)'
    <3>1. CASE o = t
      <4>1. ASSUME NEW id \in IDs \ UsedIDs
            PROVE  ProbeDistance(FirstProbe(UsedIDs), newID'[t])
                       <= ProbeDistance(FirstProbe(UsedIDs), id)
        BY <1>u, <2>1, <2>2, NextDistance DEF SearchInv, NothingSkipped
      <4> QED
        BY <3>1, <4>1, <2>1 DEF NothingSkipped
    <3>2. CASE o # t
      BY <3>2, <1>2, <2>1 DEF SearchInv, Probe, TypeOK, NothingSkipped
    <3> QED
      BY <3>1, <3>2
  <2> QED
    BY <1>t, <2>1, <2>3 DEF SearchInv
<1>3. ASSUME NEW t \in Threads,
             \/ StoreForward(t) \/ StoreReverse(t) \/ DropReverse(t) \/ DropForward(t)
             \/ \E v \in Values : BeginRemoveValue(t, v)
             \/ \E id \in IDs : BeginRemoveID(t, id)
      PROVE  SearchInv'
  <2> USE DEF StoreForward, StoreReverse, DropReverse, DropForward, BeginRemoveValue,
              BeginRemoveID, Acquire, Release
  <2>1. /\ \A o \in Threads \ {t} : pc'[o] = pc[o]
        /\ \/ lock = t /\ pc[t] # "idle"
           \/ lock = Absent /\ pc[t] = "idle"
        /\ \/ lock' = t /\ pc'[t] \notin {"idle", "probe"}
           \/ lock' = Absent /\ pc'[t] = "idle"
    BY <1>3 DEF SearchInv, TypeOK, Exclusive
  <2>2. Exclusive'
    BY <2>1 DEF SearchInv, Exclusive
  <2>3. \A o \in Threads : pc'[o] # "probe"
    BY <2>1 DEF SearchInv, Exclusive
  <2> QED
    BY <1>t, <2>2, <2>3 DEF SearchInv, NothingSkipped
<1>4. ASSUME UNCHANGED vars PROVE SearchInv'
  BY <1>4, <1>t DEF vars, SearchInv, Exclusive, NothingSkipped, UsedIDs
<1> QED
  BY <1>1, <1>2, <1>3, <1>4 DEF Next, Continue

\* The step-by-step search stops at the ID that the other modules allocate in one
\* step, for every width and whatever callers remove.
THEOREM SearchStopsAtNewID == Spec => []SearchFindsNewID
<1>1. Init => SearchInv
  BY CapacityAssumption, CollectionAssumption
     DEF Init, SearchInv, TypeOK, Exclusive, NothingSkipped, IDs, Steps
<1>2. SearchInv => SearchFindsNewID
  <2> SUFFICES ASSUME SearchInv, NEW t \in Threads, pc[t] = "probe", forward[newID[t]] = Absent
               PROVE  newID[t] = NewID(UsedIDs)
    BY DEF SearchFindsNewID
  <2>1. newID[t] \in IDs \ UsedIDs /\ UsedIDs \subseteq IDs
    BY DEF SearchInv, TypeOK, UsedIDs
  <2> QED
    BY <2>1, NewIDIsFirst DEF SearchInv, NothingSkipped
<1> QED
  BY <1>1, <1>2, SearchInvStep, PTL DEF Spec
=============================================================================
