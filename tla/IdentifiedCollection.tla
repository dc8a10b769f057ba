------------------------ MODULE IdentifiedCollection ------------------------
(***************************************************************************)
(* The two-way table behind held objects, network operations and connected *)
(* clients (src/Imp/IdentifiedCollection.cs): a dictionary from ID to item *)
(* and one from item to ID, updated one after the other under the monitor  *)
(* of the first.  Readers (the indexers, ContainsID, ContainsValue, ...)   *)
(* take no lock and see every intermediate state of this module.           *)
(*                                                                         *)
(* Callers add items that are not in the collection: the generator overload*)
(* creates the item, and GetOrRegisterLocalSharedObject looks it up first. *)
(* Whether they may remove an item that has already left is a parameter:   *)
(* a client's tables are only told IDs to remove; the server's is told     *)
(* items, which may have left (see Report in ImpServer).                   *)
(***************************************************************************)
EXTENDS Identifiers

CONSTANTS Threads, Values,
          Absent,          \* no entry
          AbsentRemovals   \* may Remove(value) be called for an absent value?

ASSUME CollectionAssumption ==
    /\ Absent \notin Values \cup IDs \cup Threads
    /\ AbsentRemovals \in BOOLEAN

VARIABLES forward,   \* InternalDictionary
          reverse,   \* ReverseDictionary
          lock,      \* owner of the monitor of InternalDictionary
          pc,        \* where each thread is in Add or Remove
          newID,     \* its local newID or id
          item       \* its local item, removedItem or value

vars == <<forward, reverse, lock, pc, newID, item>>

\* The keys of InternalDictionary.
UsedIDs == {id \in IDs : forward[id] # Absent}

Init ==
    /\ forward = [id \in IDs |-> Absent]
    /\ reverse = [v \in Values |-> Absent]
    /\ lock = Absent
    /\ pc = [t \in Threads |-> "idle"]
    /\ newID = [t \in Threads |-> 0]
    /\ item = [t \in Threads |-> Absent]

Acquire(t) == pc[t] = "idle" /\ lock = Absent /\ lock' = t
Release(t) == lock' = Absent /\ pc' = [pc EXCEPT ![t] = "idle"]

-----------------------------------------------------------------------------
(* Add *)

\* Mutant: the search starts at 0.
BeginAddAtZero(t, v) ==
    /\ Acquire(t)
    /\ reverse[v] = Absent
    /\ pc' = [pc EXCEPT ![t] = "probe"]
    /\ newID' = [newID EXCEPT ![t] = 0]
    /\ item' = [item EXCEPT ![t] = v]
    /\ UNCHANGED <<forward, reverse>>

BeginAdd(t, v) ==
    /\ Acquire(t)
    /\ reverse[v] = Absent
    /\ pc' = [pc EXCEPT ![t] = "probe"]
    /\ newID' = [newID EXCEPT ![t] = FirstProbe(UsedIDs)]
    /\ item' = [item EXCEPT ![t] = v]
    /\ UNCHANGED <<forward, reverse>>

\* Mutant: the loop does not move on.
ProbeInPlace(t) ==
    /\ pc[t] = "probe"
    /\ forward[newID[t]] # Absent
    /\ UNCHANGED vars

\* The loop: this ID is taken, try the next.
Probe(t) ==
    /\ pc[t] = "probe"
    /\ forward[newID[t]] # Absent
    /\ newID' = [newID EXCEPT ![t] = NextID(@)]
    /\ UNCHANGED <<forward, reverse, lock, pc, item>>

\* Mutant: the first ID tried is taken for free.
StoreForwardUnchecked(t) ==
    /\ pc[t] = "probe"
    /\ forward' = [forward EXCEPT ![newID[t]] = item[t]]
    /\ pc' = [pc EXCEPT ![t] = "storeReverse"]
    /\ UNCHANGED <<reverse, lock, newID, item>>

StoreForward(t) ==
    /\ pc[t] = "probe"
    /\ forward[newID[t]] = Absent
    /\ forward' = [forward EXCEPT ![newID[t]] = item[t]]
    /\ pc' = [pc EXCEPT ![t] = "storeReverse"]
    /\ UNCHANGED <<reverse, lock, newID, item>>

StoreReverse(t) ==
    /\ pc[t] = "storeReverse"
    /\ reverse' = [reverse EXCEPT ![item[t]] = newID[t]]
    /\ Release(t)
    /\ UNCHANGED <<forward, newID, item>>

-----------------------------------------------------------------------------
(* Remove(id): an absent ID makes ReverseDictionary.TryRemove(null) throw, *)
(* which leaves both dictionaries and the monitor as they were.            *)

BeginRemoveID(t, id) ==
    /\ Acquire(t)
    /\ forward[id] # Absent
    /\ item' = [item EXCEPT ![t] = forward[id]]
    /\ newID' = [newID EXCEPT ![t] = id]
    /\ forward' = [forward EXCEPT ![id] = Absent]
    /\ pc' = [pc EXCEPT ![t] = "dropReverse"]
    /\ UNCHANGED reverse

\* Mutant: the second dictionary is forgotten.
KeepReverse(t) ==
    /\ pc[t] = "dropReverse"
    /\ Release(t)
    /\ UNCHANGED <<forward, reverse, newID, item>>

DropReverse(t) ==
    /\ pc[t] = "dropReverse"
    /\ reverse' = [reverse EXCEPT ![item[t]] = Absent]
    /\ Release(t)
    /\ UNCHANGED <<forward, newID, item>>

-----------------------------------------------------------------------------
(* Remove(value): TryRemove leaves 0 in id when the value is absent, and   *)
(* the method goes on to remove ID 0.                                      *)

BeginRemoveValue(t, v) ==
    /\ Acquire(t)
    /\ AbsentRemovals \/ reverse[v] # Absent
    /\ item' = [item EXCEPT ![t] = v]
    /\ newID' = [newID EXCEPT ![t] = IF reverse[v] = Absent THEN 0 ELSE reverse[v]]
    /\ reverse' = [reverse EXCEPT ![v] = Absent]
    /\ pc' = [pc EXCEPT ![t] = "dropForward"]
    /\ UNCHANGED forward

DropForward(t) ==
    /\ pc[t] = "dropForward"
    /\ forward' = [forward EXCEPT ![newID[t]] = Absent]
    /\ Release(t)
    /\ UNCHANGED <<reverse, newID, item>>

-----------------------------------------------------------------------------
\* The rest of a call a thread has begun.
Continue(t) ==
    \/ Probe(t) \/ StoreForward(t) \/ StoreReverse(t)
    \/ DropReverse(t)
    \/ DropForward(t)

Next == \E t \in Threads :
    \/ \E v \in Values : BeginAdd(t, v) \/ BeginRemoveValue(t, v)
    \/ \E id \in IDs : BeginRemoveID(t, id)
    \/ Continue(t)

Spec == Init /\ [][Next]_vars

\* A thread inside a call is running: nothing in it waits for another thread.
FairSpec == Spec /\ \A t \in Threads : WF_vars(Continue(t))

-----------------------------------------------------------------------------
Steps == {"idle", "probe", "storeReverse", "dropReverse", "dropForward"}

\* The type invariant.
TypeOK ==
    /\ forward \in [IDs -> Values \cup {Absent}]
    /\ reverse \in [Values -> IDs \cup {Absent}]
    /\ lock \in Threads \cup {Absent}
    /\ pc \in [Threads -> Steps]
    /\ newID \in [Threads -> IDs]
    /\ item \in [Threads -> Values \cup {Absent}]

\* Whenever the monitor is free the two dictionaries are inverse to each other:
\* an ID found by item leads back to that item, and the other way round
\* (GetOrRegisterLocalSharedObject relies on it between two lookups).
Consistent ==
    lock = Absent =>
        \A id \in IDs, v \in Values : forward[id] = v <=> reverse[v] = id

\* The step-by-step search, wrapping at the width of a ushort, stops at the
\* identifier NewID names, which is what the other modules allocate.
SearchFindsNewID ==
    \A t \in Threads :
        pc[t] = "probe" /\ forward[newID[t]] = Absent
            => newID[t] = NewID(UsedIDs)

\* No step hands an ID that is in use to another item, nor gives an item that
\* is in the collection another ID.
NeverReassigned ==
    [][/\ \A id \in IDs : forward[id] # Absent => forward'[id] \in {forward[id], Absent}
       /\ \A v \in Values : reverse[v] # Absent => reverse'[v] \in {reverse[v], Absent}
      ]_vars

\* Add returns: the search under the monitor comes to an end.
AddReturns == \A t \in Threads : pc[t] = "probe" ~> pc[t] = "idle"
=============================================================================
