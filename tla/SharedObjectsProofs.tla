------------------------- MODULE SharedObjectsProofs -------------------------
(***************************************************************************)
(* For every number of identifiers, objects, transmissions, proxies and    *)
(* threads: SharedInv is an invariant of SharedObjects, and with it the    *)
(* safety properties of the reference counting.                            *)
(***************************************************************************)
EXTENDS SharedObjectsInvariant, IdentifierTheorems

USE CapacityAssumption, SharedAssumption

LEMMA ZeroIsID == 0 \in IDs
BY DEF IDs

LEMMA FreshID ==
    ASSUME TypeOK, HeldIDs # IDs
    PROVE  NewID(HeldIDs) \in IDs /\ held[NewID(HeldIDs)] = NoObject
<1>1. HeldIDs \subseteq IDs
  BY DEF HeldIDs
<1>2. NewID(HeldIDs) \in IDs \ HeldIDs
  BY <1>1, NewIDIsFree
<1> QED
  BY <1>2 DEF HeldIDs

-----------------------------------------------------------------------------
(* Type correctness.                                                       *)

LEMMA InitTypeOK == Init => TypeOK
<1> SUFFICES ASSUME Init PROVE TypeOK
  OBVIOUS
<1> USE ZeroIsID DEF Init
<1>1. /\ held \in [IDs -> Objects \cup {NoObject}] /\ heldCount \in [IDs -> Nat]
      /\ table \in [IDs -> Proxies \cup {NoProxy}]
  OBVIOUS
<1>2. /\ refID \in [Refs -> IDs] /\ refObject \in [Refs -> Objects \cup {NoObject}]
      /\ refPlace \in [Refs -> Places]
  BY DEF Places
<1>3. /\ entryCount \in [Proxies -> Nat] /\ entryRefs \in [Proxies -> SUBSET Refs]
      /\ proxyState \in [Proxies -> {"unused", "reachable", "collected", "finalized"}]
      /\ proxyID \in [Proxies -> IDs]
      /\ proxyObject \in [Proxies -> Objects \cup {NoObject}]
  OBVIOUS
<1> QED
  BY <1>1, <1>2, <1>3 DEF TypeOK

LEMMA MovedType ==
    ASSUME TypeOK, NEW refs, NEW place \in Places
    PROVE  Moved(refs, place) \in [Refs -> Places]
BY DEF TypeOK, Moved

LEMMA TypeStep == TypeOK /\ [Next]_vars => TypeOK'
<1> SUFFICES ASSUME TypeOK, [Next]_vars PROVE TypeOK'
  OBVIOUS
<1> USE DEF TypeOK
<1> DEFINE placed(place) == \A refs : Moved(refs, place) \in [Refs -> Places]
<1>p. /\ placed("abandoned") /\ placed("wire") /\ placed("reading")
      /\ placed("released") /\ placed("returned")
  BY MovedType DEF Places
<1>1. ASSUME NEW w \in Writers, NEW r \in Refs, NEW id \in IDs, RegisterAgain(w, r, id)
      PROVE  TypeOK'
  BY <1>1 DEF RegisterAgain, OneMore, Places, proxyVars, tableVars, listenerVars, useVars
<1>2. ASSUME NEW w \in Writers, NEW r \in Refs, NEW o \in Objects, RegisterNew(w, r, o)
      PROVE  TypeOK'
  BY <1>2, FreshID DEF RegisterNew, Places, proxyVars, tableVars, listenerVars, useVars
<1>3. ASSUME NEW w \in Writers, GiveUpMessage(w) PROVE TypeOK'
  BY <1>3, <1>p DEF GiveUpMessage, refVars, proxyVars, tableVars, listenerVars, useVars
<1>4. ASSUME NEW w \in Writers, NEW o \in Objects, RegisterTooMany(w, o) PROVE TypeOK'
  BY <1>3, <1>4 DEF RegisterTooMany
<1>5. ASSUME NEW w \in Writers, SerializationFails(w) PROVE TypeOK'
  BY <1>3, <1>5 DEF SerializationFails
<1>6. ASSUME NEW w \in Writers, SendShared(w) PROVE TypeOK'
  BY <1>6, <1>p DEF SendShared, refVars, proxyVars, tableVars, listenerVars, useVars
<1>7. ASSUME NEW m \in sharedMsgs, StartReading(m) PROVE TypeOK'
  BY <1>7, <1>p DEF StartReading, UserListens, holderVars, refVars, proxyVars, tableVars, useVars
<1>8. ASSUME NEW r \in reading, NEW p \in Proxies, CreateProxy(r, p) PROVE TypeOK'
  BY <1>8 DEF CreateProxy, Resolved, UserListens, Places, holderVars, refVars, useVars
<1>9. ASSUME ReadingFails PROVE TypeOK'
  BY <1>9 DEF ReadingFails, UserListens, holderVars, refVars, proxyVars, tableVars, useVars
<1>10. ASSUME EntryGone \/ \E r \in reading : TooManyRemoteObjects(r) PROVE TypeOK'
  BY <1>9, <1>10 DEF TooManyRemoteObjects, EntryGone
<1>11. ASSUME NEW r \in reading, FindEntry(r) PROVE TypeOK'
  BY <1>11 DEF FindEntry, UserListens, holderVars, refVars, proxyVars, tableVars, useVars
<1>12. ASSUME LoadEntry \/ GetTarget PROVE TypeOK'
  BY <1>12 DEF LoadEntry, GetTarget, UserListens, holderVars, refVars,
               proxyVars, tableVars, useVars
<1>13. ASSUME CountReference PROVE TypeOK'
  BY <1>13 DEF CountReference, OneMore, Resolved, UserListens, Places, holderVars, refVars,
               proxyVars, useVars
<1>14. ASSUME NEW p \in Proxies, ReplaceEntry(p) PROVE TypeOK'
  BY <1>14 DEF ReplaceEntry, Resolved, UserListens, Places, holderVars, refVars, useVars
<1>15. ASSUME NEW p \in Proxies, Collect(p) PROVE TypeOK'
  BY <1>15 DEF Collect, Collects, holderVars, refVars, tableVars, listenerVars, useVars
<1>16. ASSUME NEW p \in Proxies, Finalize(p) PROVE TypeOK'
  BY <1>16 DEF Finalize, Collects, holderVars, refVars, listenerVars, useVars
<1>17. ASSUME ReportReleased PROVE TypeOK'
  BY <1>17, <1>p DEF ReportReleased, Collects, holderVars, refVars, proxyVars,
                     listenerVars, useVars
<1>18. ASSUME NEW c \in Uses, NEW p \in Proxies, NEW kind \in {"call", "argument"},
              UseProxy(c, p, kind)
       PROVE  TypeOK'
  BY <1>18 DEF UseProxy, holderVars, refVars, tableVars, proxyVars, listenerVars
<1>19. ASSUME NEW m \in releasedMsgs, DeliverReleased(m) PROVE TypeOK'
  BY <1>19, <1>p DEF DeliverReleased, GivesBackAll, HolderListens, refVars, tableVars, proxyVars,
                     listenerVars, useVars
<1>20. ASSUME NEW m \in useMsgs, DeliverUse(m) PROVE TypeOK'
  BY <1>20 DEF DeliverUse, HolderListens, refVars, tableVars, proxyVars, listenerVars
<1>21. ASSUME DisconnectHolder \/ HolderListenerEnds PROVE TypeOK'
  <2>1. ClearHolder /\ holderListener' \in {"running", "failed", "ended"}
    BY <1>21 DEF DisconnectHolder, HolderListenerEnds
  <2> QED
    BY <2>1 DEF ClearHolder, refVars, tableVars, proxyVars, listenerVars, useVars
<1>22. ASSUME DisconnectUser \/ UserListenerEnds PROVE TypeOK'
  <2>1. ClearUser /\ listening' \in {listening, "ended"}
    BY <1>22 DEF DisconnectUser, UserListenerEnds
  <2> QED
    BY <2>1 DEF ClearUser, holderVars, refVars, useVars
<1>23. ASSUME UNCHANGED vars PROVE TypeOK'
  BY <1>23 DEF vars, holderVars, refVars, tableVars, proxyVars, listenerVars, useVars
<1> HIDE DEF TypeOK, placed
<1>24. ASSUME NEW w \in Writers, Sender(w) PROVE TypeOK'
  BY <1>1, <1>2, <1>4, <1>5, <1>6, <1>24 DEF Sender
<1>25. CASE UserListener
  BY <1>7, <1>8, <1>10, <1>11, <1>12, <1>13, <1>14, <1>25 DEF UserListener
<1>26. CASE FinalizerThread
  BY <1>16, <1>17, <1>26 DEF FinalizerThread
<1>27. CASE HolderListener
  BY <1>19, <1>20, <1>27 DEF HolderListener
<1>28. CASE Disconnection
  BY <1>21, <1>22, <1>28 DEF Disconnection
<1> QED
  BY <1>15, <1>18, <1>23, <1>24, <1>25, <1>26, <1>27, <1>28 DEF Next

\* The types hold of every behaviour.
THEOREM TypeCorrect == Spec => []TypeOK
<1>1. Init => TypeOK
  BY InitTypeOK
<1>2. TypeOK /\ [Next]_vars => TypeOK'
  BY TypeStep
<1> QED
  BY <1>1, <1>2, PTL DEF Spec

-----------------------------------------------------------------------------
(* Counting references.                                                    *)

LEMMA OutstandingFinite ==
    ASSUME NEW id
    PROVE  IsFiniteSet(OutstandingRefs(id)) /\ Cardinality(OutstandingRefs(id)) \in Nat
<1>1. OutstandingRefs(id) \subseteq Refs
  BY DEF OutstandingRefs
<1> QED
  BY <1>1, FS_Subset, FS_CardinalityType

LEMMA OneReference == \A r : Cardinality({r}) = 1
BY FS_Singleton

LEMMA OneMoreReference ==
    ASSUME NEW refs \in SUBSET Refs, NEW r \in Refs \ refs
    PROVE  Cardinality(refs \cup {r}) = Cardinality(refs) + 1
<1>1. IsFiniteSet(refs)
  BY FS_Subset
<1> QED
  BY <1>1, FS_AddElement

\* A reference that has moved from one place where it is counted to another
\* changes no count.
LEMMA CountedKept ==
    ASSUME TypeOK, Counted, heldCount' = heldCount, refID' = refID,
           \A r \in Refs : Outstanding(r)' <=> Outstanding(r)
    PROVE  Counted'
<1>1. \A id \in IDs : OutstandingRefs(id)' = OutstandingRefs(id)
  BY DEF OutstandingRefs
<1> QED
  BY <1>1 DEF Counted

\* References moved out of one place are found in the new one, and no other
\* reference has moved.
LEMMA MovedTo ==
    ASSUME TypeOK, NEW refs \in SUBSET Refs, NEW place, refPlace' = Moved(refs, place)
    PROVE  \A r \in Refs : refPlace'[r] = IF r \in refs THEN place ELSE refPlace[r]
BY DEF Moved

-----------------------------------------------------------------------------
(* The invariant, one lemma per action that moves a reference.             *)

LEMMA InitAccounted == Init => Accounted
<1> SUFFICES ASSUME Init PROVE Accounted
  OBVIOUS
<1> USE ZeroIsID DEF Init
<1>1. Written /\ Travelling /\ Reading /\ Returning
  BY DEF Written, Travelling, Reading, Returning
<1>2. Named
  BY DEF Named, Outstanding
<1>3. Counted
  <2>1. OutstandingRefs(0) = {RootRef}
    BY DEF OutstandingRefs, Outstanding
  <2>2. \A id \in IDs \ {0} : OutstandingRefs(id) = {}
    BY DEF OutstandingRefs, Outstanding
  <2> QED
    BY <2>1, <2>2, FS_Singleton, FS_EmptySet DEF Counted
<1>4. EntryContents /\ TableEntries
  BY DEF EntryContents, TableEntries, Reported
<1>5. EntryCounts
  BY FS_Singleton DEF EntryCounts, Reported
<1>6. Anchors
  BY DEF Anchors, Anchored
<1> QED
  BY <1>1, <1>2, <1>3, <1>4, <1>5, <1>6 DEF Accounted

LEMMA RegisterAgainKeeps ==
    ASSUME TypeOK, Accounted, NEW w \in Writers, NEW r \in Refs, NEW id \in IDs,
           RegisterAgain(w, r, id)
    PROVE  Accounted'
<1> USE DEF TypeOK, Accounted, RegisterAgain, OneMore, tableVars, proxyVars, listenerVars, useVars
<1>1. Written'
  BY DEF Written
<1>2. Travelling' /\ Reading' /\ Returning'
  BY DEF Travelling, Reading, Returning
<1>3. Named'
  BY DEF Named, Outstanding
<1>4. Counted'
  <2>1. OutstandingRefs(id)' = OutstandingRefs(id) \cup {r} /\ r \notin OutstandingRefs(id)
    BY DEF OutstandingRefs, Outstanding
  <2>2. \A other \in IDs \ {id} : OutstandingRefs(other)' = OutstandingRefs(other)
    BY DEF OutstandingRefs, Outstanding
  <2>3. Cardinality(OutstandingRefs(id)') = Cardinality(OutstandingRefs(id)) + 1
    BY <2>1, OutstandingFinite, FS_AddElement
  <2> QED
    BY <2>2, <2>3 DEF Counted
<1>5. EntryContents' /\ EntryCounts' /\ TableEntries'
  BY DEF EntryContents, EntryCounts, TableEntries, Reported
<1>6. Anchors'
  BY DEF Anchors, Anchored
<1> QED
  BY <1>1, <1>2, <1>3, <1>4, <1>5, <1>6

LEMMA RegisterNewKeeps ==
    ASSUME TypeOK, Accounted, NEW w \in Writers, NEW r \in Refs, NEW o \in Objects,
           RegisterNew(w, r, o)
    PROVE  Accounted'
<1> USE DEF TypeOK, Accounted, RegisterNew, tableVars, proxyVars, listenerVars, useVars
<1>0. PICK id \in IDs : id = NewID(HeldIDs) /\ held[id] = NoObject
  BY FreshID
<1>a. /\ held' = [held EXCEPT ![id] = o] /\ heldCount' = [heldCount EXCEPT ![id] = 1]
      /\ refID' = [refID EXCEPT ![r] = id]
  BY <1>0
<1>1. Written'
  BY DEF Written
<1>2. Travelling' /\ Reading' /\ Returning'
  BY <1>a DEF Travelling, Reading, Returning
<1>b. \A s \in Refs : Outstanding(s) => refID[s] # id
  BY <1>0 DEF Named
<1>3. Named'
  BY <1>0, <1>a, <1>b DEF Named, Outstanding
<1>4. Counted'
  <2>0. /\ refPlace[r] = "unused" /\ refPlace'[r] = "writing" /\ refID'[r] = id
        /\ \A s \in Refs \ {r} : refPlace'[s] = refPlace[s] /\ refID'[s] = refID[s]
    BY <1>a
  <2>1. OutstandingRefs(id)' = {r}
    BY <2>0, <1>b DEF OutstandingRefs, Outstanding
  <2>2. ASSUME NEW other \in IDs \ {id}
        PROVE  OutstandingRefs(other)' = OutstandingRefs(other)
    BY <2>0 DEF OutstandingRefs, Outstanding
  <2>3. Cardinality(OutstandingRefs(id)') = 1
    <3> HIDE DEF TypeOK, Accounted, RegisterNew
    <3> QED
      BY <2>1, OneReference
  <2>4. heldCount'[id] = 1 /\ \A other \in IDs \ {id} : heldCount'[other] = heldCount[other]
    BY <1>a
  <2> QED
    BY <2>2, <2>3, <2>4 DEF Counted
<1>5. EntryContents' /\ EntryCounts' /\ TableEntries'
  BY <1>a DEF EntryContents, EntryCounts, TableEntries, Reported
<1>6. Anchors'
  BY <1>a DEF Anchors, Anchored
<1> QED
  BY <1>1, <1>2, <1>3, <1>4, <1>5, <1>6

\* Giving a message up and sending it differ in where its references go.
LEMMA MessageDoneKeeps ==
    ASSUME TypeOK, Accounted, NEW w \in Writers,
           GiveUpMessage(w) \/ SendShared(w)
    PROVE  Accounted'
<1> USE DEF TypeOK, Accounted, GiveUpMessage, SendShared, refVars, tableVars, proxyVars,
            listenerVars, useVars
<1>a. \A r \in Refs : \/ r \notin writing[w] /\ refPlace'[r] = refPlace[r]
                      \/ r \in writing[w] /\ refPlace[r] = "writing"
                           /\ refPlace'[r] \in {"abandoned", "wire"}
  BY MovedTo DEF Written
<1>1. Written'
  <2>1. writing' = [writing EXCEPT ![w] = {}]
    OBVIOUS
  <2> QED
    BY <1>a, <2>1 DEF Written
<1>2. Travelling'
  <2>1. CASE GiveUpMessage(w)
    <3>1. sharedMsgs' = sharedMsgs
      BY <2>1
    <3> QED
      BY <1>a, <3>1 DEF Travelling
  <2>2. CASE SendShared(w)
    <3>1. sharedMsgs' = sharedMsgs \cup {writing[w]}
      BY <2>2
    <3>2. \A r \in writing[w] : refPlace[r] = "writing" /\ refPlace'[r] = "wire"
      BY <2>2, MovedTo DEF Written
    <3> QED
      BY <1>a, <3>1, <3>2 DEF Travelling
  <2> QED
    BY <2>1, <2>2
<1>3. Reading' /\ Returning'
  BY <1>a DEF Reading, Returning
<1>4. Named'
  BY <1>a DEF Named, Outstanding
<1>5. Counted'
  BY <1>a, CountedKept DEF Outstanding
<1>6. EntryContents' /\ EntryCounts' /\ TableEntries'
  BY <1>a DEF EntryContents, EntryCounts, TableEntries, Reported
<1>7. Anchors'
  BY <1>a DEF Anchors, Anchored
<1> QED
  BY <1>1, <1>2, <1>3, <1>4, <1>5, <1>6, <1>7

LEMMA StartReadingKeeps ==
    ASSUME TypeOK, Accounted, NEW m \in sharedMsgs, StartReading(m)
    PROVE  Accounted'
<1> USE DEF TypeOK, Accounted, StartReading, UserListens, holderVars, refVars, tableVars,
            proxyVars, useVars
<1>a. \A r \in Refs : \/ r \notin m /\ refPlace'[r] = refPlace[r]
                      \/ r \in m /\ refPlace[r] = "wire" /\ refPlace'[r] = "reading"
  <2>1. m \in SUBSET Refs /\ refPlace' = Moved(m, "reading")
    OBVIOUS
  <2>2. \A r \in Refs : refPlace'[r] = IF r \in m THEN "reading" ELSE refPlace[r]
    BY <2>1 DEF Moved
  <2>3. \A r \in m : refPlace[r] = "wire"
    BY DEF Travelling
  <2> QED
    BY <2>2, <2>3
<1>1. Written' /\ Returning'
  BY <1>a DEF Written, Returning
<1>6. Travelling'
  BY <1>a DEF Travelling
<1>7. Reading'
  <2>1. \A r \in m : refPlace'[r] = "reading"
    BY <1>a
  <2> QED
    BY <2>1 DEF Reading
<1>2. Named'
  BY <1>a DEF Named, Outstanding
<1>3. Counted'
  BY <1>a, CountedKept DEF Outstanding
<1>4. EntryContents' /\ EntryCounts' /\ TableEntries'
  BY <1>a DEF EntryContents, EntryCounts, TableEntries, Reported
<1>5. Anchors'
  BY <1>a DEF Anchors, Anchored
<1> QED
  BY <1>1, <1>2, <1>3, <1>4, <1>5, <1>6, <1>7

LEMMA CreateProxyKeeps ==
    ASSUME TypeOK, Accounted, NEW r \in reading, NEW p \in Proxies, CreateProxy(r, p)
    PROVE  Accounted'
<1> USE DEF TypeOK, Accounted, CreateProxy, Resolved, UserListens, holderVars, refVars, useVars
<1>a. /\ r \in Refs /\ refPlace[r] = "reading" /\ refPlace'[r] = "entry"
      /\ \A s \in Refs \ {r} : refPlace'[s] = refPlace[s]
  BY DEF Reading
<1>b. entryRefs[p] = {} /\ entryRefs'[p] = {r}
      /\ \A q \in Proxies \ {p} : entryRefs'[q] = entryRefs[q]
  BY DEF TableEntries, EntryCounts
<1>c. \A q \in Proxies \ {p} : Reported(q)' <=> Reported(q)
  BY DEF TableEntries, Reported
<1>1. Written' /\ Travelling' /\ Returning'
  BY <1>a DEF Written, Travelling, Returning
<1>2. Reading'
  BY <1>a DEF Reading
<1>3. Named'
  BY <1>a DEF Named, Outstanding
<1>4. Counted'
  BY <1>a, CountedKept DEF Outstanding
<1>5. EntryContents'
  BY <1>a, <1>b DEF EntryContents
<1>6. EntryCounts'
  <2>1. ~ Reported(p)' /\ entryCount'[p] = 1
    BY DEF Reported
  <2>2. \A q \in Proxies \ {p} : entryCount'[q] = entryCount[q]
    OBVIOUS
  <2>3. Cardinality(entryRefs'[p]) = 1 /\ entryRefs'[p] # {}
    BY <1>b, OneReference
  <2>4. ASSUME NEW q \in Proxies
        PROVE  IF Reported(q)' THEN entryRefs'[q] = {}
                 ELSE entryRefs'[q] # {} /\ entryCount'[q] = Cardinality(entryRefs'[q])
    <3>1. CASE q = p
      BY <2>1, <2>3, <3>1
    <3>2. CASE q # p
      BY <1>b, <1>c, <2>2, <3>2 DEF EntryCounts
    <3> QED
      BY <3>1, <3>2
  <2> QED
    BY <2>4 DEF EntryCounts
<1>7. TableEntries'
  <2>1. \A q \in Proxies : proxyState'[q] = "unused" => q # p /\ Reported(q)'
    BY <1>c DEF TableEntries
  <2> QED
    BY <2>1 DEF TableEntries, Reported
<1>8. Anchors'
  <2>1. \A q \in Proxies \ {p} : Anchored(q) => Anchored(q)'
    BY <1>a DEF Anchored
  <2>2. Anchored(p)'
    BY DEF Anchored
  <2> QED
    BY <2>1, <2>2 DEF Anchors
<1> QED
  BY <1>1, <1>2, <1>3, <1>4, <1>5, <1>6, <1>7, <1>8

LEMMA CountReferenceKeeps ==
    ASSUME TypeOK, Accounted, CountReference
    PROVE  Accounted'
<1> USE DEF TypeOK, Accounted, CountReference, OneMore, Resolved, UserListens, holderVars,
            refVars, proxyVars, useVars
<1>a. /\ readRef \in Refs /\ readEntry \in Proxies
      /\ readRef \in reading /\ refPlace[readRef] = "reading"
      /\ refPlace'[readRef] \in {"entry", "forgotten"}
      /\ \A s \in Refs \ {readRef} : refPlace'[s] = refPlace[s]
      /\ proxyID[readEntry] = refID[readRef]
  BY DEF Reading
<1>c. \A q \in Proxies : Reported(q)' <=> Reported(q)
  BY DEF Reported
<1>1. Written' /\ Travelling' /\ Returning'
  BY <1>a DEF Written, Travelling, Returning
<1>2. Reading'
  BY <1>a DEF Reading
<1>3. Named'
  BY <1>a DEF Named, Outstanding
<1>4. Counted'
  BY <1>a, CountedKept DEF Outstanding
<1>5. EntryContents' /\ EntryCounts'
  <2>1. CASE Reported(readEntry)
    <3>1. entryRefs' = entryRefs /\ refPlace'[readRef] = "forgotten"
      BY <1>a, <2>1
    <3>2. \A q \in Proxies \ {readEntry} : entryCount'[q] = entryCount[q]
      OBVIOUS
    <3> QED
      BY <1>a, <1>c, <2>1, <3>1, <3>2 DEF EntryContents, EntryCounts
  <2>2. CASE ~ Reported(readEntry)
    <3>1. /\ entryRefs'[readEntry] = entryRefs[readEntry] \cup {readRef}
          /\ refPlace'[readRef] = "entry" /\ readRef \notin entryRefs[readEntry]
          /\ \A q \in Proxies \ {readEntry} :
                /\ entryRefs'[q] = entryRefs[q] /\ readRef \notin entryRefs[q]
                /\ entryCount'[q] = entryCount[q]
          /\ entryCount'[readEntry] = entryCount[readEntry] + 1
      BY <1>a, <2>2 DEF EntryContents
    <3>2. PICK s \in entryRefs[readEntry] : s \in Refs
      BY <1>a, <2>2 DEF EntryCounts
    <3>3. refObject[readRef] = proxyObject[readEntry]
      <4>1. refObject[s] = proxyObject[readEntry] /\ refID[s] = refID[readRef] /\ Outstanding(s)
        BY <1>a, <3>2 DEF EntryContents, Outstanding
      <4> QED
        BY <1>a, <3>2, <4>1 DEF Named, Outstanding
    <3>4. EntryContents'
      <4>1. UNCHANGED <<refID, refObject, proxyID, proxyObject>>
        OBVIOUS
      <4>2. ASSUME NEW q \in Proxies, NEW t \in entryRefs'[q]
            PROVE  /\ refPlace'[t] = "entry"
                   /\ refID'[t] = proxyID'[q] /\ refObject'[t] = proxyObject'[q]
        BY <1>a, <3>1, <3>3, <4>1 DEF EntryContents
      <4>3. \A q1, q2 \in Proxies : q1 # q2 => entryRefs'[q1] \cap entryRefs'[q2] = {}
        BY <3>1 DEF EntryContents
      <4> QED
        BY <4>2, <4>3 DEF EntryContents
    <3>5. /\ Cardinality(entryRefs'[readEntry]) = Cardinality(entryRefs[readEntry]) + 1
          /\ entryRefs'[readEntry] # {}
      <4>1. entryRefs[readEntry] \in SUBSET Refs /\ readRef \in Refs \ entryRefs[readEntry]
        BY <1>a, <3>1
      <4> QED
        BY <3>1, <4>1, OneMoreReference
    <3> QED
      BY <1>a, <1>c, <2>2, <3>1, <3>4, <3>5 DEF EntryCounts
  <2> QED
    BY <2>1, <2>2
<1>6. TableEntries'
  BY <1>c DEF TableEntries
<1>7. Anchors'
  BY <1>a DEF Anchors, Anchored
<1> QED
  BY <1>1, <1>2, <1>3, <1>4, <1>5, <1>6, <1>7

LEMMA ReplaceEntryKeeps ==
    ASSUME TypeOK, Accounted, NEW p \in Proxies, ReplaceEntry(p)
    PROVE  Accounted'
<1> USE DEF TypeOK, Accounted
<1>0. PICK id \in IDs : id = refID[readRef]
  BY DEF ReplaceEntry
<1>1. PICK lost \in SUBSET Refs :
        /\ lost = IF table[id] = NoProxy THEN {} ELSE entryRefs[table[id]]
        /\ table' = [table EXCEPT ![id] = p]
        /\ entryRefs' = [q \in Proxies |-> IF q = p THEN {readRef} ELSE entryRefs[q] \ lost]
        /\ refPlace' = [r \in Refs |-> IF r = readRef THEN "entry"
                                       ELSE IF r \in lost THEN "forgotten" ELSE refPlace[r]]
        /\ proxyID' = [proxyID EXCEPT ![p] = id]
  <2> DEFINE l == IF table[id] = NoProxy THEN {} ELSE entryRefs[table[id]]
  <2>1. l \in SUBSET Refs
    OBVIOUS
  <2>2. /\ table' = [table EXCEPT ![id] = p]
        /\ entryRefs' = [q \in Proxies |-> IF q = p THEN {readRef} ELSE entryRefs[q] \ l]
        /\ refPlace' = [r \in Refs |-> IF r = readRef THEN "entry"
                                       ELSE IF r \in l THEN "forgotten" ELSE refPlace[r]]
        /\ proxyID' = [proxyID EXCEPT ![p] = id]
    BY <1>0 DEF ReplaceEntry
  <2> HIDE DEF l
  <2>3. l = IF table[id] = NoProxy THEN {} ELSE entryRefs[table[id]]
    BY DEF l
  <2> QED
    BY <2>1, <2>2, <2>3
<1>2. /\ entryCount' = [entryCount EXCEPT ![p] = 1]
      /\ proxyState[p] = "unused"
      /\ proxyState' = [proxyState EXCEPT ![p] = "reachable"]
      /\ proxyObject' = [proxyObject EXCEPT ![p] = refObject[readRef]]
      /\ Resolved(readRef, p) /\ UNCHANGED hostless /\ UserListens
  BY DEF ReplaceEntry
<1> USE DEF Resolved, UserListens, holderVars, refVars, useVars
<1>a. /\ readRef \in Refs /\ readRef \in reading /\ refPlace[readRef] = "reading"
      /\ refPlace'[readRef] = "entry" /\ readRef \notin lost
      /\ \A s \in lost : refPlace[s] = "entry" /\ refPlace'[s] = "forgotten"
      /\ \A s \in Refs : s # readRef /\ s \notin lost => refPlace'[s] = refPlace[s]
  BY <1>1 DEF Reading, EntryContents, ReplaceEntry
<1>b. /\ p # NoProxy /\ Reported(p) /\ entryRefs[p] = {} /\ table[id] # p /\ reporting # p
      /\ \A i \in IDs : table[i] # p
  BY <1>2 DEF TableEntries, EntryCounts
<1>c. \A q \in Proxies : q # p /\ q # table[id] =>
          /\ (Reported(q)' <=> Reported(q)) /\ entryRefs'[q] = entryRefs[q]
          /\ entryCount'[q] = entryCount[q] /\ proxyID'[q] = proxyID[q]
          /\ proxyObject'[q] = proxyObject[q] /\ proxyState'[q] = proxyState[q]
  BY <1>0, <1>1, <1>2, <1>b DEF EntryContents, Reported
<1>d. ASSUME NEW q \in Proxies, q = table[id]
      PROVE  /\ lost = entryRefs[q] /\ lost # {} /\ proxyID[q] = id
             /\ entryRefs'[q] = {} /\ Reported(q)'
             /\ proxyID'[q] = id /\ q # reporting
             /\ proxyObject'[q] = proxyObject[q]
  <2>1. proxyID[q] = id /\ q # p /\ q # reporting
    BY <1>b, <1>d DEF TableEntries
  <2>2. lost = entryRefs[q] /\ lost # {}
    BY <1>1, <1>d, <2>1 DEF EntryCounts, Reported
  <2>3. entryRefs'[q] = {} /\ proxyID'[q] = id /\ table'[id] = p
    BY <1>1, <2>1, <2>2
  <2>4. reporting' = reporting /\ proxyObject'[q] = proxyObject[q]
    BY <1>2, <2>1
  <2> QED
    BY <2>1, <2>2, <2>3, <2>4 DEF Reported
<1>3. Written' /\ Travelling' /\ Returning'
  BY <1>2, <1>a DEF Written, Travelling, Returning
<1>4. Reading'
  BY <1>2, <1>a DEF Reading
<1>5. Named'
  BY <1>2, <1>a DEF Named, Outstanding
<1>6. Counted'
  BY <1>2, <1>a, CountedKept DEF Outstanding
<1>7. EntryContents'
  <2>1. entryRefs'[p] = {readRef} /\ proxyID'[p] = id /\ proxyObject'[p] = refObject[readRef]
    BY <1>1, <1>2
  <2>2. refID' = refID /\ refObject' = refObject
    BY <1>2
  <2>3. \A q \in Proxies \ {p} : entryRefs'[q] \subseteq entryRefs[q] \ lost
    BY <1>1
  <2>4. \A q \in Proxies \ {p} : proxyID'[q] = proxyID[q] /\ proxyObject'[q] = proxyObject[q]
    BY <1>1, <1>2
  <2>5. \A q \in Proxies \ {p} : readRef \notin entryRefs[q]
    BY <1>a DEF EntryContents
  <2> QED
    BY <1>0, <1>a, <2>1, <2>2, <2>3, <2>4, <2>5 DEF EntryContents
<1>8. EntryCounts'
  <2>1. ~ Reported(p)' /\ entryCount'[p] = 1 /\ entryRefs'[p] = {readRef}
    BY <1>1, <1>2 DEF Reported
  <2>2. Cardinality(entryRefs'[p]) = 1 /\ entryRefs'[p] # {}
    BY <2>1, OneReference
  <2>3. ASSUME NEW q \in Proxies
        PROVE  IF Reported(q)' THEN entryRefs'[q] = {}
                 ELSE entryRefs'[q] # {} /\ entryCount'[q] = Cardinality(entryRefs'[q])
    <3>1. CASE q = p
      BY <2>1, <2>2, <3>1
    <3>2. CASE q = table[id]
      BY <1>d, <3>2
    <3>3. CASE q # p /\ q # table[id]
      BY <1>c, <3>3 DEF EntryCounts
    <3> QED
      BY <3>1, <3>2, <3>3
  <2> QED
    BY <2>3 DEF EntryCounts
<1>9. TableEntries'
  <2>1. \A i \in IDs : table'[i] # NoProxy =>
          proxyID'[table'[i]] = i /\ proxyState'[table'[i]] \in {"reachable", "collected"}
    BY <1>1, <1>2, <1>b DEF TableEntries
  <2>2. reporting' # NoProxy =>
          table'[proxyID'[reporting']] # reporting' /\ proxyState'[reporting'] # "unused"
    BY <1>1, <1>2, <1>b DEF TableEntries
  <2>3. \A q \in Proxies : proxyState'[q] = "unused" => Reported(q)'
    BY <1>2, <1>c, <1>d DEF TableEntries
  <2> QED
    BY <2>1, <2>2, <2>3 DEF TableEntries
<1>10. Anchors'
  <2>1. ASSUME NEW q \in Proxies, q # p, proxyState'[q] \in {"reachable", "collected"}
        PROVE  Anchored(q)'
    <3>1. Anchored(q) /\ proxyID'[q] = proxyID[q] /\ proxyObject'[q] = proxyObject[q]
      BY <1>1, <1>2, <2>1 DEF Anchors
    <3>2. CASE table[proxyID[q]] = q /\ proxyID[q] # id
      BY <1>1, <3>1, <3>2 DEF Anchored
    <3>3. CASE table[proxyID[q]] = q /\ proxyID[q] = id
      <4>1. PICK s \in lost : s \in entryRefs[q]
        BY <1>d, <3>3
      <4> QED
        BY <1>2, <1>a, <3>1, <4>1 DEF Anchored, EntryContents
    <3>4. CASE \E r \in Refs : /\ refPlace[r] = "forgotten"
                               /\ refID[r] = proxyID[q] /\ refObject[r] = proxyObject[q]
      BY <1>2, <1>a, <3>1, <3>4 DEF Anchored
    <3> QED
      BY <3>1, <3>2, <3>3, <3>4 DEF Anchored
  <2>2. Anchored(p)'
    BY <1>1 DEF Anchored
  <2> QED
    BY <2>1, <2>2 DEF Anchors
<1> QED
  BY <1>2, <1>3, <1>4, <1>5, <1>6, <1>7, <1>8, <1>9, <1>10

LEMMA FinalizeKeeps ==
    ASSUME TypeOK, Accounted, NEW p \in Proxies, Finalize(p)
    PROVE  Accounted'
<1> USE DEF TypeOK, Accounted
<1>1. /\ reporting = NoProxy /\ proxyState[p] = "collected"
      /\ proxyState' = [proxyState EXCEPT ![p] = "finalized"]
      /\ reporting' = table[proxyID[p]]
      /\ table' = [table EXCEPT ![proxyID[p]] = NoProxy]
      /\ UNCHANGED <<proxyID, proxyObject, hostless, entryCount, entryRefs, refPlace,
                     releasedMsgs, sharedMsgs, held, heldCount, writing, refID, refObject,
                     listening, reading, readRef, readEntry>>
  BY DEF Finalize, Collects, holderVars, refVars, listenerVars
<1>a. \A q \in Proxies : Reported(q)' <=> Reported(q)
  BY <1>1 DEF TableEntries, Reported
<1>2. Written' /\ Travelling' /\ Reading' /\ Returning'
  BY <1>1 DEF Written, Travelling, Reading, Returning
<1>3. Named'
  BY <1>1 DEF Named, Outstanding
<1>4. Counted'
  BY <1>1, CountedKept DEF Outstanding
<1>5. EntryContents'
  BY <1>1 DEF EntryContents
<1>6. EntryCounts'
  BY <1>1, <1>a DEF EntryCounts
<1>7. TableEntries'
  <2>1. ASSUME NEW id \in IDs, table'[id] # NoProxy
        PROVE  proxyID'[table'[id]] = id /\ proxyState'[table'[id]] \in {"reachable", "collected"}
    BY <1>1, <2>1 DEF TableEntries
  <2>2. reporting' # NoProxy =>
          table'[proxyID'[reporting']] # reporting' /\ proxyState'[reporting'] # "unused"
    BY <1>1 DEF TableEntries
  <2>3. \A q \in Proxies : proxyState'[q] = "unused" => Reported(q)'
    BY <1>1, <1>a DEF TableEntries
  <2> QED
    BY <2>1, <2>2, <2>3 DEF TableEntries
<1>8. Anchors'
  <2>1. ASSUME NEW q \in Proxies, proxyState'[q] \in {"reachable", "collected"}
        PROVE  Anchored(q)'
    <3>1. q # p /\ Anchored(q) /\ Anchored(p)
      BY <1>1, <2>1 DEF Anchors
    <3>2. CASE table[proxyID[q]] = q /\ proxyID[q] # proxyID[p]
      BY <1>1, <3>2 DEF Anchored
    <3>3. CASE table[proxyID[q]] = q /\ proxyID[q] = proxyID[p]
      <4>1. PICK r \in Refs : /\ refPlace[r] = "forgotten"
                              /\ refID[r] = proxyID[p] /\ refObject[r] = proxyObject[p]
        BY <3>1, <3>3 DEF Anchored
      <4>2. PICK s \in Refs : /\ refPlace[s] = "entry"
                              /\ refID[s] = proxyID[q] /\ refObject[s] = proxyObject[q]
        BY <3>3 DEF EntryCounts, EntryContents, Reported
      <4>3. refObject[r] = refObject[s]
        BY <3>3, <4>1, <4>2 DEF Named, Outstanding
      <4> QED
        BY <1>1, <3>3, <4>1, <4>2, <4>3 DEF Anchored
    <3>4. CASE table[proxyID[q]] # q
      BY <1>1, <3>1, <3>4 DEF Anchored
    <3> QED
      BY <3>2, <3>3, <3>4
  <2> QED
    BY <2>1 DEF Anchors
<1> QED
  BY <1>1, <1>2, <1>3, <1>4, <1>5, <1>6, <1>7, <1>8

LEMMA ReportReleasedKeeps ==
    ASSUME TypeOK, Accounted, Intact, ReportReleased
    PROVE  Accounted'
<1> USE DEF TypeOK, Accounted
<1>0. PICK p \in Proxies : p = reporting
  BY DEF ReportReleased
<1>1. PICK msg \in [id : IDs, count : Nat, refs : SUBSET Refs] :
        /\ msg = [id |-> proxyID[p], count |-> entryCount[p], refs |-> entryRefs[p]]
        /\ releasedMsgs' = releasedMsgs \cup {msg}
  BY <1>0 DEF ReportReleased, Intact
<1>2. /\ refPlace' = Moved(entryRefs[p], "released")
      /\ entryRefs' = [entryRefs EXCEPT ![p] = {}]
      /\ reporting' = NoProxy
      /\ UNCHANGED <<table, entryCount, proxyState, proxyID, proxyObject, hostless,
                     sharedMsgs, held, heldCount, writing, refID, refObject,
                     listening, reading, readRef, readEntry>>
  BY <1>0 DEF ReportReleased, Collects, holderVars, refVars, listenerVars, proxyVars
<1>a. /\ ~ Reported(p) /\ Reported(p)'
      /\ \A q \in Proxies \ {p} : Reported(q)' <=> Reported(q)
  BY <1>0, <1>2 DEF TableEntries, Reported
<1>b. /\ \A r \in entryRefs[p] : /\ refPlace[r] = "entry" /\ refPlace'[r] = "released"
                                 /\ refID[r] = proxyID[p]
      /\ \A r \in Refs \ entryRefs[p] : refPlace'[r] = refPlace[r]
  BY <1>2, MovedTo DEF EntryContents
<1>3. Written' /\ Travelling' /\ Reading'
  BY <1>2, <1>b DEF Written, Travelling, Reading
<1>4. Returning'
  <2>1. msg.refs # {} /\ msg.count = Cardinality(msg.refs)
    BY <1>1, <1>a DEF EntryCounts
  <2>2. \A r \in msg.refs : refPlace'[r] = "released" /\ refID'[r] = msg.id
    BY <1>1, <1>2, <1>b
  <2>3. \A m \in releasedMsgs : m.refs \cap msg.refs = {}
    BY <1>1, <1>b DEF Returning
  <2>4. \A m \in releasedMsgs : \A r \in m.refs : refPlace'[r] = "released" /\ refID'[r] = m.id
    BY <1>2, <1>b DEF Returning
  <2> QED
    BY <1>1, <2>1, <2>2, <2>3, <2>4 DEF Returning
<1>5. Named'
  BY <1>2, <1>b DEF Named, Outstanding
<1>6. Counted'
  BY <1>2, <1>b, CountedKept DEF Outstanding
<1>7. EntryContents'
  BY <1>2, <1>b DEF EntryContents
<1>8. EntryCounts'
  BY <1>2, <1>a DEF EntryCounts
<1>9. TableEntries'
  BY <1>2, <1>a DEF TableEntries
<1>10. Anchors'
  BY <1>2, <1>b DEF Anchors, Anchored
<1> QED
  BY <1>2, <1>3, <1>4, <1>5, <1>6, <1>7, <1>8, <1>9, <1>10

\* Taking back as many references as are counted leaves none; taking back fewer
\* leaves the difference.
LEMMA TakenBack ==
    ASSUME NEW all \in SUBSET Refs, NEW refs \in SUBSET all
    PROVE  /\ Cardinality(all) \in Nat /\ Cardinality(refs) \in Nat
           /\ Cardinality(all \ refs) = Cardinality(all) - Cardinality(refs)
           /\ Cardinality(all) <= Cardinality(refs) => all \ refs = {}
<1>1. IsFiniteSet(all) /\ IsFiniteSet(refs)
  BY FS_Subset
<1>2. Cardinality(all) \in Nat /\ Cardinality(refs) \in Nat /\ Cardinality(refs) <= Cardinality(all)
  BY <1>1, FS_CardinalityType, FS_Subset
<1>3. Cardinality(all \ refs) = Cardinality(all) - Cardinality(all \cap refs)
  BY <1>1, FS_Difference
<1>4. all \cap refs = refs
  OBVIOUS
<1>5. Cardinality(all \ refs) = Cardinality(all) - Cardinality(refs)
  BY <1>3, <1>4
<1>6. IsFiniteSet(all \ refs)
  BY <1>1, FS_Subset
<1>7. Cardinality(all \ refs) = 0 => all \ refs = {}
  BY <1>6, FS_EmptySet
<1> QED
  BY <1>2, <1>5, <1>7

LEMMA DeliverReleasedKeeps ==
    ASSUME TypeOK, Accounted, NEW m \in releasedMsgs, DeliverReleased(m)
    PROVE  Accounted'
<1> USE DEF TypeOK, Accounted
<1>0. PICK id \in IDs : id = m.id
  OBVIOUS
<1>1. /\ releasedMsgs' = releasedMsgs \ {m}
      /\ refPlace' = Moved(m.refs, "returned")
      /\ UNCHANGED <<writing, refID, refObject, table, entryCount, entryRefs, proxyState,
                     proxyID, proxyObject, hostless, listening, reading, readRef,
                     readEntry, sharedMsgs, reporting>>
  BY DEF DeliverReleased, HolderListens, refVars, tableVars, proxyVars, listenerVars
<1>2. \/ /\ heldCount[id] > m.count
         /\ heldCount' = [heldCount EXCEPT ![id] = heldCount[id] - m.count]
         /\ held' = held
      \/ /\ heldCount[id] <= m.count
         /\ heldCount' = [heldCount EXCEPT ![id] = 0]
         /\ held' = [held EXCEPT ![id] = NoObject]
  BY <1>0 DEF DeliverReleased, GivesBackAll
<1>a. /\ \A r \in m.refs : /\ refPlace[r] = "released" /\ refPlace'[r] = "returned"
                           /\ refID[r] = id
      /\ \A r \in Refs \ m.refs : refPlace'[r] = refPlace[r]
      /\ m.refs \in SUBSET Refs /\ m.count = Cardinality(m.refs)
  BY <1>0, <1>1, MovedTo DEF Returning
<1>b. PICK all \in SUBSET Refs : all = OutstandingRefs(id)
  BY DEF OutstandingRefs
<1>c. /\ OutstandingRefs(id)' = all \ m.refs /\ m.refs \in SUBSET all
      /\ \A other \in IDs \ {id} : OutstandingRefs(other)' = OutstandingRefs(other)
  BY <1>1, <1>a, <1>b DEF OutstandingRefs, Outstanding
<1>d. /\ Cardinality(all \ m.refs) = heldCount[id] - m.count
      /\ heldCount[id] <= m.count => all \ m.refs = {} /\ Cardinality(all \ m.refs) = 0
  <2>1. heldCount[id] = Cardinality(all)
    BY <1>b DEF Counted
  <2>2. /\ Cardinality(all \ m.refs) = Cardinality(all) - Cardinality(m.refs)
        /\ Cardinality(all) <= Cardinality(m.refs) => all \ m.refs = {}
    BY <1>c, TakenBack
  <2>3. Cardinality({}) = 0
    BY FS_EmptySet
  <2>4. Cardinality(all \ m.refs) = heldCount[id] - m.count
    BY <1>a, <2>1, <2>2
  <2>5. heldCount[id] <= m.count => all \ m.refs = {}
    BY <1>a, <2>1, <2>2
  <2> QED
    BY <2>3, <2>4, <2>5
<1>e. /\ heldCount'[id] = Cardinality(all \ m.refs)
      /\ held'[id] = held[id] \/ all \ m.refs = {}
      /\ \A other \in IDs \ {id} :
             held'[other] = held[other] /\ heldCount'[other] = heldCount[other]
  BY <1>2, <1>d
<1>3. Written' /\ Travelling' /\ Reading' /\ Returning'
  BY <1>1, <1>a DEF Written, Travelling, Reading, Returning
<1>4. Named'
  <2>1. ASSUME NEW r \in Refs, Outstanding(r)'
        PROVE  Outstanding(r) /\ (refID[r] = id => all \ m.refs # {})
    BY <1>1, <1>a, <1>b, <2>1 DEF OutstandingRefs, Outstanding
  <2> QED
    BY <1>1, <1>e, <2>1 DEF Named
<1>5. Counted'
  BY <1>c, <1>e DEF Counted
<1>6. EntryContents' /\ EntryCounts' /\ TableEntries'
  BY <1>1, <1>a DEF EntryContents, EntryCounts, TableEntries, Reported
<1>7. Anchors'
  BY <1>1, <1>a DEF Anchors, Anchored
<1> QED
  BY <1>1, <1>3, <1>4, <1>5, <1>6, <1>7

\* Steps that leave references, tables and counts alone keep the invariant if
\* they keep what the listener is reading; a proxy may become unreachable.
LEMMA UntouchedKeeps ==
    ASSUME TypeOK, Accounted, Reading',
           UNCHANGED <<refVars, refPlace, held, heldCount, writing, sharedMsgs,
                       releasedMsgs, tableVars, proxyID, proxyObject, hostless, reporting>>,
           \A p \in Proxies : \/ proxyState'[p] = proxyState[p]
                              \/ proxyState[p] = "reachable" /\ proxyState'[p] = "collected"
    PROVE  Accounted'
<1> USE DEF Accounted, refVars, tableVars
<1>1. Written' /\ Travelling' /\ Returning'
  BY DEF Written, Travelling, Returning
<1>2. Named'
  BY DEF Named, Outstanding
<1>3. Counted'
  BY CountedKept DEF Outstanding
<1>4. EntryContents' /\ EntryCounts'
  BY DEF EntryContents, EntryCounts, Reported
<1>5. TableEntries'
  BY DEF TableEntries, Reported, TypeOK
<1>6. Anchors'
  BY DEF Anchors, Anchored
<1> QED
  BY <1>1, <1>2, <1>3, <1>4, <1>5, <1>6

\* The listener's steps that only read the table.
LEMMA LookupKeeps ==
    ASSUME TypeOK, Accounted,
           \/ \E r \in reading : TooManyRemoteObjects(r) \/ FindEntry(r)
           \/ LoadEntry \/ EntryGone \/ GetTarget
    PROVE  Accounted'
<1> USE DEF TooManyRemoteObjects, FindEntry, LoadEntry, EntryGone, GetTarget, ReadingFails,
            UserListens, holderVars
<1>1. UNCHANGED <<refVars, refPlace, held, heldCount, writing, sharedMsgs, releasedMsgs,
                  tableVars, proxyVars, reporting, reading>>
  OBVIOUS
<1>2. Reading'
  <2>1. ASSUME NEW r \in reading, TooManyRemoteObjects(r) \/ FindEntry(r)
        PROVE  Reading'
    BY <2>1, <1>1 DEF Accounted, Reading, refVars, proxyVars
  <2>2. CASE LoadEntry
    BY <2>2, <1>1 DEF Accounted, TypeOK, Reading, TableEntries, refVars, proxyVars
  <2>3. CASE EntryGone
    BY <2>3, <1>1 DEF Accounted, Reading, refVars, proxyVars
  <2>4. CASE GetTarget
    BY <2>4, <1>1 DEF Accounted, Reading, refVars, proxyVars
  <2> QED
    BY <2>1, <2>2, <2>3, <2>4
<1> QED
  <2>1. UNCHANGED <<proxyState, proxyID, proxyObject, hostless>>
    BY <1>1 DEF proxyVars
  <2> QED
    BY <1>1, <1>2, <2>1, UntouchedKeeps

LEMMA CollectKeeps ==
    ASSUME TypeOK, Accounted, NEW p \in Proxies, Collect(p)
    PROVE  Accounted'
<1>1. /\ UNCHANGED <<refVars, refPlace, held, heldCount, writing, sharedMsgs, releasedMsgs,
                     tableVars, proxyID, proxyObject, hostless, reporting, listenerVars>>
      /\ \A q \in Proxies : \/ proxyState'[q] = proxyState[q]
                            \/ proxyState[q] = "reachable" /\ proxyState'[q] = "collected"
      /\ \A q \in Proxies : proxyState[q] # "unused" => proxyState'[q] # "unused"
  BY DEF Collect, Collects, holderVars, TypeOK
<1>2. Reading'
  BY <1>1 DEF Accounted, Reading, refVars, listenerVars
<1> QED
  BY <1>1, <1>2, UntouchedKeeps

LEMMA UseKeeps ==
    ASSUME TypeOK, Accounted,
           \/ \E c \in Uses, p \in Proxies, kind \in {"call", "argument"} : UseProxy(c, p, kind)
           \/ \E m \in useMsgs : DeliverUse(m)
           \/ UNCHANGED vars
    PROVE  Accounted'
<1>1. UNCHANGED <<refVars, refPlace, held, heldCount, writing, sharedMsgs, releasedMsgs,
                  tableVars, proxyVars, reporting, listenerVars>>
  BY DEF UseProxy, DeliverUse, HolderListens, vars, holderVars
<1>2. UNCHANGED <<proxyState, proxyID, proxyObject, hostless>>
  BY <1>1 DEF proxyVars
<1>3. Reading'
  BY <1>1, <1>2 DEF Accounted, Reading, refVars, listenerVars
<1> QED
  BY <1>1, <1>2, <1>3, UntouchedKeeps

-----------------------------------------------------------------------------
(* The invariant.                                                          *)

\* A session that has ended on a side does not come back.
LEMMA StaysApart == TypeOK /\ [Next]_vars /\ Intact' => Intact
<1> SUFFICES ASSUME TypeOK, [Next]_vars, Intact' PROVE holderUp /\ userUp
  BY DEF Intact
<1>1. CASE Disconnection
  BY <1>1 DEF Disconnection, DisconnectHolder, HolderListenerEnds, DisconnectUser,
              UserListenerEnds, ClearHolder, ClearUser, holderVars, Intact
<1>2. CASE UserListener
  BY <1>2 DEF UserListener, StartReading, CreateProxy, TooManyRemoteObjects, FindEntry,
              LoadEntry, EntryGone, GetTarget, CountReference, ReplaceEntry, ReadingFails,
              UserListens, holderVars, Intact
<1>3. CASE FinalizerThread \/ \E p \in Proxies : Collect(p)
  BY <1>3 DEF FinalizerThread, Finalize, ReportReleased, Collect, Collects, holderVars, Intact
<1>4. CASE HolderListener
  BY <1>4 DEF HolderListener, DeliverReleased, DeliverUse, HolderListens, Intact
<1>5. CASE \E w \in Writers : Sender(w)
  BY <1>5 DEF Sender, RegisterAgain, RegisterNew, RegisterTooMany, SerializationFails,
              SendShared, GiveUpMessage, Intact
<1>6. CASE \E c \in Uses, p \in Proxies, kind \in {"call", "argument"} : UseProxy(c, p, kind)
  BY <1>6 DEF UseProxy, holderVars, Intact
<1>7. CASE UNCHANGED vars
  BY <1>7 DEF vars, holderVars, Intact
<1> QED
  BY <1>1, <1>2, <1>3, <1>4, <1>5, <1>6, <1>7 DEF Next

LEMMA DisconnectionParts == TypeOK /\ Disconnection => ~ Intact'
BY DEF Disconnection, DisconnectHolder, HolderListenerEnds, DisconnectUser,
       UserListenerEnds, ClearHolder, ClearUser, Intact

LEMMA SharedInvStep == SharedInv /\ [Next]_vars => SharedInv'
<1> SUFFICES ASSUME SharedInv, [Next]_vars PROVE SharedInv'
  OBVIOUS
<1>0. TypeOK /\ TypeOK'
  BY TypeStep DEF SharedInv
<1> SUFFICES ASSUME Intact' PROVE Accounted'
  BY <1>0 DEF SharedInv
<1>1. Intact /\ Accounted /\ ~ Disconnection
  BY <1>0, StaysApart, DisconnectionParts DEF SharedInv
<1>2. CASE \E w \in Writers : Sender(w)
  BY <1>0, <1>1, <1>2, RegisterAgainKeeps, RegisterNewKeeps, MessageDoneKeeps
     DEF Sender, RegisterTooMany, SerializationFails
<1>3. CASE UserListener
  BY <1>0, <1>1, <1>3, StartReadingKeeps, CreateProxyKeeps, LookupKeeps,
     CountReferenceKeeps, ReplaceEntryKeeps DEF UserListener
<1>4. CASE \E p \in Proxies : Collect(p)
  BY <1>0, <1>1, <1>4, CollectKeeps
<1>5. CASE FinalizerThread
  BY <1>0, <1>1, <1>5, FinalizeKeeps, ReportReleasedKeeps DEF FinalizerThread
<1>6. CASE HolderListener
  BY <1>0, <1>1, <1>6, DeliverReleasedKeeps, UseKeeps DEF HolderListener
<1>7. CASE \/ \E c \in Uses, p \in Proxies, kind \in {"call", "argument"} : UseProxy(c, p, kind)
           \/ UNCHANGED vars
  BY <1>0, <1>1, <1>7, UseKeeps
<1> QED
  BY <1>1, <1>2, <1>3, <1>4, <1>5, <1>6, <1>7 DEF Next

\* The strengthened invariant holds of every behaviour: every reference of the
\* running session is accounted for in one place.
THEOREM ReferencesAccounted == Spec => []SharedInv
<1>1. Init => SharedInv
  BY InitTypeOK, InitAccounted DEF SharedInv
<1> QED
  BY <1>1, SharedInvStep, PTL DEF Spec

\* The holder's counts are exact: GetOrRegisterLocalSharedObject and
\* RemoteSharedObjectReleasedCallback never lose or double a reference.
THEOREM CountsExact == Spec => []CountsAgree
<1>1. SharedInv => CountsAgree
  BY DEF SharedInv, Accounted, Counted, CountsAgree
<1> QED
  BY <1>1, ReferencesAccounted, PTL

\* The ID in a reference that has not come back is still that of its object,
\* however messages are reordered.
THEOREM ReferencesStayNamed == Spec => []ReferencesNameTheirObject
<1>1. SharedInv => ReferencesNameTheirObject
  BY DEF SharedInv, Accounted, Named, ReferencesNameTheirObject
<1> QED
  BY <1>1, ReferencesAccounted, PTL

\* The documented lifetime: an object stays held while the user can reach a
\* proxy of it.
THEOREM ReachableStaysHeld == Spec => []HeldWhileReachable
<1>1. ASSUME SharedInv, Intact, NEW p \in Proxies, proxyState[p] = "reachable"
      PROVE  held[proxyID[p]] = proxyObject[p]
  <2> USE <1>1 DEF SharedInv, Accounted, TypeOK
  <2>1. Anchored(p)
    BY DEF Anchors
  <2>2. PICK r \in Refs : /\ Outstanding(r)
                          /\ refID[r] = proxyID[p] /\ refObject[r] = proxyObject[p]
    <3>1. CASE table[proxyID[p]] = p
      BY <3>1 DEF EntryCounts, EntryContents, Reported, Outstanding
    <3>2. CASE table[proxyID[p]] # p
      BY <2>1, <3>2 DEF Anchored, Outstanding
    <3> QED
      BY <3>1, <3>2
  <2> QED
    BY <2>2 DEF Named
<1>2. SharedInv => HeldWhileReachable
  BY <1>1 DEF HeldWhileReachable
<1> QED
  BY <1>2, ReferencesAccounted, PTL

\* No released message gives back what is not counted, so
\* RemoteSharedObjectReleasedCallback always finds the ID it names.
THEOREM ReleasesCovered == Spec => []ReleasesAreCovered
<1>1. ASSUME SharedInv, Intact, NEW m \in releasedMsgs
      PROVE  held[m.id] # NoObject /\ m.count <= heldCount[m.id]
  <2> USE <1>1 DEF SharedInv, Accounted, TypeOK
  <2>1. PICK id \in IDs : id = m.id
    OBVIOUS
  <2>2. /\ m.refs # {} /\ m.count = Cardinality(m.refs)
        /\ \A r \in m.refs : r \in Refs /\ Outstanding(r) /\ refID[r] = id
    BY <2>1 DEF Returning, Outstanding
  <2>3. held[id] # NoObject
    BY <2>2 DEF Named
  <2>4. m.refs \in SUBSET OutstandingRefs(id)
    BY <2>2 DEF OutstandingRefs
  <2>5. Cardinality(m.refs) <= Cardinality(OutstandingRefs(id))
    BY <2>4, OutstandingFinite, FS_Subset
  <2>6. heldCount[id] = Cardinality(OutstandingRefs(id))
    BY DEF Counted
  <2> QED
    BY <2>1, <2>2, <2>3, <2>5, <2>6
<1>2. SharedInv => ReleasesAreCovered
  BY <1>1 DEF ReleasesAreCovered
<1> QED
  BY <1>2, ReferencesAccounted, PTL
-----------------------------------------------------------------------------
(* The limits.                                                             *)

Sent(r) == refPlace[r] # "unused"

\* What is being written, travels or is being read has been registered, so that
\* its ID does not change any more.
OnTheWay ==
    /\ \A w \in Writers : \A r \in writing[w] : Sent(r)
    /\ \A m \in sharedMsgs : \A r \in m : Sent(r)
    /\ \A r \in reading : Sent(r)
    /\ listening \in {"index", "target", "increment", "replace"} => readRef \in reading

\* While the listener is between the lookup of an entry and its use, the table
\* has room for that entry: it was there, and nobody else adds one.
RoomForEntry ==
    listening \in {"target", "increment", "replace"} =>
        Cardinality(TableIDs \cup {refID[readRef]}) <= MaximumRemoteObjects

\* Unlike SharedInv this does not end with the session.
LimitsInv == OnTheWay /\ RoomForEntry /\ LimitsKept

LEMMA SomeIDs ==
    ASSUME NEW S, S \subseteq IDs
    PROVE  IsFiniteSet(S) /\ Cardinality(S) \in Nat
<1>1. IsFiniteSet(IDs)
  BY FS_Interval DEF IDs
<1> QED
  BY <1>1, FS_Subset, FS_CardinalityType

LEMMA FewerIDs ==
    ASSUME NEW S, NEW T, T \subseteq IDs, S \subseteq T
    PROVE  Cardinality(S) <= Cardinality(T)
BY SomeIDs, FS_Subset

LEMMA OneMoreID ==
    ASSUME NEW S, S \subseteq IDs, NEW id \in IDs, NEW limit \in Nat, Cardinality(S) < limit
    PROVE  Cardinality(S \cup {id}) <= limit
<1>1. Cardinality(S \cup {id}) = IF id \in S THEN Cardinality(S) ELSE Cardinality(S) + 1
  BY SomeIDs, FS_AddElement
<1> QED
  BY <1>1, SomeIDs

\* A step that adds no entry and reads on keeps the room and the limits.
LEMMA NothingAdded ==
    ASSUME TypeOK, TypeOK', LimitsInv, OnTheWay',
           HeldIDs' \subseteq HeldIDs, TableIDs' \subseteq TableIDs,
           listening' \in {"target", "increment", "replace"} =>
               /\ listening \in {"target", "increment", "replace"}
               /\ readRef' = readRef /\ refID'[readRef] = refID[readRef]
    PROVE  LimitsInv'
<1> USE DEF LimitsInv
<1>1. HeldIDs \subseteq IDs /\ TableIDs \subseteq IDs
  BY DEF HeldIDs, TableIDs
<1>2. Cardinality(HeldIDs') <= Cardinality(HeldIDs) /\ Cardinality(TableIDs') <= Cardinality(TableIDs)
  BY <1>1, FewerIDs
<1>3. /\ Cardinality(HeldIDs) \in Nat /\ Cardinality(TableIDs) \in Nat
      /\ Cardinality(HeldIDs') \in Nat /\ Cardinality(TableIDs') \in Nat
  BY <1>1, SomeIDs
<1>4. LimitsKept'
  BY <1>2, <1>3 DEF LimitsKept
<1>5. RoomForEntry'
  <2> SUFFICES ASSUME listening' \in {"target", "increment", "replace"}
               PROVE  Cardinality(TableIDs' \cup {refID'[readRef']}) <= MaximumRemoteObjects
    BY DEF RoomForEntry
  <2> DEFINE now == TableIDs \cup {refID[readRef]}
             later == TableIDs' \cup {refID'[readRef']}
  <2>1. refID[readRef] \in IDs
    BY DEF TypeOK
  <2>2. later \subseteq now /\ now \subseteq IDs
    BY <1>1, <2>1
  <2>3. Cardinality(now) <= MaximumRemoteObjects
    BY DEF RoomForEntry
  <2> HIDE DEF now, later
  <2>4. /\ Cardinality(later) <= Cardinality(now)
        /\ Cardinality(now) \in Nat /\ Cardinality(later) \in Nat
    BY <2>2, FewerIDs, SomeIDs
  <2>5. Cardinality(later) <= MaximumRemoteObjects
    BY <2>3, <2>4
  <2> QED
    BY <2>5 DEF later
<1> QED
  BY <1>4, <1>5

LEMMA SenderLimits ==
    ASSUME TypeOK, TypeOK', LimitsInv, NEW w \in Writers, Sender(w)
    PROVE  LimitsInv'
<1> USE DEF TypeOK
<1>1. UNCHANGED <<table, reading, listening, readRef>>
  BY DEF Sender, RegisterAgain, RegisterNew, RegisterTooMany, SerializationFails, SendShared,
         GiveUpMessage, tableVars, listenerVars
<1>2. ASSUME NEW r \in Refs, Sent(r) PROVE Sent(r)' /\ refID'[r] = refID[r]
  BY <1>2 DEF Sent, Sender, RegisterAgain, RegisterNew, RegisterTooMany, SerializationFails,
              SendShared, GiveUpMessage, Moved, refVars
<1>3. \A v \in Writers : \A r \in writing'[v] : Sent(r)'
  <2>1. ASSUME NEW r \in Refs,
               \/ \E id \in IDs : RegisterAgain(w, r, id)
               \/ \E o \in Objects : RegisterNew(w, r, o)
        PROVE  Sent(r)' /\ \A v \in Writers : writing'[v] \subseteq writing[v] \cup {r}
    <3>1. /\ refPlace' = [refPlace EXCEPT ![r] = "writing"]
          /\ writing' = [writing EXCEPT ![w] = @ \cup {r}]
      BY <2>1 DEF RegisterAgain, RegisterNew
    <3>2. Sent(r)'
      BY <3>1 DEF Sent
    <3>3. \A v \in Writers : writing'[v] \subseteq writing[v] \cup {r}
      BY <3>1
    <3> QED
      BY <3>2, <3>3
  <2>2. ASSUME ~ \E r \in Refs : \/ \E id \in IDs : RegisterAgain(w, r, id)
                                 \/ \E o \in Objects : RegisterNew(w, r, o)
        PROVE  \A v \in Writers : writing'[v] \subseteq writing[v]
    BY <2>2 DEF Sender, RegisterTooMany, SerializationFails, SendShared, GiveUpMessage
  <2> QED
    BY <1>2, <2>1, <2>2 DEF LimitsInv, OnTheWay
<1>4. \A m \in sharedMsgs' : \A r \in m : Sent(r)'
  <2>1. sharedMsgs' \subseteq sharedMsgs \cup {writing[w]}
    BY DEF Sender, RegisterAgain, RegisterNew, RegisterTooMany, SerializationFails, SendShared,
           GiveUpMessage
  <2>2. \A m \in sharedMsgs \cup {writing[w]} : \A r \in m : r \in Refs /\ Sent(r)
    BY DEF LimitsInv, OnTheWay
  <2> QED
    BY <1>2, <2>1, <2>2
<1>5. OnTheWay'
  BY <1>1, <1>2, <1>3, <1>4 DEF LimitsInv, OnTheWay
<1>6. /\ TableIDs' = TableIDs
      /\ listening \in {"target", "increment", "replace"} => refID'[readRef] = refID[readRef]
  <2>1. TableIDs' = TableIDs
    BY <1>1 DEF TableIDs
  <2>2. ASSUME listening \in {"target", "increment", "replace"}
        PROVE  readRef \in Refs /\ Sent(readRef)
    BY <2>2 DEF LimitsInv, OnTheWay
  <2> QED
    BY <1>2, <2>1, <2>2
<1>7. CASE \E r \in Refs, o \in Objects : RegisterNew(w, r, o)
  <2>1. /\ HeldIDs' = HeldIDs \cup {NewID(HeldIDs)} /\ NewID(HeldIDs) \in IDs
        /\ Cardinality(HeldIDs) < MaximumHeldObjects
    <3>1. PICK o \in Objects :
             /\ HeldIDs # IDs /\ held' = [held EXCEPT ![NewID(HeldIDs)] = o]
             /\ Cardinality(HeldIDs) < MaximumHeldObjects
      BY <1>7 DEF RegisterNew, RoomForHeld
    <3>2. PICK new \in IDs : new = NewID(HeldIDs)
      BY <3>1, FreshID
    <3>3. held' = [held EXCEPT ![new] = o]
      BY <3>1, <3>2
    <3>4. HeldIDs' = HeldIDs \cup {new}
      BY <3>3 DEF HeldIDs
    <3> QED
      BY <3>1, <3>2, <3>4
  <2>2. HeldIDs \subseteq IDs
    BY DEF HeldIDs
  <2>3. Cardinality(HeldIDs') <= MaximumHeldObjects
    BY <2>1, <2>2, OneMoreID
  <2> QED
    BY <1>1, <1>5, <1>6, <2>3 DEF LimitsInv, LimitsKept, RoomForEntry
<1>8. CASE ~ \E r \in Refs, o \in Objects : RegisterNew(w, r, o)
  <2>1. held' = held
    BY <1>8 DEF Sender, RegisterAgain, RegisterTooMany, SerializationFails, SendShared, GiveUpMessage
  <2> QED
    BY <1>1, <1>5, <1>6, <2>1, NothingAdded DEF HeldIDs
<1> QED
  BY <1>7, <1>8

LEMMA ReaderLimits ==
    ASSUME TypeOK, TypeOK', LimitsInv, UserListener
    PROVE  LimitsInv'
<1> USE DEF TypeOK
<1>1. UNCHANGED <<writing, refID>> /\ HeldIDs' = HeldIDs /\ sharedMsgs' \subseteq sharedMsgs
  BY DEF UserListener, StartReading, CreateProxy, TooManyRemoteObjects, FindEntry, LoadEntry,
         EntryGone, GetTarget, CountReference, ReplaceEntry, ReadingFails, Resolved, UserListens,
         holderVars, refVars, HeldIDs
<1>2. \A r \in Refs : Sent(r) => Sent(r)'
  BY DEF Sent, UserListener, StartReading, CreateProxy, TooManyRemoteObjects, FindEntry, LoadEntry,
         EntryGone, GetTarget, CountReference, ReplaceEntry, ReadingFails, Moved
<1>3. \A r \in reading' : r \in reading \/ \E m \in sharedMsgs : r \in m
  BY DEF UserListener, StartReading, CreateProxy, TooManyRemoteObjects, FindEntry, LoadEntry,
         EntryGone, GetTarget, CountReference, ReplaceEntry, ReadingFails, Resolved
<1>4. listening' \in {"index", "target", "increment", "replace"} => readRef' \in reading'
  BY DEF LimitsInv, OnTheWay, UserListener, StartReading, CreateProxy, TooManyRemoteObjects,
         FindEntry, LoadEntry, EntryGone, GetTarget, CountReference, ReplaceEntry, ReadingFails, Resolved
<1>5. OnTheWay'
  <2>1. \A r \in reading' : r \in Refs /\ Sent(r)
    BY <1>3 DEF LimitsInv, OnTheWay
  <2>2. \A w \in Writers : \A r \in writing[w] : r \in Refs /\ Sent(r)
    BY DEF LimitsInv, OnTheWay
  <2>3. \A m \in sharedMsgs' : \A r \in m : r \in Refs /\ Sent(r)
    BY <1>1 DEF LimitsInv, OnTheWay
  <2> QED
    BY <1>1, <1>2, <1>4, <2>1, <2>2, <2>3 DEF OnTheWay
<1>h. HeldIDs \subseteq IDs /\ TableIDs \subseteq IDs
  BY DEF HeldIDs, TableIDs
<1>6. ASSUME NEW r \in reading, NEW p \in Proxies, CreateProxy(r, p) PROVE LimitsInv'
  <2>1. /\ Cardinality(TableIDs) < MaximumRemoteObjects
        /\ TableIDs' = TableIDs \cup {refID[r]}
        /\ listening' \in {"idle", "check"}
    BY <1>6, SharedAssumption DEF CreateProxy, RoomForRemote, Resolved, TableIDs
  <2>2. Cardinality(TableIDs') <= MaximumRemoteObjects
    BY <1>h, <2>1, OneMoreID
  <2> QED
    BY <1>1, <1>5, <2>1, <2>2 DEF LimitsInv, LimitsKept, RoomForEntry
<1>7. CASE LoadEntry
  <2>1. refID[readRef] \in TableIDs /\ TableIDs' = TableIDs /\ readRef' = readRef
    BY <1>7 DEF LoadEntry, TableIDs, tableVars
  <2>2. TableIDs' \cup {refID'[readRef']} = TableIDs
    BY <1>1, <2>1
  <2> QED
    BY <1>1, <1>5, <2>1, <2>2 DEF LimitsInv, LimitsKept, RoomForEntry
<1>8. ASSUME NEW p \in Proxies, ReplaceEntry(p) PROVE LimitsInv'
  <2>1. /\ TableIDs' = TableIDs \cup {refID[readRef]}
        /\ listening = "replace" /\ listening' \in {"idle", "check"}
    BY <1>8, SharedAssumption DEF ReplaceEntry, Resolved, TableIDs
  <2>2. Cardinality(TableIDs') <= MaximumRemoteObjects
    BY <2>1 DEF LimitsInv, RoomForEntry
  <2> QED
    BY <1>1, <1>5, <2>1, <2>2 DEF LimitsInv, LimitsKept, RoomForEntry
<1>9. CASE \/ \E m \in sharedMsgs : StartReading(m)
           \/ \E r \in reading : TooManyRemoteObjects(r) \/ FindEntry(r)
           \/ EntryGone \/ GetTarget \/ CountReference
  <2>1. table' = table
    BY <1>9 DEF StartReading, TooManyRemoteObjects, FindEntry, EntryGone, GetTarget, CountReference,
                ReadingFails, tableVars
  <2>2. listening' \in {"target", "increment", "replace"} =>
            listening \in {"target", "increment", "replace"} /\ readRef' = readRef
    BY <1>9 DEF StartReading, TooManyRemoteObjects, FindEntry, EntryGone, GetTarget, CountReference,
                ReadingFails, Resolved
  <2> QED
    BY <1>1, <1>5, <2>1, <2>2, NothingAdded DEF TableIDs
<1> QED
  BY <1>6, <1>7, <1>8, <1>9 DEF UserListener

LEMMA OtherLimits ==
    ASSUME TypeOK, TypeOK', LimitsInv,
           \/ FinalizerThread \/ HolderListener \/ Disconnection \/ UNCHANGED vars
           \/ \E p \in Proxies : Collect(p)
           \/ \E c \in Uses, p \in Proxies, kind \in {"call", "argument"} : UseProxy(c, p, kind)
    PROVE  LimitsInv'
<1> USE DEF TypeOK
<1>1. /\ UNCHANGED <<writing, sharedMsgs, refID, readRef, reading>>
      /\ listening' \in {listening, "ended"}
      /\ \A id \in IDs : held'[id] \in {held[id], NoObject} /\ table'[id] \in {table[id], NoProxy}
  <2>1. CASE FinalizerThread \/ (\E p \in Proxies : Collect(p))
    BY <2>1 DEF FinalizerThread, Finalize, ReportReleased, Collect, Collects, holderVars, refVars,
                listenerVars, tableVars
  <2>2. CASE HolderListener
    BY <2>2 DEF HolderListener, DeliverReleased, DeliverUse, HolderListens, refVars, listenerVars,
                tableVars
  <2>3. CASE Disconnection
    BY <2>3 DEF Disconnection, DisconnectHolder, HolderListenerEnds, DisconnectUser,
                UserListenerEnds, ClearHolder, ClearUser, holderVars, refVars, listenerVars, tableVars
  <2>4. CASE \/ UNCHANGED vars
             \/ \E c \in Uses, p \in Proxies, kind \in {"call", "argument"} : UseProxy(c, p, kind)
    BY <2>4 DEF vars, UseProxy, holderVars, refVars, listenerVars, tableVars
  <2> QED
    BY <2>1, <2>2, <2>3, <2>4
<1>2. \A r \in Refs : Sent(r) => Sent(r)'
  BY DEF Sent, Moved, FinalizerThread, Finalize, ReportReleased, Collect, Collects, HolderListener,
         DeliverReleased, DeliverUse, Disconnection, DisconnectHolder, HolderListenerEnds,
         DisconnectUser, UserListenerEnds, ClearHolder, ClearUser, UseProxy, vars
<1>3. OnTheWay'
  <2>1. /\ \A r \in reading : r \in Refs /\ Sent(r)
        /\ \A w \in Writers : \A r \in writing[w] : r \in Refs /\ Sent(r)
        /\ \A m \in sharedMsgs : \A r \in m : r \in Refs /\ Sent(r)
    BY DEF LimitsInv, OnTheWay
  <2> QED
    BY <1>1, <1>2, <2>1 DEF OnTheWay, LimitsInv
<1>4. HeldIDs' \subseteq HeldIDs /\ TableIDs' \subseteq TableIDs
  BY <1>1 DEF HeldIDs, TableIDs
<1> QED
  BY <1>1, <1>3, <1>4, NothingAdded

\* Neither side's table outgrows its limit, although an entry may be replaced
\* without a look at the limit and after a finalizer has removed it, and although
\* sessions end in between. The handshake puts one object into each table without
\* asking (ImpClient.cs, InitializeClientConnection), hence the assumption.
THEOREM LimitsHold ==
    ASSUME MaximumHeldObjects >= 1, MaximumRemoteObjects >= 1
    PROVE  Spec => []LimitsKept
<1>1. Init => LimitsInv
  <2> SUFFICES ASSUME Init PROVE LimitsInv
    OBVIOUS
  <2>1. HeldIDs = {0} /\ TableIDs = {0}
    BY ZeroIsID DEF Init, HeldIDs, TableIDs
  <2>2. Cardinality({0}) = 1
    BY FS_Singleton
  <2> QED
    BY <2>1, <2>2 DEF Init, LimitsInv, OnTheWay, RoomForEntry, LimitsKept
<1>2. TypeOK /\ TypeOK' /\ LimitsInv /\ [Next]_vars => LimitsInv'
  BY SenderLimits, ReaderLimits, OtherLimits DEF Next
<1>3. LimitsInv => LimitsKept
  BY DEF LimitsInv
<1> QED
  BY <1>1, <1>2, <1>3, TypeCorrect, PTL DEF Spec
=============================================================================
