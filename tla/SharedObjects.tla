---------------------------- MODULE SharedObjects ----------------------------
(***************************************************************************)
(* Sharing objects by reference over one connection                        *)
(* (src/Imp/ImpClient.cs, ImpPowerSerializer.cs, RemoteSharedObject.cs).   *)
(*                                                                         *)
(* One direction of the protocol: the holder owns the objects and counts   *)
(* the references it has sent; the user has the proxies, counts the        *)
(* references it has received, and sends the count back when a proxy is    *)
(* garbage collected.  Each endpoint plays both roles with separate tables,*)
(* so the other direction is another instance of this module.              *)
(*                                                                         *)
(* SendImpMessage serialises at once but leaves the writing to a thread    *)
(* pool task, so messages cross the connection in any order: each kind of  *)
(* message in flight is a set.                                             *)
(*                                                                         *)
(* A reference on its way has an identity (Refs) so that the state can say *)
(* where each counted reference has gone; the code has only the counts.    *)
(* The variables that record this are history: no guard reads them.        *)
(*                                                                         *)
(* ProcessDisconnection clears a side's tables (holderUp, userUp); what     *)
(* threads then do to the cleared tables of the holder is not followed.     *)
(***************************************************************************)
EXTENDS Identifiers

CONSTANTS
    Objects, Root,        \* shared objects; Root is the one ID 0 stands for
    Refs, RootRef,        \* transmissions of a reference; the handshake's
    Proxies, RootProxy,   \* RemoteSharedObject instances; the handshake's
    NoObject, NoRef, NoProxy,
    Writers,              \* holder threads inside SendImpMessage
    Uses,                 \* uses of a proxy: calls on it, or as an argument
    MaximumHeldObjects, MaximumRemoteObjects

ASSUME SharedAssumption ==
    /\ Root \in Objects /\ NoObject \notin Objects
    /\ RootRef \in Refs /\ NoRef \notin Refs
    /\ RootProxy \in Proxies /\ NoProxy \notin Proxies
    /\ IsFiniteSet(Refs)
    /\ MaximumHeldObjects \in Nat /\ MaximumRemoteObjects \in Nat

VARIABLES
    \* the holder
    held,            \* HeldObjects: ID to object
    heldCount,       \* HeldObjectsData[id].Count, 0 where there is no entry
    writing,         \* references in the message each thread is serialising
    holderUp,        \* its tables are those of the session
    holderListener,  \* its listener thread
    \* messages in flight
    sharedMsgs,      \* to the user: sets of references travelling together
    releasedMsgs,    \* to the holder: RemoteSharedObjectReleasedMessage
    useMsgs,         \* to the holder: calls on an ID, IDs as arguments
    \* references
    refID,           \* the ID each one carries
    refObject,       \* history: the object it was registered for
    refPlace,        \* history: where it is counted
    \* the user
    table,           \* RemoteSharedObjects: ID to the proxy of the entry
    entryCount,      \* CountedObject.Count of the entry created with a proxy
    entryRefs,       \* history: the references that count stands for
    proxyState,      \* is a proxy reachable, collected, finalized
    proxyID,         \* RemoteSharedObject.ObjectID
    proxyObject,     \* history: the object it was created for
    hostless,        \* proxies whose HostClient is null
    reporting,       \* entry the finalizer thread has removed, not yet reported
    userUp,          \* its tables are those of the session
    listening,       \* where its listener is in GetOrCreateRemoteSharedObject
    reading,         \* references of the message being read, still to resolve
    readRef,         \* the one being resolved
    readEntry,       \* GetOrCreateRemoteSharedObject's `reference'
    arguments,       \* proxies the message being read refers to
    \* uses of proxies
    useState,        \* unused, sent, found, notHeld
    meant, got       \* history: the object meant, the object found

holderVars == <<held, heldCount, writing, holderUp, holderListener>>
refVars == <<refID, refObject>>
tableVars == <<table, entryCount, entryRefs>>
proxyVars == <<proxyState, proxyID, proxyObject, hostless>>
listenerVars == <<listening, reading, readRef, readEntry, arguments>>
useVars == <<useMsgs, useState, meant, got>>
vars == <<holderVars, refVars, refPlace, tableVars, proxyVars, listenerVars,
          useVars, sharedMsgs, releasedMsgs, reporting, userUp>>

-----------------------------------------------------------------------------
HeldIDs == {id \in IDs : held[id] # NoObject}
TableIDs == {id \in IDs : table[id] # NoProxy}

\* Both sides still have the tables of this session.
Intact == holderUp /\ userUp

\* References the holder still counts.
Outstanding(r) == refPlace[r] \notin {"unused", "returned"}
OutstandingRefs(id) == {r \in Refs : Outstanding(r) /\ refID[r] = id}

\* CountedObject's ++.
SameCount(count) == count    \* mutant: the increment is dropped
OneMore(count) == count + 1

Moved(refs, place) == [r \in Refs |-> IF r \in refs THEN place ELSE refPlace[r]]

\* After the handshake each side holds its Server or ImpClient object at ID 0
\* and has the peer's proxy of it, which a field keeps reachable
\* (InitializeClientConnection, InitializeServerConnection).
Init ==
    /\ held = [id \in IDs |-> IF id = 0 THEN Root ELSE NoObject]
    /\ heldCount = [id \in IDs |-> IF id = 0 THEN 1 ELSE 0]
    /\ writing = [w \in Writers |-> {}]
    /\ holderUp = TRUE /\ holderListener = "running"
    /\ sharedMsgs = {} /\ releasedMsgs = {} /\ useMsgs = {}
    /\ refID = [r \in Refs |-> 0]
    /\ refObject = [r \in Refs |-> IF r = RootRef THEN Root ELSE NoObject]
    /\ refPlace = [r \in Refs |-> IF r = RootRef THEN "entry" ELSE "unused"]
    /\ table = [id \in IDs |-> IF id = 0 THEN RootProxy ELSE NoProxy]
    /\ entryCount = [p \in Proxies |-> IF p = RootProxy THEN 1 ELSE 0]
    /\ entryRefs = [p \in Proxies |-> IF p = RootProxy THEN {RootRef} ELSE {}]
    /\ proxyState = [p \in Proxies |-> IF p = RootProxy THEN "reachable" ELSE "unused"]
    /\ proxyID = [p \in Proxies |-> 0]
    /\ proxyObject = [p \in Proxies |-> IF p = RootProxy THEN Root ELSE NoObject]
    /\ hostless = {} /\ reporting = NoProxy /\ userUp = TRUE
    /\ listening = "idle" /\ reading = {} /\ readRef = NoRef
    /\ readEntry = NoProxy /\ arguments = {}
    /\ useState = [c \in Uses |-> "unused"]
    /\ meant = [c \in Uses |-> NoObject] /\ got = [c \in Uses |-> NoObject]

-----------------------------------------------------------------------------
(* The holder sends: SendImpMessage serialises the message, registering    *)
(* each shared object in it once, under Locker one at a time.              *)

\* GetOrRegisterLocalSharedObject finds the object registered: one more.
RegisterAgain(w, r, id) ==
    /\ holderUp /\ refPlace[r] = "unused" /\ held[id] # NoObject
    /\ \A s \in writing[w] : refObject[s] # held[id]
    /\ heldCount' = [heldCount EXCEPT ![id] = OneMore(@)]
    /\ writing' = [writing EXCEPT ![w] = @ \cup {r}]
    /\ refID' = [refID EXCEPT ![r] = id]
    /\ refObject' = [refObject EXCEPT ![r] = held[id]]
    /\ refPlace' = [refPlace EXCEPT ![r] = "writing"]
    /\ UNCHANGED <<held, holderUp, holderListener, tableVars,
                   proxyVars, listenerVars, useVars, sharedMsgs, releasedMsgs,
                   reporting, userUp>>

OneHeldTooMany == Cardinality(HeldIDs) <= MaximumHeldObjects    \* mutant: off by one
RoomForHeld == Cardinality(HeldIDs) < MaximumHeldObjects

\* It is not registered: a new ID.  With all IDs taken Add would not return
\* (IdentifiedCollection).
RegisterNew(w, r, o) ==
    /\ holderUp /\ refPlace[r] = "unused"
    /\ \A id \in IDs : held[id] # o
    /\ RoomForHeld /\ HeldIDs # IDs
    /\ LET id == NewID(HeldIDs) IN
         /\ held' = [held EXCEPT ![id] = o]
         /\ heldCount' = [heldCount EXCEPT ![id] = 1]
         /\ refID' = [refID EXCEPT ![r] = id]
    /\ writing' = [writing EXCEPT ![w] = @ \cup {r}]
    /\ refObject' = [refObject EXCEPT ![r] = o]
    /\ refPlace' = [refPlace EXCEPT ![r] = "writing"]
    /\ UNCHANGED <<holderUp, holderListener, tableVars,
                   proxyVars, listenerVars, useVars, sharedMsgs, releasedMsgs,
                   reporting, userUp>>

\* The exception leaves Serialize: no message, and nothing takes back the
\* counts of the objects already registered for it.
GiveUpMessage(w) ==
    /\ writing' = [writing EXCEPT ![w] = {}]
    /\ refPlace' = Moved(writing[w], "abandoned")
    /\ UNCHANGED <<held, heldCount, holderUp, holderListener, refVars, tableVars,
                   proxyVars, listenerVars, useVars, sharedMsgs, releasedMsgs,
                   reporting, userUp>>

RegisterTooMany(w, o) ==
    /\ holderUp
    /\ \A id \in IDs : held[id] # o
    /\ ~ RoomForHeld
    /\ GiveUpMessage(w)

\* A later part of the message is of a type the serializer refuses.
SerializationFails(w) ==
    /\ holderUp /\ writing[w] # {}
    /\ GiveUpMessage(w)

\* The rest of SendImpMessage: the message is now up to a thread pool task.
SendShared(w) ==
    /\ holderUp /\ writing[w] # {}
    /\ sharedMsgs' = sharedMsgs \cup {writing[w]}
    /\ writing' = [writing EXCEPT ![w] = {}]
    /\ refPlace' = Moved(writing[w], "wire")
    /\ UNCHANGED <<held, heldCount, holderUp, holderListener,
                   refVars, tableVars, proxyVars, listenerVars, useVars,
                   releasedMsgs, reporting, userUp>>

-----------------------------------------------------------------------------
(* The user receives: the listener thread resolves each reference of the   *)
(* message with GetOrCreateRemoteSharedObject, under Locker; finalizers do *)
(* not take Locker.                                                        *)

UserListens == /\ UNCHANGED <<holderVars, refVars, useVars, releasedMsgs, reporting, userUp>>

\* Mutant: the message is delivered again.
StartReadingAgain(m) ==
    /\ userUp /\ listening = "idle" /\ m \in sharedMsgs
    /\ listening' = "check" /\ reading' = m
    /\ refPlace' = Moved(m, "reading")
    /\ UNCHANGED <<sharedMsgs, readRef, readEntry, arguments, tableVars, proxyVars>>
    /\ UserListens

StartReading(m) ==
    /\ userUp /\ listening = "idle" /\ m \in sharedMsgs
    /\ sharedMsgs' = sharedMsgs \ {m}
    /\ listening' = "check" /\ reading' = m
    /\ refPlace' = Moved(m, "reading")
    /\ UNCHANGED <<readRef, readEntry, arguments, tableVars, proxyVars>>
    /\ UserListens

\* The reference has been resolved to proxy p.
Resolved(r, p) ==
    /\ reading' = reading \ {r}
    /\ readRef' = NoRef /\ readEntry' = NoProxy
    /\ IF reading = {r} THEN listening' = "idle" /\ arguments' = {}
                        ELSE listening' = "check" /\ arguments' = arguments \cup {p}
    /\ UNCHANGED sharedMsgs

\* The exception leaves the listener's loop.
ReadingFails ==
    /\ listening' = "failed" /\ arguments' = {}
    /\ UNCHANGED <<reading, readRef, readEntry, sharedMsgs, refPlace, tableVars, proxyVars>>
    /\ UserListens

RoomForRemote == Cardinality(TableIDs) < MaximumRemoteObjects

\* ContainsKey is false.  Nothing but this thread adds entries, so creating the
\* proxy and storing its entry are one step.
CreateProxy(r, p) ==
    /\ listening = "check" /\ r \in reading
    /\ table[refID[r]] = NoProxy
    /\ RoomForRemote
    /\ proxyState[p] = "unused"
    /\ table' = [table EXCEPT ![refID[r]] = p]
    /\ entryCount' = [entryCount EXCEPT ![p] = 1]
    /\ entryRefs' = [entryRefs EXCEPT ![p] = {r}]
    /\ proxyState' = [proxyState EXCEPT ![p] = "reachable"]
    /\ proxyID' = [proxyID EXCEPT ![p] = refID[r]]
    /\ proxyObject' = [proxyObject EXCEPT ![p] = refObject[r]]
    /\ refPlace' = [refPlace EXCEPT ![r] = "entry"]
    /\ Resolved(r, p)
    /\ UNCHANGED hostless
    /\ UserListens

TooManyRemoteObjects(r) ==
    /\ listening = "check" /\ r \in reading
    /\ table[refID[r]] = NoProxy
    /\ ~ RoomForRemote
    /\ ReadingFails

\* ContainsKey is true; the entry is looked up in a second step.
FindEntry(r) ==
    /\ listening = "check" /\ r \in reading
    /\ table[refID[r]] # NoProxy
    /\ listening' = "index" /\ readRef' = r
    /\ UNCHANGED <<reading, readEntry, arguments, sharedMsgs, refPlace, tableVars, proxyVars>>
    /\ UserListens

LoadEntry ==
    /\ listening = "index" /\ table[refID[readRef]] # NoProxy
    /\ listening' = "target" /\ readEntry' = table[refID[readRef]]
    /\ UNCHANGED <<reading, readRef, arguments, sharedMsgs, refPlace, tableVars, proxyVars>>
    /\ UserListens

\* A finalizer has removed it in between: KeyNotFoundException.
EntryGone ==
    /\ listening = "index" /\ table[refID[readRef]] = NoProxy
    /\ ReadingFails

\* TryGetTarget: a weak reference is cleared when its target is collected,
\* before the finalizer runs.  A target obtained is kept by the listener.
GetTarget ==
    /\ listening = "target"
    /\ IF proxyState[readEntry] = "reachable"
         THEN listening' = "increment" /\ arguments' = arguments \cup {readEntry}
         ELSE listening' = "replace" /\ UNCHANGED arguments
    /\ UNCHANGED <<reading, readRef, readEntry, sharedMsgs, refPlace, tableVars, proxyVars>>
    /\ UserListens

\* An entry in the table, or removed but not yet counted by the finalizer.
Reported(p) == table[proxyID[p]] # p /\ reporting # p

\* reference++.  If the count has been reported already, one more is forgotten.
CountReference ==
    /\ listening = "increment"
    /\ entryCount' = [entryCount EXCEPT ![readEntry] = OneMore(@)]
    /\ IF Reported(readEntry)
         THEN /\ refPlace' = [refPlace EXCEPT ![readRef] = "forgotten"]
              /\ UNCHANGED entryRefs
         ELSE /\ refPlace' = [refPlace EXCEPT ![readRef] = "entry"]
              /\ entryRefs' = [entryRefs EXCEPT ![readEntry] = @ \cup {readRef}]
    /\ Resolved(readRef, readEntry)
    /\ UNCHANGED <<table, proxyVars>>
    /\ UserListens

\* The target has been collected: a new proxy and a new entry with count 1.
\* The count of an entry still in the table is forgotten.
ReplaceEntry(p) ==
    /\ listening = "replace"
    /\ proxyState[p] = "unused"
    /\ LET id == refID[readRef]
           lost == IF table[id] = NoProxy THEN {} ELSE entryRefs[table[id]] IN
         /\ table' = [table EXCEPT ![id] = p]
         /\ entryRefs' = [q \in Proxies |-> IF q = p THEN {readRef}
                                            ELSE entryRefs[q] \ lost]
         /\ refPlace' = [r \in Refs |-> IF r = readRef THEN "entry"
                                        ELSE IF r \in lost THEN "forgotten"
                                        ELSE refPlace[r]]
         /\ proxyID' = [proxyID EXCEPT ![p] = id]
    /\ entryCount' = [entryCount EXCEPT ![p] = 1]
    /\ proxyState' = [proxyState EXCEPT ![p] = "reachable"]
    /\ proxyObject' = [proxyObject EXCEPT ![p] = refObject[readRef]]
    /\ Resolved(readRef, p)
    /\ UNCHANGED hostless
    /\ UserListens

-----------------------------------------------------------------------------
(* The user lets go: the garbage collector and its finalizer thread.       *)

Collects == UNCHANGED <<holderVars, refVars, listenerVars, useVars, sharedMsgs, userUp>>

\* The last strong reference to a proxy is gone and the collector notices.
Collect(p) ==
    /\ proxyState[p] = "reachable" /\ p # RootProxy
    /\ p \notin arguments
    /\ proxyState' = [proxyState EXCEPT ![p] = "collected"]
    /\ UNCHANGED <<proxyID, proxyObject, hostless, tableVars, refPlace, releasedMsgs, reporting>>
    /\ Collects

\* ~RemoteSharedObject, ReleaseRemoteSharedObject: TryRemove takes whatever
\* entry the ID has now.
Finalize(p) ==
    /\ reporting = NoProxy
    /\ proxyState[p] = "collected"
    /\ proxyState' = [proxyState EXCEPT ![p] = "finalized"]
    /\ IF p \in hostless
         THEN UNCHANGED <<table, reporting>>
         ELSE /\ reporting' = table[proxyID[p]]
              /\ table' = [table EXCEPT ![proxyID[p]] = NoProxy]
    /\ UNCHANGED <<proxyID, proxyObject, hostless, entryCount, entryRefs, refPlace, releasedMsgs>>
    /\ Collects

\* Mutant: the entry is reported a second time.
ReportReleasedAgain ==
    /\ reporting # NoProxy
    /\ releasedMsgs' = releasedMsgs \cup
         {[id |-> proxyID[reporting], count |-> entryCount[reporting],
           refs |-> entryRefs[reporting]]}
    /\ refPlace' = Moved(entryRefs[reporting], "released")
    /\ entryRefs' = [entryRefs EXCEPT ![reporting] = {}]
    /\ UNCHANGED <<reporting, proxyVars, table, entryCount>>
    /\ Collects

\* The message is built with the count the removed entry has by now; it is
\* lost if the connection is closed.
ReportReleased ==
    /\ reporting # NoProxy
    /\ releasedMsgs' = IF userUp
         THEN releasedMsgs \cup
                {[id |-> proxyID[reporting], count |-> entryCount[reporting],
                  refs |-> entryRefs[reporting]]}
         ELSE releasedMsgs
    /\ refPlace' = Moved(entryRefs[reporting], "released")
    /\ entryRefs' = [entryRefs EXCEPT ![reporting] = {}]
    /\ reporting' = NoProxy
    /\ UNCHANGED <<proxyVars, table, entryCount>>
    /\ Collects

-----------------------------------------------------------------------------
(* The user uses a proxy: CallRemoteMethodAsync and the accessors send its *)
(* ID as the target, WriteObjectReference sends it as an argument.         *)

UseProxy(c, p, kind) ==
    /\ userUp /\ proxyState[p] = "reachable" /\ p \notin hostless
    /\ useState[c] = "unused"
    /\ useState' = [useState EXCEPT ![c] = "sent"]
    /\ meant' = [meant EXCEPT ![c] = proxyObject[p]]
    /\ useMsgs' = useMsgs \cup {[use |-> c, kind |-> kind, id |-> proxyID[p]]}
    /\ UNCHANGED <<got, holderVars, refVars, refPlace, tableVars, proxyVars,
                   listenerVars, sharedMsgs, releasedMsgs, reporting, userUp>>

-----------------------------------------------------------------------------
(* The holder receives, under Locker.                                      *)

HolderListens == UNCHANGED <<writing, holderUp, refVars,
    tableVars, proxyVars, listenerVars, sharedMsgs, reporting, userUp>>

GivesBackAny(m) == TRUE                          \* mutant: no comparison
GivesBackMore(m) == heldCount[m.id] < m.count    \* mutant: off by one
GivesBackAll(m) == heldCount[m.id] <= m.count

\* RemoteSharedObjectReleasedCallback; HeldObjectsData[id] throws if absent.
DeliverReleased(m) ==
    /\ holderUp /\ holderListener = "running" /\ m \in releasedMsgs
    /\ releasedMsgs' = releasedMsgs \ {m}
    /\ refPlace' = Moved(m.refs, "returned")
    /\ holderListener' = IF held[m.id] = NoObject THEN "failed" ELSE "running"
    /\ IF GivesBackAll(m)
         THEN /\ heldCount' = [heldCount EXCEPT ![m.id] = 0]
              /\ held' = [held EXCEPT ![m.id] = NoObject]
         ELSE /\ heldCount' = [heldCount EXCEPT ![m.id] = @ - m.count]
              /\ UNCHANGED held
    /\ UNCHANGED useVars
    /\ HolderListens

\* A call whose target is not held is answered with an exception; an argument
\* that is not held makes Deserialize throw, which ends the listener.
DeliverUse(m) ==
    /\ holderUp /\ holderListener = "running" /\ m \in useMsgs
    /\ useMsgs' = useMsgs \ {m}
    /\ useState' = [useState EXCEPT ![m.use] =
                      IF held[m.id] = NoObject THEN "notHeld" ELSE "found"]
    /\ got' = [got EXCEPT ![m.use] = held[m.id]]
    /\ holderListener' = IF held[m.id] = NoObject /\ m.kind = "argument"
                           THEN "failed" ELSE "running"
    /\ UNCHANGED <<held, heldCount, meant, refPlace, releasedMsgs>>
    /\ HolderListens

-----------------------------------------------------------------------------
(* Disconnection: Disconnect() on some thread, and the listener's own exit  *)
(* (an exception, the peer's end of stream, the socket closed under it),   *)
(* each run ProcessDisconnection under Locker.                             *)

ClearHolder ==
    /\ held' = [id \in IDs |-> NoObject]
    /\ heldCount' = [id \in IDs |-> 0]
    /\ holderUp' = FALSE
    /\ UNCHANGED <<writing, refVars, refPlace, tableVars,
                   proxyVars, listenerVars, useVars, sharedMsgs, releasedMsgs,
                   reporting, userUp>>

DisconnectHolder == holderUp /\ ClearHolder /\ UNCHANGED holderListener

HolderListenerEnds ==
    /\ holderListener = "failed" \/ (holderListener = "running" /\ ~ Intact)
    /\ holderListener' = "ended"
    /\ ClearHolder

\* Proxies still in the table lose their HostClient.
ClearUser ==
    /\ hostless' = hostless \cup
         {p \in Proxies : table[proxyID[p]] = p /\ proxyState[p] = "reachable"}
    /\ table' = [id \in IDs |-> NoProxy]
    /\ userUp' = FALSE
    /\ UNCHANGED <<holderVars, refVars, refPlace, entryCount, entryRefs,
                   proxyState, proxyID, proxyObject, reading, readRef,
                   readEntry, arguments, useVars, sharedMsgs, releasedMsgs,
                   reporting>>

\* Locker is taken while the listener is inside GetOrCreateRemoteSharedObject.
DisconnectUser ==
    /\ userUp /\ listening \in {"idle", "check", "failed"}
    /\ ClearUser
    /\ UNCHANGED listening

UserListenerEnds ==
    /\ listening = "failed" \/ (listening = "idle" /\ ~ Intact)
    /\ listening' = "ended"
    /\ ClearUser

-----------------------------------------------------------------------------
UserListener ==
    \/ \E m \in sharedMsgs : StartReading(m)
    \/ \E r \in reading : \/ \E p \in Proxies : CreateProxy(r, p)
                          \/ TooManyRemoteObjects(r)
                          \/ FindEntry(r)
    \/ LoadEntry \/ EntryGone \/ GetTarget \/ CountReference
    \/ \E p \in Proxies : ReplaceEntry(p)

FinalizerThread == ReportReleased \/ \E p \in Proxies : Finalize(p)

HolderListener ==
    \/ \E m \in releasedMsgs : DeliverReleased(m)
    \/ \E m \in useMsgs : DeliverUse(m)

Sender(w) ==
    \/ \E r \in Refs : \/ \E id \in IDs : RegisterAgain(w, r, id)
                       \/ \E o \in Objects : RegisterNew(w, r, o)
    \/ \E o \in Objects : RegisterTooMany(w, o)
    \/ SerializationFails(w)
    \/ SendShared(w)

Disconnection == \/ DisconnectHolder \/ HolderListenerEnds
                 \/ DisconnectUser \/ UserListenerEnds

Next ==
    \/ \E w \in Writers : Sender(w)
    \/ UserListener
    \/ \E p \in Proxies : Collect(p)
    \/ FinalizerThread
    \/ \E c \in Uses, p \in Proxies, kind \in {"call", "argument"} : UseProxy(c, p, kind)
    \/ HolderListener
    \/ Disconnection

Spec == Init /\ [][Next]_vars

\* Threads that have work do it; nobody has to send, use or drop anything.
FairSpec ==
    /\ Spec
    /\ WF_vars(UserListener) /\ WF_vars(FinalizerThread) /\ WF_vars(HolderListener)
    /\ \A w \in Writers : WF_vars(SendShared(w))
    /\ WF_vars(UserListenerEnds) /\ WF_vars(HolderListenerEnds)

-----------------------------------------------------------------------------
Places == {"unused", "writing", "wire", "reading", "entry", "forgotten",
           "abandoned", "released", "returned"}

\* The type invariant.
TypeOK ==
    /\ held \in [IDs -> Objects \cup {NoObject}]
    /\ heldCount \in [IDs -> Nat]
    /\ writing \in [Writers -> SUBSET Refs]
    /\ holderUp \in BOOLEAN
    /\ holderListener \in {"running", "failed", "ended"}
    /\ sharedMsgs \subseteq SUBSET Refs
    /\ releasedMsgs \subseteq [id : IDs, count : Nat, refs : SUBSET Refs]
    /\ useMsgs \subseteq [use : Uses, kind : {"call", "argument"}, id : IDs]
    /\ refID \in [Refs -> IDs]
    /\ refObject \in [Refs -> Objects \cup {NoObject}]
    /\ refPlace \in [Refs -> Places]
    /\ table \in [IDs -> Proxies \cup {NoProxy}]
    /\ entryCount \in [Proxies -> Nat]
    /\ entryRefs \in [Proxies -> SUBSET Refs]
    /\ proxyState \in [Proxies -> {"unused", "reachable", "collected", "finalized"}]
    /\ proxyID \in [Proxies -> IDs]
    /\ proxyObject \in [Proxies -> Objects \cup {NoObject}]
    /\ hostless \subseteq Proxies
    /\ reporting \in Proxies \cup {NoProxy}
    /\ userUp \in BOOLEAN
    /\ listening \in {"idle", "check", "index", "target", "increment", "replace", "failed",
                     "ended"}
    /\ reading \subseteq Refs
    /\ readRef \in Refs \cup {NoRef}
    /\ readEntry \in Proxies \cup {NoProxy}
    /\ arguments \subseteq Proxies
    /\ listening \in {"index", "target", "increment", "replace"} => readRef \in Refs
    /\ listening \in {"target", "increment", "replace"} => readEntry \in Proxies
    /\ useState \in [Uses -> {"unused", "sent", "found", "notHeld"}]
    /\ meant \in [Uses -> Objects \cup {NoObject}]
    /\ got \in [Uses -> Objects \cup {NoObject}]

\* An object stays in the holder's table, under the same ID, as long as the
\* user can reach a proxy of it (sclasses.md, "Shared class lifetime"), whatever
\* the finalizer and the listener do to the user's counts in the meantime.
HeldWhileReachable ==
    Intact => \A p \in Proxies :
        proxyState[p] = "reachable" => held[proxyID[p]] = proxyObject[p]

\* A reference that has not come back, wherever it is, names the object it was
\* sent for: its ID has not been freed and given to another object.
ReferencesNameTheirObject ==
    Intact => \A r \in Refs : Outstanding(r) => held[refID[r]] = refObject[r]

\* The holder's count of an ID is the number of references to it that it has
\* sent and not been told of again: none is counted twice or not at all.
CountsAgree ==
    Intact => \A id \in IDs : heldCount[id] = Cardinality(OutstandingRefs(id))

\* A released message never gives back more than the holder counts, and never
\* names an ID that is gone (the callback would throw and end the connection).
ReleasesAreCovered ==
    Intact => \A m \in releasedMsgs :
        held[m.id] # NoObject /\ m.count <= heldCount[m.id]

\* Neither table outgrows the limit set for it.
LimitsKept ==
    /\ Cardinality(HeldIDs) <= MaximumHeldObjects
    /\ Cardinality(TableIDs) <= MaximumRemoteObjects

\* An object whose proxies are gone for good and which is not sent again is
\* removed from the holder's table, unless a count for it was abandoned by a
\* failed send or forgotten in a race, or the session ended.
DroppedObjectsAreReclaimed ==
    \A o \in Objects \ {Root} :
        <>[](\A p \in Proxies : proxyObject[p] = o => proxyState[p] # "reachable")
          => <>[](Intact => \/ \A id \in IDs : held[id] # o
                            \/ \E r \in Refs : refObject[r] = o
                                  /\ refPlace[r] \in {"forgotten", "abandoned"})

-----------------------------------------------------------------------------
(* What the documentation says and the code does not do (violated).        *)

\* "the method will be invoked on the original SharedClass object": a use of a
\* proxy never reaches another object.
UsesReachTheOriginal ==
    \A c \in Uses : useState[c] = "found" => got[c] = meant[c]
=============================================================================
