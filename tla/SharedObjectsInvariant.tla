----------------------- MODULE SharedObjectsInvariant -----------------------
(***************************************************************************)
(* The inductive invariant of SharedObjects.  The counts themselves do not *)
(* say enough: it follows every counted reference to the one place it is   *)
(* in, and ties each proxy to a reference that keeps its object held.      *)
(***************************************************************************)
EXTENDS SharedObjects

\* References being written belong to one message each.
Written ==
    /\ \A w \in Writers : \A r \in writing[w] : refPlace[r] = "writing"
    /\ \A v, w \in Writers : v # w => writing[v] \cap writing[w] = {}

\* References travelling belong to one message each.
Travelling ==
    /\ \A m \in sharedMsgs : \A r \in m : refPlace[r] = "wire"
    /\ \A m, n \in sharedMsgs : m # n => m \cap n = {}

\* What the listener is reading, and the entry it is looking at: the entry may
\* have left the table, but it is one of the ID being resolved.
Reading ==
    /\ \A r \in reading : refPlace[r] = "reading"
    /\ listening \in {"index", "target", "increment", "replace"} => readRef \in reading
    /\ listening \in {"target", "increment", "replace"} =>
          /\ readEntry \in Proxies /\ proxyState[readEntry] # "unused"
          /\ proxyID[readEntry] = refID[readRef]

\* A released message gives back exactly the references it stands for.
Returning ==
    /\ \A m \in releasedMsgs :
          /\ m.refs # {} /\ m.count = Cardinality(m.refs)
          /\ \A r \in m.refs : refPlace[r] = "released" /\ refID[r] = m.id
    /\ \A m, n \in releasedMsgs : m # n => m.refs \cap n.refs = {}

\* ReferencesNameTheirObject without its hypothesis.
Named ==
    \A r \in Refs : Outstanding(r) =>
        refObject[r] \in Objects /\ held[refID[r]] = refObject[r]

\* CountsAgree without its hypothesis.
Counted == \A id \in IDs : heldCount[id] = Cardinality(OutstandingRefs(id))

\* An entry counts references to the object its proxy was created for, each
\* counted by one entry only.
EntryContents ==
    /\ \A p \in Proxies : \A r \in entryRefs[p] :
          refPlace[r] = "entry" /\ refID[r] = proxyID[p] /\ refObject[r] = proxyObject[p]
    /\ \A p, q \in Proxies : p # q => entryRefs[p] \cap entryRefs[q] = {}

\* An entry in the table, or about to be reported, counts what it stands for;
\* one that is gone stands for nothing.
EntryCounts ==
    \A p \in Proxies :
        IF Reported(p)
          THEN entryRefs[p] = {}
          ELSE entryRefs[p] # {} /\ entryCount[p] = Cardinality(entryRefs[p])

\* Entries are those of proxies not yet finalized, under their own ID.
TableEntries ==
    /\ \A id \in IDs : table[id] # NoProxy =>
          /\ proxyID[table[id]] = id
          /\ proxyState[table[id]] \in {"reachable", "collected"}
    /\ reporting # NoProxy =>
          table[proxyID[reporting]] # reporting /\ proxyState[reporting] # "unused"
    /\ \A p \in Proxies : proxyState[p] = "unused" => Reported(p)

\* What keeps the object of a proxy held until the proxy is finalized: its own
\* entry, or, once another proxy's finalizer may take that entry away, a count
\* of the same object that was forgotten and will never be given back.
Anchored(p) ==
    \/ table[proxyID[p]] = p
    \/ \E r \in Refs : /\ refPlace[r] = "forgotten"
                       /\ refID[r] = proxyID[p] /\ refObject[r] = proxyObject[p]

Anchors ==
    \A p \in Proxies : proxyState[p] \in {"reachable", "collected"} => Anchored(p)

Accounted ==
    /\ Written /\ Travelling /\ Reading /\ Returning
    /\ Named /\ Counted
    /\ EntryContents /\ EntryCounts /\ TableEntries /\ Anchors
    /\ hostless = {}

\* The inductive invariant: every reference of the running session is accounted
\* for.
SharedInv == TypeOK /\ (Intact => Accounted)
=============================================================================
