# A TLA+ verification of Imp.NET

Imp.NET lets two .NET processes call methods of each other's objects: an object
whose class is *shared* crosses the network as a reference, and the other side
uses it through a proxy. The repository also carries its documentation site
(`docs`), with a full-text search that runs in the browser. This directory holds
TLA+ models of the library in `src/Imp` and of the site's search in
`src/docs/styles`, the TLC configurations that check them on small instances, and
proofs checked by TLAPS for every value of the constants. Paths below are
relative to the repository, which is under `src/`; line numbers are those of
`src/Imp/*.cs` and `src/docs/styles/*.js`.

## The system

| Component | State | Operations | Talks to |
|---|---|---|---|
| Identified collection (`IdentifiedCollection.cs`) | `InternalDictionary` (ID to item), `ReverseDictionary` (item to ID), the monitor of the first | `Add`, `Add(generator)`, `Remove(id)`, `Remove(value)`, lock-free readers | used for held objects, network operations and the server's clients |
| Shared objects (`ImpClient.cs` 532-632, `ImpPowerSerializer.cs`, `RemoteSharedObject.cs`, `CountedObject.cs`) | per side: `HeldObjects` with `HeldObjectsData` (the reference counts), `RemoteSharedObjects` (weak references to proxies, with counts) | register when serialising, resolve when deserialising, release from a finalizer, the released callback | serialiser, garbage collector, listener thread, peer |
| Remote calls (`ImpClient.cs` 296-476, 478-489, 609-614, 656-829, `AsynchronousNetworkOperation.cs`) | `CurrentNetworkOperations`, the tasks of the callers | methods, properties and indexers in their synchronous and asynchronous forms, their callbacks on the peer, the `Return...` callbacks | identified collection, sender tasks, listener, disconnection |
| Connection (`ImpClient.cs` 92-285, 836-941) | `Connected`, `InternalClient`, `MessageWriter`, `UnreliableClient`, `HeldObjects`, the listener and the receiver of each session, `Locker` | `Connect`, `ConnectAsync`, `Disconnect`, the listener's loop, `ProcessDisconnection` | all of the above, the server's registry |
| Server (`ImpServer.cs`) | `ActiveClients`, the TCP and UDP listeners | `Start`, `Stop`, `AcceptTcpClient`, `ReportClientDisconnected`, `AcceptUnreliableMessage` | connections, the user's `OnClient...` overrides |
| Unreliable calls (`ImpClient.cs` 289-292, 514-528, 634-639, 836-870) | `UnreliableClient`, `UnreliableRemoteEndPoint` | send and receive one datagram per call | server's UDP loop |
| Method invocation (`RemoteMethodInvoker.cs`, `CallingClientMethodInvoker.cs`) | none | schedule a method on `RemoteTaskScheduler` | remote calls |
| Proxy types (`RuntimeProxyBinder.cs`, `GeneratorProxyBinder.cs`, `PredefinedProxyBinder.cs`, `ProxyType.cs`) | maps between types, built once | reflection, code generation | serialiser |
| Source generator (`src/ImpGenerator`) | none | writes C# at compile time | compiler |
| Messages (`Messages/*.cs`) | plain records | - | remote calls, shared objects |
| Old serialisers (`Serialization/*.cs`) | - | commented out or unused | nothing |
| Documentation search page (`docfx.js` 123-408) | the search box, the keyup and page handlers bound to it, the results and their pages, whether the index is ready | a key, a message from the worker, a click on a page, the navbar's arrival | search worker |
| Search worker (`search-worker.js`) | stop words, search data, the index | both requests, a query | page, text index |
| Text index (`lunr.js` 102-1136, 1650-2370) | the builder's postings and vectors, the built index | `add`, `build`, `toJSON`, `load`, `search` | token sets, query strings |
| Token sets (`lunr.js` 1138-1628) | an automaton of the index's words and its builder | `insert`, `finish`, `fromString`, `fromFuzzyString`, `intersect`, `toArray` | text index |
| Query strings (`lunr.js` 2378-2890) | the lexer's positions, the lexemes, the clause being made | the state functions of `QueryLexer` and `QueryParser` | text index |
| Other scripts (`lunr.min.js`, `docfx.vendor.js`, `main.js`) | - | minified or downloaded | - |

What is hard in it:

* **No message order.** `SendImpMessage` serialises at once and leaves the
  writing to `Task.Run` (`ImpClient.cs:481`), so messages of one sender overtake
  each other; only the lock on the writer keeps them whole.
* **Four kinds of threads** touch a client: callers, the listener, finalizers
  and whoever disconnects. `Locker` covers the shared-object tables except in
  `ReleaseRemoteSharedObject` (a finalizer) and is not taken at all by the call
  table's users; collections are locked one operation at a time.
* **Garbage collection is an actor**: a weak reference dies before the finalizer
  that reports it runs, and the listener may find the entry in between.
* **Identifiers are 16-bit and reused at once**, so a late message can mean
  something else.
* **Failures in the middle**: exceptions while serialising, exceptions that end
  the listener, a disconnection at any point, and `ProcessDisconnection` itself
  failing halfway.
* **A client is used again**: the threads of an ended session are neither stopped
  nor waited for, and they act on whatever session the fields hold by then.
* **The search crosses two threads of JavaScript** with messages in between,
  handlers that are bound again and never removed, and two requests that end in
  any order.
* **The index is an automaton built incrementally**, whose nodes are shared by
  comparing strings made of them, and a query is a second automaton.

## What makes each component correct

* Identified collection: the dictionaries stay inverse to each other, an ID is
  never handed out twice, `Add` returns.
* Shared objects: the counts on both sides account for every reference; an
  object is held while the peer can reach a proxy of it and let go of afterwards;
  no reference or call reaches another object.
* Remote calls: a call gets at most one answer, its own, and some answer in the
  end; a response never finds its operation gone while the session lasts.
* Connection: one session at a time, whole from its first moment to its last; no
  socket stays open unreachably; a session lasts until its network fails, a
  message of it cannot be handled or somebody ends it, and then it ends.
* Server: the registry holds the connected clients, each under the ID its
  datagrams carry; a report takes out the client it is of and no other; every
  client that ends is reported; `Stop` ends them all.
* Search page and worker: what is shown in the end answers what stands in the box.
* Text index: the hits are the documents in which a clause matches, and their
  scores follow from the clauses' boosts and the words' weights; a word of a
  document finds it.
* Token sets: the automaton has exactly the words inserted; a pattern finds what
  it matches.
* Query strings: nothing of the string is lost, and no operator is applied to
  another term.

## The modules

```
Identifiers                    16-bit IDs and the search for a free one
 |- IdentifierTheorems           the search returns a free ID
 |- IdentifiedCollection         the two dictionaries under their monitor
 |   `- IdentifiedCollectionProofs
 |- SharedObjects                references, counts, proxies, finalizers
 |   `- SharedObjectsInvariant     the inductive invariant
 |       |- MCSharedObjects          symmetry for TLC
 |       `- SharedObjectsProofs
 |- RemoteCalls                  calls, operations, disconnection
 |   |  (implements RemoteCallContract)
 |   `- RemoteCallsInvariant       the inductive invariants
 |       `- RemoteCallsProofs          with the refinement
 `- ImpServer                    accepting, registry, reports, Stop
     `- ImpServerProofs
Connection                     sessions of one client, one after the other
 `- ConnectionProofs
TokenSets                      automata of words, as operators
 `- TokenSetBuilder              building one word by word, looking up
     |- MCTokenSetBuilder
     `- TokenSetBuilderProofs
QueryStrings                   lexer and parser of a query
 |- MCQueryStrings
 |- SearchProofs  (and DocumentationSearch)
 `- LunrIndex  (and TokenSets)   documents to index to hits
     `- MCLunrIndex
DocumentationSearch            page and worker
 |- MCDocumentationSearch
 `- SearchProofs  (and QueryStrings)
```

A definition named in a comment as a *mutant* is a deliberately wrong version of
the definition after it; it is not used by the specification and exists so that
each property can be seen to fail when the code is wrong.

### Identifiers, IdentifiedCollection

`IDs` is `0 .. Capacity - 1`, where `Capacity` stands for 65536. `NewID(used)` is
what the loop of `Add` returns: the first free ID at or after `Count`, wrapping.
`IdentifiedCollection` runs that loop one probe per step, and one dictionary
operation per step elsewhere, with the monitor as the variable `lock`, so that
lock-free readers may look between any two steps. Its property
`SearchFindsNewID` is what allows the other modules to use `NewID` as one step.

| Code | Actions |
|---|---|
| `Add(item)`, `Add(generator)` | `BeginAdd`, `Probe`, `StoreForward`, `StoreReverse` |
| `Remove(id)` | `BeginRemoveID`, `DropReverse` |
| `Remove(value)` | `BeginRemoveValue`, `DropForward` |

### SharedObjects

One direction: the *holder* owns the objects, the *user* has the proxies. An
endpoint plays both roles with separate tables, so a connection is two copies of
this module side by side. `SendImpMessage` serialises at once and leaves the
writing to a thread-pool task, hence messages in flight are sets. Each
transmission of a reference has an identity (`Refs`) and a place (`refPlace`);
these are history, no guard of the code's actions depends on them.

| Code | Actions |
|---|---|
| `GetOrRegisterLocalSharedObject` | `RegisterAgain`, `RegisterNew`, `RegisterTooMany` |
| `SendImpMessage`, `Serialize` | `SendShared`, `SerializationFails` |
| the listener's loop, `ReadAndCreateObject` | `StartReading`, `ReadingFails` |
| `GetOrCreateRemoteSharedObject` | `CreateProxy`, `TooManyRemoteObjects`, `FindEntry`, `LoadEntry`, `EntryGone`, `GetTarget`, `CountReference`, `ReplaceEntry` |
| garbage collector, `~RemoteSharedObject`, `ReleaseRemoteSharedObject` | `Collect`, `Finalize`, `ReportReleased` |
| `RemoteSharedObjectReleasedCallback` | `DeliverReleased` |
| a call on a proxy, or a proxy as argument | `UseProxy`, `DeliverUse` |
| `Disconnect`, `ProcessDisconnection` | `DisconnectHolder`, `HolderListenerEnds`, `DisconnectUser`, `UserListenerEnds` |

`GetOrCreateRemoteSharedObject` is split where the finalizer, which takes no
lock, can get in between: after `ContainsKey`, after the indexer, after
`TryGetTarget`, before the count is incremented.

### RemoteCalls, RemoteCallContract

A call is `idle`, reads the field `CurrentNetworkOperations` (`LoadTable`),
registers in the table it has read (`Register`), is serialised and sent (`Send`,
`SerializationFails`), runs on the peer (`RefuseTarget`, `Execute`, `Respond`,
`LoseAnswer`), and comes back (`Receive`, `Complete`, `RemoveOperation`, or
`CompleteNothing` and `RemoveNothing` when its operation has gone).
`ProcessDisconnection` is `BeginDisconnection` (close the socket, take the
snapshot of `Values`), one `FailOperation` per operation, `ReplaceTable`,
`EndDisconnection`; it is run by the listener, by the receiver of datagrams and
by a user thread in `Disconnect`. `RunCompletion` is the scheduled task that ends
the caller's one. Synchronous calls are asynchronous ones whose task is waited
for.

The contract knows neither identifiers nor messages: the peer runs a call at most
once, the caller's task ends at most once, with that call's result or a fault.
Only a call that is *late*, registered after somebody has begun to end the
session, may get another call's result, and the peer never runs such a call. In
the refinement a session has `ended` when its socket has been closed, and a call's
outcome is its caller's once the message has been sent, since only then does the
caller have the task.

### ImpServer

Each connection goes through `Accept`, then `TurnAway` or `Admit`, `EnterAdd` (the
monitor of `ActiveClients` is taken), `StartClient` or `HandshakeFails`, and
`Register` or `CheckFails` (the monitor is released), then `Announce`. Callbacks of
different connections overlap, since the next accept begins before the current
one is handled. From `StartClient` on the client's listener runs: `ListenerFails`,
`ListenerEnds` (its catch block with `ProcessDisconnection`, under `Locker`),
`Report` (`ReportClientDisconnected`: the removal, which needs the monitor), `Tell`
(`OnClientDisconnected`). `Stop` is `BeginStop`, then `StopNext` and `StopClient` for
each client of the moment; or `DisconnectThrows`, when `ProcessDisconnection` is to fail
an operation that the client's listener has just removed: the exception leaves
`Stop` with the clients after it connected. `Mistyped` clients are those `CheckClientType` refuses. `crashed` is an
exception nobody catches (`PendingAcceptThrows`, `ErrorThrows`, `Tell`); a crashed
server takes no step.

### Connection

`TcpClient` k, `UdpClient` k and the two threads k are those of the k-th attempt to
connect; the fields hold such a number, 0 for null. What happens under `Locker` is
one step.

| Code | Actions |
|---|---|
| `Connect`, `ConnectAsync` up to the connection of the socket | `CreateClient`, `OpenConnection`, `OpenFails` |
| `InitializeClientConnection` and the start of the listener | `InitializeClientConnection`, `HandshakeFails`, `NoStream` |
| `Disconnect` | `Disconnect`, `DisconnectThrows` |
| `RunCommunications` | `StartListening` (it takes its stream from the field, when it runs), `ReadingFails` (the stream has ended), `HandlingFails` (a message cannot be handled), `ListenerEnds`, `EndThrows` |
| `ReceiveUnreliableData` | `ReceivingFails` (the socket has been closed), `DatagramFails` (`EndReceive` throws, or a datagram cannot be handled when the next callback is registered already), `ReceiverEnds`, `HandlerEnds`, `EndThrows` |
| `ProcessDisconnection` | in `Disconnect`, `ListenerEnds`, `ReceiverEnds`, `HandlerEnds` |
| a program's thread that sends a shared object | `BeginSend`, `Register` |
| the network | `NetworkFails` |

`ProcessDisconnection` may throw when it is to fail an operation that a listener,
which takes no lock, is removing at the same time (`AnotherReads`; `RemoteCalls` has
the race in detail). By then it has closed the sockets and changed nothing else.
`Disconnect` passes the exception on, and the client stays connected with its
sockets closed until its own listener notices. In a catch block nobody handles it
and the process ends (`crashed`).

### DocumentationSearch

Page and worker are two threads that handle one event at a time and exchange
messages in order (`toWorker`, `toPage`); each event is one action: a key (`KeyUp`,
with as many handlers as have been bound), the messages (`IndexReady`,
`HandleSearchResults`, `WorkerOnMessage`), a click on a page of results
(`ClickPage`), the navbar (`NavbarArrives`), the worker's two requests
(`StopWordsArrive`, `SearchDataArrive`). What the index answers is the constant
`HitsOf`; queries of three characters or more are `Long`, those that do not parse
`Refused`.

### LunrIndex, QueryStrings, TokenSets

`LunrIndex` adds documents in any order (`AddDocument`), builds the index (`Build`),
may serialise and load it (`Reload`), has one query parsed (`Parse`, the steps of
`QueryStrings`) and answered (`Query`, or `QueryThrows`). Texts go through the
tokenizer and the pipelines as the worker configures them. A term's weight is the
rounded BM25 formula in whole numbers (`Idf`, `Saturation`, `Weight`), without the
logarithm of the first factor and with the `Precision` as a constant (1000 in the
code). A similarity is the three sums it is made of, so that whether it is not a
number can be told; the English stemmer is a constant.

`QueryStrings` has one action per branch of the lexer's and parser's state
functions, character by character. Positions are the code's, from 0.

`TokenSets` holds the automata as records of numbered nodes. `InsertWord` and
`Minimize` follow the builder, the string that identifies a node (`NodeKey`)
included; `FromString` and `FromFuzzyString` make the automata of a clause, and
`Intersect` walks both. `TokenSetBuilder` inserts words in the order the code
demands (`Insert`), finishes, and looks one clause up.

## The runs

Every bound is a constant of the configuration. All passing runs finish in under
three minutes.

| Run | Instance | What it shows |
|---|---|---|
| `collection` | 2 threads, 4 IDs, 4 items | the dictionaries are inverse whenever the monitor is free, the search stops at `NewID`, no ID is reassigned, `Add` returns |
| `shared` | 2 objects and the root, 3 transmissions, 2 senders, 1 use, at most 2 remote objects | the counts are exact, an object is held while reachable, a reference names its object, a release is covered, and the inductive invariant of the proofs |
| `shared_live` | the same without the use, 1 sender, at most 2 held objects | an object let go of is removed in the end; both limits |
| `calls` | a get and a set, 2 IDs, the listener, the receiver of datagrams and one `Disconnect` | the calls implement `RemoteCallContract`, answers find their operation, the listener's failures are handled, calls are settled, and the inductive invariant of the proofs |
| `server` | 2 connections, a limit of 1, `Stop` | the registry lists the connected clients, a report takes out its own client, ended clients leave and are reported, every accepted connection settles, `Stop` disconnects what it found |
| `connection` | 2 attempts to connect, 2 calls of `Disconnect`, 1 sender | a session is whole, the client is at ID 0, a sound session is ended only from outside or by a message it cannot handle, a broken one ends |
| `search` | 3 keys, 4 long queries (3, 1 and 0 hits; one that does not parse), 2 hits a page | the results shown answer the query in the box, never go back, and come in the end |
| `lunr` | 3 documents of 2 fields, 46 queries, weights in halves | the hits are the matches, scores follow from boosts and weights, words are found |
| `tokens` | all sets of at most 3 words, of at most 3 letters of 2 and one with a third letter; terms of 3 characters, up to 2 edits | the automaton has its words at every moment and is minimal, wildcards are exact, edit distances are kept |
| `query` | all strings of at most 4 characters of 8 kinds, 3 longer ones | lexemes in order, nothing lost, clauses mean their terms, parsing ends |

Why the bounds are enough to be interesting: with four IDs and four items the
collection fills, wraps, and reuses IDs out of order. Three transmissions of one
object are needed for an entry to be replaced and then incremented or reported;
two objects for an ID to be given to another. Two calls and two IDs let a
call reuse an ID while the answer to its earlier holder is being applied. Two
connections at a limit of one let both pass the check of `Count`, let a client end
before or after its registration while the other holds the monitor, and let a stray removal
hit the other client. Two attempts let a late listener, receiver or datagram of the first
session end the second, or read its stream, and two calls of `Disconnect` let one
throw and the other find what it has left. Three keys let an answer come under a later query with a third
waiting, and three hits on two pages let a page event run old handlers. Three words
over two letters make nodes that are shared at each depth; the word with a third letter
is reached from a term by single edits only by way of a word in between; three documents let a
posting be made by one, extended by another and share its vector with a third,
and weights in halves round to 0 there for a word in three fields, as the code's
thousandths do for one in a thousand.
Four characters hold an escape, an operator, its number and what follows. The
mutants show the other side: each property fails in its run when the code is
changed in one place.

Two more runs show that what a document or comment of the repository says is not
what the code does:

| Run | Said | What happens |
|---|---|---|
| `shared_original` | a call on a proxy reaches the original object (`sclasses.md:16`) | a released message overtakes the call, the ID is given to another object, the call runs on it |
| `tokens_numbers` | a token set stores the unique list of all tokens of an index (`lunr.js:1140`) | the key of a node (`toString`, 1483) puts labels and node numbers one after the other: with digits in words, 1 then 23 reads as 12 then 3; two nodes get one key, and nineteen numbers of two digits make a set with a number nobody inserted |

### Fairness

Weak fairness of a thread's step means that a thread or scheduled task which can
go on does so; the .NET thread pool and scheduler promise that much.
`SharedObjects` asks it of both listeners, of the finalizer thread and of the
writing tasks, never of an application that sends, uses or drops objects. That a
collected proxy is finalized at all is assumed; when it is collected is not.
`RemoteCalls` asks it of callers in the middle of a call, of the completions, of
the disconnecting threads, and of the peer as long as the connection lasts; the
end of the connection is assumed to be noticed, since a blocked read of a closed
socket fails. `ImpServer` uses strong fairness for what waits for the monitor or a
`Locker`, because those are granted to a waiting thread sooner or later although
others take them in between. It also assumes that a peer either finishes the handshake or
leaves; the code sets no timeout, and a silent peer blocks every other client
(see below). `Connection` asks that an attempt to connect ends, well or badly, and
that listeners, receivers and callbacks run on as long as the process does; nobody
has to connect, to disconnect or to send, and nothing has to fail. `DocumentationSearch` asks that requests end, with or without success, and
that both threads go on handling their messages; the user owes nothing.
`QueryStrings` asks that JavaScript runs a search to its end.

## The proofs

TLAPS checks the following for every value of the constants that satisfies the
modules' assumptions: any number of IDs, objects, references, proxies, threads and
calls, any limits, strings and words of every length, and any queries and answers. The
assumptions say that the "none" values are distinct from the others, that the set
of references is finite, so that they can be counted, that no digit is a
separator of a query (the code's are blanks and hyphens), that the words of an index
are words over its alphabet, and that the terms of clauses are strings; TLC evaluates
them in every run. Some theorems have a hypothesis of their own, named below.

* `IdentifierTheorems`: if some ID is free, `NewID` returns one. The argument is
  that a set of distances from the start has a least element.
* `IdentifiedCollectionProofs`: types, `Consistent` and `NeverReassigned`. What is inductive says where the thread that holds the
  monitor is, and in which single entry the two dictionaries may differ
  meanwhile. The last two assume `AbsentRemovals = FALSE`: `Remove(value)` is
  called only for values present. Without it they are false (see below).
  `SearchFindsNewID` needs no such assumption: `SearchInv` says that every ID
  from where a search began to its probe is in use, and that the searching thread
  holds the monitor, so that nobody frees one meanwhile.
* `SharedObjectsProofs`: `SharedInv` is inductive, and `CountsAgree`,
  `ReferencesNameTheirObject`, `HeldWhileReachable` and `ReleasesAreCovered` follow.
  The counts alone are not inductive: a finalizer may remove another proxy's
  entry, and an increment may come too late to be reported. `SharedInv` follows
  every counted reference to the one place it is in (being written, travelling,
  being read, in an entry, forgotten, abandoned, in a released message) and says
  that each live proxy is *anchored*: by its own entry, or by a reference that was
  forgotten when its entry was replaced and which therefore is never given back.
  That leak is what keeps the race of replacement and finalization safe.
  `LimitsKept` has an invariant of its own, `LimitsInv`: the listener replaces and
  increments entries without a look at the limit, which is safe because the entry
  was in the table when it was looked up and nobody else adds one. It assumes that both limits
  are at least 1: the handshake puts one object into each table without asking.
* `RemoteCallsProofs`: `CallsInv` is inductive: a call is in exactly one place, and
  its identifier stands for it until its answer has been applied, or the socket
  is closed. `AnswersAreExpected`, `ResultsAreOwn` and `OnlyOpenCallsHeld` are parts
  of it. `RemoteCalls` implements `RemoteCallContract`, whoever ends the session and
  however often: each step maps to a step of the contract or to none.
  `ListenerFailuresAreHandled` is proved for every client, with and without a
  receiver of datagrams: `ListenerInv` says that what the listener still has to
  remove in `ProcessDisconnection` is there, each once, whoever has disconnected
  before. Nothing of the kind holds for the receiver of datagrams (see below).
* `ImpServerProofs`: `ClientsListed`, `EndedClientsLeave` and `OwnEntriesLeave`. The registry alone is not inductive. `ServerInv` adds
  that the connection inside `Add` holds the monitor and has *reserved* its ID, which
  stays free although its listener may already have failed; that an entry belongs
  to the client whose datagrams carry its ID; that nobody ends a session whose
  listener was never started; and that a removed client is never added again: its
  report needs the monitor, which its own `Add` holds until it is in.
  `OwnEntriesLeave` has `ReportInv`: while `Stop` has not begun and no absent client has been
  removed, a client whose end is about to be reported is in the registry once it has been
  added; before that its report waits for the monitor.
* `ConnectionProofs`: `SessionIsWhole`, `ClientIsAtZero` and `SoundSessionsLast`. `Inv`
  says that the sockets not closed are those in the fields and belong to the last
  attempt, that an attempt in progress has made only its `TcpClient`, and that a
  session has all its parts: its sockets are open, or both closed by a `Disconnect` that
  has thrown; its listener and its receiver have failed only after their stream or
  socket has ended, or over a message. A late thread of an earlier session can
  end a later one, but `ProcessDisconnection` then ends all of it, or all sockets at least.
* `SearchProofs`, the page and its worker: `ResultsAnswerTheQuery` and `ResultsNeverGoBack`, for
  any number of keys, handlers and hits. `SearchInv` follows the keys: a query on its
  way to the worker, an answer on its way back and the results shown each stand for
  a key, and these keys never decrease from the results through the answers to the
  queries; what stands for the last key belongs to the query in the box, and
  something does, except where the property excepts it. Page events run all
  handlers, and the newest, which runs last, is the one whose page stays.
* `SearchProofs`, query strings: `LexemesInOrder`, `LiteralsKept` and `ClausesMeanTerms`, for
  strings of every length. For the first, what is inductive adds where the lexer
  stands when a state function begins: before its character, or before the
  operator it has still to skip. For the second, `TextInv` says that the lexer never
  stands behind an escape character that counts, that of the characters since the
  last lexeme exactly the escape characters are marked, and that the lexemes
  together are the literals up to where the last one ends; the lemmas below it are
  about the characters of a string at a set of places: those of a slice, of a run,
  and of two sets one before the other. For the third, `ParserInv` says what the
  clause being made has of the lexemes since its term, and that the lexemes before
  it are well formed and have their clauses.
  `Escaped` and `CharactersOf` are recursive functions; what the proofs need of them
  (that each value follows from the one before) is derived from the least position
  at which it would fail.
* `TokenSetBuilderProofs`, the automaton: `LanguageKept` and `Minimal`, for any number of words of
  any length over any alphabet. The builder changes nodes that are already linked,
  and after `Minimize` several edges share one, so that a change could add words
  elsewhere. `Inv` says why it does not: the nodes still unchecked are the path of
  the previous word from the root, and no other edge leads to one of them; every
  node met before is off the path, under its own key; no label of a node on the path is
  greater than the next character of the previous word, so that the edge of a
  greater word is always a new one; and the met nodes have ranks, each lower than
  those of the nodes that lead to it. Then a node that replaces another has the
  same finality and the same edges, so that the accepted words stay, and an
  insertion adds the word along the path and no other. `WordsFrom` is compared with
  the runs of the automaton, which cannot be longer than it has nodes.
  `LanguageKept` assumes `NoDigits`, an alphabet without digits: only then does a key
  determine its node (`KeyTells`), and the run `tokens_numbers` shows that with digits
  the property is false. `Minimal` needs no such hypothesis, because equal nodes
  always have equal keys: of the pairs of nodes with the same endings take one of the
  least rank; the two have the same labels, whose edges lead to pairs of lower
  rank and so to the same nodes; thus they are equal and have one key, and a key
  stands for one node only.
* `TokenSetBuilderProofs`, wildcards: `WildcardsExact`, for any words, any pattern and any
  alphabet without digits. `FromString` is described first (`Drawn`): every character
  of the pattern but "*" leads from the node before it to a new one, a "*" from a node
  to itself, and after a "*" every node has an edge "*" back to the root. A word may
  lead to several nodes of such a set. `Ahead` says what its beginnings match of the
  pattern when it leads to a node: the pattern up to that node, or even up to
  a wildcard at a later one, which is why the edges back to the root add nothing.
  `PairsOK` describes the frames of `Intersect`: the words, of bounded length, that lead
  to a node in both sets. Their outputs form a tree, and what is read off a tree is
  its final paths (`TrieWords`).
* `TokenSetBuilderProofs`, edit distances: `FuzzyWithinDistance`, for any words, any
  term, any distance and any alphabet without digits. A frame of `FromFuzzyString`
  is a *cut* of a string some edits have made of the term (`FuzzyFramesAre`): what
  the frame has consumed, in which "*" is a letter not yet chosen, what it has still
  to read, and the edits left. Sound (`FrameOK`, `TurnsOK`): whatever letters are put
  for the "*", the string of a frame is within the edits it has used, because an edit
  of a string with "*" is one of the string they stand for. Complete (`StepOn`,
  `RunOn`): the frames run along the term to the place of the one edit, make it, and
  run on to the end. An insertion after the last character is never made, since a
  frame with nothing left is not expanded; that is the property's exception. The
  frames' nodes form a tree (`TrieLeads`), in which a word leads along every path it
  agrees with but for the "*"s, and `Intersect` is the one of the wildcards.
  Distance is counted in single edits, one after another and each of them at any
  place (`Edited`): "abc" is three edits from "ca" for a count in which no part is
  edited twice, but the frames reach it with two, by way of "ac".

Only model-checked: every liveness property (`AddReturns`,
`DroppedObjectsAreReclaimed`, `CallsAreSettled`, `ConnectionsSettle`,
`EndedClientsAreReported`, `StopDisconnects`, `BrokenSessionsEnd`, `LatestQueryIsAnswered`,
`QueriesEnd`), since the prover does not treat fairness and ENABLED; what
`LunrIndex` says of hits, words and scores (`HitsAreMatches`, `WordsAreFound`,
`ScoresFollowWeights`), as it is made of sums over sequences and of RECURSIVE operators;
and the violated properties, which are counterexamples.

## Seen while modelling, without a run of its own

These follow from the code and the models allow them; the properties above are
stated so that they are not hidden: each exception is a named hypothesis.

* `Remove(value)` of an absent value removes whatever has ID 0
  (`IdentifiedCollection.cs:107-108`, `id` keeps its default), though "the value to
  remove" (101) is another. The server does that when a client is reported
  twice (by its listener and by `Stop`, `ImpServer.cs:126`) or was refused by
  `CheckClientType`. `OwnEntriesLeave` says that nothing else does; `ClientsListed`,
  `Consistent` and `NeverReassigned` are stated for histories without such a removal.
* A peer that never answers the handshake keeps the monitor of `ActiveClients`, and
  with it every other client's registration and report, for ever (`ImpServer.cs:181`).
* `Add` on a full table never returns and keeps the monitor
  (`IdentifiedCollection.cs:60`).
* The server's limit of clients can be exceeded: `Count` is read outside the lock
  that `Add` takes (`ImpServer.cs:168`, `177`; line 56 speaks of "the maximum number of
  clients that can be concurrently connected").
* An object too many makes `Serialize` throw at the caller (`ImpClient.cs:579-583`),
  and the connection lives on; the comment at 65 says it "will be terminated".
* A result of the wrong type makes the cast in the scheduled completion throw
  (`AsynchronousNetworkOperation.cs:36`), and the caller's task never ends. In the
  models this takes another call's result.
* A client that `CheckClientType` refuses stays connected and served
  (`ImpServer.cs:182`; line 226 says such clients "will not be able to connect"), and when it
  ends, the cast at line 289 throws where nobody catches it.
* `Stop` closes the listener under a pending accept, whose callback calls
  `EndAcceptTcpClient` outside its `try` (`ImpServer.cs:164`).
* A call whose arguments cannot be serialised leaves the counts of the objects
  already registered (`ImpClient.cs:480`) and its operation in the table (322).
* A released message that overtakes a call whose ID is not reused yields a
  failure on the peer, instead of the call (`ImpClient.cs:481`).
* A call that registers after the snapshot of a disconnection, in the old table,
  never ends (`ImpClient.cs:921`; `sclasses.md:78` promises an exception). One that
  registers while the snapshot's operations are being failed can be given the ID of
  one whose answer is being applied, and gets that result (612; `sclasses.md:64`
  speaks of "the results of the operation"): the contract's `ReturnAnother`.
* A get whose value the peer cannot serialise is never answered
  (`ImpClient.cs:721`; `sclasses.md:60`).
* A finalizer that removes the entry between `ContainsKey` and the indexer makes the
  latter throw, and the exception ends the connection (`ImpClient.cs:538`;
  `sclasses.md:3`).
* When an object is sent again after its proxy was collected and before the
  finalizer has run, the old entry's count is forgotten and the object stays held
  until the session ends (`ImpClient.cs:548`; `sclasses.md:72`).
* When the receiver of datagrams, or a late thread of an earlier session, ends the
  session while the listener applies an answer, both remove the same operation:
  `SetException` throws inside a catch block (`ImpClient.cs:923`, `861`) and the process
  ends. `OnNetworkError` is to be called for "an exception in networking code" (491), and
  is not. `RemoteCalls` and `Connection` have these crashes; that within one
  session the listener itself is spared is `ListenerFailuresAreHandled`.
* A `Disconnect` that meets an answer in the same way throws and leaves `Connected`
  true, the sockets closed and the tables as they were (923, 936); "whether this object has an
  active connection" (51) is then false until the listener ends the session. On the
  server such an exception also ends `Stop` (`ImpServer.cs:126`).
* A failed `Connect` leaves `InternalClient` set, and every later one says the client
  is in use, until `Disconnect` (`ImpClient.cs:163`).
* The listener and the receiver of an ended session end the next one if they get
  `Locker` after it has begun (`ImpClient.cs:889`, `859`); `SoundSessionsLast` says
  that, `Disconnect` and messages that cannot be handled apart, nothing else does. A listener that starts late reads the next session's
  stream, besides its own listener (876).
* `SendImpMessage` reads `MessageWriter` when its task runs, so that a message of an
  ended session is written on the next connection (`ImpClient.cs:483`).
* Two threads may both find the client unused and connect it (`ImpClient.cs:157`).
* An object registered after the tables were cleared takes ID 0, where the next
  session's server looks for the client (`ImpClient.cs:579`); `ClientIsAtZero`
  excepts that history.
* The worker sets `lunr.tokenizer.separator` after `QueryLexer.termSeparator` has
  copied the old one (`lunr.js:2647`, `search-worker.js:9`): a word with a dot is two
  words of the index and one term of a query. `{ boost: 50 }` of a field is ignored
  by this version of `field`, queries are never trimmed, and their stop words are
  looked up after stemming. `WordsAreFound` is stated for the words that remain.
* A boost of 0 makes a score "not a number" (`lunr.js:695`), and so does a field whose
  words all occur in about as many fields as there are documents, if these are a
  thousand or more: their weights are rounded to 0 (2223). `ScoresFollowWeights` says
  that nothing else does; the order of the hits then depends on a comparison with
  no number. A word of punctuation only becomes the empty word,
  which is indexed and never found.
* A fuzzy term misses words that are longer or shorter at its end, and two
  neighbouring deletions (`lunr.js:1274`; the comment at 1216 treats every edit as
  one): `FuzzyWithinDistance` claims less.
* A second document with the same reference would leave the postings of the first;
  the site's references are keys of a JSON object, so the model adds each once.
* A query sent between the arrival of the data and that of the stop words meets a
  worker without an index and is lost (`search-worker.js:33`); a query that does not
  parse leaves the results before it on the page.
* The navbar's arrival binds two key handlers, so that every query is posted twice
  (`docfx.js:370`, `405`), and each answer binds a page handler that is never removed
  (305). `ResultsAnswerTheQuery` shows that both are harmless, because the handlers
  run oldest first.

## Not modelled

* Two threads that connect one client at once, and messages of one session on the
  next one's stream: the models of calls and references are of one session.
* The task scheduler and its threads, and so a synchronous call that waits for
  its own scheduler: the scheduler is the program's choice.
* The proxy binders and the source generator: reflection, generated IL and source
  text, sequential and without shared state.
* The encoding of messages, which is in the PowerSerializer package, outside the
  repository. What serialising does to the tables is modelled.
* Datagrams: the server's routing of one (a lookup by the ID it carries and a
  comparison of end points, without a lock) and the method it calls. A receiver's
  failures are modelled.
* Attributes, interfaces, old serialisers that are commented out, the sample.
* Of `docfx.js`: the search without workers (it builds its index through a function
  this version of lunr lacks and is never reached in a browser with workers), the
  marking of words in the page, and the dressing of the page (tables, tabs, the
  side bar, the footer, themes), which keeps no state of interest.
* Of `lunr.js`: the rules of the English stemmer, metadata whitelists, plugins and
  warnings, and the logarithm in the BM25 formula.
* `lunr.min.js`, `docfx.vendor.js` (downloaded) and `main.js` (a comment).

## Plan

1. *Proofs*: the order of a vector's indexes in `LunrIndex`, with its recursions
   written as recursive functions.
2. *Composition*: two directions of `SharedObjects` whose uses are `RemoteCalls`, and
   the sessions of `Connection` under both.
3. *Method invocation* with a bounded scheduler: when everybody waits for everybody.
4. *Proxy types*: the numbering of members by the binders of the two sides.
