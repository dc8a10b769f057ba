------------------------- MODULE DocumentationSearch -------------------------
(***************************************************************************)
(* The search box of the documentation site: the page                      *)
(* (docs/styles/docfx.js) and its worker (docs/styles/search-worker.js),   *)
(* two threads of JavaScript that exchange messages in order.  Each action *)
(* is one event, which its thread handles to the end.  What the index      *)
(* answers is a constant here; LunrIndex models how it comes about.        *)
(***************************************************************************)
EXTENDS Naturals, Sequences, SequencesExt, FiniteSets

CONSTANTS Long, Short,      \* what may stand in the search box; Long: three characters or more
          Refused,          \* the long queries for which search throws a QueryParseError
          HitsOf,           \* the hits of each other long query, a sequence
          NumPerPage,
          MaxKeys,          \* bound: how often a key is released
          NoQuery, NoItems

\* What stands in .sr-items: whose answer, which of its hits, and the query
\* that the links carry.
Items == [key : Nat, hits : Seq(Nat), links : Long \union Short \union {NoQuery}]

ASSUME HitsAssumption ==
    /\ Refused \subseteq Long
    /\ \A q \in Long \ Refused : HitsOf[q] \in Seq(Nat)
    /\ NumPerPage \in Nat \ {0}
    /\ MaxKeys \in Nat
    /\ NoItems \notin Items

VARIABLES query, shown, heading,     \* the page: "results" or "contents" are shown
          navbar, keyHandlers,       \* keyup handlers on the search box
          queryReadyBound,           \* indexReady is resolved
          pageHandlers,              \* page handlers on #pagination, one for each answer
          pagination, items,         \* the widget, and what stands in .sr-items
          stopWords, searchData, lunrIndex,   \* the worker
          toWorker, toPage,          \* messages on their way
          keys, lost                 \* history: keys released; the keys whose query
                                     \* met a worker without an index

pageVars == <<query, shown, heading, navbar, keyHandlers, queryReadyBound,
              pageHandlers, pagination, items>>
workerVars == <<stopWords, searchData, lunrIndex>>
vars == <<pageVars, workerVars, toWorker, toPage, keys, lost>>

NoPages == [totalPages |-> 0, current |-> 0]

Init ==
    /\ query = NoQuery /\ shown = "contents" /\ heading = NoQuery
    /\ \/ navbar = "ready" /\ keyHandlers = 1      \* the page comes with its navbar
       \/ navbar = "loading" /\ keyHandlers = 0
    /\ queryReadyBound = FALSE
    /\ pageHandlers = <<>> /\ pagination = NoPages /\ items = NoItems
    /\ stopWords = "loading" /\ searchData = "loading" /\ lunrIndex = FALSE
    /\ toWorker = <<>> /\ toPage = <<>>
    /\ keys = 0 /\ lost = {}

-----------------------------------------------------------------------------
(* The worker. *)

IsEmpty(data) == data # "loaded"

BuildIndex(words, data) ==
    lunrIndex' = (lunrIndex \/ (words = "loaded" /\ ~ IsEmpty(data)))

StopWordsArrive ==
    /\ stopWords = "loading"
    /\ \/ stopWords' = "loaded" /\ BuildIndex("loaded", searchData)
       \/ stopWords' = "failed" /\ UNCHANGED lunrIndex
    /\ UNCHANGED <<pageVars, searchData, toWorker, toPage, keys, lost>>

(* The page is told that the index is ready as soon as the data are there. *)
SearchDataArrive ==
    /\ searchData = "loading"
    /\ \/ \E data \in {"loaded", "empty"} :
              /\ searchData' = data
              /\ BuildIndex(stopWords, data)
              /\ toPage' = Append(toPage, [e |-> "index-ready"])
       \/ searchData' = "failed" /\ UNCHANGED <<lunrIndex, toPage>>
    /\ UNCHANGED <<pageVars, stopWords, toWorker, keys, lost>>

(* search throws if there is no index yet, and for a query it cannot       *)
(* parse; the page hears of neither.                                       *)
WorkerOnMessage ==
    /\ toWorker # <<>>
    /\ toWorker' = Tail(toWorker)
    /\ LET m == Head(toWorker) IN
       /\ toPage' = IF lunrIndex /\ m.q \notin Refused
                    THEN Append(toPage, [e |-> "query-ready", key |-> m.key, d |-> HitsOf[m.q]])
                    ELSE toPage
       /\ lost' = IF lunrIndex THEN lost ELSE lost \union {m.key}
    /\ UNCHANGED <<pageVars, workerVars, keys>>

-----------------------------------------------------------------------------
(* The page. *)

(* showSearch adds a keyup handler each time it is called; loadNavbar      *)
(* calls it, and calls renderNavbar, which now calls it again.             *)
ShowSearch(times) == keyHandlers' = keyHandlers + times

NavbarArrives ==
    /\ navbar = "loading"
    /\ navbar' = "ready"
    /\ ShowSearch(2)
    /\ UNCHANGED <<query, shown, heading, queryReadyBound, pageHandlers, pagination, items,
                   workerVars, toWorker, toPage, keys, lost>>

FlipContents(action) == shown' = IF action = "show" THEN "contents" ELSE "results"

(* Triggers queryReady, which posts the query if anyone listens. *)
PostQuery(q, times) ==
    toWorker' = IF queryReadyBound
                THEN toWorker \o [i \in 1 .. times |-> [q |-> q, key |-> keys + 1]]
                ELSE toWorker

KeyUp(text) ==
    /\ keyHandlers > 0
    /\ keys < MaxKeys
    /\ keys' = keys + 1
    /\ query' = text
    /\ \/ /\ text \in Short
          /\ FlipContents("show")
          /\ UNCHANGED <<heading, toWorker>>
       \/ /\ text \in Long
          /\ FlipContents("hide")
          /\ PostQuery(text, keyHandlers)
          /\ heading' = text
    /\ UNCHANGED <<navbar, keyHandlers, queryReadyBound, pageHandlers, pagination, items,
                   workerVars, toPage, lost>>

(* Mutant: a query typed before the index was ready is not posted. *)
IndexReadyWithoutQuery ==
    /\ toPage # <<>> /\ Head(toPage).e = "index-ready"
    /\ toPage' = Tail(toPage)
    /\ queryReadyBound' = TRUE
    /\ UNCHANGED <<query, shown, heading, navbar, keyHandlers, pageHandlers, pagination, items,
                   workerVars, toWorker, keys, lost>>

IndexReady ==
    /\ toPage # <<>> /\ Head(toPage).e = "index-ready"
    /\ toPage' = Tail(toPage)
    /\ queryReadyBound' = TRUE
    /\ toWorker' = IF query \in Long THEN Append(toWorker, [q |-> query, key |-> keys])
                   ELSE toWorker
    /\ UNCHANGED <<query, shown, heading, navbar, keyHandlers, pageHandlers, pagination, items,
                   workerVars, keys, lost>>

PageOf(hits, page) ==
    LET start == (page - 1) * NumPerPage
        end == start + NumPerPage
    IN  SubSeq(hits, start + 1, IF end < Len(hits) THEN end ELSE Len(hits))

TotalPages(hits) == (Len(hits) + NumPerPage - 1) \div NumPerPage

(* A page event runs every handler bound so far, the oldest first; each    *)
(* replaces the items by a page of its own answer, with links that carry   *)
(* the query as it now is.                                                 *)
TriggerPage(handlers, page) ==
    FoldLeft(LAMBDA before, h : [key |-> h.key, hits |-> PageOf(h.d, page), links |-> query],
             items, handlers)

(* Mutant: a handler is bound for the first answer only. *)
BindOnce(answer) == IF pageHandlers = <<>> THEN <<answer>> ELSE pageHandlers

(* Mutant: a new handler runs before the older ones. *)
BindFirst(answer) == <<answer>> \o pageHandlers

(* The widget of the answer before is emptied, its handler stays. *)
Bind(answer) == Append(pageHandlers, answer)

HandleSearchResults ==
    /\ toPage # <<>> /\ Head(toPage).e = "query-ready"
    /\ toPage' = Tail(toPage)
    /\ LET answer == [key |-> Head(toPage).key, d |-> Head(toPage).d] IN
       \/ /\ answer.d = <<>>
          /\ pagination' = NoPages
          /\ items' = [key |-> answer.key, hits |-> <<>>, links |-> NoQuery]
          /\ UNCHANGED pageHandlers
       \/ /\ answer.d # <<>>
          /\ pageHandlers' = Bind(answer)
          /\ pagination' = [totalPages |-> TotalPages(answer.d), current |-> 1]
          /\ items' = TriggerPage(pageHandlers', 1)
    /\ UNCHANGED <<query, shown, heading, navbar, keyHandlers, queryReadyBound,
                   workerVars, toWorker, keys, lost>>

ClickPage(page) ==
    /\ shown = "results"
    /\ page \in 1 .. pagination.totalPages \ {pagination.current}
    /\ pagination' = [pagination EXCEPT !.current = page]
    /\ items' = TriggerPage(pageHandlers, page)
    /\ UNCHANGED <<query, shown, heading, navbar, keyHandlers, queryReadyBound, pageHandlers,
                   workerVars, toWorker, toPage, keys, lost>>

-----------------------------------------------------------------------------

Next ==
    \/ StopWordsArrive
    \/ SearchDataArrive
    \/ WorkerOnMessage
    \/ NavbarArrives
    \/ \E text \in Long \union Short : KeyUp(text)
    \/ IndexReady
    \/ HandleSearchResults
    \/ \E page \in 1 .. pagination.totalPages : ClickPage(page)

Spec == Init /\ [][Next]_vars

(* Requests end, with or without success, and both threads go on handling  *)
(* their messages; the user owes nothing.                                  *)
FairSpec ==
    /\ Spec
    /\ WF_vars(StopWordsArrive)
    /\ WF_vars(SearchDataArrive)
    /\ WF_vars(WorkerOnMessage)
    /\ WF_vars(IndexReady)
    /\ WF_vars(HandleSearchResults)

-----------------------------------------------------------------------------

Idle == toWorker = <<>> /\ toPage = <<>>

(* When no message is on its way and results are shown, they answer the    *)
(* query in the box: the items are the page the widget says of its hits,   *)
(* every page of the widget has some, and the links and the heading carry  *)
(* the query, however answers, page clicks and keys have followed one      *)
(* another and although the page handlers of older answers run too.        *)
(* Excepted are a query the worker cannot parse and one that met a worker  *)
(* without an index, under which older results stay (docfx.js              *)
(* handleSearchResults, addSearchEvent; search-worker.js onmessage).       *)
ResultsAnswerTheQuery ==
    Idle /\ shown = "results" /\ queryReadyBound /\ query \notin Refused /\ keys \notin lost =>
        /\ heading = query
        /\ items # NoItems
        /\ items.key = keys
        /\ HitsOf[query] = <<>> => items.hits = <<>> /\ pagination = NoPages
        /\ HitsOf[query] # <<>> =>
               /\ items.hits = PageOf(HitsOf[query], pagination.current)
               /\ items.links = query
               /\ \A p \in 1 .. pagination.totalPages : PageOf(HitsOf[query], p) # <<>>
               /\ Len(HitsOf[query]) <= pagination.totalPages * NumPerPage

(* The results never go back to the answer of an earlier key, whatever is  *)
(* posted twice or clicked in between (docfx.js webWorkerSearch, onPageClick). *)
ResultsNeverGoBack ==
    [][items # NoItems => items' # NoItems /\ items'.key >= items.key]_vars

(* The query that stays in the box is answered at last, even one typed     *)
(* before the index was ready, unless the data never come, it cannot be    *)
(* parsed, or it met a worker that was still waiting for its stop words    *)
(* (docfx.js webWorkerSearch; search-worker.js buildIndex).                *)
LatestQueryIsAnswered ==
    \A n \in 1 .. MaxKeys :
        keys = n /\ shown = "results" ~>
            \/ keys # n
            \/ items # NoItems /\ items.key = n
            \/ query \in Refused \/ n \in lost \/ searchData = "failed"
=============================================================================
