------------------------------ MODULE SearchPage ------------------------------
(***************************************************************************)
(* Full-text search on a page of the documentation site: the page and its  *)
(* worker, two threads that exchange messages.  The worker loads the stop  *)
(* words and the search data with two independent requests, builds the     *)
(* index when it has both, and answers queries; the page posts a query for *)
(* every key, shows the answers as they come, ten hits at a time, and has  *)
(* links that carry the query to the page they lead to.                    *)
(*                                                                         *)
(* What the index finds is module SearchIndex; here a query has hits or is *)
(* refused (QueryParseError).  A request that fails never comes back: the  *)
(* code then returns at once.                                              *)
(***************************************************************************)
EXTENDS Integers, Sequences

CONSTANTS
  Query,        \* what can be in the search box
  Long,         \* queries of three characters and more
  Refused,      \* queries lunr throws for
  Hit, Hits,    \* what it finds: a sequence of hits for every query
  None,         \* undefined, or nothing shown
  numPerPage,
  MaxPending    \* bound: messages and page handlers there may be for a key to come

ASSUME QueryAssumption ==
  /\ Long \subseteq Query /\ Refused \subseteq Query /\ None \notin Query
  /\ numPerPage \in Nat \ {0}
  /\ Hits \in [Query -> Seq(Hit)]

VARIABLES
  loaded,        \* the worker: what its requests have brought, in order
  toWorker,      \* queries posted
  toPage,        \* messages posted by the worker
  keyups,        \* the page: keyup handlers of the search box
  indexReady,    \* the deferred is resolved, "queryReady" bound
  query,
  contents,      \* what flipContents shows
  title,         \* the query in the title of the results
  items,         \* the search items
  pagination,    \* the query whose hits the pagination pages through
  pageHandlers   \* handlers of "page" events, the oldest first: whose hits they show

workerVars == <<loaded, toWorker, toPage>>
pageVars == <<keyups, indexReady, query, contents, title, items, pagination, pageHandlers>>
vars == <<workerVars, pageVars>>

-----------------------------------------------------------------------------
(* The worker.                                                             *)

Has(request) == \E i \in DOMAIN loaded : loaded[i] = request

(* buildIndex has been called with stop words and some search data.        *)
IndexBuilt == Has("stopWords") /\ Has("searchData")

StopWordsLoaded ==
  /\ ~Has("stopWords")
  /\ loaded' = Append(loaded, "stopWords")
  /\ UNCHANGED <<toWorker, toPage, pageVars>>

(* index.json, which may be empty.  The page is told whether or not there  *)
(* is an index now.                                                        *)
SearchDataLoaded ==
  /\ ~Has("searchData") /\ ~Has("noSearchData")
  /\ \E data \in {"searchData", "noSearchData"} : loaded' = Append(loaded, data)
  /\ toPage' = Append(toPage, [e |-> "index-ready", q |-> None])
  /\ UNCHANGED <<toWorker, pageVars>>

(* Mutant: a query that is refused is answered, too. *)
MutantAnswers(q) == IndexBuilt

(* Otherwise search throws, or there is nothing to call it on.             *)
Answers(q) == IndexBuilt /\ q \notin Refused

(* The worker's onmessage.                                                 *)
WorkerMessage ==
  /\ toWorker # <<>>
  /\ toWorker' = Tail(toWorker)
  /\ toPage' = IF Answers(Head(toWorker))
               THEN Append(toPage, [e |-> "query-ready", q |-> Head(toWorker)])
               ELSE toPage
  /\ UNCHANGED <<loaded, pageVars>>

-----------------------------------------------------------------------------
(* The page.                                                               *)

TotalPages(q) == (Len(Hits[q]) + numPerPage - 1) \div numPerPage

(* onPageClick: the hits of a page; none if there is no such page.         *)
PageOf(q, page) ==
  LET start == (page - 1) * numPerPage
      end   == IF start + numPerPage < Len(Hits[q]) THEN start + numPerPage ELSE Len(Hits[q])
  IN [of |-> q, page |-> page, hits |-> SubSeq(Hits[q], start + 1, end), links |-> query]

(* Mutant: the handler that was bound first has the last word. *)
MutantShow(handlers, page) == items' = PageOf(handlers[1], page)

(* A "page" event calls every handler ever bound to #pagination; each      *)
(* replaces what the one before it has shown.                              *)
Show(handlers, page) == items' = PageOf(handlers[Len(handlers)], page)

(* handleSearchResults: a new pagination, whose handler is bound beside    *)
(* those of earlier ones, shows its first page.                            *)
HandleSearchResults(q) ==
  IF Hits[q] = <<>>
  THEN /\ items' = [of |-> q, page |-> 1, hits |-> <<>>, links |-> query]
       /\ pagination' = None
       /\ UNCHANGED pageHandlers
  ELSE /\ pageHandlers' = Append(pageHandlers, q)
       /\ pagination' = q
       /\ Show(Append(pageHandlers, q), 1)

(* A click on a page of the pagination, but on the active one.             *)
PageClick ==
  /\ contents = "results" /\ pagination # None
  /\ \E page \in 1 .. TotalPages(pagination) \ {items.page} : Show(pageHandlers, page)
  /\ UNCHANGED <<workerVars, keyups, indexReady, query, contents, title, pagination, pageHandlers>>

(* Mutant: what was typed before the index was there is not searched for. *)
MutantIndexIsReady == indexReady' = TRUE /\ UNCHANGED toWorker

(* The deferred's done.                                                    *)
IndexIsReady ==
  /\ indexReady' = TRUE
  /\ toWorker' = IF query \in Long THEN Append(toWorker, query) ELSE toWorker

(* worker.onmessage.                                                       *)
PageMessage ==
  /\ toPage # <<>>
  /\ toPage' = Tail(toPage)
  /\ \/ /\ Head(toPage).e = "index-ready"
        /\ IndexIsReady
        /\ UNCHANGED <<items, pagination, pageHandlers>>
     \/ /\ Head(toPage).e = "query-ready"
        /\ HandleSearchResults(Head(toPage).q)
        /\ UNCHANGED <<toWorker, indexReady>>
  /\ UNCHANGED <<loaded, keyups, query, contents, title>>

(* renderNavbar, and with it "searchEvent", which binds the handlers of    *)
(* the search box: once if the page has its navigation, twice if it has to *)
(* be loaded (loadNavbar calls showSearch and, in the end, renderNavbar,   *)
(* which calls it again).                                                  *)
RenderNavbar ==
  /\ keyups = 0
  /\ \E n \in {1, 2} : keyups' = n
  /\ UNCHANGED <<workerVars, indexReady, query, contents, title, items, pagination, pageHandlers>>

(* What the handlers of a key post, each once.                             *)
Posted(q) == IF indexReady THEN [i \in 1 .. keyups |-> q] ELSE <<>>

KeyUp(q) ==
  /\ keyups > 0
  /\ Len(toWorker) + Len(toPage) + Len(pageHandlers) < MaxPending
  /\ query' = q
  /\ IF q \in Long
     THEN /\ contents' = "results"
          /\ toWorker' = toWorker \o Posted(q)
          /\ title' = q
     ELSE /\ contents' = "article"
          /\ UNCHANGED <<toWorker, title>>
  /\ UNCHANGED <<loaded, toPage, keyups, indexReady, items, pagination, pageHandlers>>

-----------------------------------------------------------------------------
Init ==
  /\ loaded = <<>> /\ toWorker = <<>> /\ toPage = <<>>
  /\ keyups = 0
  /\ indexReady = FALSE
  /\ query = None
  /\ contents = "article"
  /\ title = None
  /\ items = [of |-> None, page |-> 1, hits |-> <<>>, links |-> None]
  /\ pagination = None
  /\ pageHandlers = <<>>

Next ==
  \/ StopWordsLoaded \/ SearchDataLoaded \/ WorkerMessage
  \/ PageMessage \/ PageClick \/ RenderNavbar
  \/ \E q \in Query : KeyUp(q)

(* Both event loops go on; requests may fail and nobody has to type.       *)
Spec == Init /\ [][Next]_vars /\ WF_vars(WorkerMessage) /\ WF_vars(PageMessage)

-----------------------------------------------------------------------------
Message ==
  [e : {"index-ready"}, q : {None}] \cup [e : {"query-ready"}, q : Long \ Refused]

TypeOK ==
  /\ loaded \in Seq({"stopWords", "searchData", "noSearchData"})
  /\ toWorker \in Seq(Long)
  /\ toPage \in Seq(Message)
  /\ keyups \in 0 .. 2
  /\ indexReady \in BOOLEAN
  /\ query \in Query \cup {None}
  /\ contents \in {"article", "results"}
  /\ title \in Long \cup {None}
  /\ items.of \in Long \cup {None} /\ items.links \in Query \cup {None}
  /\ pagination \in Long \cup {None}
  /\ pageHandlers \in Seq(Long)

(* The stop words came first, so that the index is there when the page is  *)
(* told that it is.                                                        *)
Orderly == loaded = <<"stopWords", "searchData">>

(* The page shows hits of the query in the box, links with that query and  *)
(* its title.                                                              *)
ShowsResultsOf(q) ==
  /\ title = q /\ items.of = q /\ items.links = q
  /\ \E page \in 1 .. TotalPages(q) \cup {1} : items = PageOf(q, page)

(* Once everything posted has been answered, what is shown belongs to the  *)
(* query in the box, in whichever order keys, answers, page clicks and the *)
(* news of the index came: no late answer of an earlier query stays, nor a *)
(* link with an earlier one.  Not if the query is refused: there is no     *)
(* answer to it then.                                                      *)
SettledPageIsRight ==
  /\ Orderly /\ toWorker = <<>> /\ toPage = <<>>
  /\ contents = "results" /\ query \notin Refused
  => ShowsResultsOf(query)

(* A query that is left in the box is answered in the end, typed before    *)
(* the index was ready or after.                                           *)
QueriesAreAnswered ==
  \A q \in Long \ Refused :
    (query = q /\ Orderly) ~> (query # q \/ ShowsResultsOf(q))
=============================================================================
