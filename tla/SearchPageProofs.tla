--------------------------- MODULE SearchPageProofs ---------------------------
(***************************************************************************)
(* For any queries, hits and page size: the page and its worker are well   *)
(* typed, and once everything posted has been answered the page shows the  *)
(* results of the query in the box.                                        *)
(***************************************************************************)
EXTENDS SearchPage, SequenceTheorems, TLAPS

-----------------------------------------------------------------------------
(* The last element of a queue.                                            *)

LEMMA AppendLast ==
  ASSUME NEW S, NEW s \in Seq(S), NEW e \in S
  PROVE  /\ Append(s, e) \in Seq(S)
         /\ Append(s, e) # <<>>
         /\ Len(Append(s, e)) = Len(s) + 1
         /\ Append(s, e)[Len(Append(s, e))] = e
  OBVIOUS

LEMMA TailLast ==
  ASSUME NEW S, NEW s \in Seq(S), s # <<>>
  PROVE  /\ Tail(s) \in Seq(S)
         /\ Head(s) \in S
         /\ Head(s) = s[1]
         /\ Tail(s) = <<>> => Head(s) = s[Len(s)]
         /\ Tail(s) # <<>> => Tail(s)[Len(Tail(s))] = s[Len(s)]
<1>1. Len(s) \in Nat \ {0}
  BY EmptySeq
<1>2. /\ Tail(s) \in Seq(S)
      /\ Head(s) \in S
      /\ Len(Tail(s)) = Len(s) - 1
      /\ \A i \in 1 .. Len(Tail(s)) : Tail(s)[i] = s[i + 1]
  BY HeadTailProperties
<1>3. Tail(s) = <<>> => Len(s) = 1
  <2>1. Tail(s) = <<>> => Len(Tail(s)) = 0
    BY EmptySeq
  <2> QED
    BY <1>1, <1>2, <2>1
<1>4. Tail(s) # <<>> => Len(Tail(s)) \in Nat \ {0}
  BY <1>2, EmptySeq
<1> QED
  BY <1>1, <1>2, <1>3, <1>4

(* What the handlers of a key post.                                        *)
LEMMA PostedLast ==
  ASSUME NEW q \in Long, keyups \in Nat, keyups > 0, toWorker \in Seq(Long)
  PROVE  /\ toWorker \o Posted(q) \in Seq(Long)
         /\ ~indexReady => toWorker \o Posted(q) = toWorker
         /\ indexReady => /\ toWorker \o Posted(q) # <<>>
                          /\ (toWorker \o Posted(q))[Len(toWorker \o Posted(q))] = q
<1>1. CASE ~indexReady
  <2>1. Posted(q) = <<>>
    BY <1>1 DEF Posted
  <2> QED
    BY <1>1, <2>1, ConcatEmptySeq
<1>2. CASE indexReady
  <2>1. Posted(q) = [i \in 1 .. keyups |-> q]
    BY <1>2 DEF Posted
  <2>2. Posted(q) \in Seq(Long) /\ Len(Posted(q)) = keyups
    BY <2>1
  <2>3. Posted(q)[keyups] = q
    BY <2>1
  <2>4. /\ toWorker \o Posted(q) \in Seq(Long)
        /\ Len(toWorker \o Posted(q)) = Len(toWorker) + keyups
        /\ \A i \in 1 .. Len(toWorker) + keyups :
             (toWorker \o Posted(q))[i] =
               IF i <= Len(toWorker) THEN toWorker[i] ELSE Posted(q)[i - Len(toWorker)]
    BY <2>2, ConcatProperties
  <2>5. Len(toWorker) \in Nat
    BY LenProperties
  <2>6. Len(toWorker \o Posted(q)) \in Nat \ {0}
    BY <2>4, <2>5
  <2>7. (toWorker \o Posted(q))[Len(toWorker) + keyups] = q
    BY <2>3, <2>4, <2>5
  <2> QED
    BY <1>2, <2>4, <2>6, <2>7
<1> QED
  BY <1>1, <1>2

-----------------------------------------------------------------------------
(* The inductive invariant.                                                *)

DataCame == Has("searchData") \/ Has("noSearchData")

(* The page is told once that the index is ready, and before any answer.   *)
ToldOnce ==
  /\ ~indexReady => /\ toWorker = <<>>
                    /\ toPage = <<>> \/ (Len(toPage) = 1 /\ toPage[1].e = "index-ready")
  /\ indexReady => \A i \in 1 .. Len(toPage) : toPage[i].e = "query-ready"
  /\ DataCame <=> (indexReady \/ toPage # <<>>)

(* The pagination is that of the items, and its handler was bound last.    *)
Paging ==
  pagination # None =>
    /\ pageHandlers # <<>> /\ pageHandlers[Len(pageHandlers)] = pagination
    /\ items.of = pagination

Titled == contents = "results" => query \in Long /\ title = query

(* The latest query or, once it has left the worker, the latest answer is  *)
(* that of the query in the box.                                           *)
Latest ==
  Orderly /\ contents = "results" /\ indexReady =>
    /\ toWorker # <<>> => toWorker[Len(toWorker)] = query
    /\ toWorker = <<>> /\ query \notin Refused =>
         IF toPage # <<>> THEN toPage[Len(toPage)].q = query
         ELSE ShowsResultsOf(query)

IInv == TypeOK /\ ToldOnce /\ Paging /\ Titled /\ Latest

LEMMA InitHolds == Init => IInv
<1> SUFFICES ASSUME Init PROVE IInv
  OBVIOUS
<1>1. TypeOK
  <2>1. /\ loaded \in Seq({"stopWords", "searchData", "noSearchData"})
        /\ toWorker \in Seq(Long) /\ toPage \in Seq(Message) /\ pageHandlers \in Seq(Long)
    BY EmptySeq DEF Init
  <2>2. items.of = None /\ items.links = None
    BY DEF Init
  <2>3. /\ keyups \in 0 .. 2 /\ contents \in {"article", "results"}
        /\ query \in Query \cup {None} /\ title \in Long \cup {None}
        /\ pagination \in Long \cup {None}
        /\ items.of \in Long \cup {None} /\ items.links \in Query \cup {None}
    BY <2>2 DEF Init
  <2>4. indexReady \in BOOLEAN
    BY DEF Init
  <2> QED
    BY <2>1, <2>3, <2>4, Zenon DEF TypeOK
<1>2. ToldOnce
  BY DEF Init, ToldOnce, DataCame, Has
<1>3. Paging /\ Titled /\ Latest
  BY DEF Init, Paging, Titled, Latest
<1> QED
  BY <1>1, <1>2, <1>3 DEF IInv

(* Whether the loads were orderly is settled by the time the index is      *)
(* said to be ready: a load after that leaves it as it was, or not so.     *)
LEMMA StopWordsStep ==
  ASSUME IInv, StopWordsLoaded
  PROVE  IInv'
<1> USE DEF IInv, StopWordsLoaded, workerVars, pageVars
<1>1. loaded \in Seq({"stopWords", "searchData", "noSearchData"})
  BY DEF TypeOK
<1>2. /\ loaded' \in Seq({"stopWords", "searchData", "noSearchData"})
      /\ Len(loaded') = Len(loaded) + 1
      /\ loaded'[Len(loaded) + 1] = "stopWords"
      /\ \A i \in 1 .. Len(loaded) : loaded'[i] = loaded[i]
      /\ Len(loaded) \in Nat
      /\ DOMAIN loaded = 1 .. Len(loaded) /\ DOMAIN loaded' = 1 .. Len(loaded) + 1
  BY <1>1
<1>3. TypeOK'
  BY <1>2 DEF TypeOK
<1>4. DataCame' <=> DataCame
  BY <1>2 DEF DataCame, Has
<1>5. ToldOnce'
  BY <1>4 DEF ToldOnce
<1>6. ~Orderly'
  <2>1. SUFFICES ASSUME loaded' = <<"stopWords", "searchData">> PROVE FALSE
    BY DEF Orderly
  <2>2. Len(loaded') = 2 /\ loaded'[2] = "searchData"
    BY <2>1
  <2>3. Len(loaded) = 1
    BY <1>2, <2>2
  <2>4. loaded'[2] = "stopWords"
    BY <1>2, <2>3
  <2> QED
    BY <2>2, <2>4
<1>7. Paging' /\ Titled' /\ Latest'
  BY <1>6 DEF Paging, Titled, Latest
<1> QED
  BY <1>3, <1>5, <1>7

LEMMA SearchDataStep ==
  ASSUME IInv, SearchDataLoaded
  PROVE  IInv'
<1> USE DEF IInv, SearchDataLoaded, workerVars, pageVars
<1> DEFINE m == [e |-> "index-ready", q |-> None]
<1>1. loaded \in Seq({"stopWords", "searchData", "noSearchData"}) /\ toPage \in Seq(Message)
  BY DEF TypeOK
<1>2. ~DataCame /\ ~indexReady /\ toPage = <<>> /\ toWorker = <<>>
  BY DEF DataCame, ToldOnce
<1>3. m \in Message
  BY DEF Message
<1>4. toPage' \in Seq(Message) /\ toPage' # <<>> /\ Len(toPage') = 1 /\ toPage'[1] = m
  BY <1>1, <1>2, <1>3, AppendLast
<1>5. PICK data \in {"searchData", "noSearchData"} : loaded' = Append(loaded, data)
  OBVIOUS
<1>6. /\ loaded' \in Seq({"stopWords", "searchData", "noSearchData"})
      /\ Len(loaded) + 1 \in DOMAIN loaded'
      /\ loaded'[Len(loaded) + 1] = data
  BY <1>1, <1>5
<1>7. TypeOK'
  BY <1>4, <1>6 DEF TypeOK
<1>8. DataCame'
  BY <1>6 DEF DataCame, Has
<1>9. ToldOnce'
  BY <1>2, <1>4, <1>8 DEF ToldOnce
<1>10. Paging' /\ Titled' /\ Latest'
  BY <1>2 DEF Paging, Titled, Latest
<1> QED
  BY <1>7, <1>9, <1>10

(* The answer to the latest query is the latest answer.                    *)
LEMMA WorkerStep ==
  ASSUME IInv, WorkerMessage
  PROVE  IInv'
<1> USE DEF IInv, WorkerMessage, workerVars, pageVars
<1> DEFINE q == Head(toWorker)
           m == [e |-> "query-ready", q |-> q]
<1>1. toWorker \in Seq(Long) /\ toWorker # <<>> /\ toPage \in Seq(Message)
  BY DEF TypeOK
<1>2. /\ toWorker' \in Seq(Long) /\ q \in Long
      /\ toWorker' = <<>> => q = toWorker[Len(toWorker)]
      /\ toWorker' # <<>> => toWorker'[Len(toWorker')] = toWorker[Len(toWorker)]
  BY <1>1, TailLast
<1>3. indexReady
  BY <1>1 DEF ToldOnce
<1>4. Answers(q) => m \in Message
  BY <1>2 DEF Answers, Message
<1>5. Answers(q) => /\ toPage' \in Seq(Message) /\ toPage' # <<>>
                    /\ Len(toPage') = Len(toPage) + 1
                    /\ toPage'[Len(toPage')] = m
                    /\ \A i \in 1 .. Len(toPage) : toPage'[i] = toPage[i]
  BY <1>1, <1>4, AppendLast
<1>6. toPage' \in Seq(Message)
  BY <1>1, <1>5
<1>7. TypeOK'
  BY <1>2, <1>6 DEF TypeOK
<1>8. DataCame' <=> DataCame
  BY DEF DataCame, Has
<1>9. Len(toPage) \in Nat
  BY <1>1
<1>10. ToldOnce'
  <2>1. \A i \in 1 .. Len(toPage') : toPage'[i].e = "query-ready"
    BY <1>3, <1>5, <1>9 DEF ToldOnce
  <2>2. DataCame'
    BY <1>3, <1>8 DEF ToldOnce
  <2> QED
    BY <1>3, <2>1, <2>2 DEF ToldOnce
<1>11. Latest'
  <2>1. SUFFICES ASSUME Orderly, contents = "results"
                 PROVE  /\ toWorker' # <<>> => toWorker'[Len(toWorker')] = query
                        /\ toWorker' = <<>> /\ query \notin Refused =>
                             toPage' # <<>> /\ toPage'[Len(toPage')].q = query
    BY DEF Latest, Orderly
  <2>2. toWorker[Len(toWorker)] = query
    BY <1>1, <1>3, <2>1 DEF Latest
  <2>3. IndexBuilt
    BY <2>1 DEF IndexBuilt, Has, Orderly
  <2> QED
    BY <1>2, <1>5, <2>2, <2>3 DEF Answers
<1>12. Paging' /\ Titled'
  BY DEF Paging, Titled
<1> QED
  BY <1>7, <1>10, <1>11, <1>12

(* What is shown after a "page" event.                                     *)
LEMMA ShowStep ==
  ASSUME NEW S, NEW handlers \in Seq(S), handlers # <<>>, NEW page \in Nat,
         Show(handlers, page)
  PROVE  /\ items'.of = handlers[Len(handlers)] /\ items'.links = query
         /\ items' = PageOf(handlers[Len(handlers)], page)
  BY DEF Show, PageOf

LEMMA PageClickStep ==
  ASSUME IInv, PageClick
  PROVE  IInv'
<1> USE DEF IInv, PageClick, workerVars
<1>1. PICK page \in 1 .. TotalPages(pagination) : Show(pageHandlers, page)
  OBVIOUS
<1>2. /\ pagination # None /\ pageHandlers \in Seq(Long) /\ pageHandlers # <<>>
      /\ pageHandlers[Len(pageHandlers)] = pagination /\ items.of = pagination
  BY DEF TypeOK, Paging
<1>3. page \in Nat
  OBVIOUS
<1>4. items'.of = pagination /\ items'.links = query /\ items' = PageOf(pagination, page)
  BY <1>1, <1>2, <1>3, ShowStep
<1>5. TypeOK'
  BY <1>2, <1>4 DEF TypeOK
<1>6. ToldOnce' /\ Paging' /\ Titled'
  BY <1>2, <1>4 DEF ToldOnce, DataCame, Has, Paging, Titled
<1>7. Latest'
  <2>1. ASSUME ShowsResultsOf(query) PROVE ShowsResultsOf(query)'
    <3>1. pagination = query /\ title = query
      BY <1>2, <2>1 DEF ShowsResultsOf
    <3>2. PageOf(query, page)' = PageOf(query, page) /\ TotalPages(query)' = TotalPages(query)
      BY DEF PageOf, TotalPages
    <3> QED
      BY <1>1, <1>4, <3>1, <3>2 DEF ShowsResultsOf
  <2> QED
    BY <2>1 DEF Latest, Orderly
<1> QED
  BY <1>5, <1>6, <1>7

LEMMA RenderNavbarStep ==
  ASSUME IInv, RenderNavbar
  PROVE  IInv'
<1> USE DEF IInv, RenderNavbar, workerVars
<1>1. TypeOK'
  BY DEF TypeOK
<1>2. ToldOnce' /\ Paging' /\ Titled'
  BY DEF ToldOnce, DataCame, Has, Paging, Titled
<1>3. Latest'
  BY DEF Latest, Orderly, ShowsResultsOf, PageOf, TotalPages
<1> QED
  BY <1>1, <1>2, <1>3

LEMMA KeyUpStep ==
  ASSUME IInv, NEW q \in Query, KeyUp(q)
  PROVE  IInv'
<1> USE DEF IInv, KeyUp
<1>1. toWorker \in Seq(Long) /\ keyups \in Nat /\ keyups > 0
  BY DEF TypeOK
<1>2. DataCame' <=> DataCame
  BY DEF DataCame, Has
<1>3. Paging'
  BY DEF Paging
<1>4. CASE q \in Long
  <2>1. /\ toWorker' \in Seq(Long)
        /\ ~indexReady => toWorker' = toWorker
        /\ indexReady => toWorker' # <<>> /\ toWorker'[Len(toWorker')] = q
    BY <1>1, <1>4, PostedLast
  <2>2. TypeOK'
    BY <1>4, <2>1 DEF TypeOK
  <2>3. ToldOnce'
    BY <1>2, <2>1 DEF ToldOnce
  <2>4. Titled' /\ Latest'
    BY <1>4, <2>1 DEF Titled, Latest
  <2> QED
    BY <1>3, <2>2, <2>3, <2>4
<1>5. CASE q \notin Long
  <2>1. TypeOK'
    BY <1>5 DEF TypeOK
  <2>2. ToldOnce'
    BY <1>2, <1>5 DEF ToldOnce
  <2>3. contents' # "results"
    BY <1>5
  <2>4. Titled' /\ Latest'
    BY <2>3 DEF Titled, Latest
  <2> QED
    BY <1>3, <2>1, <2>2, <2>4
<1> QED
  BY <1>4, <1>5

(* The hits of the first page, none if there are none.                     *)
LEMMA FirstPage ==
  ASSUME NEW q \in Query, Hits[q] = <<>>
  PROVE  PageOf(q, 1) = [of |-> q, page |-> 1, hits |-> <<>>, links |-> query]
<1>1. Len(Hits[q]) = 0
  BY EmptySeq
<1>2. 0 + numPerPage > 0 /\ numPerPage \in Nat
  BY QueryAssumption
<1>3. (1 - 1) * numPerPage = 0
  BY <1>2
<1>4. SubSeq(Hits[q], 0 + 1, 0) = <<>>
  BY SubSeqEmpty
<1> QED
  BY <1>1, <1>2, <1>3, <1>4 DEF PageOf

LEMMA IndexReadyStep ==
  ASSUME IInv, PageMessage, Head(toPage).e = "index-ready"
  PROVE  IInv'
<1> USE DEF IInv, PageMessage
<1>1. toPage \in Seq(Message) /\ toPage # <<>> /\ Len(toPage) \in Nat \ {0}
  BY EmptySeq DEF TypeOK
<1>2. Head(toPage) = toPage[1] /\ Tail(toPage) \in Seq(Message)
  BY <1>1, TailLast
<1>3. ~indexReady /\ toWorker = <<>> /\ Len(toPage) = 1
  BY <1>1, <1>2 DEF ToldOnce
<1>4. toPage' = <<>>
  <2>1. Len(toPage') = 0
    BY <1>1, <1>3, HeadTailProperties
  <2> QED
    BY <1>2, <2>1, EmptySeq
<1>5. IndexIsReady /\ UNCHANGED <<items, pagination, pageHandlers, loaded, keyups, query, contents, title>>
  OBVIOUS
<1>6. /\ indexReady' = TRUE
      /\ toWorker' \in Seq(Long)
      /\ query \in Long => toWorker' # <<>> /\ toWorker'[Len(toWorker')] = query
  <2>1. CASE query \in Long
    BY <1>3, <1>5, <2>1, AppendLast, EmptySeq DEF IndexIsReady
  <2>2. CASE query \notin Long
    BY <1>3, <1>5, <2>2, EmptySeq DEF IndexIsReady
  <2> QED
    BY <2>1, <2>2, <1>5 DEF IndexIsReady
<1>7. TypeOK'
  BY <1>2, <1>5, <1>6 DEF TypeOK
<1>8. DataCame' <=> DataCame
  BY <1>5 DEF DataCame, Has
<1>9. ToldOnce'
  <2>1. DataCame
    BY <1>1 DEF ToldOnce
  <2>2. Len(toPage') = 0
    BY <1>4, EmptySeq
  <2>3. \A i \in 1 .. Len(toPage') : toPage'[i].e = "query-ready"
    BY <2>2
  <2>4. indexReady' = TRUE /\ DataCame'
    BY <1>6, <1>8, <2>1
  <2> QED
    BY <2>3, <2>4, Zenon DEF ToldOnce
<1>10. Paging' /\ Titled'
  BY <1>5 DEF Paging, Titled
<1>11. Latest'
  BY <1>5, <1>6 DEF Latest, Titled
<1> QED
  BY <1>7, <1>9, <1>10, <1>11

(* What handleSearchResults leaves behind.                                 *)
LEMMA ResultsStep ==
  ASSUME NEW q \in Long, pageHandlers \in Seq(Long), HandleSearchResults(q)
  PROVE  /\ items'.of = q /\ items'.links = query /\ items' = PageOf(q, 1)
         /\ pageHandlers' \in Seq(Long) /\ pagination' \in {q, None}
         /\ pagination' # None => /\ pageHandlers' # <<>>
                                  /\ pageHandlers'[Len(pageHandlers')] = pagination'
<1>1. q \in Query
  BY QueryAssumption
<1>2. CASE Hits[q] = <<>>
  <2>1. items' = [of |-> q, page |-> 1, hits |-> <<>>, links |-> query] /\ pagination' = None
    BY <1>2 DEF HandleSearchResults
  <2> QED
    BY <1>1, <1>2, <2>1, FirstPage DEF HandleSearchResults
<1>3. CASE Hits[q] # <<>>
  <2>1. /\ pageHandlers' = Append(pageHandlers, q) /\ pagination' = q
        /\ Show(Append(pageHandlers, q), 1)
    BY <1>3 DEF HandleSearchResults
  <2>2. /\ Append(pageHandlers, q) \in Seq(Long) /\ Append(pageHandlers, q) # <<>>
        /\ Append(pageHandlers, q)[Len(Append(pageHandlers, q))] = q
    BY AppendLast
  <2>3. items' = PageOf(q, 1) /\ items'.of = q /\ items'.links = query
    BY <2>1, <2>2, ShowStep
  <2> QED
    BY <2>1, <2>2, <2>3
<1> QED
  BY <1>2, <1>3

LEMMA QueryReadyStep ==
  ASSUME IInv, PageMessage, Head(toPage).e = "query-ready"
  PROVE  IInv'
<1> USE DEF IInv, PageMessage
<1> DEFINE q == Head(toPage).q
<1>1. toPage \in Seq(Message) /\ toPage # <<>> /\ Len(toPage) \in Nat \ {0}
  BY EmptySeq DEF TypeOK
<1>2. /\ Head(toPage) = toPage[1] /\ Head(toPage) \in Message /\ toPage' \in Seq(Message)
      /\ toPage' = <<>> => Head(toPage) = toPage[Len(toPage)]
      /\ toPage' # <<>> => toPage'[Len(toPage')] = toPage[Len(toPage)]
  BY <1>1, TailLast
<1>3. q \in Long
  BY <1>2 DEF Message
<1>4. indexReady
  BY <1>1, <1>2 DEF ToldOnce
<1>5. /\ HandleSearchResults(q)
      /\ UNCHANGED <<toWorker, indexReady, loaded, keyups, query, contents, title>>
  OBVIOUS
<1>6. /\ items'.of = q /\ items'.links = query /\ items' = PageOf(q, 1)
      /\ pageHandlers' \in Seq(Long) /\ pagination' \in {q, None}
      /\ pagination' # None => /\ pageHandlers' # <<>>
                               /\ pageHandlers'[Len(pageHandlers')] = pagination'
  BY <1>3, <1>5, ResultsStep DEF TypeOK
<1>7. TypeOK'
  BY <1>2, <1>3, <1>5, <1>6 DEF TypeOK
<1>8. DataCame' <=> DataCame
  BY <1>5 DEF DataCame, Has
<1>9. ToldOnce'
  <2>1. /\ Len(toPage') = Len(toPage) - 1
        /\ \A i \in 1 .. Len(toPage') : toPage'[i] = toPage[i + 1]
    BY <1>1, HeadTailProperties
  <2>2. \A i \in 1 .. Len(toPage') : toPage'[i].e = "query-ready"
    BY <1>1, <1>4, <2>1 DEF ToldOnce
  <2> QED
    BY <1>4, <1>5, <1>8, <2>2 DEF ToldOnce
<1>10. Paging' /\ Titled'
  BY <1>5, <1>6 DEF Paging, Titled
<1>11. Latest'
  <2>1. SUFFICES ASSUME Orderly, contents = "results"
                 PROVE  /\ toWorker # <<>> => toWorker[Len(toWorker)] = query
                        /\ toWorker = <<>> /\ query \notin Refused =>
                             IF toPage' # <<>> THEN toPage'[Len(toPage')].q = query
                             ELSE ShowsResultsOf(query)'
    BY <1>5 DEF Latest, Orderly
  <2>2. /\ toWorker # <<>> => toWorker[Len(toWorker)] = query
        /\ toWorker = <<>> /\ query \notin Refused => toPage[Len(toPage)].q = query
    BY <1>1, <1>4, <2>1 DEF Latest
  <2>3. ASSUME toPage' = <<>>, q = query PROVE ShowsResultsOf(query)'
    <3>1. title' = query' /\ query' = query
      BY <1>5, <2>1 DEF Titled
    <3>2. PageOf(query, 1)' = PageOf(query, 1)
      BY <3>1 DEF PageOf
    <3> QED
      BY <1>6, <2>3, <3>1, <3>2 DEF ShowsResultsOf
  <2> QED
    BY <1>2, <2>2, <2>3
<1> QED
  BY <1>7, <1>9, <1>10, <1>11

LEMMA StepHolds == IInv /\ [Next]_vars => IInv'
<1> SUFFICES ASSUME IInv, [Next]_vars PROVE IInv'
  OBVIOUS
<1>1. CASE StopWordsLoaded
  BY <1>1, StopWordsStep
<1>2. CASE SearchDataLoaded
  BY <1>2, SearchDataStep
<1>3. CASE WorkerMessage
  BY <1>3, WorkerStep
<1>4. CASE PageMessage
  BY <1>4, IndexReadyStep, QueryReadyStep DEF PageMessage
<1>5. CASE PageClick
  BY <1>5, PageClickStep
<1>6. CASE RenderNavbar
  BY <1>6, RenderNavbarStep
<1>7. ASSUME NEW q \in Query, KeyUp(q) PROVE IInv'
  BY <1>7, KeyUpStep
<1>8. CASE UNCHANGED vars
  BY <1>8 DEF IInv, TypeOK, ToldOnce, DataCame, Has, Paging, Titled, Latest, Orderly,
              ShowsResultsOf, PageOf, TotalPages, vars, workerVars, pageVars
<1> QED
  BY <1>1, <1>2, <1>3, <1>4, <1>5, <1>6, <1>7, <1>8 DEF Next

-----------------------------------------------------------------------------
(* Whatever is typed and found, and in whatever order messages are         *)
(* handled, queues hold queries and answers, and only accepted queries     *)
(* are answered (the two onmessage handlers).                              *)
THEOREM TypeCorrect == Spec => []TypeOK
<1>1. IInv => TypeOK
  BY DEF IInv
<1> QED
  BY InitHolds, StepHolds, <1>1, PTL DEF Spec

(* Once everything posted has been answered the page shows the results of  *)
(* the query in the box, for any queries, hits and page size, however many *)
(* keys were typed before (worker.onmessage, keyup, onPageClick).          *)
THEOREM SettledResults == Spec => []SettledPageIsRight
<1>1. IInv => SettledPageIsRight
  <2>1. SUFFICES ASSUME IInv, Orderly, toWorker = <<>>, toPage = <<>>,
                        contents = "results", query \notin Refused
                 PROVE  ShowsResultsOf(query)
    BY DEF SettledPageIsRight
  <2>2. Has("searchData")
    BY <2>1 DEF Orderly, Has
  <2>3. indexReady
    BY <2>1, <2>2 DEF IInv, ToldOnce, DataCame
  <2> QED
    BY <2>1, <2>3 DEF IInv, Latest
<1> QED
  BY InitHolds, StepHolds, <1>1, PTL DEF Spec
=============================================================================
