# Datatent in TLA+

A verification project for [Datatent](../src), an embedded document database in
C#.  The repository holds two generations of it: `Datatent.Core`, the current
one (addresses, an I/O scheduler over a file, blocks, pages, documents), and
`Datatent.CoreOld`, the previous one (a record storage over blocks and a B-tree
over records).  Neither is finished: `Database` writes a header and nothing
else yet.  What exists is the storage layer, and that is what is modelled.  The
repository's only other program is the script of its documentation site: a
search index, lunr, and the page and worker around it.  The search is modelled,
too.

All paths below are relative to `src/`.  Of the files the map names, those under
`docs/styles` are JavaScript that comes with the generator of the site (docfx)
and a library it uses (lunr): somebody else's code, kept in this repository as
it is deployed.  A share of mapped lines that counts JavaScript only says how
much of the site's scripts is modelled, and nothing about the C# code.

## 1. The system

### Datatent.Core

| component | state | operations | works with |
|---|---|---|---|
| `Common/Address.cs` | none: a struct of scope, block, page, document in one `ulong` | packing, unpacking, comparison, `ToPosition`; `GetHashCode` and `ToString`, which are not modelled | requests carry one, the file system service turns it into a position |
| `Scheduler/DefaultScheduler.cs` | a bounded channel of 100 (request, completion source) tuples; the reader task | `ScheduleFileSystemRequest` by any thread; `Reader` loop; `IOResponse.Dispose` | called by anyone, calls the file system service |
| `IO/FileSystemServiceBase.cs`, `DiskFileSystemService.cs` | one `FileStream`; arrays of the shared `ArrayPool` | `Read`, `Write` (with flush), database header read and write | called by the reader only, but for the header |
| `IO/MemoryFileSystemService.cs` | a fixed `MemoryStream` | same | tests |
| `Pages/*`, `Document/Document.cs` | bytes of a block; a page header held in the page object | find a page, add a document, find a document | `DataBlock` |
| `Block/*` | header and pages of a block, in a response's buffer | `SaveData`, headers | pages, scheduler responses |
| `Algo/Sort/*` | none | radix and insertion sorts over arrays of numbers | nothing yet |
| `Database.cs`, `Common/DatabaseHeader.cs`, `Service/*` | settings, keys | `CreateNew` | services: compression, encryption, JSON |

### Datatent.CoreOld

| component | state | operations | works with |
|---|---|---|---|
| `Block/BlockStorage.cs`, `Block/Block.cs` | a stream cut into blocks; the first sector of each open block, cached | `Find`, `CreateNew`, headers, `Read`, `Write`, `Dispose` | the stream |
| `Records/RecordStorage.cs` | none of its own: chains of blocks, record 0 the list of free ones | `Create`, `Find`, `Update`, `Delete` | block storage |
| `Tree/*` | nodes in memory, dirty nodes, node cache; nodes as records | insert, delete, split, rebalance, range scans | record storage |
| helpers, serializers | none | conversions | |

### Documentation site

| component | state | operations | works with |
|---|---|---|---|
| `docs/styles/lunr.js`, index | inverted index, term frequencies, vectors, token set | add a document, build, search | called by the worker |
| `docs/styles/lunr.js`, query | text, lexemes, one unfinished clause | lex, parse | called by the index |
| `docs/styles/search-worker.js` | stop words, search data, the index | two requests, `onmessage` | messages to and from the page |
| `docs/styles/docfx.js`, `enableSearch` | the query, what is shown, a deferred, handlers | keys, page clicks, answers | the worker, the pagination plugin of `docfx.vendor.js` |
| the rest of `docs/styles` | the page's layout | | |

`Datatent.Shared` holds `Constants.cs` (all sizes) and the interfaces of the
services; `Datatent.Plugins.Audit`, the dummy application, benchmarks and tests
have no logic of their own.

### What is hard, and what makes each component correct

* **Address**: widths.  `ToPosition` computes in a `uint`, the scope is a byte
  cut out of sixteen bits.  Correct when packing loses nothing, different pages
  never share bytes, and equality and position agree.
* **Scheduler**: interleaving.  Clients wait for room in two different ways
  (`WaitToWriteAsync`, then `WriteAsync`), the reader is `async void` and runs
  the clients' continuations on its own thread, arrays come from a shared pool
  and go back each time a client disposes its response, which is a struct and
  does not know that it was.  Correct when every request is answered once, with
  its own answer, in a buffer nobody else has, as far as clients dispose once;
  when requests take effect one by one; and when what was flushed survives the
  end of the process.
* **Record storage**: long sequences and crashes.  A free list lives in blocks
  that become free themselves; a record is several blocks that are written one
  after another.  Correct when every record reads back as stored, no block has
  two owners, none is lost, and a crash in one operation leaves every other
  record alone, for good, if there is a way to see to that (in the middle of an
  exchange on the free list there is none).
* **Pages**: boundaries of a layout, headers that are copies.
* **B-tree**: the invariants of a B-tree through splits and merges; a cache of
  nodes by ids that are reused; dirty nodes saved one by one.
* **Search index**: a token set that is minimised while it grows, by keys that
  are strings; vectors kept in order by a binary search; a lexer that steps back
  and ignores; a parser whose states share one clause.  Correct when a query is
  read as written and finds exactly what it asks for.
* **Search page**: two threads that exchange messages.  Answers may be late, the
  index may be ready before or after the first query, handlers are bound again
  with every answer.  Correct when the page, once it waits for nothing, shows
  results of the query in its box, and when every query gets there.
* **Sorts**: equality with a reference definition, at the boundaries of the
  radix and of the array.

The hazards, each at its line with the properties that cover it, are listed in
`PROJECT.json`.

## 2. Modules

```
Addressing ── AddressPairs ── MCAddressPairs        (TLC)
    │              └───────── AddressProofs         (TLAPS)
    └── Scheduler ── SchedulerRefinement ── MCScheduler   (TLC)
            │              └ INSTANCE FileStore     (abstract)
            └── SchedulerProofs         (TLAPS)
RecordStorage ── MCRecordStorage                    (TLC)
    └── ChainProofs ── FreeListProofs ── RecordStorageProofs   (TLAPS)
BTree ── MCBTree                                    (TLC)
    ├ INSTANCE OrderedIndex      (abstract)
    └── BTreeLemmas ── BTreeProofs                  (TLAPS)
TokenSet ── QueryText ── SearchIndex ── MCSearchIndex     (TLC)
SearchPage ── MCSearchPage                          (TLC)
    └──────── SearchPageProofs                      (TLAPS)
```

### Addressing, AddressPairs

`Addressing` has the struct's arithmetic as operators over the sizes of
`Constants.cs` and the widths of the machine integers, all constants.  An
address is a record; `FullAddress` and `Unpack` are the packing, `WithScope` the
constructor that replaces the scope, `Key`, `AreTheSame`, `Equal` the
comparison, `Offset`, `Length`, `ToPosition` the position, modulo
`UINT_RANGE`.  The scope of an address is 16 bits wide, the enum a byte:
`ScopeOf` takes the byte.  `AddressPairs` is a state machine that does nothing
but choose two addresses, so that properties of pairs are invariants.

### Scheduler

One client is one thread of control that awaits `ScheduleFileSystemRequest`; it
stands for its tuple in the channel.  The state is the channel (`items`), the
queue of writers that found it full (`blockedWriters`), the reader's position
and locals, the stream with and without what was never flushed (`stream`,
`durable`), and the pooled arrays: their content (`buffers`) and how many times
each lies in the pool (`pool`).  The channel is an
external library: its behaviour (a read hands its room to the first blocked
writer; only without one are the clients in `WaitToWriteAsync` woken, all of
them, each to try again) is modelled from how the scheduler uses it.

| code | action |
|---|---|
| `ScheduleFileSystemRequest` to `WaitToWriteAsync` (58-64) | `Schedule` |
| `WriteAsync` (65) | `WriteAsync` |
| the caller disposes its response, once or more often (99-105) | `Dispose` |
| the caller lets go of its response, disposed or not | `Forget` |
| `TryRead` (36-41) | `TryRead` |
| `FileSystemServiceBase.Read` | `Read` |
| `FileSystemServiceBase.Write`, its flush | `Write`, `Flush` |
| `SetResult` (50-55) | `SetResult` |
| a continuation that ran inside `SetResult` ends or awaits (52, 63) | `Yield` |
| an exception in `Reader`, an `async void` method: the process ends | `ReaderThrows` |
| the process ends, a new one opens the file | `Crash` |

`Read` and `Write` are one step each: only the reader uses the stream.  Arrays
come out of the pool longer than asked for and with whatever the last user left
in them, as `ArrayPool` does; a returned array may or may not be kept.

The pool hands out what was returned to it, whoever still refers to it: that no
two users share an array is no property of the pool, but of who returns what
and when.  `IOResponse` is a struct whose `Dispose` has no guard, so a client
may return its array more than once (`MaxDisposals`); from then on the array
may be with two users, and `overReturned` remembers it until nothing refers to
it any more.  `BuffersPrivate` and `PayloadStable` are about all other arrays:
one careless client does not spoil the responses of the rest, and one that
disposes too late, after the array was given away again, does not harm those
whose arrays were never returned twice.

`ScheduleFileSystemRequest` makes its `TaskCompletionSource` without
`RunContinuationsAsynchronously` (line 63), so `SetResult` may run the client's
continuation on the reader's thread: `guest` is the client that is there, and
the reader takes no further request until it has yielded.  After a
crash the file holds for each byte the flushed value or a later one and any
length in between.

`FileStore` is what a client may rely on: an operation takes effect at one
instant, a flushing write returns only when the file is safe, a crash loses
only what was not.  `SchedulerRefinement` maps the scheduler to it: the
reader's transfer is the instant, and a client has its answer until it disposes
it.  While an array that was returned twice is in use its payload may change
under the client, so `ImplementsFileStore` asks nothing of those steps.

### RecordStorage

One caller, one operation at a time: the class has no locks.  Each iteration of
a loop is a step.  A block has its five headers and its cells; a cell is four
bytes, the size of a block number in the free list.  The first `SectorCells` of
a block are in its first sector with the headers, are cached, and go to the
stream when the block is disposed; what lies beyond is written by `Block.Write`
at once, before.  The default block of 40960 bytes is ten sectors long, so both
happen.  `writes` holds the writes an iteration makes, in the code's
order, and `Flush` makes one of them, so that `Crash` can come between any two.
After a crash a new process goes on; the caller does not know how far the
interrupted operation came and leaves that record alone.  `stored` and `gone`
are history: what the caller put where, and what it deleted.  They are the
abstract state, a map of ids to data.

One crash really does damage.  When the last tracking block of the free list is
empty, `TryFindFreeBlock` takes a number out of the block before it and puts the
number of the empty block in its place (`RecordStorage.cs:386-400`).  If that
place lies beyond the first sector, `Block.Write` puts the number on the stream
at once (`Block.cs:197`), and the headers that take the empty block out of the
chain follow with `Dispose`.  A process that ends between the two leaves the
block in the list and in its chain (`Torn`); the block is handed out later, and
a record stored in it is read as part of the list.  `torn` remembers that this
has happened, and the properties are about histories up to there; no line of the
repository promises anything for what comes after.  Every other crash, and every
moment of the exchange itself, is covered, for blocks of one sector and for
longer ones; nothing of a block of one sector is written early, so there no
crash tears the list.

| code | action |
|---|---|
| `Create`, first block and record length (107-126) | `Create` |
| `Create`, an iteration of its loop (129-164) | `CreateWrite` |
| `Delete`, the lookup; an iteration | `Delete`, `DeleteBlock` |
| `Update`, the lookup; an iteration; the freeing of the rest; the disposal | `Update`, `UpdateWrite`, `UpdateFree`, `UpdateDispose` |
| `Block.Write` beyond the sector, `Block.Dispose` | `Flush` |
| `Find` | the operator `Lookup` |

`FindBlocks`, `TryFindFreeBlock`, `AllocateBlock` and `MarkAsFree` are operators
of the same name.  `Block.Dispose` writes 4096 bytes whatever the sector size;
with blocks below 4096 bytes, which `BlockStorage` accepts, it throws, so the
model is about blocks of 4096 bytes and more.

How the stream was opened and what is stored in it is `setting`, chosen at the
beginning and constant, so that one run covers several block sizes.

### BTree

The nodes of a tree as `TreeMemoryNodeManager` keeps them: a function of ids to
parent, entries and children.  An entry is a pair of a key and a value; a tree
is one of unique keys or one with duplicates, for good.  One caller; each level
that a split or a rebalancing works on is a step, with the id of the node in
`op`, so that the shape of the tree is a property of every step and not only of
what is left at the end.  Ids are reused in the model and counted up in the
code: nothing depends on which one a new node gets.

| code | action |
|---|---|
| `Tree.Insert`, `TreeNode.InsertAsLeaf` | `Insert` |
| `TreeNode.Split`, one level; `InsertAsParent`, `CreateNewRoot` | `Split` |
| `Tree.Delete(key)`, `TreeNode.Remove` | `DeleteKey` |
| `Tree.Delete(key, value)`, the call; a round of its loop, `TreeNode.Remove` | `DeleteEntry`, `DeleteNext` |
| `TreeNode.Rebalance`, one level | `RotateLeft`, `RotateRight`, `Merge` |
| `Get`, the four range scans, `TreeEnumerator` | operators of the same names |

Scans change nothing, so they are operators: `MoveForward` and `MoveBackward`
are the enumerator's, `Iterate` runs one from where `Tree` starts it to its end,
and `RangeScans` compares the outcome with what the tree holds.  A scan left
open while the tree changes is not modelled.

`OrderedIndex` is what a caller relies on: a bag of entries to which an
insertion adds one and from which a removal takes one.  `ImplementsIndex` maps
the entries in all nodes to the bag; splitting and rebalancing have to leave it
as it is at every level.

### TokenSet, QueryText, SearchIndex

`TokenSet` is lunr's automaton of words.  A word is a sequence of characters.  A
token set under construction is a record of its nodes by id and the builder's
fields; `Insert`, `Minimize` and `Finish` are the builder's, with the string
keys (`Key`) by which it shares nodes.  The token sets of a query are only
walked, never shared: `FromString` gives the graph, loops at wildcards and all,
`FromFuzzyString` the tree, as the set of words that lead to its final nodes,
and `Intersect` what both accept.

`QueryText` is the lexer and the parser.  Both are loops over state functions,
and each state function is an action; `state` is the next one.  One round of
`lexText`'s loop is a step.  `SearchIndex` adds the documents (`Add`), the stop
words (`AddStopWordFilter`, which the worker appends after the documents), the
vectors (`Build`), the token set term by term (`InsertTerm`, `FinishTokenSet`),
and searches: `Search` starts the lexer, `RunClause` is a round of `query()`'s
loop over the clauses, `Score` its second half, `Return` its end.

| code | action or operator |
|---|---|
| `tokenizer`, `trimmer`, `stemmer`, stop words, `Pipeline.run` | `Tokenizer`, `Trim`, `Stem`, `Dropped`, `Run` |
| `Vector.positionForIndex`, `upsert`, `dot` | `PositionForIndex`, `Upsert`, `Dot` |
| `QueryLexer.lexText`, `lexField`, `lexTerm`, ... | `LexText`, `LexField`, `LexTerm`, ... |
| `QueryParser.parseFieldOrTerm`, `parseField`, `parseTerm`, ... | `ParseFieldOrTerm`, `ParseField`, `ParseTerm`, ... |

The stemmer is modelled over the characters of the instance, of which only a
plural can be made.  A score is the sum of term counts and boosts: the factors
that depend on the documents alone (inverse document frequency, field length,
magnitudes) are left out, and so is the order of results.  Fields have no
boosts: the worker asks for some (`search-worker.js:53-54`), but `Builder.field`
takes a name and nothing else (`lunr.js:2059`).  `Build` goes through the terms
of a field in the order of `Object.keys`: integers first (`Enumerated`).

Where the comments of lunr.js and its code disagree about what a query asks for,
`FindsWhatIsAsked` takes the code's meaning.  A wildcard stands for any run of
characters, the empty one too (`Glob`), where `lunr.js:1677` says "one or more":
`a*` finds the term `a`.  An edit distance has no insertion at the end of the
term (`OneEdit`), where `lunr.js:1216` counts every insertion as 1.  The terms of
a query are cut by its own separators; that `lunr.js:2636` wants them to match
those of documents is `FoundByItsText`, which the worker's configuration breaks.

A page loads `lunr.min.js`, the same version (2.1.2) of the library without its
line breaks; the map points into `lunr.js`.

### SearchPage

Two threads and two queues of messages.  The worker's requests come back in any
order or not at all (`StopWordsLoaded`, `SearchDataLoaded`); `WorkerMessage` is
its `onmessage`, which answers, or throws when there is no index or lunr refuses
the query.  `KeyUp` is the search box, whose handlers are bound once or twice:
`loadNavbar` triggers `searchEvent` and then calls `renderNavbar`, which triggers
it again, so every query is posted twice on a page whose navigation had to be
loaded.  `PageMessage` is the page's `onmessage`: the news that the index is
ready, which posts what is in the box, or an answer.  `HandleSearchResults`
binds another handler of page events without removing the earlier ones
(`pageHandlers`); `Show` calls them in their order, the last has the last word.
`SettledPageIsRight` rests on exactly that: messages are not reordered, so that
the newest answer comes last, and so does its handler.  The pagination plugin,
twbsPagination, is in `docfx.vendor.js` and mapped there: a click on the page
that is shown does nothing, any other calls the handlers (`PageClick`).

## 3. Runs

| run | question | instance |
|---|---|---|
| AddressLayout | does replacing the scope lose anything? do pages overlap, leave their block, or equal addresses point to different places? | every scope, the extreme numbers, small sizes and widths, one block that wraps around |
| AddressBlockHeader (violated) | does a page cover the block header? | the sizes of `Constants.cs` in units of four bytes (all are multiples of four, and TLC's integers have 32 bits) |
| SchedulerChannel | is every tuple in one place, every wake-up delivered, every answer the client's own, every request answered? | three clients, capacity one; responses are not disposed |
| SchedulerStore | is the file store implemented through crashes anywhere, are arrays private and payloads stable as long as nobody returns an array twice, and for all others afterwards, is the database header left alone? | two clients, two arrays, each response disposed up to twice; a page read, a header written with a flush, a page beyond the end of the file written without, a payload too short that makes the reader throw |
| SchedulerStale (violated) | does a read return bytes of the file only? | one client |
| RecordChains | do records read back, deleted ones stay away, blocks have one owner and none get lost, does every loop end, and what does a crash between any two writes do to the other records, in all that follows? | one cell in a block, where the free list grows and shrinks by blocks all the time, without a crash and with one; two cells, both in the first sector, records that fill their last block partly, one crash; the same with the second cell beyond the sector; that once more with a block more, so that the crash can tear an exchange |
| BTreeIndex | does the tree stay a balanced B-tree at every step, do scans and `Get` return what it holds, is it an index? | nodes of one or two entries; unique keys out of nine, or one key with two values |
| BTreeDuplicates (violated) | the same with different keys that have duplicates | nodes of two to four entries, two keys, up to nine entries |
| SearchIndex | is a query read as written and does it find exactly what it asks for; is the token set exact and minimal at every step; do scores add up; does the lexer get on? | every set of up to four words of up to three characters, a letter or a digit; every query of up to four of nine characters; two documents with two fields of four texts each, fourteen queries |
| SearchKeys (violated) | is the token set exact when there are more nodes? | seven terms with digits, 213 nodes and more |
| SearchSeparators (violated) | is a document found by its own text? | three documents, of two words parted by a blank, a hyphen or a dot, each asked for by its text |
| SearchPage | does the page settle on the query in its box, is that query answered? | five queries with three pages of hits, one, none, refused, too short; pages of two hits |

### Bounds and why they are enough

Scheduler: with capacity one, three clients fill the channel, block a writer
and leave one in `WaitToWriteAsync`, which is every way a client can wait; one
block of two pages with headers of one byte has requests that overlap, are
disjoint, and end beyond the file.  Two clients suffice where the question is
the order of effects, since the reader serialises them.  `MaxDisposals` two
returns of one response and a pool that keeps up to `PoolDepth` two of an array
are the least at which one array is rented twice at the same time; with two
clients and two arrays there is then another array to stay private.  In
SchedulerChannel nothing is disposed: the channel never looks at an array.
Clients, ids and arrays are interchangeable in SchedulerStore, which has no
liveness property, so symmetry is sound there.

Record storage: `MaxRecords` two records (and the free list's own chain), of
none to three blocks; `MaxBlocks` bounds the stream: it can grow for ever, since
a full tracking block is always followed by a new block, never a free one.  No
`Create` or `Update` begins in a longer stream, so the model can stop, and
deadlock is not checked; `OperationsReturn` shows that it never stops inside an
operation.  Within the bound, the free list moves every block between all its
roles.  Four blocks with content beyond the sector have exchanges but none that
a crash can tear, five do (`TornPairs`): the instance goes on behind `torn`, where
the properties ask nothing, and shows that they hold up to there.  After a crash
it is the records that were not being worked on that have to be intact; that no
block is lost (`NoBlockLeaks`) is asked only of histories without a crash.

Callers delete a record once: a second `Delete` of the same id frees its blocks
twice (`RecordStorage.cs:202`), and nothing in the code looks out for it.  They
never update a record with nothing: `Update` would then free all its blocks and
leave its old data to be found (`RecordStorage.cs:276`).

B-tree: with a minimum of one entry, nine unique keys make trees of three
levels in which an inner node is deficient and its sibling has an entry to
spare: the smallest tree in which rotations move a child.  Eight do not.  Every
order of insertions and removals is covered.  For trees with duplicate keys the
passing run has entries of one key only, told apart by two values; with two
keys the tree breaks, which is what BTreeDuplicates shows.

Search index: words of up to three characters share prefixes and suffixes in
every way that two characters allow, and four of them make the minimised part
reappear under different parents. The ids of their nodes have one or two digits;
two nodes can have the same key from node 212 on, and then they may, which is
what SearchKeys shows: `TokenSetExact` holds for smaller token sets, and for
larger ones whose terms have no digits. Four characters of a query hold a field,
a term and a modifier, an escaped character, and every pair of special
characters side by side. With two edits lunr finds what one edit reaches and
some of what two reach; that is what is asked.

Search page: `MaxPending` five messages and page handlers when a key comes.
That is an answer under way, a query posted twice, and the handlers of two
earlier results at once.  The page may stop there for good, as it may when
nobody types, so deadlock is not checked.

### Fairness

`WaitToReadAsync` completes when the channel has an item, so the reader's steps
are weakly fair as long as they are enabled, and that they are not while a
client's continuation runs on the reader's thread: `TryRead` waits for it to end
or to await (`guest`).  Nothing makes it do so.  `SetResult` (line 52) runs
continuations inline because the source of line 63 is made without
`RunContinuationsAsynchronously`, and a client that blocks there, on the `Result`
of another request for instance, stops the reader for good.  So `Yield` has no
fairness, and `EveryRequestAnswered` begins with its condition: if again and
again no client is on the reader's thread, every request is answered.  A client
past its last await runs on, so `WriteAsync` is weakly fair.  Nothing obliges a
client to call or to dispose.  In `RecordStorage` the steps of an operation are weakly
fair (it is one thread), the calls are not; `OperationsReturn` is up to a torn
exchange, behind which a chain may have a cycle.  `BTree` states no liveness: its
loops go up the levels of the tree or remove an entry, and TLC's deadlock check
shows that no operation stops on its way.  In `SearchPage` the two event loops
are weakly fair: a browser delivers what was posted.  Requests are not, since
they may fail, and nobody has to type or click.

### What the violated runs show

* Page 0 of a block begins on the block's header (`Address.cs:141` leaves the
  header out of the sum).
* A read beyond the end of the file returns bytes of another request's payload
  (`FileSystemServiceBase.cs:118` ignores the count, the array is not cleared).
* `InsertAsParent` finds the place of a split child by its key
  (`TreeNode.cs:212`).  With equal keys in the parent it overwrites the reference
  to another child: its entries are lost, and the split child's are in the tree
  twice.  For the same reason `Get` in a tree with duplicates returns null for a
  key that is only in an inner node (`Tree.cs:267`): in the instance of
  BTreeDuplicates `GetFinds` fails as soon as the root has been split.
* The key of a node (`lunr.js:1482`) is a string of labels and ids with nothing
  between them.  The edges 0 and 1 to node 2 give the key of the single edge 0
  to node 212: the builder takes one node for the other, and the terms 20 and 21
  are lost.
* The worker makes the dot a separator of documents when lunr has already taken
  the separators of queries (`search-worker.js:9`, `lunr.js:2647`; the comment at
  `lunr.js:2636` says that the two "should match"): a document is not found by a
  name with dots in it, which most titles of an API's documentation have.

Read in the code and not in a run of their own:

* Block numbers from 670 on wrap around 4 GiB in `ToPosition` (`Address.cs:137`)
  and reach low blocks; `PagesDisjoint` and `PageInsideItsBlock` are about the
  blocks below.
* A crash in the middle of an exchange on the free list, where its numbers lie
  beyond the first sector, leaves a block in the list and in the list's chain
  (`RecordStorage.cs:386-400`, `Block.cs:197`); see RecordStorage above.  Nothing
  in the repository says that the storage survives crashes, so this is a limit
  of the properties and not a finding.
* A client that blocks on the reader's thread stops the scheduler
  (`DefaultScheduler.cs:52`, `63`), and one that disposes a response twice may
  share an array with another (`DefaultScheduler.cs:99-105`); the properties say
  what holds otherwise.
* The page is told that the index is ready when the search data are there, the
  stop words or not (`search-worker.js:34`): a query is then lost.  The page's
  properties are about a page whose stop words came first (`Orderly`).
* A query that lunr refuses is not answered, and the hits of the one before stay
  under its title (`search-worker.js:40`).
* lunr's token set for an edit distance has no insertion at the end of a word,
  and not every pair of edits (`lunr.js:1227`), though the comment at
  `lunr.js:1216` counts insertions; wildcards stand for nothing, too, though the
  comment at `lunr.js:1677` says "one or more".  `OneEdit`, `TwoEdits` and `Glob`
  say what is asked instead.

## 4. Proofs

`AddressProofs`, for every choice of sizes and widths:

* `PagesNeverOverlap`, `PagesStayInTheirBlock`: pages below the wrap-around limit
  do not overlap and stay inside their block.  The core is `Stride`: multiples
  of a positive stride are at least a stride apart.
* `WithScopeIsExact`: `Spec => []WithScopeKeepsTheRest`.  The core is
  `UnpackFullAddress`: what is packed comes out again, for every address; it
  takes the four fields apart with `DivMod`, the division of `q * r + i`.
* `EqualPointsToTheSame`: `Spec => []EqualSamePosition`, wrapped around or not.

`SchedulerProofs`: for any clients, capacity, requests, arrays and sizes,

* `TypeCorrect`: `Spec => []TypeOK`,
* `EveryTupleInOnePlace`: `Spec => []OnePlace`,
* `ChannelStaysBounded`: `Spec => []ChannelBound`, no wake-up is lost,
* `EveryClientGetsItsAnswer`: `Spec => []AnswersOwnRequest`,
* `ArraysAreNotShared`: `Spec => []BuffersPrivate`,
* `PayloadsAreStable`: `Spec => PayloadStable`,

the last two for any number of disposals of each response and any depth of the
pool.

The inductive invariant is `Places`, the conjunction of `TypeOK`, `OnePlace` and
`Phases`.  `OnePlace` alone is not inductive: that `SetResult` completes the
source of a client that waits needs the reader's position and its local
response to agree, and that a client is answered once needs its position and
its response to agree; `Phases` says both.  `ChannelBound`,
`AnswersOwnRequest` and `BuffersPrivate` are each shown inductive relative to
`Places`.  That `BuffersPrivate` is kept is about counts: renting takes one of an
array's returns out of the pool, a disposal adds one, a second disposal takes the
array out of what the property is about, and it comes back only when nobody
refers to it and a fresh array may have its name.  `PayloadStable` follows from
`BuffersPrivate` step by step, the case that needs it being `Read`, which writes
to an array the reader has just rented.

and what the same scheduler does to the file,

* `HeaderStaysIntact`: `NoWrapAround => (Spec => []HeaderIntact)`.  The bytes of the
  header are the bytes before every write's position: `OverwriteBehind` says that
  a write changes nothing before it, `PositionBehindHeader` that an address does
  not lead there, `SurvivorsKeep` that a crash leaves what was flushed.
  `HeaderInvariant` adds to `HeaderIntact` that the file is never shorter than the
  header and that requests are the clients' templates.  `NoWrapAround` is about the
  templates: a block number from 670 on does reach the header, which is
  hazard `Address.cs:137`, so the theorem needs it and all instances have it.
* `SchedulerImplementsFileStore`: `Spec => ImplementsFileStore`.  Each action is
  shown to be a step of `FileStore` under the refinement mapping or to leave the
  mapped state alone: a call is a call (`ScheduleCalls`), the way through the
  channel is nothing (`WriteAsyncStutters`, `TryReadStutters`), the transfer is the
  operation (`ReadApplies`, `WriteApplies`), the flush makes it safe
  (`FlushMakesSafe`), the completion of the source returns
  (`SetResultReturns`), and the end of the process is a crash whoever ends it
  (`RestartCrashes`).  The invariant is `FileInvariant`: `Places`, `BuffersPrivate` -
  without it a read could change the answer of a client that has returned -,
  `FlushAsked`, that the reader flushes only for a write that asked for it, and
  that no array in use was returned twice: of other steps `ImplementsFileStore`
  asks nothing.
* `DisposingOnceImplementsFileStore`: with `MaxDisposals <= 1`, `Spec` implies the
  initial states and the steps of `FileStore` without that exception, since
  nothing is ever returned twice (`OnceStep`).  Neither theorem needs a
  hypothesis about wrapping around: the store is about the bytes a position
  leads to, whichever they are.

`RecordStorageProofs`: for any payloads, any number of records, blocks,
operations and crashes, and blocks of any length,

* `TypeCorrectness`: `Spec => [](~ torn => TypeOK)`,
* `RecordsAreReadBack`: `Spec => []RecordsReadBack`,
* `TheGoneStayGone`: `Spec => []GoneStaysGone`,
* `TheFreeListIsReadable`: `Spec => []FreeListReadable`,
* `BlocksAreOwnedOnce`: `Spec => []NoBlockOwnedTwice`,
* `BlocksDoNotLeak`: `Spec => []NoBlockLeaks`,
* `FreshIdsAreHandedOut`: `Spec => CreateHandsOutFreshIds`.

The length of a block and the part of it that is in the first sector are any
numbers, so the default of 40960 bytes is covered.  The properties themselves
say `~ torn`: they are about histories without a crash in the middle of an
exchange.  `torn` is a variable of the model that only `Crash` sets, and only if
the stream it leaves has a block of the list among the list's numbers.  The
bounds `MaxRecords`, `MaxBlocks` and `MaxCrashes` are any numbers.

None of the properties is inductive.  `IInv` is `Intact`, up to a torn exchange.
`Intact` says that there is a stream `F` to which the writes still under way lead
and at which the operation stands (`Underway`):

* `Pending`: the writes lead from the stream as it is to `F`, and every stream on
  the way is `Fine`: the list's chain ends and all its blocks but the last are
  full, every record but the one worked on reads back, what was deleted reads as
  deleted, and either the list is torn there or all of `Kept` holds: the list's
  numbers are blocks of nobody else and none is there twice (`FreeList`), no
  record shares a block with the list or another record (`Apart`).
* `Consistent`: `F` itself is `Kept`, and the operation has in hand what it needs
  (`Held`: nobody else has these blocks, and without a crash nobody is without an
  owner).
* `Settled`: what the blocks it has open contain beyond their first sector is on
  `F` already, since `Block.Write` puts it there at once and `Dispose` does not.

Of the operation `Consistent` says, about `F`, how far it is:

* `Creating`: the blocks written so far and the one it has open are a chain, whose
  content and `rest` make up the data;
* `Deleting`: what is still to be freed is a chain, and the first block of the
  record is free and deleted once the operation is past it;
* `Updating`: the blocks it has open, put into the stream, would be the record, as
  far as it is written; those behind it are still to be freed;
* `Returning`: the record reads as the data given, or its first block is free.

That a crash may come anywhere is then the case `CrashKeeps`, a few lines: the
stream as it is is `Fine`, so it is torn, which `torn` remembers (`TornStays`), or
`Kept`, and `Held` is asked for less once there was a crash.  That is where the
order of the writes matters, for instance that `MarkAsFree` writes a new tracking
block before the one that leads to it.  `Fine` is weaker than `Kept` for the sake
of the exchange alone, which tears the list for the time between its two writes
(`FineTorn`); a reader finds everything there all the same.

The proof goes from data to operations.  `ChainProofs`: a chain is defined by
recursion over the length of the stream; `LinkedChain` shows that blocks that
follow one another without a repetition are the chain, `ChainShortened` and
`ChainLengthened` what a change of one Next header does to it, `FlattenAppend`
and `FlattenPrefixes` what content is made of.  (The library's theorems about
recursive functions take operators; `Recursion` and `RecurrenceHolds` are proved
here from the least number of a set.)  `FreeListProofs`: what one write to a
tracking block, or to none, does to the free list and the records (`ListTaken`,
`ListMarked`, `ListGrown`, `ListExchanged`, `KeptAside`), and how such writes are
put one behind another (`PendingMore`), what a write beyond the sector does
before the sector follows (`PendingBeyond`, `PendingSector`), and then that `AllocateBlock` and
`MarkAsFree` keep `Kept` through all their writes (`AllocationKeeps`,
`MarkingKeeps`).  `RecordStorageProofs`: one lemma for each action, `CreateKeeps`
to `CrashKeeps`, put together in `InvNext`; then what `IInv` says of each
property.

`BTreeProofs`: for every tree without duplicate keys, whatever its least number of
entries and the entries it is given,

* `TypeCorrect`: `[]TypeOK`,
* `Shape`: `[]TreeShape`, parents and children agree and all leaves are at one
  depth, in the middle of a split or a rebalancing too,
* `Occupied`: `[]Occupancy`,
* `GetCorrect`: `[]GetFinds`,
* `Implements`: `ImplementsIndex`, the refinement of `OrderedIndex`.

Each follows from `Spec /\ ~ allowDuplicateKeys`.  The condition is needed: a tree
with duplicate keys breaks (run BTreeDuplicates).  No bound on the size of a tree
is used: `MaxEntries` is any value at all.

`TreeShape` and `Occupancy` are not inductive.  `Split` puts its middle entry where
the parent's *keys* say, so that the halves end up beside it needs the order of the
keys; `DeleteKey` finds its entry with an enumerator that starts in a leaf and
climbs; `Merge` takes the separator its place in the parent names.  `TreeInv` adds
what they rely on: for every node a height, and bounds between which its keys lie,
its children's bounds being divided by its entries (`SearchTree`), and what the
operation under way is about (`Working`, `Sized`).  The heights are also the measure
by which a descent or a climb ends, and by which the recursive definition of a
depth is unfolded (`LoopExists`, `LoopEnds`, `ByMeasure`).

`BTreeLemmas` has one lemma for each way nodes are rearranged: a split
(`SplitTree`), a merge (`MergeTree`), a new root (`GrownTree`), a root that goes
(`ShrunkTree`), an entry replaced by the one before it (`ReplacedTree`), entries of a
leaf changed (`LeafChanged`).  Each gives the new heights and bounds.  A rotation is
not one of them: it has the result of a merge that is split again one entry further
on (`LeftRotationSplits`, `RightRotationSplits`), so `RotationTree` follows from the
other two.  `BTreeProofs` shows that each action is one of these, or two: a split at
the root grows a root first and splits below it, a merge at the root merges and then
loses the root.  `InsertionArrives` and `DeleteFinds` say what the searches return.
`TreeInv` was checked on the instances of BTreeIndex before it was proved.

For the refinement each of these lemmas is doubled by one about the entries: a split,
a merge, a new root and a root that goes keep them (`SplitKeepsEntries`,
`MergeKeepsEntries`, `GrownKeepsEntries`, `ShrunkKeepsEntries`), an insertion adds one
(`InsertedIsMore`), a removal takes one away (`RemovedIsLess`, `ReplacedIsLess`).  The
last two, and that the key of a new entry is in no node (`NotFoundIsNowhere`), need
that a key is in one place of a search tree (`KeysUnique`); so does `OneOfEach`, by which
the bag `ImplementsIndex` counts is the set of entries.  `IndexNext` then maps
every step: `Insert` and `DeleteKey` to the actions of these names, all others to a
stutter.

`SearchPageProofs`: for any queries, hits and number of hits on a page,

* `TypeCorrect`: `Spec => []TypeOK`, which includes that only long queries are
  posted and only those lunr takes are answered,
* `SettledResults`: `Spec => []SettledPageIsRight`.

The inductive invariant is `IInv`.  `SettledPageIsRight` is about states in
which nothing is under way; to get there, `Latest` says of every other state
that the last message about a query, in whichever queue, or else what is shown,
is about the query in the box; `Paging` ties what is shown and the pagination to
the newest handler, `Titled` the title to the box, `ToldOnce` that the index is
announced once and only then may be queried.

Assumptions are those of the modules: sizes and widths are positive, the scopes
are bytes and a byte is no wider than a `ushort`, the templates are requests, the
null values are not values, a block has room for something, payloads are
sequences and none of them is the null value.

Only model-checked: liveness (`OperationsReturn`, `EveryRequestAnswered` and the
search page's, which rest on fairness), of `BTree` the range scans and all that concerns trees of entries with
one and the same key, and everything about the search index (RECURSIVE operators over
words and nodes).

## 5. Not modelled, and the plan

Left out for good: logging, formatting, the services (compression, encryption,
JSON), the dummy cache, the unused memory pools, `IDatabase`'s missing
operations, benchmarks and build; of the documentation site the layout of its
pages (tables of contents, tabs, breadcrumbs), `localSearch` (`new Worker` never
returns nothing, so it is never called) and what of lunr the site does not use.

`Pages` is left out for now: at this commit `SaveContent` cannot succeed.
`GetNextPageOfType` moves on to the page behind the one it found
(`DataPageManager.cs:36`), `DataPage` reads a page's header as its first
document (`DataPage.cs:31`), and a page that does not take the content is tried
for ever.  There is no working behaviour yet to state properties of.

Next, in this order:

1. `NodeManager`: the node cache and the dirty nodes over records, ids reused,
   crashes between saves; composed with the B-tree.
2. `BlockIO`: the byte ranges of `Block.Read` and `Block.Write` against a plain
   array.
3. `Sorts`: insertion sort, the sorting networks, the radix sorts against a
   reference definition over all short arrays.
4. `Pages`, once it stores a document: a page is a map of ids to contents.
5. Proofs: the range scans of a B-tree, on top of `BTreeProofs`; `Pages`.
