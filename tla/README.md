# typetown in TLA+

typetown turns a typed prefix into places. A build reads the GeoNames dump and
writes an index of nine files; a reader maps them and answers prefix queries,
from a Go program, over HTTP or in a terminal. This directory models the parts of
it whose correctness depends on a long argument, or on an order of events, and
checks and proves what can be said about them. Line numbers refer to the source
these modules were translated from.

## The system

| component | source | state | operations | talks to |
| --- | --- | --- | --- | --- |
| record and name collection | `internal/index/writer.go` 66-216, `internal/geonames` | key arena, edges (name, record, class), record offsets, prominence, country of each record, string tables | `writeRecords`, `addAltNames`, `addKey`, interning | leaves its arrays to the index writer, writes `records.bin`, `records.idx` |
| shortlist | `internal/index/hot.go` | min-heap of (record, score), record -> heap position | `add`, `min`, `drain`, `reset` | called by the index writer |
| index writer | `internal/index/writer.go` 217-578 | the sorted edges; per prefix length a shortlist and a count; posting list of the current key | `sortKeys`, `collectHot`, `writeHot`, `writeIndex` | vellum (FSTs), the files |
| index files | `writer.go`, `reader.go`, `mapping.go` | nine files; the mappings and FSTs of an open index | `Build`, `OpenWith`, `Close` | builder and reader share a directory |
| unrestricted search | `reader.go` 184-281, 391-481 | candidates kept, pool count | `gatherHot`, `gatherScan`, `rank` | reads the index |
| restricted search | `reader.go` 283-389, 453-503 | candidates kept, shortlists in use with their floors | `searchCountries`, `gatherCountryHot`, `scanCountry` | reads the index |
| Go API | `typetown.go` | a pointer to the index, cleared by `Close` | `Open`, `Search`, `Close`, `Stats` | used by the handler and the server |
| HTTP handler | `http.go` | configuration only | `ServeHTTP` | `Search`; caches in front of it |
| server | `internal/cli/serve.go` | listener, `net/http` goroutines, signal context | `runServe` | handler, `Close` on return |
| live UI | `internal/cli/live.go` | query, results, selection, height of the last frame | `run`, `handleEscape`, `search`, `draw`, `finish` | terminal, `Search` |
| name folding | `internal/geonames/normalize.go` | a pool of transformers | `Fold` | called by build and by every search |
| commands, benchmark, test index, workflows | `internal/cli`, `internal/testindex`, `.github` | none that lasts, except the published release | | |

What is hard here:

* *Samples trusted for exact answers.* A shortlist holds the best 256 records of
  a prefix under build-time scores. The caller's country, position and an exact
  match change the scores at query time, and a restricted search still promises
  "exactly the best Limit" results (`reader.go` 56-60).
* *One pass over sorted data.* `collectHot` closes prefixes as the names or the
  country change; `min` lets it skip edges; the FST refuses keys out of order.
* *An updatable heap.* Positions are kept beside a heap that moves its entries.
* *Files without a lock.* Builder and reader meet in a directory; a builder may
  stop anywhere; a mapping shows what the file holds now.
* *Shutdown.* A signal, running requests, a deadline and a deferred `Close`.
* *Shared transformers and shared answers.* Folds borrow stateful transformers from a
  pool that the garbage collector empties; answers pass through caches that know
  only what their headers say.
* *A terminal.* Where the cursor is depends on every frame before.

## The modules

| module | models | how it corresponds |
| --- | --- | --- |
| `Shortlist` | what a best-K list is | `IsShortlist`; `K` is `hotK` |
| `BestK` | the promise of `topK` | one action per offer, ties left open |
| `Retention` | the rule of `topK.add` on an abstract list | `Repeat`, `Fill`, `Reject`, `Evict` are its four branches |
| `Heap`, `TopK` | the heap with its index | `Added` = `add`, `Swap`, `Fix`, `HeapPush`, `Drain`, `BeatsMin` = the guard of `collectHot`; `container/heap` is external and modelled by its algorithm |
| `Writer` | `writeIndex` | one step per edge and pass; `HotEdge` is the body of `collectHot`'s loop, `Closed` its `flush`, `WrittenHot` is `writeHot`, `PostingEdge` the loop of the third pass; `Distinct` and `Accepted` are vellum's demand for increasing keys |
| `Build` | `Build` from the two input files to the index; `recordAt`, `decode`; the walk of `scanCountry` | one step per line: `FailRow`, `SkipRow`, `AddRecord` are the ways through `ReadDump` and the callback of `writeRecords`, `FailAlt`, `SkipAlt`, `AddAlt` those through `ReadAltNames` and `addAltNames`, the scanner's error included; `RecordsDone` writes the sentinel; `WriteIndex` is a step of `Writer`; `Met` are the keys between `KeyBytes` and `Successor`, `Found` what `Search`'s `keep` leaves of their postings |
| `Ranking` | what a query sees of an index, and `rank` | `plain`: a record's best stored score beneath the query; `exact`: the stored score of the name that is the query |
| `Restricted` | `searchCountries` | `Gather*` are the three cases of its switch, `Trust` and `Doubt` the two outcomes of the loop over shortlists |
| `Unrestricted` | `gatherHot`, `gatherScan` | `ScanPosting` keeps one posting, `Budget` is what is left of the pool |
| `IndexFiles` | `Build`, `OpenWith`, `Close` as file operations | `WriteOrder`, `OpenOrder`; `Create`, `Flush`, `Fail` for the builder, `Acquire`, `Refuse`, `Close` for the reader; `Acceptable` and `Refusable` are what opening a file may accept and may refuse |
| `Serve` | `runServe`, its requests, the shared handle | `Connect`, `Arrive` and `Drop` are `net/http`'s course of a connection; `Check`, `Enter`, `Read` are what `Search` does between two looks at the index |
| `Live` | the UI on a terminal | `ReadKey` is a turn of `run`, `ReadEnd` its two ways out when a read ends (`finish` after `io.EOF`, any other error as it is, with the frame left on the screen); `Paint` is what the escape codes of `draw` do to the screen |
| `FoldPool` | `Fold` called concurrently | `Get`, `Load`, `Take`, `Put` are a call's use of its transformer, `Collect` the garbage collector's of the pool |
| `Handler` | `ServeHTTP` for several clients, and a cache before it | `Refuse`, `Search` with the steps of `FoldPool`, `Succeed` and `Fail` are a request's course; `FromCache`, `Evict` and the choice in `Reply` are the cache |
| `MC*` | finite instances | |
| `ShortlistLemmas` | lemmas on orders, loops that end and lists that take an offer | |
| `HeapLemmas` | lemmas on `Heap`: what `Added` and `Drain` make of a heap in order | used for `TopK` and for the shortlists of `Build` |
| `SearchProofs` | theorems on `Restricted` and `Unrestricted`, and on the pages of `Ranking` that both compute | |
| `RetentionProofs`, `TopKProofs`, `BuildProofs`, `HandlerProofs` | theorems on the module in the name | |
| `LifecycleProofs` | theorems on `IndexFiles`, `Serve` and `Live` | |

`TopK` implements `Retention`, which implements `BestK` (both proved).
`Handler` implements `FoldPool` (proved): what its clients do to the pool is what
callers of `Fold` may do.
`Build` extends `Writer`, which is built on `Heap`, and its shortlists are compared
with `IsShortlist`;
`Restricted` and `Unrestricted` start from any index whose shortlists are
`IsShortlist` of what a walk would find. That is the interface between build and query,
and `ListsMatchWalks` says of the index that `Build` writes, walked by the reader's code,
that it is met.

### Abstractions

* Scores are integers. Prominences are floats and stored scores hundredths, cut
  towards zero; `Writer` (`Fixed`) keeps that cut. Query-time sums are exact here,
  while the code adds floats: whether rounding could separate a ceiling from a
  score that equals it is outside the model.
* Countries and, within one, names other than the query are taken in any order.
  The code's order (manifest, bytes) has no relation to scores, so each order is
  one the code can meet.
* A query sees only records with a name beneath it. For the pool, a record has at
  most one name beneath the query besides the query itself.
* `Restricted` and `Unrestricted` leave out errors from damaged files.
* The reader's `hotK` is `HotK` and the builder's is `K`. Nothing in `OpenWith`
  compares them; exactness needs `HotK <= K` (`HotKAssumption`), as between a
  reader and an index of one release.
* In `Build` a line is what its columns say, a spelling is a value with its folded
  bytes, and a record is as many cells as it has bytes, so that extents and offsets
  are real while varints and coordinates are left out. Record offsets have a width;
  the offsets of keys in the builder's arena, of the same width, do not. A build
  without alternate names has a file without lines. Where a file cannot be read on its
  line is *lost*: longer than the scanner's buffer of 1 MiB (`altnames.go` 73,
  `dump.go` 87), in damaged compressed data, or in a file that cannot be opened. The
  scanner hands out what a failing read had of a line before it reports the error; that
  is a line of its own. Errors in writing the index and in `LoadTables` are
  left out here: `IndexFiles` lets a build stop anywhere. The walk in `Build` is that of a restricted search: without
  budget, and the scores it finds are the stored ones, to which `Restricted` and
  `Unrestricted` add the bonuses.
* In `Handler` the body of an answer is what the search was asked: two bodies are
  equal when the answers have to be. The cache is any that obeys the headers: it
  may keep what `Cache-Control` allows, tells requests apart by method, URL and what
  `Vary` names, and forgets when it likes.
* In `IndexFiles` a file is the build that wrote it and whether it is whole. An FST cut
  short may be opened or refused, since `vellum.Open` looks at its header and size only.
* In `Serve` time is the set `Overdue` of requests that are not over five seconds after
  a stop has begun. Timers are exact: a connection made before the stop has brought its
  request, or is closed by `ReadHeaderTimeout` (`serve.go` 88), when `Shutdown`'s deadline
  of as many seconds passes. A connection is of one request; that `net/http` may close
  an idle one just as the next request comes is left out.
* In `Live` a query fits in one row; wording and colours are left out.

## What is checked

| run | configuration | shows |
| --- | --- | --- |
| `topk` | `TopK.cfg` | positions and heap order survive every motion; the heap refines `Retention` and keeps the best K of everything offered, through repeats, ties and evictions; the guard on `min` loses nothing |
| `writer` | `Build.cfg` | every record reads back as it was given; `names.fst` lists exactly the names of the places kept, whichever lines are odd; exactly the hot prefixes get lists, the lists are right, and every FST accepts its keys; a walk beneath a prefix finds exactly the places with a name there, and a shortlist is the best of what the walk finds; a build fails for a row it cannot make out, a file it cannot read to its end or a country too many, never reaches the index with one of these, and fails for nothing else |
| `restricted` | `Restricted.cfg` | a restricted search is exact whichever lists it trusts |
| `unrestricted` | `Unrestricted.cfg` | a walk within the pool is exact; a sample keeps off the page only what its own country and nearness bonus would have put there; no score is overstated |
| `index_files` | `IndexFiles.cfg` | what opens is one whole build, however builds fail and whenever readers open, while builds write new directories |
| `serve` | `Serve.cfg` | a stop harms no request that ends in time, and ends the process |
| `handler` | `Handler.cfg` | each client gets the answer to its own query, whoever folds beside it and whatever the cache holds, up to the country a header told; failures are not remembered; no answer names another's origin |
| `live` | `Live.cfg` | the screen shows the state and is left clean unless reading fails, Enter writes what is highlighted, a hangup ends the UI |
| `live_climb` | `LiveClimbs.cfg` | finding: repaints climb the screen; the one after the first key erases a row of the shell's |
| `live_escape` | `LiveEscapes.cfg` | finding: the tail of a long escape sequence is typed |
| `serve_close` | `ServeCloses.cfg` | finding: the index closes under running searches when the deadline passes |
| `heap_snapshot` | `IndexFilesHeap.cfg` | finding: with `NoMmap` the FSTs are mapped all the same |

The bounds, and why they reach the interesting cases:

* `TopK`: five ordinals for a list of four, heaps deep enough to sift both ways,
  scores with ties.
* `Build`: two families of files. *Names*: three places, two with any of five
  spellings and either of two countries, and an alternate name for any of them;
  spellings share prefixes, one is longer than `MaxPrefixLen`; threshold 2, lists
  of 2, so lists fill and overflow; raw scores fall together when stored, and some
  are negative. *Odd*: four rows, one of them any of nineteen (lost, malformed, filtered
  out, repeating an id, without a region, with a third country when there is room
  for two, folding to nothing, too long), and two lines of alternate names, each any
  of fourteen, the lost one among them. Offsets wrap at 10; four records of 2 to 4 cells stay below that or
  pass it. Queries: every name of these, and two strings that are no name, one of them
  inside a branch of the names and one past their end.
* `Handler`: two clients, two transformers, fourteen requests (two texts, one of
  them malformed; countries in capitals and not; the same query from two countries and two origins; ones refused
  for each reason), four configurations (with and without CORS, home header and
  caching; a default limit above the maximum), a cache of one entry. Clients and
  transformers are interchangeable, hence the symmetry.
* `Restricted`: four records, two or three in country 1 and the rest in country 2,
  pages and lists of two: one or two full lists, spare lists, no list; pages not
  filled. With scores 0 and 2 and bonuses
  of 1, sums tie at the cut-off, and an exact match can score above or below the
  record's own longer name. At most one exact match and one record near the
  caller; the theorem has no such bounds.
* `Unrestricted`: three records, up to two exact matches, a pool of three that
  some walks fit and others exceed, within a country and between two.
* `IndexFiles`: three builds into three directories, one by a release of another
  format, all with the same number of records, so the check on the length of
  `records.idx` never helps.
* `Serve`: two requests that end in time and two that do not.
* `Live`: three keys, any of which may arrive in parts, on three rows with the prompt
  on the last, so frames scroll, those of two and three rows fit and one of four does
  not. The two findings use five rows with the prompt on the third.

### Fairness

Two runs check liveness. `Serve` assumes that the runtime schedules `runServe` and
each request that is not overdue, and that the five-second timer fires: weak
fairness of `Serve` and of `Handle(r)` for `r` not in `Overdue`. `ReadHeaderTimeout`
closes a connection that stays silent: weak fairness of `Drop(r)`. Nothing is
assumed of overdue requests, signals or arrivals; so "a signal is followed by
exit" rests on the deadline. `Live` assumes that the loop takes its next step when
there is one; the user owes nothing. The other modules state safety only: they are
sequential computations without waiting, and a loop over finite data ends.

### Findings

1. `live.go` 188-190 against 178-180: `draw` returns the cursor to the prompt row
   and the next `draw` climbs from there as if it were on the last row. The trace draws
   two frames: the first on the row the shell left the cursor on, the second, after one
   key, a row higher, over what the shell had written there. `finish` (line 235) climbs
   the same way.
2. `live.go` 141-142: one byte of an unknown escape sequence is swallowed, the
   rest is typed.
3. `serve.go` 110 and 59 against `typetown.go` 55: after the deadline `Close` runs
   while searches do. (It also does when `Accept` fails for good, line 100-105;
   the property leaves that case out.)
4. `reader.go` 117-125 against `typetown.go` 37-39: `NoMmap` does not reach the
   FSTs.

## What is proved

All theorems hold for every value of the constants within their named
assumptions. The proofs are checked by TLAPS to the last leaf.

* `RestrictedIsExact` (`SearchProofs`): a finished restricted search answers
  `Ideal(asked)`, for any set of records, countries, scores, bonuses, `Limit` and
  `K`. The assumptions: finitely many records, numbered; integer scores; natural
  bonuses; positive `Limit` and `K`. "The answer is exact" says nothing about a
  search under way, so the invariant follows each record instead. A record of a
  country already gathered is *known* (kept at its full score), or was left off a
  full shortlist and is *floored* (its best stored name scores no more than the
  floor), and once a list has been trusted its unknown records are *outranked*:
  their full score is below that of every record on the page. Lemmas on `Ranking` then show that a page
  computed from the known records is the page of all of them when whatever is
  unknown or undervalued lies below the page (`TopIsLong`: the page is as long as
  it can be; `SameTop`: two score functions that agree on it have the same page).
  That an exact match missing from a list may be kept at less than its full score
  is why *outranked* speaks of full scores, and why the walk re-ranks.
* `RetentionKeepsTheBest`, `RetentionImplementsBestK` (`RetentionProofs`): the
  rule of `topK.add` keeps a best-K list for every `K`. The invariant adds to
  `IsShortlist` that scores are in range and domains are finite; `CheapestExists`
  (`ShortlistLemmas`) supplies the entry to evict.
* `TopKKeepsTheBest`, `TopKFollowsRetention`, `TopKPosIsInverse`, `TopKHeapOrder`,
  `TopKDrainsBestFirst` (`TopKProofs`, on `HeapLemmas`): for every `K`. The inductive invariant is that
  the index and the entries tell the same list (`Lists`), that the heap is ordered
  (`Heaped`) and that the list is a best-K list. The sifts are loops: `Turns` runs a
  turn as often as there are positions, and `LoopEnds` shows that a turn which
  keeps an invariant and lessens a measure reaches a turn with nothing to do. The
  invariant of the loop is a heap in order except above (`Rising`) or below
  (`Sinking`) one entry; where a turn has nothing to do, it is in order there
  too. `Fix` runs both, and is right because a heap that `Down` leaves alone
  can be out of order only above. That an offer ends in the list `Retention`
  would keep (`Takes`) gives the refinement, action by action.
* `BuildRecordsReadBack`, `BuildFailsForCause` (`BuildProofs`): for any two files,
  with record offsets of any width. The invariant `Collected` says that each string
  table holds a string once, so that the index `intern*` returned still finds it when
  the table has grown (`Reads`, `ReadsKept`); that as many offsets were written as
  places read (`Packed`); and that the cells between an offset and the next are the
  encoding of the place with that ordinal (`StandsAt`) as long as `records.bin` is shorter
  than `Width`, beyond which an offset wraps. The sentinel closes the last record. For
  the failures it says that every entry of the country table is the country of a
  place in the dump, so that more entries than `MaxCountries` are as many countries
  (`Blamed`). `BuildFailsForCause` has a second half: no build gets to the index with a cause in
  its files. No line read so far is one that ends a build (`Clean`), and each place has a
  country by one of the `MaxCountries` numbers (`CountriesFit`, from `Linked`), so there
  are no more countries than that.
* `ServeOthersFinish` (`LifecycleProofs`): for any number of requests, also those that come
  during the shutdown on connections made before. The invariant
  adds that the index is closed only after `runServe` has left its select, and that once
  it has, only overdue requests run and no connection can bring another.
* `UnrestrictedWalkIsExact`, `UnrestrictedLossIsBounded`,
  `UnrestrictedNeverOverstates` (`SearchProofs`): for any records, scores,
  `Pool`, `K` and `Limit`. `WalkExact` is a counting argument: the postings seen are
  a subset of all those beneath the query, as many as the pool has used; if all fit
  the pool and the search stopped, there are none left, and every record has been
  kept at its best. The invariant therefore names the postings seen (`Seen`), counts
  them (`Walking`) and says that each was kept. For a shortlist it says that every
  listed record is kept at no less than its listed score, and every exact match of a
  country already looked up with its bonus (`Listing`); what is off the page is
  then off the list, or on it and beaten (`OutrankedIsCut`, `TopIsShort`).
* `OpenedIsOneBuild` (`LifecycleProofs`): for any number of builds and
  directories, assuming `InPlace = FALSE`. The manifest is written last and read
  first. The invariant follows the running build stage by stage (`Progress`), says
  that a directory with a whole manifest is a whole index (`Complete`) and that what
  a reader has is what the directory it opened holds (`Faithful`).
* `HandlerAnswersOwn`, `HandlerNoOtherOrigin`, `HandlerFailuresPass`,
  `HandlerFoldsOwn`, `FoldIsSafe` (`HandlerProofs`): for any clients, requests,
  options and cache. A transformer in a call's hands is in no other call's and not in
  the pool, and holds that call's text once loaded. Every cached answer is the
  handler's to the request it is filed under (`Cached`, `Fits`), so what can differ
  between the request that filled the cache and the one it serves is the home header
  and the origin; an answer that names an origin varies by it.
* Type correctness of `TopK`, `Retention`, `Restricted`, `Unrestricted`, `IndexFiles`
  (in place or not), `Serve` and `Handler`. That of `Handler` includes that no answer is
  longer than the configured maximum or default (which of the two may be the larger) and that
  the cache keeps to its room.

* `BuildNeverRefused`, `BuildHotPrefixesExact`, `BuildPostingsRight` (`BuildProofs`): for
  any edges the two files yield, any threshold and any longest prefix. The order of byte
  strings is taken apart into where two names agree and where they split
  (`BeforeSplits`); with it `sortKeys`' comparison is a strict order, and placing each edge
  by how many come before it sorts (`KeysSort`). In sorted edges those that share a prefix
  stand together (`SharingIsContiguous`), so when `collectHot` closes a prefix it has seen
  every edge beneath it and meets none later: `HotInv` says which hot prefixes are out,
  and that a level's counter is the number of names so far beneath the prefix the last
  edge has there. Edges at one key stand together as well, the best first, so keeping
  the first edge of a record keeps its best (`PostingsAt`), and a key handed to vellum
  comes after all keys before it (`FlushCompletes`).

* `BuildShortlistsRight` (`BuildProofs`): for the same builds and any `K`. `ListInv` adds
  to `HotInv` that the heap of each level of the last edge is a best-K list, under raw
  scores, of the edges so far beneath its prefix (`ListAt`). An edge that is not
  offered, because it scores no more than the least of a full list, would not have been
  taken (`OfferRight`); an edge that starts a prefix finds an empty heap, since the flush
  before it reset the level (`ListTakes`). When a level is closed no edge beneath its
  prefix is left, and a list that is best under raw scores is best under the scores
  that are stored, since `Fixed` is monotone (`DrainLists`, `LevelRight`).
* Type correctness of `Build` (`BuildTypeCorrect`). The assumptions on the constants that
  it needs are that ordinals exist for the lines of the dump and that every prominence, less
  every penalty, is a score. That the posting lists are no more than the edges is a count:
  each edge ends at most one (`Bounded`).

* `BuildPlacesFound` (`BuildProofs`): for any two files, what `names.fst` lists is what
  their lines say. `Linked` follows the collection line by line. The edges are exactly
  those of the places read by the names read (`EdgesLinked`). The record of a place has
  its country and its prominence (`RecordsLinked`). An id stands for the last place read
  that has it, so that is the one place an alternate name goes to (`IdsLinked`).
  Distinct places have distinct ordinals (`OrdinalsDiffer`), so the edges of a record at
  a key are those of one place (`KeyForEdge`), and the best of their scores is that of the
  best class among its names that fold to the key (`BestOfPlace`). With `Indexed`, which
  says that each list is its edges' best, this gives both inclusions (`FoundIsSaid`,
  `SaidIsFound`).

* `BuildWalksFind`, `BuildListsMatchWalks` (`BuildProofs`): for any files, names, number
  of countries and query, and any `K` and threshold. The proof follows the reader from its
  bounds to what it answers. The strings from one to its `Successor` are those that begin
  with it (`RangeIsPrefix`, from `BeforeSplits`), also where bytes of 0xff carry into the
  country. A key begins with another exactly when the country is the same and the name begins
  so (`KeysBegin`), since two bytes tell 2^16 countries apart. So the keys met are those of the
  names beneath the query (`MetKeys`). The best score kept for a record is that of its
  edges (`FoundIs`), and these are the names of its place (`BestByNames`, `CountriesAre`):
  `WalkRight`. The shortlists are best-K lists of the same edges (`BuildShortlistsRight`),
  hence of what the walk finds (`ListedWalks`). The assumption added is `KeyAssumption`: a
  name is of bytes, and `MaxCountries` is at most 2^16.
* `LiveScreenMatches`, `LiveAcceptsWhatIsShown`, `LiveTypeCorrect` (`LifecycleProofs`):
  for a terminal of any height, the cursor on any row of it, any number of results, and
  the bytes of keys cut anywhere. `ScreenMatches` speaks of one
  frame, and the next one is painted over it from a row that depends on its height. The
  invariant `LiveInv` therefore says what the whole screen holds: above the cursor rows of
  the shell's only; from the cursor on the frame, or as much of its end as fits;
  below it nothing (`Shows`); after a read that failed the frame is still there (`Up`). Each `Paint` from wherever `draw` climbs to makes that so
  again (`PaintShows`), through three cases: the frame fits, it scrolls the screen, it is
  taller than the screen. `AcceptsWhatIsShown` leaves out a selected row that has been
  scrolled off: on a terminal lower than the frame Enter may write a result nobody sees.
* `HangupShortens` (`LifecycleProofs`): after a hangup every step of the UI uses up a
  byte, or a state, that no later one gives back (`Remaining`), so no key is asked for
  twice. It is the part of `HangupEnds` that does not need fairness.

Only model-checked: the two liveness properties (`HangupEnds` and `SignalExits`), since
liveness under fairness is beyond what TLAPS does here. Every other property of the
passing runs is the statement of a theorem.

## Where code and comments differ, without a run

Met while modelling; each is either a matter of wording or outside what a property
here can say.

* `http.go` 69-71 says that "caching answers is safe until it is replaced". With
  `WithHomeHeader` an answer depends on a request header that no `Vary` names, so a
  shared cache may serve one country's answer to another. `AnswersOwn` states
  exactly this exception, and the theorem shows that there is no other.
* `http.go` 247-249: an origin that is not allowed gets an answer without `Vary`.
  From a cache an allowed origin may then get an answer without its CORS header,
  which its browser refuses.
* `http.go` 187: `NaN` passes the checks whose message promises "a number between
  -90 and 90".
* `typetown.go` 83-84 and `http.go` 175-176 say that of country and position
  "whichever helps more" counts, `reader.go` 48 that the position supersedes the
  country; `rank` adds the two, as `score.go` explains and `Ranking` models.
* `http.go` 224: the header's `XX`, for no country, is compared before it is upper-cased, so
  `xx` becomes a home country `XX`, which no place has. `HomeFor` follows the code.
* `http.go` 31-33: the default limit may exceed the maximum, which only what a
  request asks for is held against.

## Not modelled

* Parsing: what the columns of a line are, and the two small tables of `admin.go`
  (`Tables.Region` is in `Build`). No state beyond the line.
* `Prominence`, `nearness` and `distanceKm` (floating-point formulas): `Build` takes
  the first as a table, the searches use only that a nearness bonus lies between 0
  and `NearBonus`.
* Corrupt index files, on which a search returns an error.
* The other commands (flag parsing and printing), the benchmark (a measuring tool),
  the test index (fixtures): nothing outlasts a call and nothing interleaves.
* The release workflows. The one order of events that matters, the replacement of
  the published assets, happens inside GitHub's release tool.

`PROJECT.json` lists each with its reason.

## Plan

Done: everything above.

What would come next: `Restricted` and `Unrestricted` as instances over the index that
`Build` writes. `ListsMatchWalks` proves the interface; what is left is to put the
query-time bonuses on top of `Found` and to state the exact search of the files' places.
