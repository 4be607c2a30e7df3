# The search engine in TLA+

Specifications, model-checking configurations and machine-checked proofs for the
crawler, its HTTP client, robots rules and page store, the index builder and the
files under it, and the parsers of this repository. Paths below are relative to the repository root.

## 1. The system

The program is a small web search engine: a multi-threaded crawler stores pages
in large backing files, an index builder turns parsed documents into posting
lists on disk, and a query parser is in preparation.

| Component | Code | State it keeps | Operations |
|---|---|---|---|
| Thread queue | `include/threading.h` | a deque, the threads asleep on its condition variable | `push` of one URL, of a vector, of a range; `pop` |
| Crawler | `src/crawler.cpp`, `src/main.cpp` | the frontier, `lastHitHost`, `waitingForRobots`, `killFilter`, `keep_running` | `stub` (the workers' loop), `print`, the signal handler |
| HTTP client | `src/http.cpp`, `src/httpRequest.cpp` | a socket and a growing buffer for each call; it changes the crawler's state, the robots files and the page store | `SubmitURLSync`, `process`, `resolveRelativeUrl` |
| Directory rules | `src/DirectoryRules.cpp`, `src/DomainRules.cpp` | one tree of verdicts for each domain | `AddRule`, `IsAllowed`, save and load |
| Robots store | `src/RobotsTxt.cpp`, `include/LRUCacheCrawler.hpp` | an LRU cache of domains, their serialized trees on disk | `SubmitRobotsTxt`, `GetRule` |
| Page store | `src/Stream.cpp`, `src/File.cpp` | mapped backing files, the table from names to offsets | `File::File`, `find`, `read`, start of the process |
| Index pipeline | `src/index.cpp` | the document queue, locations and ids, `urlMap`, `metaMap`, `currentWriteDocId`, `emptyQueue` | `reader`, `writerDriver` |
| Word queue | `src/PriorityQueue.cpp` | a heap of words with locations, the map from words to heap indices | `insert`, `top`, `pop` |
| Postings store | `src/Postings.cpp` | blocks and sub-blocks of the index file, two hash maps, open and last-used marks | `AddPostings`, `GetPostingList` |
| Posting list | `src/PostingList.cpp`, `src/ISR.cpp`, `src/Utf8Numbers.cpp` | deltas and a seek index | `AddPosting`, `Split`, `UpdateInPlace`, `GetPosting` |
| Persistent hash map | `include/PersistentHashMap.h` | buckets, filled and ghost bits, in mapped files | `insert`, `erase`, `at`, `operator[]`, growth |
| HTML parser | `src/Parser.cpp` | a position in a page, the document it builds | `parse_html`, `parse_url` |
| Robots parser | `src/TokenStream.cpp`, `src/DomainRules.cpp` | a list of pages of a file, a lexeme in it | `MatchNextKeyword`, `MatchPath`, `ReadNextRule` |
| Query language | `src/query_parser.cpp`, `src/query_tokenstream.cpp` | a position in the query | `Parse`, by recursive descent |

How they interact:

- `Crawler::stub` takes a URL from the frontier and calls `SubmitURLSync`, which
  pushes what it finds back on the frontier, stores the page (`File`), or writes
  a robots file, submits it to `RobotsTxt` and releases the host's parked URLs.
  The shared state is guarded piecewise: the queue's mutex, `domainMutex`,
  `waitingForRobotsLock`, the lock of `RobotsTxt`, `fs.m`. Every check is
  therefore separated from the action it is a check for.
- `RobotsTxt` keeps one `DomainRules` for each domain, each a `DirectoryRules`
  tree.
- `Index::reader` threads take documents, insert words into the `PriorityQueue`
  in the order of the document ids, and wake the `writerDriver` threads, which
  hand each word to `Postings::AddPostings`. `Postings` finds a word's
  sub-block through two `PersistentHashMap`s, and writes lists of differences
  as variable-length numbers through `OutputByteStream`.
- The parsers stand between: a robots.txt becomes the rules of a domain, a page
  the links of the frontier and the words of a document.

What is hard about it: wakeups that get lost or come too early (one signal for a
batch, a flag tested without its lock, a broadcast before the change it
announces), checks that are stale when acted upon, a retry loop through the
frontier, memory read without the lock under which it was found, restarts, redundant
state (verdicts copied into nodes, indices kept in a map, two maps over the
sub-blocks) that every update must keep in step, files that must read back what
was written, and scans whose position goes back or over a boundary.

What makes each part correct, in a line:

| Part | Properties |
|---|---|
| Crawler | no URL is lost, none waits while everyone sleeps, every one is submitted in the end |
| Exchange | nothing behind the buffer, no socket left open, whole answers are stored whole |
| Links | a relative path is walked as its segments say |
| Robots | a rule in the file governs what is below it, in memory and after it was saved; the cache's order leads to rules that live, and the files agree with them |
| Page store | what a reader gets is the first version of a page, or nothing |
| Index pipeline | documents in order, no word forgotten in the queue |
| Postings | every word keeps exactly its postings; no list is larger than its place; a search finds what is there |
| Hash map | a key that was put in is found, and counted once |
| Numbers | what is written is what is read |
| HTML, urls, queries | every word once, in order, with its type; the scan ends |

## 2. Modules

| Module | Models | Runs and proofs |
|---|---|---|
| `ThreadQueue` | `ThreadQueue<T>`: pushes, `pop`, `pthread_cond_signal` | instantiated by `Crawler` |
| `Crawler` | `stub`, `print`, the signal handler, `SubmitURLSync` | `MCCrawler`, `CrawlerProofs` |
| `Directories` | which directories lie on which path (constants only) | |
| `RobotsRules` | the promise of a domain's rules: the nearest one decides | implemented by `DirectoryRules` |
| `DirectoryRules` | the tree of nodes with copied verdicts | `MCDirectoryRules`, `MCRobots`, `RobotsProofs` |
| `PageMap` | the promise of the page store | implemented by `PageStore` |
| `PageStore` | `Stream`, `FileSystem`, `File` | `MCPageStore`, `MCPages`, `PageStoreProofs` |
| `HttpExchange` | the sockets, receive loop and buffer of `SubmitURLSync` | `MCPages`, `HttpExchangeProofs` |
| `RelativeUrls` | `resolveRelativeUrl` | `MCPages` |
| `HtmlParser`, `UrlWords` | `parse_html`, `parse_url` | `MCPages` |
| `TokenStream` | the paged reader of a robots.txt | extended by `RobotsParser` |
| `RobotsParser` | `FindUserAgentRules`, `ReadNextRule`, and the rules line by line as a reference | `MCRobots` |
| `RulesFile` | a tree of rules written to a file and read back | extends `DirectoryRules`; `MCRobots` |
| `RobotsStore` | `RobotsTxt`, `LRUCacheCrawler`, the rules' files | `MCRobots`, `RobotsProofs` |
| `Utf8Numbers` | `OutputByteStream`, `Utf8Uint`, `PairUtf8Uint` | `MCIndexStore` |
| `PostingList` | `PostingList`, as operators from list to list | extended by `Postings` |
| `Postings` | `Postings`, and `IsrWord` as its reader | `MCIndexStore`, `PostingsProofs` |
| `PersistentHashMap` | the map over its buckets and bits | `MCIndexStore`, `IndexStoreProofs` |
| `QueryParser` | `TokenStream` and `Parser` of the queries | `MCIndexStore` |
| `PriorityQueue` | the heap and its map, as operators from queue to queue | extended by `IndexPipeline` |
| `IndexPipeline` | `Index::reader`, `Index::writerDriver` | `MCIndexPipeline`, `IndexPipelineProofs` |
| `Recursion` | nothing: lemmas about functions defined by recursion over numbers, for the proofs | |

### ThreadQueue and Crawler

A method of the queue holds its mutex from end to end, so it is one step; `pop`
of an empty queue is a step that falls asleep. A thread that has been woken is
just a thread in `pop` that is not asleep: it re-tests the queue like one that
has arrived by itself, so spurious wakeups cost one action.

A worker is at one of fifteen labels. Between two of them lies one critical
section, one system call or one access to the page store:

| Label | Code |
|---|---|
| `loop`, `pop`, `filter` | the loop condition, `readyQueue.pop`, `havePage` and `goodExtension` |
| `haveRobots`, `requeue`, `park` | `stat` of the robots file, `push`, the critical section of `waitingForRobotsLock` |
| `timer`, `putBack` | the critical section of `domainMutex`, `push` |
| `request` | a call of `SubmitURLSync` up to its answer: failure, silent return, redirect, or a body |
| `pageBody`, `store` | `process` pushes the links, `File` stores the page |
| `robotsBody`, `takeParked`, `pushParked` | the robots file is written, the host's set is taken under its lock, and pushed |

A URL is a host and a path-and-query. `uri()` replaces every query by the word
`query`, so it is the function `UriPath` on paths and not the identity: the
parked form of a URL differs from the URL. Hosts may have a `www.` twin, whose
robots file counts. `lastHitHost` is a clock per host, in ticks, that stops one
past the wait. The network is free: a request fails, is abandoned, is answered,
or is redirected to any URL of `Web`.

### Directory rules

`FindOrCreateChild` creates every missing node on the way to a directory and
gives each the verdict of its parent; `SetAllowed` writes a verdict into the
subtree and stops at nodes with rules of their own. Both happen inside
`AddRule`, the first also inside `IsAllowed`, so questions change the tree.
Paths are never taken apart in the model: `Above[d]` is the set of directories
on the path of `d`. Rules longer than a path, wildcards and the parser are
outside of it, as they are outside of the code.

### Page store

A backing file is a function from positions to cells, a record is a sequence of
cells, and offsets are numbers that `write` computes and `read` decodes, so an
error in the arithmetic or an overwritten byte shows. `sizeof(size_t)` and
`sizeof(BackingFile)`, equal in the code, are one cell each. `File::File` is one
step (it holds `fs.m` throughout); a lookup is three: `find` under the lock, the
rest of `find` without it, and `read`. `Restart` kills the process at any time
and runs both constructors on what the mapped files hold, through the same
branches as the code. A crash inside `File::File` is not modelled: recovery
resets `fileSize` and parses only the first record, so such a crash differs from
one before or after the call only if it cuts that very record. When the
directory is missing, the constructor reads an uninitialized `struct stat`: the
model takes either branch. `totalSize`, which is only printed, and `File::name`
are left out.

### Word queue and index pipeline

`PriorityQueue` translates `insert`, `pop`, `up` and `down`; the swaps of `up`
and `down` are one rotation along the path the entry takes (`Carry`), with the
map following. Three of the code's oddities are kept: a new entry's count is
arbitrary (`numWords` is not initialized), counts wrap, and popping the last
entry leaves its word in the map, so that a later insertion of that word goes
to the root's entry or, in an empty heap, into the object that was popped.
Whether that object still exists depends on the writer: `SpillInto` adds the
locations to the entry the writer still holds or drops them.

In `IndexPipeline` a reader has ten labels and a writer three. `pQueueLock` is
held by a step, except between setting `emptyQueue` and sleeping, where the
reader's unlocked test can come in between: that is the label `wait`, and
`PQueueLockFree` guards the other users of the lock. Locations are computed as
the code does, with the reservation (`DocSize`) that leaves out the words of the
url.

### HTTP exchange and links

`HttpExchange` follows one call of `SubmitURLSync`, with the calls it makes of
itself for redirects, from the addresses of a host to an outcome. Bytes are
counted: a server announces a length, sends an amount, and closes or falls
silent; each `recv` returns part of what has come, 0, or a timeout. `ReadAll` is
the loop inside `SecureSocket::recv`, whose count goes down by one at a timeout,
because -1 is added to it. A redirect is recognised by `str[9] == 3`, the number
and not the digit, where the content type is checked, so that check applies to
no redirect. `sockets` counts the descriptors that are open and those that a
destructor will close.

`RelativeUrls` is the resolution of a link as a function on strings of slashes,
dots and letters, step by step as the code has it: the last slash of the whole
URI and not of the path, the removal of a final dot that never happens, and the
loop that does not end for `/../` at the start (the value `Forever`).

### Robots files

`TokenStream` is the reader with its pages: the list of them, of which `AddPage` reads
one more or goes back to one read before, the iterators `front` and `back`, `peekIndex` and
`lastIndex`. `DecrementPeek` takes `back` to the page before, consuming a lexeme deletes the
pages in front of it, and a character of a page that was deleted is garbage, so that a
page dropped too early or gone back to too late shows in the rules. `RobotsParser` is the two
functions over it, and beside them the rules as one would read them off the lines.
`RulesAreRead` compares the two; of a path that starts a page, which the code copies from the
page before (section 4), it asks only that it is there and how long it is.
`RulesFile` takes the nodes of a tree in the order of `GetVectorizedRules`, with
the children of a node as indices written in digits, and back. `RobotsStore`
has the cache, its queue, the files and the `DomainRules` that were deleted, and
names each `DomainRules` by the number of its submission. `EvictLRU` erases through a
pointer into the list node it has just freed, and the model has both outcomes: the key is
still there to be read, or it is not, and the domain stays in the cache with rules that were
deleted and a place that leads to a freed node. When such a domain is used again the node is
another domain's by now, which then loses its place, or the process dies, which is
`Restart`. A submission holds the lock in two steps, into the cache and onto the disk.
`GetRule` takes no lock; it has no caller in the program, and the model makes the call
while no submission is under way, as the tests do.

### HTML, urls and queries

`HtmlParser` and `UrlWords` are the scans as recursive operators from a position
and a document to the next. A symbol stands for each character that a test tells
apart; longer strings that are only compared (`href=`, `title`) are one symbol.
`QueryParser` keeps the position and the flag `match_and`, which `Match` sets, every level
of the descent shares, and a list resets only when the term behind its `&` has been parsed;
and what each term prints.

### The index on disk

`Utf8Numbers` has the streams of bits and bytes with `Bits` bits to a byte: the
preamble in unary, the rest of the number behind it, and pairs that spend a bit
on whether they are one. With 4 bits every boundary between widths lies below
2^16; every step of the code that mentions 7, 8 or 127 is in terms of `Bits`.

`PostingList` and `Postings` abstract the bytes of numbers to sizes: a
difference takes `DeltaSize`, an index entry `EntrySize`. Sub-blocks are taken
from the open one of their size, given back by moving the last used one into the
hole, and the two maps are updated as the code does: `insert` keeps an old
entry, `at` of a missing key dies (`died`). `misled` is true once a list that
moved was taken for another word's, which the old entries make possible; the
properties speak of the time before. A word that is looked up before it has a
list gets one (`guessed`).

`PersistentHashMap` has the buckets, the two bits, probing in two scans, and
growth with its ghosts. Its promises end early. A probe finds a key that is there until the
first erase, which cuts the way to the buckets behind it. But what it
finds is the key's live bucket only until the first growth (at the 46th key in the code,
whose maps start with 64 buckets): from then on it may stop at the ghost the key left
behind, whose dereference asserts (`hash_map_ghosts`, whose property asks for a live bucket after
an erase, too), whose value `at` and `operator[]`
use instead, and which another key's insertion may take, so that the older value of the
moved bucket is back. `Postings` takes its maps for ideal maps. That is right up to the first
growth or erase, whichever comes first, and an idealisation beyond: what is checked and proved
of `Postings` is what its own code keeps, given maps that work.

## 3. Runs

| Run | Instance | Result | What it shows |
|---|---|---|---|
| `crawler_safety` | 2 workers, 2 hosts (one the `www.` twin), 3 URLs, 1 link, 1 redirect | holds, 766k states | the frontier never stalls; parked URLs have copies and a fetch under way |
| `crawler_liveness` | 2 workers, 2 URLs of one host, 1 link | holds, 127k states | but for fetches that never end: every URL is submitted or dropped for a reason, awake workers exit, and some worker notices the stop |
| `crawler_shutdown` | as above, one URL | violated | a worker sleeps through the shutdown |
| `crawler_duplicates` | as above, one URL | violated | a stored page is stored again |
| `robots_saved_rules` | the store alone | violated | rules that were saved are not found |
| `page_store` | servers with bodies of 4 bytes and a buffer of 3; links of 5 characters; pages of 3 pieces; urls of 4 parts; 2 files of 9 cells, 2 names, 1 reader, 1 restart | holds, 466k states | buffers, sockets, whole answers, links, words; whole pages, first versions, and what a restart damages; `PageMap` is implemented |
| `page_restart` | 2 files of 9 cells, 2 names | violated | a stored page is gone after a restart |
| `index_pipeline` | 2 readers, 2 writers, 3 documents, 4 words, counts of 0 and 1 | holds, 727k states | order of documents, no sleeping writers, heap and map agree |
| `index_turn` | 3 documents with nothing but their end | violated | a reader is woken before its turn and never again |
| `rules_and_stores` | texts of 3 lines, and of 4 behind a line that names the agent, on pages of 5 characters; 6 directories on three levels; 2 threads, 3 domains, a cache of 2; numbers up to 2^16 in 4-bit bytes; 3 words, sub-blocks of 8, 16 and 32, postings up to 6; 4 keys from 2 buckets on; queries of 5 symbols or 7 tokens | holds, 121k states | the rules of a text are read, the nearest one governs, trees survive their file, the cache's order leads to live rules and the files agree with it, `RobotsRules` is implemented; numbers, lists, searches, the hash map, queries |
| `index_word_index` | the lists alone | violated | the word index names the word that had the sub-block before |
| `hash_map_ghosts` | the hash map alone | violated | a key leads to no live bucket: after a growth a probe ends at a ghost |

A run of several parts (`MCPages`, `MCIndexStore` with the parts of `MCRobots`) chooses one
of them at the start, of those in `Parts`: the parts share no state, and a property of one is vacuous in
the behaviours of the others. Properties of pure operators are evaluated at every
input of a bounded set, as invariants of the initial states.

Bounds, and why they suffice:

- Two workers are the least that can interleave, and the most any of the
  crawler's properties needs: each speaks of one URL, one host or one sleeper
  and the rest. That the number does not matter for the safety properties is
  proved (section 5).
- `MaxLinks`, `REDIRECT_MAX` and `REHIT_WAIT` are 1 or 0: each choice (a link or
  none, a redirect followed or refused, a host too early or not) occurs.
  `MaxLinks` bounds the links of a behaviour in the guard of `PushLinks`; the
  proofs leave it arbitrary.
- The six directories have a node with two children, a path of three, and a
  sibling: a rule above, at and below a rule, in every order.
- A backing file takes two short records with room left, two that fill it to
  the last cell, or one long one. One reader is enough: readers change nothing.
  `MaxFiles` bounds the files in the guard of `Store`; `MaxRestarts` is 1.
- An answer of up to 7 bytes against a buffer of 3 needs each of the three
  `recv` calls, twice the growth, and a header that just fits; servers lie about
  their length by one in both directions. Two timeouts make the count of a
  `SecureSocket` negative. One redirect is followed and one refused.
- Links: every path of up to 5 slashes, dots and letters on pages of up to 4, so
  `..` and `.` meet each other and the root. Pages: every sequence of three of
  thirteen pieces, for what one piece leaves to the next; and every text of five
  symbols for `ParsingEnds`. Urls: all of six characters, and four parts.
- Pages of five characters put every keyword, path and line across a page boundary at some
  place of four lines, and one path of eight across two. The texts of four lines start with
  the one that names the agent: behind any other, three are left. Radix 2 makes indices of
  two digits out of six nodes.
- Three domains in a cache of two: one is evicted, or comes back. Five submissions
  bring back a domain that was evicted and not forgotten, and put another behind it.
- Three words and sub-blocks of three sizes: a list moves into the hole of
  another, which moves again; lists split from a sub-block and from a block;
  chains have two blocks. `MaxPosting` bounds the locations, `BatchSizes` and
  `Gaps` the postings of a call; one early look-up; nothing is explored beyond a
  list that was taken for another's.
- Two buckets grow twice for four keys, two of them with the same hash; a map
  is not explored beyond an erase, which is where the last promises end. Queries are all
  those of five symbols, and words and operators with closed parentheses up to seven tokens,
  the least that a list of three terms behind an `&` takes.
  `MaxWritten` bounds what is written to a stream: two numbers meet at a byte
  left half full.
- Two writers are the least for which the unlocked test of `emptyQueue` is
  harmless. With one writer a wakeup can be lost: the reader clears the flag
  that the writer is about to have set. The code starts ten.
- Three documents give a word that recurs while it is queued, after it was
  popped as the last, and while a writer holds it.

`CHECK_DEADLOCK` is off where the system may stop: workers exit, readers run out
of documents, a process that has crashed stays down.

The symmetry of the `crawler_safety` and `index_pipeline` runs is over threads
that start alike and are never told apart; both runs check invariants only.
That of `rules_and_stores` is over the words of the posting lists, which the rest of it,
and the refinement it checks of the rules, do not mention.
`crawler_safety` leaves `killFilter` out of its view: no guard and no property
reads it.

### Fairness

`Crawler`: weak fairness of each worker outside of its fetches, of the storing of a page
and the release of parked URLs that follow an answer, of the print thread after the stop
signal, and of the clock: the kernel schedules every thread. Nothing is assumed of the end of
a fetch. A receive timeout bounds a single `recv` and not the loop around it
(`http.cpp:360`), the resolution of a link may never end (`http.cpp:547`), nor does the loop
that opens the file of the rules until it can be opened (`DomainRules.cpp:127`). A worker
at `request`, `pageBody`, `robotsBody` or `takeParked` may therefore stay there, and the
properties say what that does to the others (`StaysInFetch`): a URL is submitted in the end
or some worker never comes back, because the signal that would have served it may be spent on
that worker; a worker that is awake exits or its own fetch keeps it, whatever the others are
stuck in. Nothing is assumed of the signal, of spurious wakeups, or of the network's
answers either. `EveryUrlIsSubmitted` holds although a URL that comes too early goes round the
frontier, because it goes to the end of a queue whose other URLs have to
take their turn as well. It exempts hosts whose robots fetch ended without a
file: the code never fetches it again, and their URLs circulate for ever.

`IndexPipeline`: strong fairness of each reader and writer, more than pthread
mutexes promise, and used in `index_turn` only, where the property fails all
the same: what goes wrong is not the scheduler's doing. The readers' wait for
`pQueueLock` is inside their actions.

All other modules are sets of calls: nothing obliges anyone to make them. That
scans end is stated as a safety property of each step (`ParsingEnds`), or of the
function: `LinksAreResolved` fails for a link whose resolution has the value `Forever`.

## 4. Where the code and its comments disagree

A run shows the disagreement about shutdown, duplicates, turns, the word index, restarts,
saved rules and ghosts. The others are in the definitions as the code has them, and the
properties of the passing runs say which cases they leave out on their account.

- **Shutdown.** The comment in `Crawler::print` says that every worker pops an
  empty string and exits. The batch comes with one signal, so one sleeper wakes.
- **Duplicates.** The comment in `stub` says "no duplicates". The check and the
  store are far apart, and the code requeues and parks the same URL.
- **Turns.** `Index::reader` broadcasts `queueWriteCV` before it increments
  `currentWriteDocId`; a reader that looks in between is never woken again.
- **Erased words.** `PriorityQueue::pop` erases the word and, when it was the
  last, writes it back at index 0.
- **The word index.** A comment says that it holds the word of each block. It is
  written by `insert`, which does not overwrite, and keeps the entries of
  sub-blocks that were given back. Lists are then moved under the wrong word, or
  `at` throws.
- **Restarts.** `Stream`'s constructor tests `stat(...)` where it means
  `stat(...) == 0`: an existing directory is treated as a new one.
- **Saved rules.** A comment in `RobotsTxt.h` has the files of rules saved and searched for
  in the same directory. They are written under `SerializedRobotsRules/` and looked for
  outside of it.
- **Dots in links.** Two comments have a final `.` and a final `<segment>/..` removed. The
  test for the first reads the last character twice; of the second nothing is written.
- **Links above the root.** A comment has `..` segments removed until none is left. Where no
  segment stands in front of the first of them, the loop repeats the same test for ever.
- **Ghosts.** `Iterator::operator*` asserts that a bucket is no ghost; after a growth `find`
  may lead to one.
- **Erased keys.** A comment has a probe return the index of a key that is there. `erase`
  leaves an empty bucket, where every probe for a key behind it ends.
- **The flag of `&`.** The grammar lets a list stand in parentheses. Behind an `&` the flag
  that it has set is still there for the lists inside: `a & (b c d)` loses `c`.

Also found while translating, and listed under `findings` without a run:

- Postings: a sub-block is leaked when its list is split at once; looking up an
  unknown word enters it in the index and returns a pointer that was never set;
  index entries of split lists point to wrong places; a stream written backwards
  loses its data at the 64th byte.
- Robots: opening the rules' file is tried for ever instead of ten times;
  an eviction reads freed memory and may leave deleted rules in the cache; nobody asks
  `GetRule`; a path that starts a page of the buffer is read from the page before.
- HTTP: the last slash of a URI may lie in its query or its scheme; a path that begins with
  `/..` loses it whatever follows; a timeout
  within a body is taken for its end, with a byte misplaced on TLS; redirects
  ignore the wait between hits; killed pages are fetched again.
- Parsers: the parent of a link is never found; `a b c` is not a query, and
  `a (b` is one.

## 5. Proofs

Seven modules of proofs and the lemmas of `Recursion` are checked by TLAPS. What TLC
checks on an instance, the theorems state for every value of the constants. Their only
assumptions are the named `ASSUME`s of the modules:

- `Crawler`: a finite, non-empty set of workers; a finite web; `uri()` idempotent and
  within a host.
- `Directories`: directories ordered along paths, with a deepest one in any set of them.
- `HttpExchange`: a first buffer that is not empty; servers that are records of
  `ServerType`.
- `PageStore`: names that are not empty and have no NUL, pages that fit a file. The code
  checks neither; a page that does not fit is written past the mapping (the hazard at
  `Stream.cpp:112`).
- `RobotsStore`: a cache with room for one domain.
- `IndexPipeline`, `PriorityQueue`: finite sets of threads, documents that are records
  of words and links, a limit of the counts.
- `PersistentHashMap`: a hash that is a number, a first capacity above 0, a load factor
  below one (the code has 64 and 0.7).
- `PostingList`, `Postings`: sizes and bounds that are numbers, differences and buckets
  that are not empty, at least one size of sub-blocks; `RoomAssumption`: an empty list
  fits the smallest sub-block, a list of one posting fits a block, and two more postings
  with their entries do not fill half of one. The code has blocks of 16384 bytes,
  sub-blocks from 128 on, and some 16 bytes for each difference and entry. The last part is
  needed where a list is split: its first part then has to be more than half a block, for
  `SaveSplitPostingList` asks for a sub-block of the size of that part, leads it to the
  next block only if it got a whole block, and would lose the rest otherwise.

- `TypeCorrect`: `Spec => []TypeOK` for the crawler. `TypeInv` adds to `TypeOK`
  that the parked sets are finite, so that pushing one appends a sequence, and
  that a worker's URL has a host at the labels that need one, without which
  parking and releasing would not be typed.
- `FrontierAlwaysServed`: `[]FrontierNeverStalls`, with the strengthening that
  whoever sleeps is in `pop`. It is inductive because the workers that push are
  awake and test the queue again before they sleep, and a worker falls asleep
  only while the queue is empty. The theorem is about any number of workers,
  although each batch signals only once.
- `ParkedAlwaysFetchedFor`: `[]ParkedUrlsAreFetchedFor`. A host's set can become
  non-empty only in `Park`, whose worker goes on to fetch the robots file; that
  worker leaves the fetch either by taking the set or by recording the loss; and
  the robots URL in its hands is not changed by anyone else.
- `ParkedAlwaysCopies`: `[]ParkedUrlsAreCopies`. A step can take away a copy of a parked
  URL only by submitting it, storing it, or releasing the host's set. `Requeue` comes
  before `Park` in the same worker, so the copy is in the frontier when the URL is parked;
  whoever pops it has it in hand until it is pushed again or handed to the client. The
  invariant adds what a worker's URL is at each label, and counts a URL submitted or
  stored as settled.
- `BufferIsNeverOverrun`, `NoSocketIsLeft`, `AnswersAreStoredWhole`: the three
  properties of `HttpExchange`, under `ExchangeSpec`, for any sizes and any set of
  servers. One invariant serves all three: `SocketInv` ties the open descriptors to
  those a `Socket` holds, but for the one just connected; `BufferInv` bounds what is
  received, with what `SecureSocket::recv` has got; `CountInv` says that until a
  timeout all that was taken from the connection is in the buffer, and `HeaderInv`
  what is known of header and length at each place. A `recv` that returns 0 before
  any timeout then means that the server's last byte is in the buffer, or that the
  buffer is full, and a full buffer is the whole answer because its size is that
  of header and length; `AnswerInv` carries this to the stored body.
- `NearestRuleAlwaysGoverns`: `[]NearestRuleGoverns`, from an invariant that
  joins the types, the closure of the tree under parents, and the existence of a
  governor for every node. The work is in `AddRule`: a node below the ruled
  directory keeps its governor if that lies strictly below, and has the new rule
  as its governor otherwise. Directories are abstract, so the lemmas about
  paths (`DeepestIsUnique`, `PathIsChain`) come from `DirsAssumption`.
- `RulesTypes`: `[]TypeOK`, from the same invariant.
- `TreeImplementsRobotsRules`: `Spec => Rules!Spec`, with `rules` mapped to the
  verdicts of the nodes that have a rule. The step lemma for questions uses
  `VerdictIsDecision`: the verdict a question finds, in a node it has perhaps
  only just created, is that of the nearest rule.

- `PageStoreTypes`, `OffsetsAreRight`, `WrittenStays`, `StoreIsAPageMap`: the four
  properties of `PageStore`. `StoreInv` has, besides the types, where the written part of
  each file ends (`FilesAreWellFormed`), that every name stored since the start has an
  offset at which its length and body lie inside that part (`PagesAreStored`), that
  the first file starts with a whole record or is empty (`FirstFile`), and that a reader between its steps
  still has the number and mapping of such a record (`ReadersAreRight`). A record is
  written only behind what is written, so that all of it survives `Store`; `Restart` is
  the hard case, for the constructor scans bytes: its lemmas show that the scan of the
  first file meets the name that was written there and nothing else. The refinement
  `Spec => Pages!Spec` maps a name to the page at its offset, and to `NoPage` when only
  the scan found it.
- `QueueIsRight`, `FilesAreRight`: the two properties of `RobotsStore`,
  under `SpecRobots`. `CacheInv` is about the queue alone: what is in it is there once, and
  cached with rules that live. A domain outside of it may be in the cache with freed
  rules, so the argument never looks there: an eviction takes the first domain out of the
  queue and frees the rules of that domain, which are no other's, since the cached rules of
  a domain are a submission of that domain (`RulesAreSubmitted`); a domain that comes
  back brings new rules. The queue is no longer than the cache
  (`QueueIsNoLonger`, the cardinality of an injection), and shorter by one where an eviction
  follows. Two threads never save at once, because the saver has the lock, so the
  file of a domain in the queue can be behind only while its saver is at work.
- `InsertedInOrder`: `[]DocsInsertedInOrder`. The ids of readers are different, a reader
  past the wait has the id whose turn it is (`TurnIsHeld`), and `InsertedSoFar` says how
  many documents are inserted in terms of the turn.
- `NoLostWakeup`: with two writers or more, `[]WritersNeverStall`. Sleeping is two steps:
  `emptyQueue` is set under the lock, then the writer waits. `AReaderIsAboutToBroadcast`
  says that when the queue is not empty and all are asleep or about to be, a reader is
  between its insertion and its broadcast. Two writers are needed where a reader clears
  the flag while the only one is between the two steps: that one would sleep with words
  queued.
- `PipelineTypes` and `MapFollowsTheHeap`: `[]TypeOK` and `[]EntriesAreFound`, from
  `PipelineInv`, with `QueueOK`: the map leads to each entry, for all entries have
  different words. `Carry` rotates the entries along a path; `up` follows parents and
  `down` the greater children, which are recursive functions. That such a function exists
  and meets no index twice is shown once, in `Recursion`, by a rank that falls: every
  non-empty set of numbers has a least element (`LeastElement`), which replaces the
  induction theorems.
- `KeysAreAlwaysFound`, `KeysAreAlwaysCounted`, `FoundBucketsStayLive`: the three
  properties of `PersistentHashMap`, under `SpecMap`. `HoldsTheKeys` has each key in one
  live bucket and ghosts only of keys of the map; `AreReached` has every bucket between
  the start of a key's scan and its live bucket in use. An insertion fills the nearest bucket that is not
  live, so it lies behind live buckets only, and nothing that was in use goes out of use
  (`ReachedStaysReached`). During growth the second holds of the buckets moved so far and
  of those in the new half (`Visited`); it is false of the others, which is why they are
  all moved. The load factor gives the spot: fewer keys than buckets.

### The postings

`StoreStaysConsistent` is the inductive invariant of `Postings`, under `SpecPostings`;
`PostingsAreKept`, `ListsAlwaysFit` and `OneBlockWordsAlwaysFound` follow from it.
None of the three is inductive: what is read of one word depends on where the lists of all
the others are. Until a list that moves is taken for another word's (`misled`), there is a
function `chains` from the words with a list to sequences of sub-blocks such that
(`IsConsistent`)

- the marks are places of their sizes in blocks that exist (`IsTyped`), and no list is
  larger than its place (`AllFit`);
- the chains are those the file leads to: the word's sub-block in the map, then block by
  block to block 0 (`IsLayout`, `IsChain`); no sub-block is in two chains or twice in one,
  and all of them are allocated (`Allocated`): they lie before the next block, and those of
  a size that has an open sub-block not at or behind it in its block;
- the differences of a chain, joined, are those of the word's postings, its last block has
  the last posting as its largest, and a list of one block has an entry for the first
  posting of each bucket, with the number of differences before it (`Holds`);
- the postings of a word ascend, and a word with postings has a chain.

A word that was looked up before it had a list is exempt from `Holds` only. Before it was
proved, the invariant was model-checked on the instance of `rules_and_stores`, with the chains
read off the store; no run repeats that, since the theorem covers it.

The proof goes by what `AddPostings` does. `SplitOfAdded` says of `Split`, by its
recursion, that the parts joined are the list, that each fits a block, and that the first
is more than half a block when there is a second. A list is then saved in place
(`SavedInPlace`), as a chain of blocks that grows (`SavedInBlocks`), in a larger sub-block
or a block of its own (`SavedInALarger`), and the sub-block it has left is given back
(`Deleted`), where the last list of the size moves into the hole: one
chain changes in one place, and `HoldsStill` carries the postings of every chain over, for
they are read from equal lists. `GivenBackIsFree` is the point of the marks: a sub-block
is free when it is given back, and the one that moved is not in a chain any more. The new sub-block is in
no chain (`NewIsFree`) because what is allocated is behind neither the open mark nor the
next block.

For `OneBlockWordsAlwaysFound`, `EveryPostingIsRead` and `SeekIs` follow a reader through
the differences: the entries of a bucket are one, that of its first posting
(`FirstOfBucket`, `EntryIs`), the sums from it on are the postings, and no posting before it
is behind the location.

### Recursion, and what is only model-checked

`Recursion` removes a limit: a function defined by recursion over the numbers up to a
bound can be shown to exist and to keep what each step keeps, with `LeastElement`. The
definitions that are proved about are written in that form: `Split` and `AddAll`, the
chains, `Joined` and the readers are functions of the number of steps taken.

Model-checked only:

- liveness (`EveryUrlIsSubmitted`, `AwakeWorkersExit`, `StopIsNoticed`), which the prover
  does not reach;
- what the scans and parsers compute (`RobotsParser`, `HtmlParser`, `UrlWords`,
  `RelativeUrls`, `QueryParser`): they have RECURSIVE operators, or are evaluated on all
  inputs of a size, which is an enumeration and no invariant;
- `SavedTreeIsReadBack` and `NumbersAreReadBack`: one is about digits and the order of a
  tree, the other about powers of two and remainders by them, where the provers have no
  theory to draw on.

That a search in a list of several blocks finds a posting is not stated at all: the
entries of split lists point to wrong places (section 4).

## 6. Not modelled, and the plan

What is left: `NumbersAreReadBack`, for the part that needs no division; the postings over
the `PersistentHashMap` itself instead of a map, whose growth and erase break its promises;
two writers with one word.

Not modelled, and why:

- races on memory without a lock (two `AddPostings`, a `GetRule` during a submission,
  which nothing in the program calls, the singletons' creation): what they leave behind has
  no bounded description. The models say which calls they take as one step;
- the index's files that exist before the start of the process, the locks and
  the reopening of the hash maps, `Postings`' `ftruncate` and `mmap`: the system
  calls are taken to succeed;
- the content of answers, TLS records, certificates; the chunked encoding, which
  the client refuses;
- readers of phrases and the ranking, which the code does not have yet;
- `binSearch` and the list of ranked domains, a table here; the list of
  consonants and stop domains, of which there are a few here;
- the Bloom filter's false positives (its set of URIs is in `Crawler`, and
  nothing consults it);
- printing, progress reports, `totalSize`, the memory that is never freed;
- containers and strings other than the byte streams; prototypes under `spike/`.
