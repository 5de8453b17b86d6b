# RedisDB in TLA+

A verification development for RedisDB (`src/`): TLA+ modules for its data
structures, its concurrent queue and its HTTP server, TLC instances that check
them, and TLAPS proofs for every size.

Every definition that stands for code is listed with its source lines in
`PROJECT.json` (`map`), every run, mutant, hazard and theorem as well.

## 1. The system

| component | source | state | operations | modelled |
|---|---|---|---|---|
| Hash table with incremental rehash | `src/src/hash.h` | two `HashTable`s (bucket arrays of chains, `mSize`), the mask of the newest one, the rehash frontier `mRehashIndex` | `insert`, `get`, `isExist`, `erase`; `rehash` a few buckets inside each of them | `Hash` |
| Scan | `hash.h:542` | a cursor in the client's hand | `scan(cursor)` | `HashScan` |
| Iterators | `hash.h:267-319, 438-479, 516-531` | a node pointer in the client's hand | `begin`, `end`, `++` | `HashIterator` |
| Bounded queue | `src/src/threadPool.h` | mutex, condition variable, `mData`, `mMaxSize` | push/pop, waiting or not, observers, `setMaxSize` | `ConcurrentQueue` |
| Thread pool | `threadPool.h:110` | none (empty class) | none | no |
| Skip list and its iterators | `src/src/SkipList.h`, `redisIterator.h` | sentinels, nodes with `mNexts`/`mSpans` per level, `mMaxLevel`, `mLength` | `insert`, `erase`, bounds, `getRank`, iteration, `setMaxLevel` | `SkipList`, `SkipListIterator` |
| HTTP server | `src/src/server.cpp`, `src/3rd/asio_http/src/server.cpp`, `connection.cpp` | acceptor, `new_connection_`, the operations in flight; per connection a parser, a request, a reply | accept, read, write and their errors, stop | `HttpServer` |
| Request handler | `src/3rd/asio_http/src/request_handler.cpp` | the handlers by prefix, in a list | register, decode a path, dispatch | `RequestHandler` |
| Request parser | `src/3rd/asio_http/src/request_parser.cpp` | state, the request as far as it is read | `parse`, one `consume` per character | `RequestParser` |
| WebSocket client | `src/src/client.cpp` | one exchange | - (not built) | no |
| Logger, traits | `src/src/Util.h` | - | - (`BitsOp::rev` is part of `HashScan`) | no |

The data structures are not wired to the server yet: `src/src/server.cpp` registers
one static handler. (The server began as a copy of an asio example, but the handler
list and the way its `main` configures it are this repository's.) They meet only inside one object: scans and iterators run
over a hash table whose own calls rehash it in between, iterators run over a skip
list that is changed under them, and the threads of the queue share its mutex.
Those are the interactions the modules compose (`HashScan` and `HashIterator`
extend `Hash`, `SkipListIterator` extends `SkipList`, `QueueProgram` extends
`ConcurrentQueue`). In the server, the completion handlers of all connections share
the handler list and `new_connection_`, and a connection feeds its parser and asks
the request handler: `HttpServer` composes the three.

### What is hard

* **Stale index.** `insert`, `get`, `isExist` and `erase` hash the key with the
  mask of *before* their `rehash()` and use the index *after* it. A call that
  starts a rehash therefore works with an index of the wrong table. Which
  consequences that can have, and which it cannot, is the main question about
  the hash table.
* **Two tables at once.** During a rehash nodes are in either table; a wrong
  frontier or a node linked into the old table behind it would be deleted with
  that table.
* **Clients that keep a position** (cursor or iterator) while calls rehash.
* **Counts that are not kept.** `mActive->mSize` is not reduced when nodes move.
* **Waiting in two ways.** `waitPop` sleeps on a condition variable, `waitPush`
  spins on the mutex. Lost wakeups are a hazard of the first; that the second starves
  the consumer is excluded by the fairness assumed below, not shown.
* **Stale links.** When the skip list loses its highest node, or `setMaxLevel`
  lowers the level, links and spans stay behind above `mMaxLevel`; a later insert
  must reset every one of them that it brings back into the walk.
* **Spans** are split and joined by rank differences that only ranks asked for
  much later show to be wrong, and for the tail, which has no rank.
* **Erased nodes** keep their links and are never deleted: a loop may go on from
  one while nodes are inserted and erased around it.
* **Uninitialised keys.** `isInRange` of an empty skip list compares with the keys
  of the sentinels, which the constructor does not set. (The comment at `SkipList.h:96`,
  "only check the start of the list, because tail is not valid", is out of date: the
  function compares with the last node too, and the model with it.)
* **Objects that nobody owns.** A connection lives as long as an operation in flight
  holds it. A handler that starts no operation destroys it, one that starts two has
  them meet on the same parser and reply; and the buffers of a reply must outlive the
  write.
* **One accept at a time**, whose handler uses the member `new_connection_`, not what
  the accept was begun for, and which must begin the next one whatever happens.
* **Requests in pieces.** A read may end anywhere in a request; continued header lines
  and repeated headers make the parser's memory (`header_name_`, `header_value_`) live
  across lines as well.
* **Longest prefix.** Handlers are found in list order, and the list is sorted anew at
  every registration.

### What makes each component correct

* Hash: calls add and remove exactly the entries they report (a multimap);
  lookups find live keys; the sizes that steer growing and shrinking count;
  chains stay lists; no table is indexed out of bounds; a rehash keeps pace.
* Scan: every entry present throughout is reported; the scan ends.
* Iterators: a loop ends and meets every entry once.
* Queue: FIFO, bounded, each call atomic; no lost wakeup; waiting threads are
  served.
* Skip list: sorted, every level a sublist, spans are distances, backward links
  invert the bottom level, ranks are positions.
* Skip list iterators: a loop meets every node that stays in the list, none
  twice, and in the order of the keys.
* Request parser: accepts exactly the requests, decides as early as possible, and
  hands on what was sent, in whatever pieces.
* HTTP server: each client gets at most one reply, that of the longest prefix for its
  own path; it is answered unless it stops sending; an accept is always outstanding;
  each connection has one operation in flight and goes with its last one; a reply is
  not touched while it is written.

## 2. Modules

```
MultiMap <--- Hash <--- HashScan, HashIterator          (INSTANCE / EXTENDS)
                ^-- HashProofs <-- HashScanProofs, HashIteratorProofs  (theorems)
FifoQueue <-- ConcurrentQueue <-- QueueProgram <-- QueueProgramProofs (theorems)
SortedList <- SkipList <-- SkipListIterator
                ^-- SkipListProofs <-- SkipListIteratorProofs     (theorems)
RequestParser, RequestHandler <-- HttpServer <-- HttpServerClients
RequestParser, RequestHandler <-- RequestGrammar <-- HttpServerClients
RequestGrammar <-- HttpService <-- HttpServerClients    (INSTANCE)
RequestGrammar <-- RequestProofs <-- HttpServerProofs   (theorems)
                HttpServerClients <-----'
MCHash, MCHashScan, MCHashIterator, MCConcurrentQueue, MCQueueProgram,
MCSkipListIterator, MCHttp                              (TLC)
```

**Hash.** The C++ object is the record `hash`. `at` maps each node, named by the
pair it holds, to its table, bucket and position in the chain; `buckets` and
`size` are the two tables' `mBucketsNumber` and `mSize` (0 buckets: no table);
the other fields have the members' names. A method is an operator from one
record to the next, composed as the code composes them: `inserted` calls
`prepared` (the "rehash if needed" prologue), which calls `rehash`, which calls
`startReHashing` and `migrate`, which calls `moveBuckets` and
`compeleteReHashing`. An action (`Insert`, `Get`, `IsExist`, `Erase`, `Iterate`)
is one call. The number of buckets a call migrates, the reversal of chains as
they move, the shrink check after an erase and the search of both tables are
all there. `migrate` moves its buckets in one expression where the code loops;
nothing can interrupt that loop. Two live nodes never hold the same pair (the
guard of `Insert`); equal keys with different values are allowed, as in the
code, which never looks for the key before it inserts.

`Key`, `Value`, the hash function, the least number of buckets and the two
factors are constants. `BucketSizes` is the finite set of numbers that
`getNextPower2` can return for the entries there are.

**MultiMap** is what a client may rely on: a bag of entries; "found" is truthful,
`erase` removes one entry of the key, nothing else changes the bag. "Not found"
promises nothing, because the code does miss live keys.

**HashScan** adds a client that scans: its cursor, and one watched entry whose
reports are counted (each entry is reported or not independently of the others,
so watching an arbitrary one is enough). `RevIncrement` is the effect of the
mask/`rev`/increment/`rev` lines of `scan` on a cursor, told by the bits of the cursor
(`IsSet`; the constant `Bit` is the set of powers of two); `ScanCall` is one call in
both cases, with `Expansions` the do-while loop over the larger table: `Cursors` are the
cursors of its rounds, and it ends with the first that leaves the bits above those of
the smaller table at zero.

**HashIterator** adds the loop of `test/hash_test.cpp:108`; the body may look up
the key it is at, and arbitrary calls come between loops.

**ConcurrentQueue.** A thread is in no call, in a call and waiting for the mutex,
owner of the mutex, or asleep in `mCond.wait`. `Lock` is each acquisition; the
body of a method, up to the release of the mutex, is one action, since every
member is read and written under the mutex only. The full case of `waitPush`
releases the mutex and leaves the thread where it must lock again, the empty
case of `waitPop` releases it and sleeps; `NotifyOne` wakes any sleeper,
`SpuriousWakeup` any sleeper at any time. `Call` is the set of calls the clients
make. **FifoQueue** is the atomic queue it implements. **QueueProgram** is the
producer/consumer program of the queue's test for any number of both.

**SkipList.** `mNexts`, `mSpans` and `mBackword` are functions from a node to what
its members hold; a node is a name, the sentinels are `Head` and `Tail`. All five
methods search with the same two nested loops, and a step of these loops is an
action: `Forward` moves on along a level, `Descend` leaves it and records what
`insert` and `erase` record (`prevs`, `ranks`). Where the walk has arrived, one
action does the rest of the method: `InsertNode`, `EraseNode` or `EraseMiss`,
`BoundFound`, `RankFound`. `Raised` is the resize of the head in `setLevelNum` with
the resets behind it, `Shrunk` the loop that lowers `mMaxLevel`, `SetBackword` the
choice between the next node and the tail. The list has no lock, so one call runs
at a time. `insert` may draw any level. `isInRange` of an empty list may answer
either way, since it compares with keys no one has set. `setMaxLevel` is called
with a level not above the present one: the head has no pointers above it.

`erase` does not delete the node. Node names are finite, so a node that is erased
while no client holds an iterator, which nothing can reach any more, is forgotten
and its name is free again; with an iterator it stays, with the links it had. Two
history variables say what the links should be: `pos` is the position of each
node in the list, `linked` the nodes that a level up to `mMaxLevel` links.

**SortedList** is what a client relies on: a sequence of entries, sorted, equal
keys in the order of their insertion; each call takes effect in one step, the end
of the detailed call, and bounds and ranks answer for the list at that moment.

**SkipListIterator** adds a loop in either direction (`Begin`, `Advance`, `Finish`),
with inserts and erases anywhere in it, of the node the iterator is at too. `met`
is what the loop has met, `due` what has been in the list since it began and is
still to be met.

**RequestParser.** Characters are the codes of signed chars, so that a byte above 127
is negative as in the code's `is_char`. A value is the record of the parser and of the
request it fills. `consume` is the switch over the states; the eight states that accept
one character only are the table `Fixed`. `parse` is the loop of `parse` over a piece.

**RequestHandler.** `registered` gives the lists `reg` may leave behind (which of two
equally long prefixes comes first is `std::sort`'s choice), `url_decode` and
`dispatched` are the two halves of `handle_request`. `HexInt` is what `is >> std::hex
>> value` reads from two characters: the decoding of a path is decided by it. White
space in an escape cannot come out of the parser.

**HttpServer.** `src/src/server.cpp:9` passes 1 for the number of threads, so completion
handlers run one after the other; each is an action, with the operation it starts next.
An operation in flight is its kind and its connection; `Kept` drops the objects that
neither an operation nor `new_connection_` refers to, which is what the `shared_ptr`s
do. A name may be given again to a new object, as an address may. `do_accept` is the end
of both `Accepted` and `AcceptFailed`. `Read` takes any piece up to the buffer's size of
what the client sends, also from a client that has hung up with bytes on the way; it
runs the parser and the handler (`Handled`) and starts the next read or the write
(`next_operations`). `Deliver` is the network: a reply reaches the client before the
handler of the write runs (`Written`). `Signal` stops the service, after which no
handler runs, and `Return` destroys everything. The test for `is_open` in the accept
handler never fires with one thread, since the only code that closes the acceptor runs
after `stop()`. The kernel and asio are modelled as far as the handlers see them.

**RequestGrammar** says which strings are requests, without a state machine: a line is
named by the position where it begins, its parts by the positions of the blanks and
colons in it, and a value is the characters at the positions that belong to it (`Chars`).
What a path decodes to is said by where its escapes begin, and an escape is a percent
sign and two hexadecimal digits (`IsEscape`): the grammar does not refer to what the
library reads (`HexInt`). A path is `Decodable` if all its escapes are such; `Garbled` if
one is neither such nor a number in one digit (`IsHalfEscape`, as in `%1z` or `%-1`). `Sample` is one request whose
ends tell whether a string can still become a request; that no other end would say more
is proved (`SampleSuffices`). **HttpService** is
what a client relies on, with the grammar: one answer, the one to what that client
sends; a path that is neither `Decodable` nor `Garbled` leaves it open (`IsAnswer`).
**HttpServerClients** relates `HttpServer` to both.

## 3. What TLC checks

| run | instance | shows |
|---|---|---|
| `hash_ordered` | code constants, 33 keys in order, 4 to 64 buckets | `LoadBounded`, `NeverEmpty`, `AtMostOneMisplaced`, `ImplementsMultiMap` |
| `hash_get` | code constants, 6 keys | violated: `GetFindsLiveKey` |
| `scan` | 2-4-8 buckets, 5 keys, fair client | `ScanMissesNothing`, `ScanEnds` |
| `scan_twice` | same | violated: `ScanRepeatsNothing` |
| `iterator` | 2-4-8 buckets, 3 keys x 2 values, fair client | `TypeOK`, `Structure`, `SizesCount`, `ChainsAreLists`, `IndexInBounds`, `MissOnlyWhenStale`, `ImplementsMultiMap`; `AtMostOnce`, `MissOnlyBehindMisplaced`, `LoopEnds` |
| `iterator_rehash` | 2-4-8 buckets, 5 keys | violated: `RehashDoesNotBreakLoop` |
| `queue` | 3 threads, all methods, bounds 0 to 2 | `TypeOK`, `NoLostWakeup`, `OwnersAndSleepers`, `ImplementsFifo` |
| `queue_many` | test program, 2 producers, 2 consumers, bound 2, fair | `EveryValueOnce`, `ProducerOrder`, `Terminates`, `SleepersServed` |
| `skiplist` | 3 keys, 3 nodes, 2 levels; in loops 4 nodes, 1 level | `TypeOK`, `LevelsLinkInOrder`, `SpansAreDistances`, `BackwardInverts`, `ImplementsSortedList`, `WalkAdvances`; `LoopMeetsAll`, `LoopKeepsOrder` |
| `http` | 1 client with one of hundreds of streams, or 2 with short ones; 2 prefixes; reads of up to 3 characters | `TypeOK`, `AlwaysAccepting`, `ObjectsBusy`, `ParserFollowsGrammar`, `ReplyKept`, `ImplementsHttpService`, `Released`, `EveryClientAnswered` |
| `http_stop` | 2 clients with short streams | violated: `StopFinishesOperations` |
| `http_escape` | 1 client with a request to one of 14 paths | violated: `InvalidPathsRejected` |

**Bounds.** The keys are the only bound on the hash runs: every history of calls
on them is explored. With the constants of the code a shrink needs `mSize > 4`
and less than a tenth of the buckets, hence 64 buckets and 33 entries:
`hash_ordered` has them, with keys inserted in ascending and erased in descending
order, so that the freedom is in when and how often which call comes. The scaled-down instances
(2 buckets at least, shrink below a half) reach two growths and a shrink with
five or six entries in any order, with equal keys (in `iterator`) and with keys that
meet in every table. Counters of sightings stop at 2, which tells never, once and
repeatedly apart. In the queue instances two values in the queue and two
sleepers are the smallest numbers at which one notification can be one too few.

Between loops `skiplist` has every list of up to three nodes, every choice of their
levels and every history of calls on them. Three nodes are a predecessor, a node that comes or
goes and a successor; two levels are one that can be left, with stale links, and
entered again; three keys are one between two others, and a key may be repeated or
missing. (The proofs below cover every size.) An iterator sees the bottom level
only, so loops are run over lists that have one level (`Loop`), but there may be four
nodes in memory: the erased one the iterator is at, an erased one behind it, one still
due, and one inserted under the loop. All calls that change what an iterator reads may
be made under a loop, and every call between loops (`Between`).
Node names are symmetric. That a search ends is stated as `WalkAdvances`: a step
forward always leads to a node further on, a step down to a lower level; no
fairness is needed for that, and it can be proved.

In `http` the buffer holds three characters instead of 8192: a stream is split
everywhere, in every combination of pieces of up to three, which is what matters to a
parser that looks at one character at a time. The streams are requests to paths with
every kind of escape (whole, cut off, no number, partly a number, at the end of the
path, of a character above 127), a request with a header given twice and continued,
followed by other bytes, and every edit of a request with a continued header: one
character changed to each of nine, left out, or a blank added. Most of these are no
requests. `IsAnswer` and `ParserFollowsGrammar` compare with the grammar at every
beginning of a stream. Two prefixes of different length, one the beginning of the
other, are registered in both orders. Two clients, with a request, the beginning of one
or what is none, and three objects: each client's, and the newest. A client connects
once, as every client that connects again is like another one.

**Fairness.** `ScanEnds`: weak fairness of the client's next `scan`; calls of
others are never forced, and may rehash for ever. `LoopEnds`: weak fairness of
`it++`. Queue: weak fairness of the body of a method whose thread owns the mutex
(a thread is not stopped for ever), strong fairness of `Lock`: a mutex that is
released again and again is not withheld from one thread for ever. The code's
spin loop has `yield()` between `unlock()` and `lock()` for this. Weak fairness of
`Lock` would not do, because the spinning producer keeps disabling it; a
`std::mutex` does not guarantee the strong one by itself, so the liveness
results say what holds on a fair scheduler. In the test program each thread goes on
to its next call. HTTP server: `main` registers its handlers, runs, and ends after the
signal; the handler of an accept, read or write that can complete is run (per client);
an accept is not answered by failures for ever while a client waits; and a client's
stream arrives. Connecting, hanging up, sending more than the stream and the signal are
never forced, so a client may send the beginning of a request and nothing else, for
ever.

**Deadlock** is checked everywhere but in the iterator runs, where `begin()` on an
empty table really hangs (`phase = "hung"`).

## 4. Where code and expectation part

The five runs marked violated are behaviours of the code that its tests or
comments exclude. The root of the first two is the stale index.

* `hash_get` - `get` of a live key throws `out_of_range` in the call that starts
  a rehash (`hash.h:675`). The repository's own test passes because its first
  `get` asks for a key whose bucket does not change.
* `scan_twice` - an insert that starts a rehash can link its node into a bucket
  its key does not hash to (`hash.h:661`); a scan reports it there, a rehash
  moves it to its proper bucket, and the scan reports it again (`hash.h:538`
  excludes duplicates).
* `iterator_rehash` - a lookup in the loop body starts a rehash, the next `it++`
  completes it and goes on in the new table, past entries that moved to earlier
  buckets (`hash.h:535` contrasts this with Redis, whose iterator breaks).
* `http_stop` - the signal handler calls `io_service::stop()`, which cancels nothing:
  `run()` returns with reads and writes outstanding, while the comment at
  `asio_http/src/server.cpp:120` says that it waits until all operations have finished.
* `http_escape` - `url_decode` takes an escape of which only a part is a number for one
  (`%1z` is the character 1, `%-1` the character 255; `request_handler.cpp:78`), and the
  handler of the prefix gets the request, while `request_handler.hpp:62-63` says of
  `url_decode` that it "Returns false if the encoding was invalid". The passing run `http`
  says nothing of the reply to such paths.

The passing properties delimit these: a lookup misses a *properly placed* node
only in the call that starts a rehash (`MissOnlyWhenStale`); each table holds at
most one misplaced node (`AtMostOneMisplaced`, proved); nothing is ever lost
(`ImplementsMultiMap`, proved); a scan misses nothing even so
(`ScanMissesNothing`, proved); an iterator misses entries only behind a misplaced node.

## 5. What is proved

**HashProofs**, for every finite set of keys and values, every hash function into
the naturals, every least bucket number and factors (`HashAssumption`,
`BucketSizesAssumption`: the bucket numbers are a doubling sequence that reaches
far enough for all entries).

The inductive invariant is `HashInv`: the type of the object, `RehashShape` (mask,
tables and frontier agree), `NodesInReach` (no node outside its table or behind
the frontier), `CountsFit` (sizes), and outside a rehash that every node is in
mActive.
None of the properties is inductive alone: that the deletion of the old table
drops no node needs `NodesInReach`; that `NodesInReach` survives the start of a
rehash needs that every node was in mActive; that getNextPower2 finds a bucket
number at all needs the counts, which bound the size it is called with; and that
the counts survive needs that the moved nodes are counted in mBackup. That an
index computed with the stale mask is in bounds follows because a call's prologue
starts a rehash only when the size exceeds the buckets, so the new table is the
larger one (a shrink is started by the end of `erase` alone). Each operator has a
lemma (`InsertNodeInv`, `EraseNodeInv`, `StartReHashingInv`, `MoveBucketsInv`,
`CompeleteInv`, ...) and each action combines them.

* `StructureHolds`, `SizesHold`, `IndexHolds`, `TypeCorrect`
* `Refinement`: `Spec => ImplementsMultiMap`
* `OneMisplacedHolds`: with a second, dependent invariant; a rehash places every
  node it moves and a table that a call has just created has none misplaced.
* `MissOnlyWhenStaleHolds`: a step property. Outside a call that starts a rehash, the
  mask taken before `prepared` is that of the newest table after it or of the older
  one, where the second search recomputes the index; so both places a properly placed
  node can be in are searched.
* `LoadHolds`: `LoadBounded` says nothing of how many nodes a rehash has still to take,
  so `Load` does: during a growth the nodes in excess of the new table are no more than
  the steps made so far. `Roomy` is the same before the step of the current call, and
  one step of at least one bucket per call restores it.
* `ChainsHold`: `IsList` says that the positions in a chain are below its length and
  distinct, which is what a list of that length is (`AllLists` is `IsList` of every
  bucket). The case that takes work is `moveBuckets`, where the nodes of several old
  buckets are pushed on one new chain: its positions are the numbers of nodes pushed
  after each, and `PushedLater` is a strict order on them.

**HashScanProofs**, with `ScanAssumption`: the numbers of buckets are powers of two, as
the least one, 4, is (`hash.h:649`). `Before` orders the hashes as the cursor passes them,
bits compared from the lowest up. A call of `scan` reports the nodes of all hashes by
which it advances the cursor: in one table by `IncrementPasses`, in two by
`ExpansionsFacts`, which follows the do-while loop. `ScanInv` says of the watched entry
that it has been reported or that its `Spot` is not before the cursor. The spot of a node
is the hash of its key, or the bucket it is in if it is misplaced; a call that moves the
node never puts it behind the cursor, because a smaller mask keeps the low bits, which
are the ones compared first (`BeforeMasked`, `Behind`).

`scan` also returns 0 when the count of mActive is 0, during a rehash too (`hash.h:547`).
The count falls with erases and not with moves, and with other constants (a least number
of 4 buckets, 16 buckets and a shrink below a third, say) erases bring it to 0 while
mBackup holds entries, which would cut the scan short. So the first theorem needs
`NeverEmpty`, and the second proves it for the numbers of the code (`CodeConstants`:
4 buckets, factors 1 and 0.1). `Pace` bounds the count and the number of nodes from below
by the shares of the rehash that are done; a shrink starts with `mSize` less than a tenth
of the buckets and to at most an eighth of them, a growth with more nodes than buckets.

* `MissesOnlyWhenCut`: for any constants, `ScanMissesNothing` follows from `NeverEmpty`.
* `CountsLast`, `ScanMissesNothingHolds`: both hold with the constants of the code, for
  any keys, values and hash function.

**HashIteratorProofs**, with `IteratorAssumption` (nullptr is no node). `IterInv` is
`HashInv` and `AllLists`, `LinkedEarly` (a misplaced node is in a bucket before its own)
and `LoopState`. Its core is `Walked`, for a loop that only iterates: no rehash is on,
and the watched node is still ahead of the iterator (`After`), or a misplaced node
`Hides` it, or it has been met once and the iterator is at it or past it. The index of `next` is recomputed from the key: from a
misplaced node the loop leaps ahead, never back, because the index of a smaller mask is
never above that of a larger one (`MaskGrows`), and a stale index is one of a smaller
mask.

* `AtMostOnceHolds`, `MissOnlyBehindMisplacedHolds`
* `LoopsAreCalls`: `IterSpec => Spec`; so every theorem about `Spec` holds under loops.

**QueueProgramProofs**, first part, for any finite set of threads, any values, sizes and
clients: `IInv` (types, owners and sleepers, `NoLostWakeup`) is inductive;
`NoLostWakeupHolds`, `OwnersHold`, `QueueTypeCorrect`; `QueueRefinement`. The count
behind `NoLostWakeup`: a push adds one value and makes one sleeper awake if there
is one; a pop takes a value and a thread away; a thread goes to sleep only when
the queue is empty. None of it uses `ProgramAssumption`, which leaves the constants of
the queue free: it asks only that producers and consumers are threads and that what they
push are values, which none at all satisfy.

Second part, for any numbers of producers and consumers, any number of values
of each and any bound on the queue. `ProgramInv` adds to `IInv` what each thread calls
(`ThreadCalls`, with the threads of no role calling nothing) and where the values are: the queue and what each consumer received keep
the order of each producer (`QueueOrder`, `ConsumerOrder`), what is received came before
what is queued (`ReceivedFirst`), no two consumers hold one value (`ConsumersApart`), and
what a producer has pushed is what was received of it and what is queued
(`NothingLost`).
The order of one consumer is not inductive without `ReceivedFirst`, nor that without
`QueueOrder`.

* `EveryValueDelivered`: when the program has ended, every value is with exactly one
  consumer; `ProducerOrderKept`.

**SkipListProofs**, for any integer keys, any set of nodes and any number of levels
(`SkipListAssumption`: the sentinels are not nodes, there is a level). The inductive
invariant `IInv` has three parts:

* `ListInv`, what the list is between any two steps: `Shapes` (members have the
  levels they should), `Positions` (`pos` numbers the live nodes from 1 to `mLength`
  and keys do not fall along it), `Nested` (a level links nodes the level below
  links, and the bottom level all), and the three properties `LevelsLinkInOrder`,
  `SpansAreDistances`, `BackwardInverts`;
* `CallType`, the types of a call's variables;
* `WalkInv`, what a walk knows: its node is linked on the level it is at, the search
  passes it, `walked` is its position; and on each level left already, `prevs` is a
  node with every node up to it passed and none behind (`LeavesAt`), `ranks` its
  position.

Neither half is inductive alone: an insert keeps the levels in order only because
`prevs` and `ranks` are right on all of them at once, and a walk records the right
ones only because the levels are in order. `Separates` says that the nodes a search
passes are exactly those up to some position, so leaving two levels means leaving
them around the same place; `Bracket` that this place lies within one link of each
level; `OneLinkAround` that no other link of that level spans it. So when `insert`
(`InsertAt`) or `erase` (`EraseAt`) shifts the positions behind it by one, all other
links keep their length and only the spans in `prevs` change. That `Shrunk` finds a
level is an induction over the levels (`HighestOf`).

* `TypeCorrect`, `LinksInOrder`, `SpansRight`, `DoublyLinked`
* `WalksAdvance`: no search goes round in a circle or past the tail.

The second part of the module proves `Refinement`: `Spec => ImplementsSortedList`. The mapping reads the
sequence off `pos` and `mKey`; the steps of a walk are stutters. The place where a
walk ends is the position `FirstAbove` or `FirstAtLeast` of the abstract list
(`EndSplits` and the lemmas after it), which makes the end of each call the
abstract call; `RangeInv` carries from the start of a bound to its end that the key
was in range.

**SkipListIteratorProofs** carries all of this over to a list that is changed while a
loop runs over it. There, erased nodes stay in memory, so the list proper is the
restriction of the variables to the live nodes (`List == INSTANCE SkipListProofs
WITH ...`): every step of the program with loops is a step of that list or a stutter.

* `ListUnderLoops`: `IterSpec => List!Spec`, and `SortedUnderLoops`: the calls of a client
  that also loops implement `SortedList`.

`IterInv` is `List!IInv`, `Memory` (which nodes are in memory, and that each has a bottom
link) and `LoopInv`. An erased node keeps its links; what is true
of the chain of links from it is not a statement about positions, for it has none. It is
said with closed sets, sets of nodes that no link leaves: `NoCycle`, for each node some
closed set holds its successor and not the node; `NoReturn`, for each node met some
closed set holds the iterator's node and not that one; `DueAhead`, for each node still
due some set holds the iterator's node and not that one, and the only links out of it
lead to that one. `KeysFollow` is that no link, an erased node's neither, leads to a
smaller key (a larger one, backwards). An insert or an erase changes one or two links of
live nodes, and the sets are mended by adding or removing one node.

* `LoopMeetsAllHolds`, `LoopKeepsOrderHolds`

**RequestProofs**, for strings of any length over any integers. That the parser computes
what the grammar says is an induction over characters; it is done on sets of natural
numbers: the set of lengths up to which the claim holds contains 0 and is closed under
the next character, hence everything up to the length of the string (`UpTo`), and the
recursive functions of `parse`, `Chars` and `url_decode` enter by the equation they
satisfy. The invariant of the parser is `Follows(s, n, p)`: what a parser that is in some
state behind n characters of s knows of the positions behind it.

* On the request line (`FollowsLine`) it is where the marks are: the blanks m and u, the
  dot d. `Marks` is what they make of the whole line, and the only two blanks, the first
  blank, the last one and so on are the same positions.
* On the headers (`FollowsHeaders`) it is that the line the parser is on begins at b, and
  that the headers it has filled in are those the grammar finds in the first n characters
  (`HeadersUpTo`); within a line the current name and value are those up to n. The case
  that takes work is a continuation, where a value stored already is stored again, and a
  header whose name was there before.

Then a request is accepted at its last character and no earlier (`RequestIsGood`), and
what is accepted is a request (`GoodIsRequest`). That a parser that has not given up can
go on is shown with the sample: from every state some end of it leads to acceptance
(`OnWay`).

* `ParserIsGrammar`: for every string the parser decides as `RequestLength` says and
  fills in what `Request` says.
* `SampleSuffices`: `CanGoOn` is that some string, of any characters and any length, makes
  it a request, so that "cannot become one" means what it says.
* `UrlDecodeIsDecoded`: the loop of `url_decode` gives what a `Decodable` path stands for
  and fails on a `Garbled` one; between them it does what `operator>>` does
  (`UrlDecodeReads`). `Starts` is defined by a CHOOSE; that there is such a set and only
  one is part of the proof.
* `RegisteredIs`: whatever order `std::sort` gives equal lengths, the list stays ordered
  with longer prefixes first; so the first that fits is the longest (`ReaderAnswers`).

**HttpServerProofs**, for any clients and streams, any prefixes, any set of object names
and any size of the buffer (`ServerAssumption`: streams and prefixes are sequences of
integers, there is a name for an object). In its first part nothing of the parser and the
handler is used but that they return.
`IInv` adds to `TypeOK`, `AlwaysAccepting` and `ObjectsBusy` three parts: `Shapes`
(objects and clients are records with their fields), `PeersAccepted` (the client of an
object has been accepted) and `Lifetimes` (nothing outlives the server, and the newest
object is in memory). `PeersAccepted` is what makes the rest inductive: two objects could
have one client if a client in the backlog had an object already. In turn that
`new_connection_` is the object of the accept that completes (`AlwaysAccepting`) makes
`Accepted` start the right one. `CompletedRemoves` and `AcceptBegun` say which objects
are destroyed when an operation ends or `do_accept` begins one: with one operation per
object, exactly the one whose last operation it was.

* `ServerTypeCorrect`, `AlwaysAcceptingHolds`, `ObjectsBusyHolds`
* `ReplyKeptHolds`: no step changes or destroys the reply of an object that is, and goes
  on, writing; a read of the same object would, and `ObjectsBusy` excludes it.

The second part joins this with RequestProofs. Its invariant is `CInv`: `Contents`, an
object holds, parser, request and reply, what reading *in one piece* all that has been
read of its client would give (`Reader(c, s)`); `Unmet`, the newest object is as it was made and a client
that is not accepted yet has not been read; `Handlers`, the list is ordered, and complete before any client is
accepted. `Contents` is what frees the proof from pieces: reading a piece and then the
next is reading both (`ReaderGoesOn`), as an object reads on only while its parser is
"indeterminate". It needs `IInv`: only with one operation per
object is the piece that is read the next one, and only with one object per client is
nothing of the stream read elsewhere.

* `ContentsInvariant`: `Spec => [](IInv /\ CInv)`
* `ParserFollowsGrammarHolds`: by `ParserIsGrammar`, for every object at once
* `ImplementsHttpServiceHolds`: `Spec => ImplementsHttpService`. The only step that is not
  a stutter of `HttpService` is `Deliver`: its object is writing, so it has a reply
  (`ReaderAnswers`: one that `IsAnswer` allows), and its client has none yet.

**Only model-checked:** liveness (`ScanEnds`, `LoopEnds`, `SleepersServed`,
`Terminates`, `Released`, `EveryClientAnswered`), which is out of the prover's reach.
Every other property of a passing run is stated by a theorem. The violated runs
are counterexamples and have nothing to prove.

## 6. Not modelled

* The destructors, the move members of `Hash` (never instantiated; they would not
  compile), `printHash`/`printList`, the logger and traits.
* The lifetime of the reference `front()` returns: the model returns the value it
  refers to at that moment.
* `unsigned long` of 32 bits (Windows), where `rev` would see half of a cursor.
* `ThreadPool`, which is empty; `client.cpp`, an example that is not built.
* `setMaxLevel` with a level above the present one: the next walk would read past
  the pointers of the head. No caller does.
* Of the HTTP server: a pool of threads, which `run()` could start but `main` does not
  ask for; `json_reply`, `connection::stop` and the parser's `reset`, which nothing
  calls; the text and headers of replies, which are formatting; the digits of the HTTP
  version, which nothing reads (their `int`s may overflow); handlers that throw (the
  registered one does not). The server has no idle timeout, so none is modelled: a
  client that sends half a request keeps its object as long as it likes.

## 7. Plan

Done: `MultiMap`, `Hash`, `HashProofs`, `HashScan`, `HashIterator`; `FifoQueue`,
`ConcurrentQueue`, `QueueProgram`; `SortedList`, `SkipList`,
`SkipListProofs`, `SkipListIterator`; `RequestParser`,
`RequestHandler`, `RequestGrammar`, `HttpService`, `HttpServer`, `HttpServerClients`,
`RequestProofs`, `HttpServerProofs`, `QueueProgramProofs`, `HashIteratorProofs`, `SkipListIteratorProofs`, `HashScanProofs`.

Next, in this order:

1. A client of the queue with a single consumer that uses `front` and `tryPop`, for
   the lifetime of the reference, as an extension of the `queue_many` program.
2. The server with a pool of threads, where handlers of one connection and of the
   acceptor run at once.
