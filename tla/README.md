# A TLA+ model of libnetq

libnetq is a C library for network programs: event loops, threads and
synchronisation, an embedded web server with WebSockets, a socket "spy" server,
and many formats and codecs (JSON, HTTP, DBC, LEB128, URLs, WebAssembly). This
directory models the parts whose correctness is hard to test, checks the models
with TLC and proves theorems about them with TLAPS. File and line numbers are
those of `src/`.

## Inventory

| Component | State it keeps | Operations | What is hard | Modules |
|---|---|---|---|---|
| **NetworkLooper** (`NetworkLooper.c`, `EventWakeup.c`, `List.h`) | tables of timer, socket and dispatch entries, each entry in one intrusive list; `pollfd`/`pollSize`; `pollTimeout`; the wakeup event | set/clear timers, add/remove sockets, dispatch, wakeup from any thread; `performOnce`, `poll`, `runOnce` on one; create, destroy | fields read after unlock, compaction of `pollfd` while handlers run, lost wakeups, stale identifiers, teardown | `NetworkLooper` |
| **Looper** (`Looper.c`, `LooperSelect.c`, `TimerQueue.c`, `DispatchQueue.c`, `LooperSource.c`) | a timer heap with identifiers, a bounded dispatch list, event sources, the wakeup pipe, `quit` flags | `start`, `stop`, `call`, `callAndWait`, timers, sources | `callAndWait` racing `stop`, identifiers reused, the capacity of the dispatch queue, snapshots of sources | `Looper`, `TimerQueue`, `DispatchQueue` |
| **Web server** (`web/WebServer.c`, `web/HttpStatistics.c`) | executors, lists of listeners sorted by how loosely they match, writers of responses, counters of urls | create and destroy executors, register writers, route a request, upgrade, complete | a listener that fails half way, the path object handed from one listener to the next, precedence | `WebServer` |
| **Web socket sessions** (`web/mhd/WebServerOperations.c`) | a session's queue of frames, its socket in the looper | send and close from any thread, `websocketAction` on the looper's | output queued while the looper decides not to ask for it | `WebSocketSession`, `ServiceProofs`, `MCServicesProofs` |
| **SpyServer** (`net/SpyServer.c`, `NetBufferQueue.c`, `SpyModuleList.c`) | nodes in states open/init/close, a pool of buffers, a send queue per node | accept, receive, send, close | closing in the batch that also reads, full queues, short sends | `SpyServer`, `ServiceProofs` |
| **Threads** (`ThreadPosix.c`, `ThreadWin.c`) | a thread's flags and owner | create, start, join, detach, exit, destroy | who frees, join against exit | `ThreadLife`, `ServiceProofs` |
| **Condition variables** (`sync/win32/Cond.c`) | two semaphores, a mutex, three counters | wait, timed wait, signal, broadcast | lost signals, a timeout between being counted and being woken | `CondWin32`, `ServiceProofs` |
| **Application** (`Application.c`, `EventTarget.c`) | run state, listener list | run, finalize, dispatch events | handshake with the worker, listeners removed while called | `Application`, `ApplicationProofs` |
| **Context** (`Context.c`, `Library.c`) | list of modules, a reference count and a mutex each, notifiers | load, release, register | two threads loading one path, a failure at each step | `ModuleLoading`, `ApplicationProofs` |
| **DBC documents** (`dbc/DBCDocument.c`, `DBCDocWriter.c`) | reference-counted objects that point at each other | build from sections, attributes, release | an allocation failing at any point, back pointers, the last message and switch | `DBCDocument`, `DBCDocWriter` |
| **DBC parser** (`dbc/DBCParser.c`) | the lexer's buffer, a machine, a stack of values | append, finish | a stack shifted by type, sections inside of sections, the end of the buffer | `DBCSections`, `DBCParser`, `DBCLexer` |
| **J1939** (`dbc/DBCJ1939*.c`) | a transport builder | encode, decode, split | sizes at a frame's limit | `DBCJ1939` |
| **JSON writer** (`json/*` and its callers) | a stack of levels | one call per token | calls in a wrong order, callers that leave it open | `JSONWriter` |
| **Web socket frames** (`web/WebSocket*.c`) | a buffer with room for a header in front | reserve, grow, complete, mask, parse | lengths 125, 126, 65535, 65536 | `WebSocketFrame` |
| **HTTP texts** (`http/*`) | the multipart parser's state and buffer | feed, build, take lines apart | delimiters cut between chunks | `Multipart` |
| **URLs** (`URL.c`, `web/UrlPath.c`, `UrlQuery.c`, `UrlHost.c`) | offsets into one block | parse, match, decode | measured in one pass and written in another | `Urls` |
| **Codecs** (`Leb128.c`, `string/UTF.c`, `Base64.c`, `UUID.c`, `CStrToNum.c`, `Time.c`, `Version.c`) | none | encode, decode | limits of widths, sign bits, leap years | `Buffers`, `TextCodecs` |
| **Byte buffers** (`ByteBuffer.c`, `ByteOrder`, `BufferBuilder.c`) | a block, its length and capacity | put, get, insert, remove, build | 24 bits, both byte orders | `Buffers` |
| **WASM** (`wasm/*`) | sections and items | read, change, write | nested lengths | `WasmModule` |
| **Archives** (`Zip.c`, `asset/BinaryAsset.c`, `Tarball.c`) | the archive's bytes | search, list, read, write | an end record found from the end, cut files | `Archives` |
| **Tables** (`DescSet.c`, `LogCircular.c`, `KeyVal.c`, `Primitive*.c`) | tables, rings, hash chains | insert, find, remove | identifiers reused, wrap-around, growth | `DescSet`, `LogCircular`, `ApplicationProofs`, `KeyVal` |
| **Texts** (`Arguments.c`, `fs/Path.c`, `net/EndPoint.c`, `string/*`, `NsVarWriter.c`, `HexViewer.c`) | a growing buffer, a pending substitution | parse, print, join, split | text cut at any place, a buffer that is full | `Paths`, `Printing` |
| **Data stores and tokens** (`sql/UserDataStore.c`, `sql/UrlDataStore.c`, `web/WebUsersRestExecutor.c`, `crypto/openssl/JWT.c`) | tables of users and files in SQLite; signed tokens | sign up, log in, update, delete; write, read, list files; make and read tokens | requests on several threads over one connection to the database, a statement that fails between two others | `DataStores` |
| **Web pages and the civetweb back end** (`web/WebFileView.c`, `WebHexView.c`, `WebEnvView.c`, `WebFileUrlMap.c`, `WebManifest.c`, `web/civetweb/WebServerOperations.c`) | what a page's `init` allocated, the context of a posted form, the transport's context | make and release a page, post a form in chunks, end a request | an `init` that fails half way, clients that go away, listeners whose `release` is not called | `WebPages` |
| CoherentLooper, PollVector, chunk buffer, windows, curl, regex, xml, graphics, random numbers, kernel variants | handles of other libraries, or code nobody calls | wrappers | see "Not modelled" | |

How they interact: the web server's worker runs `doWork`, which alternates
`NQNetworkLooper_performOnce` and `NQNetworkLooper_poll`; request handlers and
other threads talk to it by `dispatch`, timers and sockets, and a web socket's
`send` wakes it. Windowed programs run a `Looper`; other threads reach it by
`call` and `callAndWait`. Both loops sleep in `poll`/`select` on a wakeup
descriptor that callers signal. The formats have no threads; what is hard about
them is the sequence of calls, what fails between two of them, and limits.

What makes each correct: a loop runs each piece of work once, in order, releases
its userdata once and never sleeps on work it was given; tables hand out an entry
to one owner at a time and an old identifier does not reach a new owner; a thread
object is freed exactly once; a request gives back what it took; reference counts
are the owners there are; writers and parsers accept what the other produces.

## Plan

1. `NetworkLooper` with its abstract specification `FifoExecutor` and proofs.
   (Done.)
2. `Looper` over `TimerQueue` and `DispatchQueue`; abstract specifications
   `TimerSet`, with its refinement proved, and again `FifoExecutor`. (Done.)
3. Services: web server, web socket session, spy server, threads, condition
   variable, application, modules, data stores, pages. Each a module with one or two invariants,
   checked together in the run `Services`, whose initial state picks the
   component. (Done.)
4. Formats and tables, in the same way, in the run `Formats`: those that are
   built up in steps have actions; pure functions are operators, checked against
   a reference definition for every input of a set. (Done.)
5. Theorems. Done: every safety property of `NetworkLooper`; those of `Looper`,
   its action properties and its refinement of `FifoExecutor` among them; the
   refinement of `TimerSet` by `TimerQueue`; `LastLines` of `LogCircular`; the
   invariants of `CondWin32`, `ThreadLife` and `WebSocketSession`; the order
   of `NetworkLooper`'s dispatches; the invariants of `ModuleLoading`,
   `Application`, `SpyServer` and `DataStores`, and with them `SharedIsSound` of
   the run `Services`; `DescriptorsFound` of `DescSet`. The modules of steps 3 and 4
   that have no RECURSIVE operator are ready for more; `DBCDocument`, `DBCParser`, `JSONWriter`, `Multipart` and `WasmModule` are not.
6. Larger parts not modelled yet: the configuration of the web server from JSON,
   `kernel/` threads, IPv6 addresses.

## NetworkLooper

### State and actions

`NetworkLooper.tla` has one variable for each field of `struct NQNetworkLooper`
that handlers or callers can tell apart. An entry table is a function from
indices to records (`nonce`, `state`, and for timers `interval` and `time`;
`destroy` says whether a destroy handler was given; `u` stands for the userdata:
the number of the registration, 0 for the looper's own wakeup socket). Intrusive
lists are sequences of indices; `penndingList` holds the three kinds, so its
members are records with a `kind`. `pollfd` has the handle, and whether the
event masks are 0. `wakeup` says whether the event counter is not 0. `book` is
history: a record per registration with the identifier its owner received and
how often its handlers ran.

The worker's program counter `pc` splits `performOnce2` and `poll`:

| `pc` | the worker is |
|---|---|
| `idle` | before `nextEvent`, mutex free |
| `drain`, `collect` | in `nextEvent`'s two loops, holding the mutex: one action per iteration, nobody else acts |
| `event` | after the unlock, holding an entry whose fields it has not read |
| `callback` | in a handler; the handler may call any operation |
| `sleep` | returned a timeout, about to call `poll()` |
| `polling` | in `poll()`, with the `pollSize` it was given |
| `stopped`, `destroyed` | the driver left its loop; the looper is gone |

Each operation (`SetTimer`, `ClearTimer`, `AddSocket`, `RemoveSocket`,
`Dispatch`) is one action because it is one critical section; `Wakeup` takes no
mutex. `Foreign` names the operations other threads call. The clock `now` moves
by `Tick`; delays are relative to it.

Abstractions: event masks are only zero or not; the second argument of a socket
handler is not modelled except for the wakeup event; identifiers are the pair of
index and nonce with `NonceMod` values instead of 2^16 (`0` excluded as in
`reinitBaseEntry`); `poll()` errors end in `Stop`. Builds without assertions are
modelled: `ClearTimerAsserts` and `SocketTable` state what assertions say.
A caller does not add a handle that is still in the table in a live state: the
system would not hand it out twice.

### What is checked

| Run | Instance | Shows |
|---|---|---|
| `LooperSockets` | 3 slots (one is the wakeup's), 2 handles, every socket with a destroy handler, another thread may add | compaction keeps handle, handlers and userdata together (`OwnHandle`, `NoCallAfterRelease`) and the table compact (`SocketTable`) |
| `LooperTimers` | 2 entries, 3 timers, delays 1 and 2, clock to 3, set by anyone, cleared by handlers | sleep bounded by the first timer (`SleepCoversTimers`), never early, once, never after being cleared, and old identifiers are harmless |
| `LooperMixed` | one timer, one socket, one dispatch, every operation from everybody, intervals, nonce wrapping at 3, `poll(1)`; the driver may stop and destroy at any time | the inductive invariant of the proofs (`LooperInv`: types, lists against states, no entry twice in a list, the socket table), no lost wakeup, destroy releases each used timer and socket once |
| `LooperLive` | a timer, a socket and two dispatches, under fairness | refinement of `FifoExecutor` with its fairness, a timer that is not cleared fires, a removed socket is released |
| `LooperClearTwice` | 2 timers | expected violation, below |

Bounds. Two live entries of a kind are what an ordering, compaction or reuse
mistake needs, and three registrations let an entry be reused while the other
one lives. `MaxReg` bounds registrations and `MaxTime` the clock; a poll in
progress may run a little past `MaxTime`, so that the bound itself never keeps
the worker asleep. Sockets are checked with the clock standing still, because
nothing in their handling reads it. `CHECK_DEADLOCK FALSE` where the bounded
system really stops: all registrations used, nothing pending, `poll(-1)`.

`CancelledNeverRuns`, `OnceOnly` and `StaleIdHarmless` are checked with
`clearTimeout` called from handlers, on the worker's thread. Called from another
thread while the worker is between unlock and handler, it can free an entry the
worker is about to read (the code says `TODO: Sync if current entry`, lines 642
and 729).

Fairness is `WF(Worker)`: the thread that drives the looper keeps running and
handlers return; and `SF(Tick)`: time passes, although the model does not let it
pass inside a critical section. No fairness is assumed of sockets or callers.

### What the model shows of the code

* **Finding.** `clearTimer` accepts the identifier of a one-shot timer that has
  fired, because a free entry keeps its identifier: the assertion at
  `NetworkLooper.c:653` fails (`LooperClearTwice`).
* `clearTimer` of a timer with a destroy handler puts it on `penndingList` in
  the destroy state, from where it is freed without the handler being called
  (lines 401-404); a one-shot timer that fired gets the call (391-397).
* An interval re-armed during draining is inserted after `pollTimeout` was
  computed (362-385): the following sleep may pass its due time. `doWork` caps
  the sleep at 500 ms; `runOnce` does not. `SleepCoversTimers` is therefore
  checked and proved without intervals.
* `NQNetworkLooper_destroy` looks at `penndingList.next` in every iteration
  (line 286), so the first pending entry's destroy handler is called once per
  pending entry and the others' never. `TeardownReleasesUsed` is about the lists
  it does walk.

### What is proved

Three modules, each over the one before, prove for all limits, handles, delays,
callers and bounds allowed by the assumptions on the constants:

`NetworkLooperProofs.tla`:

* `LooperInvariant`: `Spec => []LooperInv`. The invariant joins the types, the
  socket table, the agreement of lists with states, the absence of duplicates,
  that the event the worker holds names an existing entry (`EventOK`), that
  registrations of timers name timer entries (`BookOK`) and what is known of
  entry 0 (`WakeupEntry`). None of these is inductive alone: compaction keeps
  the table only because lists have no duplicates and agree with states, and
  keeps `pollSize` positive only because entry 0 is never in the free state,
  which in turn needs that its handler re-arms it before the table is collected.
* `TypeCorrect`, `SocketTableCompact`, `ListsAreSound`, `WakeupAlwaysPolled`
  follow from it.

`NetworkLooperSafety.tla`:

* `WakeupNeverLost`: `Spec => []NoLostWakeup`. The strengthening, `WakeInv` at the
  end of `NetworkLooper.tla`, says that `pollTimeout` tells callers whenever the
  worker may be asleep (`MayBlock`), that a socket in the used list has its events
  asked for unless its handler runs (`EventsKnown`), and that after the pass over
  `penndingList` only sockets to poll are left in it (`OnlySocketsToPoll`).
* `SleepEndsInTime`: `Spec => []SleepCoversTimers`. `SleepInv` says that the timers
  are in the order of their due times (`InOrder`) and the sleep was computed from
  the first (`AwaitsFirst`). It assumes `Intervals \subseteq {0}`: an interval is
  re-armed after `pollTimeout` was computed, so with intervals the property is
  false of the code, as said above.

Its second half is about `book`, the history of each registration. Its
invariant `HistoryInv` ties the two together: which registration an entry, a list,
the event the worker holds and the handler it is in stand for (`TimerOwner`,
`DispatchOwner`, `SocketOwner`), that no two entries stand for the same one, and
that nothing in use has been released (`NotFreed`). `HistoryInvariant` is the lemma
all theorems use; `RanInv`, `DueInv`, `CancelInv` and `NonceInv` add, for one
theorem each, what has been called, when it is due, what has been cancelled, and
how often an entry has been used.

* `TeardownReleases` (`TeardownReleasesUsed`), `NeverCalledAfterRelease`
  (`NoCallAfterRelease`) and `CalledWithTheOwnHandle` (`OwnHandle`) need no
  assumption but those on the constants.
* `RunsOnce` (`OnceOnly`) and `NeverEarly` (`TimerNotEarly`) assume that other
  threads do not call `clearTimer` (`"clearTimer" \notin Foreign`), and
  `CancelledStaysSilent` (`CancelledNeverRuns`) that they neither clear timers
  nor remove sockets: such a call between the unlock in `performOnce2` and the
  handler frees the entry that the worker is about to read, and the code says so
  (the two `TODO`s).
* `StaleIdentifierIsHarmless` (`StaleIdHarmless`) assumes `MaxReg < NonceMod - 1`:
  a nonce of 16 bits comes round after 65535 uses of one entry, and the
  identifier of then is that of now.
* `DispatchesInOrder` (`DispatchOrder`): for every number of callers, timers and
  sockets, a dispatch is called before any later one is, and released before any
  later one is. It is the safety half of what `FifoExecutor` promises, in terms of
  `book`; no run lists it, because `LooperLive` checks the refinement itself, which
  says as much and more on its instance. The invariant is `OrderInv`. Dispatches stand in `penndingList` between timers and sockets and twice
  each, first to be called and, moved to the end, to be released: the list as a
  whole is in no order. `TurnInv` says that each phase is in order by itself
  (`DispatchesQueued`), that what was called came before all that still waits to
  be (`PhasesInTurn`), that whatever was neither called nor released has an entry
  that waits for it, and that nothing that waits came before what is done
  (`RunsInTurn`, `ReleasesInTurn`).

Each proof has a lemma per action. `ListLemmas.tla` holds what they use about
sequences as lists: membership and injectivity after append, tail, removal,
insertion and replacement.

Only model-checked: the refinement of `FifoExecutor` (`DispatchIsFifo`, whose
mapping is in `MCNetworkLooper.tla` and filters `penndingList` with `SelectSeq`, a
recursive definition the provers cannot use) and the two liveness properties, because ENABLED and fairness are outside the prover's reach; and
`ClearTimerAsserts`, which is false.

## Looper

### Modules

`TimerQueue.tla` and `DispatchQueue.tla` model the two containers, with one
action per function; `Looper.tla` EXTENDS both and calls their actions inside
its own, as `Looper.c` does. `TimerSet.tla` is what a timer queue promises.

* `TimerQueue`: `entry` is `allocTimer`; `activeList` and `freeList` are the two
  intrusive lists. An identifier is a 32-bit number, position plus one plus
  `allocCount` per reuse: here the pair of generation and position, with
  `Generations` standing for 2^32 / `allocCount`. `Invalid` is the pair whose
  number is 0.
* `DispatchQueue`: `workList`, and the three counters. A free entry holds
  nothing, so `freeList` is its length.
* `Looper`: `pc` splits `NQLooper_poolAll` where another thread can act:

| `pc` | the loop is |
|---|---|
| `check` | at the top of the loop, about to compute how long it may sleep |
| `fill` | about to copy the attached descriptors, `select` in `select()` |
| `events` | back from it, about to read the wakeup event and pick the ready sources |
| `timers` | in `performTimer`, `message` in `getMessage`, `work` in `performWork` |
| `handle`, `destroy` | in a handler of `cur`, in its destroy handler; no mutex held, every call may be made |
| `left` | out of `poolAll`; `final` in `NQLooper_finalize`, then `gone`, or `crashed` |

`op` says what a thread still has to do after its critical section: wake the
loop, wait on its condition, call the destroy handler of a timer it stopped. The
gap between pushing and waking is thus a state of the model. `book` is history:
what became of each registration.

Abstractions. Delays are under 2^31 ms, so the casts to `int` change nothing.
Time stands still between computing the timeout and `select()`; the time a
caller reads before it takes the mutex may be one tick old. A source's handler
reads all there is. One `select()` runs at a time: handlers do not call
`NQLooper_dispatch`. `NQLooper_finalize` starts when no caller is inside a call,
except callers of `callAndWait`. `malloc` does not fail. `getMessage` after a
timeout finds nothing, so it is one step with `poolAll`'s `continue`.
`NothingLeftOver` justifies leaving out the shortcut at the top of `Looper_poll`.

### What is checked

| Run | Instance | Shows |
|---|---|---|
| `TimerQueue` | 3 entries, times 0 and 2, delays 0 and 1, 2 generations, any order of calls | the invariant of the proofs, and the refinement of `TimerSet` |
| `MainWork` | 2 threads, 3 pieces of work, a queue that takes 1 entry and makes 2, signals, failing `select()`, under fairness | no push is overlooked (`NoLostWork`), FIFO (`WorkIsFifo`), a waiter goes on after the loop is done with its stack (`WaitEndsLast`), work runs and waiters return unless the loop is over, `stop` ends it |
| `MainTimers` | 2 entries, 3 timers or intervals, one thread that starts and stops, handlers that start | the sleep never passes the first timer, no timer is early or runs after it was stopped |
| `MainSources` | 2 sources and one timer or call, everything from handlers and a thread, failing `select()`, finalize, under fairness | the table of sources, timers fire, input is handled, finalize releases what never ran |
| `MainQueueMax` | queue limit 4 | expected violation, below |

Bounds. `MaxReg` 3 lets a timer entry be reused while another timer runs, and
lets work be pushed while a batch runs and while the loop is about to sleep; two
waiting threads and a loop are all that `callAndWait` can mix up. Two sources are
the least with which moving the last one into the gap, or missing one that is
ready, shows. A single registration beside the sources keeps that run small: the
other runs have the interplay of timers and of work among themselves. `WakeMax`
is 1 or 2: a full counter still wakes the loop.
`CHECK_DEADLOCK FALSE`, because the bounded system stops: `select()` without a
timer, with nobody left to call.

Fairness: `WF` of the loop's steps and of each thread's steps after its critical
section (threads are scheduled), `SF` of a handler's return (it ends, whatever it
calls before) and of `Tick`, which the model holds back while the loop goes from
computing the timeout to `select()`. None for callers, input, signals, errors.

### What the model shows of the code

* **Finding.** `NQDispatchQueue_shift` drops the entry it unlinks: it is neither
  freed nor put on `freeList`, so `total` counts pushes, and after
  `NQ_DISPATCH_QUEUE_MAX` of them `NQLooper_call` reaches
  `NQ_ASSERT_NOT_REACHED()` (line 217) with the queue empty (`MainQueueMax`).
* `Looper_wake` (`LooperSelect.c:75`) adds an address to the eventfd's counter
  instead of 1: a counter of 64 bits is full after some 2^17 wakeups the loop
  has not read, and `NQ_ASSERT(success)` at `EventWakeup.c:91` fails.
* An interval can be stopped by another thread while its handler runs;
  `stopTimer` then calls the destroy handler of userdata in use. A timer that is
  not an interval cannot: it is released before its handler is called.
* `NQLooper_finalize` calls the destroy handler of work left in the queue
  without checking that there is one (line 149): a `stop` that came second, or a
  `callAndWait` nobody ran, ends the program (`pc = "crashed"`).
* `callAndWait` pushed after the last `performWork` waits for ever; `WaitEnds`
  therefore says "or the loop is over".
* A source detached after `getMessage` copied the ready ones is called once more.
* The identifiers of the table's last entry pass through 0, `NQ_TIMER_INVALID`,
  after 2^32 / `allocCount` uses: that timer runs but cannot be stopped.
* `NQTimerList_insert` reads the list head as if it were an entry. What it reads
  decides nothing: the place is the end of the list either way.

### What is proved

`TimerQueueProofs.tla` proves, for every size of the table, every number of
generations and all sets of times and delays:

* `TimerInvariant`: `TimerSpec => []TimerInv`; `NoEntryIsLost` and
  `TimersInOrder` follow. `TimerInv` adds to the types that each entry is in one
  list, the one its flag names, that the active list is in order, and that
  periods are positive. Order is kept by insertion (`InsertKeepsOrder`, which
  needs that the scan finds a place, `PositionExists`) and by every removal
  (`ReleaseKeepsInv`, for all three of them).
* `QueueImplementsSet`: `TimerSpec => ImplementsTimerSet`. The refinement needs
  the invariant: a start takes a new identifier because a free entry is not
  active, and a shift is an expiry of a timer with none due before it because
  the list is in order.

The assumptions are those on the constants: a table of at least one entry, at
least one generation, integer times.

`LooperProofs.tla` builds on it: every step of `Looper` is a step of the timer
queue's table or leaves it alone (`NextTimersMove`), so `TimerInv` carries over. It
proves, for every number of threads, sources and registrations, any capacity, and
any choice of who may call what:

* `LoopIsSound`: the types, the count of the queue and that nothing is left over
  when the loop goes to sleep (`SizeCounts`, `NothingLeftOver`). `LoopInv` joins
  them with `TimerInv`, the history's type and what each program counter says of
  `cur` and `batch` (`WhereInv`). The pass over the sources needs their table to be
  compact (`SourceTable`), and the table's steps need the types: the two are proved
  together (`Reachable`). `SourcesAreThoseAttached` is the second.
* `WorkIsNeverLost` (`NoLostWork`) and `NoTimerIsSleptThrough`
  (`SleepCoversTimers`). The first is inductive over `LoopInv`; the second follows
  the first active timer through every start and stop (`FirstAfterStart`,
  `FirstAfterStop`): a caller that brings it forward is about to wake the loop.
* `LooperIsSound` (`LooperInv`, which adds to the above that each registration is
  released once), `StoppedTimersAreSilent` (`StoppedIsSilent`) and
  `WaitersReturnLast` (`WaitEndsLast`). Their invariant is `OwnInv`: a registration
  is in one place, an active entry, the queue, the loop's hands, or those of the
  thread that stopped it, and each place says what has been called of it so far
  (`EntryOwner`, `WorkOwner`, `CurOwner`, `OpOwner`). That a stop reaches its own
  timer only is `IdentifierKnown`: an identifier is the entry's present one, or its
  generation has passed.
* `TimersAreNotEarly` (`TimerNotEarly`): by `DueInv` an entry is due one period
  after it was, `ran` times over.
* `FinalizeReleasesAll` (`FinalizeReleases`): by `ReleaseInv` what asked to be
  released was, or somebody holds it; when the looper is gone nobody holds anything.
* `WorkRunsInOrder`: `Spec` implements `FifoExecutor` (`WorkIsFifo`), where the
  queue is what waits and `cur` what runs (`InExecution`, `Owed`). A push is a
  `Submit`, `performWork`'s shift a `Start`, and so on; `NextExecutes` is the case
  distinction.

Two assumptions are made beyond those of the module. From `LooperIsSound` to
`FinalizeReleasesAll` it is `IdentifiersLast`: fewer registrations than an entry has
identifiers (2^32 / `allocCount` in the code), because after them an old identifier
names a new timer. `WorkRunsInOrder` assumes `~Finalizes`, because finalizing takes
work out of the queue without running it.

Only model-checked: liveness, which is what the runs say of work, waiters, timers and
sources in the end. `PushTaken` is false.

## Services

`MCServices.tla` puts ten parts in one specification. `part` says which one
a behavior is of; the variables are registers that a part names as it needs.
Every property and every fairness condition begins with its part, so that what
is checked of one is not affected by the others.

| Part (module) | State and steps | Property |
|---|---|---|
| `web` (`WebServer`) | `requestExecutors` and `socketExecutors` are the lists `addRequestListener` and `addSocketListener` keep sorted, of single listeners; `strings` the copies of methods and patterns; `moduleList` the executors; `contexts` the connections' `MHDWebContext`; `urlPaths` the path objects by address, `chained` the number of writers allocated; `misused` whether something was freed or unlinked that was not there. `Create...Executor` adds listener by listener (`AddListener`) while memory lasts and removes those in front of one that fails (`AddedBefore`, `RemoveListener`). `Accept` is `contextCreate` with all of `NQWebServer_initRequest`: each listener that matches is `Offered` the shared path or one of its own, and `Asked`; whichever of the two is not wanted is destroyed. `HandleUpgrade` does the same for sockets, `SetContentType` makes the chain of writers, `RequestCompleted` takes all back | `ListenersInPlace`, `StringsOwned`, `RequestsReturnAll` (in `ServersSound`), `RoutesToBest` |
| `socket` (`WebSocketSession`) | `websocketAction` in the steps between its critical sections: `Round` (what `poll` found), the callback, `Check` and `TakeOutput` under the mutex, `Write`. `Send` queues under the mutex, `Wake` wakes the looper later | `OutputInOrder`, `OutputIsSeen`, `CallbackOrder` (in `SessionSound`), `Written` (in `AllServed`) |
| `spy` (`SpyServer`) | `active` and `free` are the list of connections, `state` a node's, `queue` its `NQNetBufferQueue`. `PollAll` is what precedes `poll()`, then `Work` goes through the batch `poll()` returned, node by node, as `OnError`, `OnRecv`, `OnSend` do | `ConnectionsAccounted`, `SpyForwards` (in `SharedIsSound`, proved) |
| `cond` (`CondWin32`) | the two semaphores, the mutex and the three counters; each operation on a semaphore or mutex is a step. Clients are takers, some with a time limit, and givers | `GateIsSound` (in `SharedIsSound`), `NobodyStarves` (in `AllServed`) |
| `thread` (`ThreadLife`) | `flags` and what they say; the owner's calls and `threadEntry`, split at their locks | `ThreadFreedOnce` (in `SharedIsSound`), `Freed` (in `AllServed`) |
| `app` (`Application`) | `mode` is `run`'s argument; the handshake of caller and worker; `done` is what happened to it, which `AppLifecycle` is about; the listeners, how many events they were given (`dispatched`) and how far a walk over them is (`dispatching`) | `AppLifecycle`, `ListenersCalled` (in `SharedIsSound`), `Ended` (in `AllServed`) |
| `modules` (`ModuleLoading`) | `modulesList`, `entries` with their reference counts and flags, and where each loading thread is between two mutexes | `ModulesShared`, `LastNotifier` (in `SharedIsSound`) |
| `accounts` (`DataStores`) | `users` are the rows, `requests` where each connection's request is; a statement is a step, and so is the `changes` call behind it, which may read another connection's count. Any of them may fail. `tokens` are those given out | `RepliesTellTruth` (in `SharedIsSound`, proved) |
| `files` (`DataStores`) | `files` are the rows; one action per write and `mkdir` | `FilesAreFound` (in `SharedIsSound`, proved) |
| `pages` (`WebPages`) | `held` is what a page's `init` allocated and `leaked` what it forgot; `posts` and `contexts` count the contexts of forms and of the transport, of which there are two | `PagesGiveBack`, `FormsAnswered` (in `ServersSound`) |

What the properties say. `ListenersInPlace` compares the two lists with the
executors there are: what is there is in the order of strictness and age, and an
executor that failed half way left nothing. `StringsOwned` says the same of the
strings that each listener copied, and that nothing is freed or unlinked twice: a
loop that takes back one listener too few or too many breaks one of the two.
`RequestsReturnAll` compares the paths that are allocated with those the requests
under way hold, one each: a listener that refuses gives its own path back and leaves
the shared one to the next, one that takes the request gives the shared one back if
it has its own, and a request that nobody takes leaves none. `OutputIsSeen` is the reason why the end
of `websocketAction` may be outside of the mutex: whoever queued after the check
wakes the looper. `SpyForwards` is about order, and about a place that is reused
by the next connection. `RepliesTellTruth` compares a reply with what happened to the table, and a token
with the account it was given for. `PagesGiveBack` counts, `FormsAnswered` compares a
reply with the pairs and parts that were sent. `GateIsSound` keeps the gate's semaphore a binary one
whatever waiters time out; `NobodyStarves` is that no signal is lost.

Bounds (`Services.cfg`): 3 executors and writers ever, with lists of one to three
patterns of every kind, one of them with an empty pattern behind two good ones, and
memory that ends at any string; one request, with memory for none, one or both of
the two paths there are at a time, because requests share nothing but the heap; 3 frames and two sending threads; two
takers, both with a time limit, and two givers, at most two timeouts and two
waiters that are gone; 3 listeners of two callbacks; two threads loading 2 paths
twice; two connections of the proxy, used three times, with two buffers a queue
and two messages a side; two days, three requests about accounts, three writes of
files, two pages and two requests to them. Two of a kind is what a race needs, and the third use is
what comes after a place was given back.

Fairness: the looper's thread goes round, a thread that queued a frame gets to
wake the looper, and taking output is strongly fair because the mutex is held
again and again by others; takers and givers that are inside a call are
scheduled; a thread that was started runs, and its owner does what it had begun;
the worker of an application runs, and the caller that `run` returned to
finalizes. Nobody has to send, connect or signal. The other parts have no liveness
property.

What is proved, in `ServiceProofs.tla` and `ApplicationProofs.tla`:

* `GateOpensOnce`: `GateIsSound` for any number of takers and givers and any
  `MaxGone`. `GateIsSound` says of a closed gate that somebody will open it; that
  it is one and no more takes the invariant `CondInv`. Whoever works with the
  counters holds `unblockLock` (`HoldsLock`); of the semaphore's unit, those
  to be unblocked and those on their way to open the gate, there is exactly one
  (`OneOpens`); `waitersBlocked - waitersGone + waitersToUnblock` is the number of
  takers that were counted and have not left (`AllCounted`, with the cardinality
  of a set); what a giver or a late taker read of the counters is still true when
  it acts on it (`ReadIsTrue`); and waiters that are gone are settled in time
  (`GoneIsSettled`). The proof goes by the steps that leave the counters alone
  (`QuietSteps`) and those that do not, one lemma each. It assumes
  `ClientsAreThreads`: finitely many takers, none of them a giver.
* `ThreadIsFreedOnce`: `ThreadFreedOnce`, from an invariant that says what owner
  and thread may rely on. An owner that may still call has an object that nobody
  destroyed, so does a thread that has not exited, and both flags are seen by the
  later of the two only.
* `OutputIsSound`: `OutputInOrder`, `OutputIsSeen` and `CallbackOrder` for any
  threads and any number of frames. `OutputIsSeen` is not inductive: while the
  last frame is written the looper still polls for output, and when it is done it
  will not any more. `Announced` says that what was queued meanwhile does not
  count on that. `FramesInOrder` numbers the frames through: those sent, the one
  that is written, the queue. `SessionPartIsSound`, in `MCServicesProofs.tla`,
  carries the result over to `SessionSound` of the run's specification, whose
  registers are the variables.

* `SpyServerIsSound`: `ConnectionsAccounted` and `SpyForwards` for any number of
  connections (`MaxConn` is a natural number), buffers and messages. The invariant
  `SpyInv` has three parts. `ListsSound`: each connection is in one of the two lists,
  once, and those in the free one are closed. `ServerSound`: the modules were told
  of a node what its state says, each side got what the other sent in order, with
  what is queued behind it unless a close dropped that, and there are as many sockets
  as nodes that are not closed. `PolledSound` is what is left of the batch that `poll()`
  returned: each node is in it once, belongs to an active connection, and has output
  if it was polled for some. It is the part a step endangers: a node that is worked on
  may close its whole connection, or queue for the other side (`OthersKept` says that
  the rest of the batch stays as it has to be). The walk of `PollAll` over the active
  connections is a recursive function; `VisitedGoesOn` and `AllVisited` get its
  value at each place from the least place where it would be another one.

* `ModulesAreShared`: `ModulesShared` and `LastNotifier` for any finite set of
  threads, any paths, and any number of entries and calls; that the threads are
  finitely many is the only assumption (`Cardinality` counts them). `ModulesShared`
  says nothing of a thread between two critical sections, so no step of it follows
  from itself. The invariant `ModulesInv` adds what each thread on its way may rely
  on: one that is about to insert has an entry of its own that is not in the list
  (`OwnEntry`), one that is opening, or failed, has one that is (`LoadersSound`).
  With it `CountsSound` says that a count is the threads and the calls that hold the
  entry, and that an open library has at least one such call, and so is not
  unloaded; `InitsSound` that a path was initialized if its entry is open. There is one lemma
  for each action; `HoldersChange` and `LoadsGrow` are about the two cardinalities, and
  `OnlyLoader` covers the steps that neither take nor give back an entry.
* `ApplicationIsSound`: `AppLifecycle` and `ListenersCalled` for any callbacks and any
  number of listeners and events. `LifeInv` tells from the place of the worker what
  was done, and that a caller that finalizes has no worker behind it that is still
  going to use the mutex. `ListenersCalled` needs the order of the list
  (`ListenersSound`: the last one added comes first) and of the walk (`WalkOn`: it
  calls them in that order and has passed none that it has to keep); then a walk
  that is at the end of the list has been at all of them.
* `RepliesAreTrue`: `RepliesTellTruth` for any finite set of connections, any bodies
  and any number of requests. `RequestsSound` says of a request what may be relied on
  at its place: that nothing was changed before its own statement, and that, as long
  as it is `alone`, the connection's count is still about that one. A statement of
  another request ends that (`OneWrites`). The numbers of accounts are the
  other part: `NumberedTo` has them below the requests that signed up, so that a
  token's text is read back, and `NextIsFree` that the next one is new. `Unforged` is
  about the tokens: changed, or read with another key, they are none. Two assumptions
  are about constants (`Clients` is finite, `MaxAccepted` a natural number), one about
  the text of a number: different numbers have different texts (`TextsDiffer`, which
  is true of TLC's `ToString` and of decimal numbers, and has no definition to prove it
  from).
* `FilesAreInPlace`: `FilesAreFound` for any users and any number of writes. `FilesInv`
  says that a path has one row, and that each directory named by a row has one too; a
  write that replaces a row keeps that, because it keeps the path (`WriteKeeps`).
* `SharedStaysSound`, in `MCServicesProofs.tla`: `SharedIsSound` of the run's
  specification, for all its bounds. `PartsInv` is the invariant of each part, if it is
  that part's behavior; each part's step is a step of the module that the proofs are
  about (`ClientSteps`, `ThreadPartSteps`, `AppPartSteps`, `ModulePartSteps`,
  `ServerSteps`, `AccountPartSteps`, `FilePartSteps`), and no other step makes one.
  It assumes what `BoundsAreGood` says: `MaxGone`, `INT_MAX / 2` in the code, is
  positive, `MaxAccepted` a natural number, and `TextsDiffer`.

`ServersSound`, about the web server and its pages, is model-checked only, as is
`RoutesToBest`: their models
and properties are written with sums and filters of sequences (`FoldLeft`,
`SelectSeq`, `FlattenSeq`), and what those yield cannot be proved without induction
over data. The liveness in `AllServed` is model-checked as well.

What the models show of the code:

* `DestroyExecutor` is modelled while no request is under way: an executor's
  operations are kept by the request, and nothing holds the executor.
* `NQWebExecutor_addSocketListener`, when the method cannot be copied, frees the
  method instead of the pattern, which stays behind: `StringsOwned` allows that string
  and no other. `createWriterChain` keeps a part of a chain when memory ends, which is
  left out.
* A pattern with text behind its `*` is compared past the end of the url
  (`comparePattern`): the model has stars at the end only.
* `NQWebServer_initSocket` takes away the request's operations when a listener
  refuses the socket, as `initRequest` does, but nobody sets them again:
  `serverRequestCompleted` then follows a null pointer. The model's connection has no
  step there (`operations = "none"`), so that the properties hold up to that point.
* A failed `initSocket` in `websocketUpgradeHandler` releases the socket and leaves
  the context's pointer to it (`socket = "released"`); the answer is still made for
  an upgrade with that socket, which libmicrohttpd is expected to refuse because of
  its status. On the normal path the session is released by its looper, and the
  entry's opcode is read after the entry is freed.
* `EventTarget.c:41` allocates the size of a pointer for a listener that has three:
  what is written behind it is anybody's. `Application` has listeners that are
  whole, as if the allocator rounded up.
* `SpyServer.c` drops what is queued when a side closes (`SpyForwards` says "but
  what a close cuts off"), and modules may hear of a close without a connect.
* `ThreadPosix.c` clears flags with `flags &= STATE_MASK` where the complement is
  meant. The flags it loses are not set yet at that time, and a thread that has
  exited keeps its own: `ThreadFreedOnce` and `Freed` hold of the code as it is.
* `EventTarget.c` reads the next listener after the callback, from a listener that
  the callback may have removed: the walk may end there, which `ListenersCalled`
  allows in that case only.
* `NQSQLiteStatement_changes` asks the connection, which all threads of the web server
  share: an update of one account may answer with the count of another statement.
  `RepliesTellTruth` speaks of those nobody came between.
* `UrlDataStore.c` reports success for a file or directory below one that does not
  exist, and writes nothing; reading an invalid path returns no error.
* `WebManifest.c` forgets an entry when one of its headers cannot be allocated
  (`leaked`). The civetweb back end never calls a listener's `release`, and leaves its
  context behind when the client cannot be read or `websocketConnect` refuses
  (`abandoned`). Pairs of a form before a bad one stay set, and the hex view shows the
  type of an earlier part for a file that has none.

## Formats

`MCFormats.tla` is made the same way. Parts that are built up in steps:

| Part (module) | State and steps | Property |
|---|---|---|
| `document` (`DBCDocument`, `DBCDocWriter`) | `heap` holds the live objects, their reference counts and fields, and how many allocations still succeed; one action per section the parser hands over, `ToDocument`, `Release` | `DocumentReferences`, `AttributesFit`, `NothingLeft` (in `DocumentSound`) |
| `parser` (`DBCSections`, `DBCParser`) | `s_sections` are the tables of `DBCParser.c`, row by row; `machine` is the one that follows them; a step is a token | `ShiftsFit`, `SignalsInMessages` (in `ParserSound`) |
| `lexer` (`DBCLexer`) | the lexer's mode and its positions in the buffer; a step is a character | `LexerStaysInBuffer` (in `ParserSound`) |
| `j1939` (`DBCJ1939`) | the transport builder; a step appends | `FramesCarryPayload` (in `FramesAgree`) |
| `json` (`JSONWriter`) | the stack of levels; a step is a call, of any kind in any order | `WritesJSON` (in `FramesAgree`) |
| `frame` (`WebSocketFrame`) | the buffer; reserve, write, complete, reset | `FrameParsesBack` (in `FramesAgree`) |
| `descriptors` (`DescSet`) | the allocation list, the free list, the identifiers given out | `DescriptorsFound` (in `TablesSound`, proved) |
| `log` (`LogCircular`) | the ring, with allocations that fail | `LastLines` (in `TablesSound`, proved) |
| `map` (`KeyVal`) | the list of buckets and entries | `KeyValIsMap` (in `TablesSound`) |

The parts `codec` and `text` have functions. Their one step picks an input of a
kind, and the property says what the function owes for it: `CodecsAgree` and
`TextsAgree` are lists of such statements, each defined in the module of its
function. References are definitions of another form: `Leb128RoundTrip` has the
value's bits, `DateIsRight` counts days, `BufferIsSequence` operates on
sequences, `ChunksDoNotMatter` compares with the whole text in one chunk,
`PartsAreFound` and `FormKeepsFields` start from the parts, `ArchiveIsRead` from
the files, `PathsMatch` from the segments, `TemplateIsFilled` from the pieces.
Where the code refuses something, they also say that it had to be.

Inputs and bounds (`Formats.cfg`). Documents: three scripts of sections, any six
of one in any order the parser lets through, with allocations ending after 1 to
11 or never. The parser takes any tokens as long as the stack is under 14 (the
code has room for 1024), which every table's longest section fits into. The lexer's
buffer is of 9, so that a token ends one before, at and behind its end. Frames
have 0, 2, 125, 126, 65535 and 65536 bytes. Transport messages have 0 to 9 bytes a
piece and five pieces. JSON goes three levels deep and ten tokens far.
Descriptors: two entries, three serials, six allocations. The ring has three
entries and takes eight lines. The map takes five sets. Codecs are given the
values around each power of two at every width, all short byte strings over
bytes at the limits, all days around the ends of months in leap and other years;
texts all short ones over the characters that mean something to the parser and
one that does not, cut at every place. Texts longer than that repeat states the
parsers have been in.

`CHECK_DEADLOCK FALSE`: inputs end. There is no fairness, for nothing has to
happen.

What the models show of the code (each is in the modelled definition; where a
property would fail, it says what it leaves out):

* **DBC.** `NQ_ASSERT(thiz->lastMessage != NULL)` (`DBCDocWriter.c:178`) fails for
  a file with a comment between the signals of a message: the parser lets the
  second `SG_` through, the writer has let the message go (`writer = "crashed"`).
  A signal that is its own multiplexer keeps itself alive (`NothingLeft`). When
  no node can be made for a receiver or transmitter, the signal or message is
  leaked; so are the last message and switch if the writer is destroyed between
  signals. The tables for `EV_` and `SIG_VALTYPE_` ask for a digit as a symbol,
  which the lexer never yields: these sections do not parse. A literal of a
  pattern is compared as far as the token goes, so `BU_` followed by `BO_REL_` is
  read as `BU_BO_REL_` (`Continues`, `Behind`); numbers are refused where
  their conversion stops early. `NQ_ASSERT(token->size == 1)` (`DBCParser.c:825`)
  ends a debug build at a byte order of two digits; the model is of a build
  without assertions there, which looks at the first digit. `finish` accepts a
  file cut inside a section when its last token is whole.
* **JSON writer.** The level outside of all is not initialized: `ArrayEnd` there
  underflows, and whether a second value is refused depends on what was in
  memory (`NQJSONWriter_init` takes it as a parameter). `{"key"}` is accepted.
  The page of all environment variables stops in the middle when memory ends
  (`EnvIsJSON`).
* **Web socket buffer.** `reserve` and `grow` after `complete` lose the header
  whose size they keep; the model's clients reset first, as the code's do.
* **Codecs.** A character of two UTF-16 units does not come back: `NQUCharPush16`
  writes its halves without the marks of surrogates and shifts by ten without
  subtracting 0x10000, and `NQUCharNext16` keeps the marks instead of the bits below
  them (`UTF.c:244`, `:286`). The functions are modelled as they are, and
  `CharRoundTrip` and `UtfRoundTrip` speak of characters of one unit only.
  `UTF.c` encodes surrogates as three bytes and takes overlong forms.
  `CStrToNum.c` finds an overflow by the result being smaller, which misses some.
  `NQ_gmtimems` takes 2100 for a leap year, `NQIsLeapYear` does not. The 24-bit
  getters leave one byte of positive values as it was.
* **HTTP and URLs.** The last segment of `form-data` without a `;` loses a
  character; an empty last value reads as none. The port begins at the first
  colon of the url, be it in the path. `UrlPath.c` ignores a decoding that
  fails. `{}` is a pattern and matches nothing.
* **Archives.** A tar entry whose size is a multiple of 512 is padded with a block
  more than needed. A name in a ZIP archive is copied before its bounds are
  checked.
* **Texts.** A chunk that begins inside a candidate for a substitution which then
  fails loses the text up to the next one. `StringPrint.c` leaves a cut text
  behind its length when memory ends.
* **Tables.** `DescSet.c` may draw the identifier that says there is none, for an
  entry that is then lost (`DescriptorsFound` counts these). The ring of capacity 0
  writes out of bounds, and is left out.

### What is proved

`ApplicationProofs.tla` proves `LogSpec => []LastLines` for every positive capacity
and any number of lines: what is read from the log by index is what was printed
last, oldest first, and nothing else is allocated. The only assumption is that
the capacity is positive. `LastLines` says nothing of the position in the ring,
so a step of the ring does not preserve it by itself; `RingInv` does: it says at
which position each line lies (`Placed`: in front of `position` what came last,
behind it what came a round before) and which lines are allocated (`Kept`).
`RingNext` shows that a line printed keeps it, and `RingRead` follows the index
through the remainder with the lemma `OnceRound`.

It also proves `DescSpec => []DescriptorsFound`, for a natural number of entries,
any serials drawn and any number of allocations. `DescInv` adds what a step needs:
the two lists have no entry twice (`DescTypes`), an identifier has its entry's
index unless it is the one that says there is none (`OwnIds`), and what was handed
out is what the entries in use have (`Outside`). An identifier given back is
compared with a serial that was drawn anew, so `Find` cannot answer with it.

Everything else in this section is model-checked only.

## Not modelled

Parts of the components above:

* The web server's configuration and the loading of its files; of the pages, the HTML
  they print, the listing of directories and the reading of a manifest from JSON; of
  the civetweb back end, its frames and threads. JWT back ends other than OpenSSL's.
* `GetPGN`, whose bit fields overlap as the compiler likes; IPv6 addresses and the
  process's command line, which the system writes; the formats of `printf`.
* Payload bytes, names and numbers, wherever only their count, their kind or
  whether they are equal decides what the code does.
* Memory order: a step is what lies between two synchronizing calls, and reads
  without a lock see the last write.

Components with status `not_modelled` in `PROJECT.json`, each with its reason
there. `CoherentLooper`, `PollVector` and `ChunkBuffer` have no caller, and do not
do what they are for: a queue that loses its second entry, a `memcpy` of as many
bytes as there are entries, a chain that is linked from the last chunk to the
first. There is nothing to check before they are changed. The others are calls
of the system or of other libraries (curl, PCRE, libxml), and
generated or fixed data.
