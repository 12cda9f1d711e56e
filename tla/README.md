# Rend: a verification project

Rend is a memcached proxy. A client speaks the binary or the text protocol to
it; Rend keeps each item in two levels of memcached-like servers, a small fast
L1 and an L2 that holds everything, and keeps the two in step. This directory
holds TLA+ models of the parts of Rend that carry that logic, the TLC runs that
check them on small instances, and TLAPS proofs for every size.

Paths are relative to the repository.

## 1. Inventory

### Components, state and operations

| component | where | state it keeps | operations |
|---|---|---|---|
| L1L2 orchestrator | `orcas/l1l2.go` | none of its own: the items in L1 and L2 | set, add, replace, append, prepend, delete, touch, get, gete, gat |
| L1L2 batch orchestrator | `orcas/l1l2batch.go` | the same two servers, reached from a second port | the same, with other rules for L1: it refreshes hot data, never adds to L1 |
| L1-only orchestrator | `orcas/l1only.go` | the items in L1 | one handler call per request |
| locking wrapper | `orcas/locked.go` | lock sets: an array of mutexes or read-write mutexes, by hash of the key | wraps every method of an orchestrator |
| server loop, listener | `server/` | connections; a goroutine, orchestrator and two handlers for each | accept, parse, dispatch, answer or close |
| std handler | `handlers/memcached/std/` | one connection to memcached, buffered both ways | one command, one answer |
| chunked handler | `handlers/memcached/chunked/` | the same; items stored as metadata and chunks; a process-wide channel of tokens | several commands per operation |
| batched handler | `handlers/memcached/batched/` | per socket a relay: pool of connections, each with a request channel, a batch channel and two goroutines; a monitor goroutine | submit to a random connection, batch, write, read, hand out |
| in-memory handler | `handlers/inmem/` | one map for the process, under a read-write mutex | the handler interface |
| protocols | `protocol/binprot`, `protocol/textprot` | the bytes received and not yet parsed | parse requests, format responses |
| metrics | `metrics/` | counters, gauges, histograms with two sample buffers each, bucket counters | observe, poll |
| timer | `timer/` | - | read the clock |
| client tools | `client/` | - | load generators |

### How they interact

`memproxy.go` listens on one or two ports. `server.ListenAndServe` starts a
goroutine per client connection and makes a set of handlers for it.
`DefaultServer.Loop` parses a request, calls the orchestrator's method and then
answers, or closes client and handlers when the error is not a protocol error.
An orchestrator's method is a short sequence of handler calls, first on one
level, then on the other. Both ports work on the same two servers, and with the
`-locked` flag both orchestrators are wrapped and share one lock set. Nothing
else orders the requests of two connections.

### What is hard

* *Interleaving.* Between two handler calls of a request any other connection
  may run, on either port.
* *Partial failure and retry.* A request can change one level and fail at the
  other; the comments rely on the client sending it again.
* *Expiry and eviction.* Items vanish from one level between two calls.
* *Chunks.* A chunked item is several memcached items, written and read one at a
  time without any lock; their keys may share an array.
* *Batching.* The calls of many clients share a connection; goroutines, channels
  and sockets wait for each other, and one failure meets calls of many clients.
* *Gets of several keys.* A handler answers from a goroutine of its own over
  unbuffered channels; an early return leaves it behind.
* *Pipelines.* Commands are answered in order or not at all; what the parser
  drops or leaves in the stream shifts everything behind it.
* *Counting beside reporting.* Observations are several atomic operations each,
  and a poll falls between them.

`PROJECT.json` lists these hazards one by one, at their lines.

### What makes each part correct

* Orchestrators: L1 never holds anything but L2's entry; a request is one
  atomic step for the clients; a refused or failed request does not leave the
  levels apart for good.
* Locking wrapper: mutual exclusion of requests on a key unless both read; every
  lock given back; no starvation.
* Chunked handler: a hit is the value of one write, whole; requests that do not
  overlap behave as on a plain memcached; every call ends.
* Batched handler: each answer reaches the caller and the key it is for, once; a
  get ends when it has all its answers; every call ends.
* Std handler under a get of several keys: one call at a time on a socket, each
  reads its own answer; every key is answered once, and truly.
* Protocols and server loop: one response per command, in order, none for a
  quiet miss; a connection is closed only for a cause; everything is served.
* In-memory handler: a get is a snapshot; nothing is lost that no client asked
  to lose; the map is not changed by two at a time.
* Histograms: a report is the count, sum, minimum and maximum of one period.

## 2. Modules

```
StdHandler --- Orca --+-- L1L2 ------+
    |                 +-- L1L2Batch -+-- LockedOrca -- Coherence -- Linearizable -- MCOrca
    |                                                                  |
    +------------------------- AtomicCache ----------------------------+ (INSTANCE)
    |
    +-- Chunked -- MCChunked               Batched -- MCBatched

InMem -- Conn -- MCConn                    MultiGet         Histogram
           |
           +-- BinProt, TextProt (INSTANCE)

OrcaProofs (extends Coherence) -- CoherenceProofs -- LinearizableProofs
ConnProofs (extends Conn)   MultiGetProofs (extends MultiGet)   HistogramProofs (extends Histogram)
ChunkedProofs (extends Chunked)   BatchedProofs (extends Batched)
```

| module | models | notes |
|---|---|---|
| `StdHandler` | a memcached command through `std/handler.go`: new item and error | operators only; item = value and deadline, or `None`; size limit `MaxLen`; expiry times up to `RealTimeMaxDelta` are relative |
| `Orca` | what both orchestrators share: `l1`, `l2`, the clock, each connection's goroutine | a step is one handler call; a failed call may or may not have been applied |
| `L1L2`, `L1L2Batch` | the methods of the two orchestrators | one action per method, one disjunct per handler call |
| `LockedOrca` | locking wrapper and connection loop around both | the whole proxy: `Spec` |
| `Coherence` | properties of the two levels | |
| `AtomicCache` | what the clients are promised: one cache, atomic requests | abstract specification |
| `Linearizable` | the refinement mapping | the clients' cache is L2 |
| `MultiGet` | a get of several keys that no wrapper splits, for all three orchestrators: the select loops, the goroutines of the std handlers, the two sockets, the requests that follow | a step is one channel or socket operation |
| `Chunked` | `chunked/` on one key: metadata and chunk items, tokens, reply buffer | a step is one memcached command |
| `Batched` | `batched/`: relay, pool, batcher, reader, sockets | a step is one channel or socket operation |
| `InMem` | `inmem/`: every method, its lock, its map | a step is a lock operation or the time in the map with the lock; `del` is a map deletion under the read lock |
| `BinProt`, `TextProt` | parser and responder of a protocol | operators: `Parse` gives request, error and what is left of the stream; the responder gives the responses |
| `Conn` | clients, choice of the protocol, server loop, L1-only orchestrator with or without the wrapper, on `InMem` | a step is one parse or one return of the handler |
| `Histogram` | `ObserveHist` and the metrics endpoint on one histogram | a step is one atomic operation, or the time under the write lock |
| `*Proofs` | theorems, section 5 | |

How state corresponds, where it is not obvious:

* `pc[c]` is the handler call the goroutine of connection `c` makes next;
  `"lock"` is a request waiting in the wrapper, `"done"` a method that has
  returned and not been answered, `"closed"` a connection that is gone.
  `"drain"` is a writer that has announced itself to a `sync.RWMutex`: it keeps
  new readers out and waits for those inside.
* `torn` is history, no code: the keys whose last request failed after it may
  have changed one level. `ref`, `expected` and `clean` in `Chunked` are history
  too: the plain memcached the handler is compared with.
* In `Chunked` a token is a number drawn in sequence; the code draws 16 random
  bytes, taken to be unique. `written` remembers what was written under each.
* In `Batched` `got` records, next to the handle under which a response came,
  the command that memcached answered, which the code cannot see.

* In `MultiGet` the goroutine of a handler is known by its level and the number of
  the request that started it; a command on a socket carries, as history, who
  wrote it, so that reading another call's answer shows (`crossed`). Behaviours
  end there: what the code does with an answer of another kind is arbitrary.
* In `Conn` a frame or a line is a record with the fields the parser tells apart;
  the opaque of a frame is its place in the client's stream. `log` is history.
* In `Histogram` a cell carries the period it was written in, as history. The
  sort is not stable: samples of equal value may come in any order.

### What is assumed

* In the core a request names one key. With the wrapper a get of several keys is
  executed key by key anyway (`LockedOrca.Get`); without it, `MultiGet`.
* L2 does not evict, and answers gete with an absolute deadline: the repository's
  `README.md` asks for a Rend-based server there. The sources disagree about the
  deadline: `common/datatypes.go:99` says that gete "returns the TTL remaining", while
  the one handler that computes an answer, `inmem.go:223`, returns the stored deadline,
  and the orchestrators put what they get into L1 as it is.
* In the core model handler calls return. What std, chunked and batched handlers
  do instead on a broken connection is the subject of `Chunked` and `Batched`.
* Links break between responses, not inside one. In `Chunked` the metadata read
  that is cut short yields empty metadata and no error (`readMetadata`); the
  commands that follow fail on the same link, which the model has.
* In `Batched` the monitor's load ratios are a free choice of when to add a
  connection (with a batch size of 0 they are divisions by zero, and the pool grows
  whenever there was traffic); refusals by memcached are not told apart from other answers,
  because the handler does not tell its callers either. Data races (oops ranging
  over a map the reader deletes from) are a choice of their outcomes.
* In `MultiGet` the contents of the servers change only by the connection's own
  requests, and links break between responses.
* The array of a key has room for a suffix or not as the allocator rounds its length;
  in `Chunked` this is a constant of the connection (`SpareConns`).
* A body without its header is shorter than a header (`BinProt!Parse`): the parser waits
  for the bytes that follow it and then refuses them.
* In `Conn` the wrapper is used by a single connection: its locks are in
  `LockedOrca`. A write to a client that has gone may fail, which closes the
  connection where the orchestrator returns the responder's error. Expiry times
  are small against the clock's width. A client sends any sequence of
  `ClientFrames` or of `Lines`: the shapes the parsers tell apart, malformed ones
  included; the binary protocol is that of a connection whose first byte is a
  frame's. A storage line in which the parser finds no mistake is followed by its data block
  (`HasBlocks`); the client may hang up in between.
* Two goroutines in a Go map, one of them changing it, is a data race: the
  process may end (`Throw`) or nothing may come of it.

## 3. Runs

`tlc -workers 2 -config X.cfg M`, with `M` one of `MCOrca`, `MCChunked`,
`MCBatched`, `MultiGet`, `MCConn`, `Histogram`.

| run | what it asks | instance | result |
|---|---|---|---|
| `locked` | `TypeOK`, `LockExclusion`, `Coherent`, `OnlyFailuresTear` | one key, two connections on the main port, one on the batch port, two values, one failing call, one deadline | holds |
| `linearizable` | `ImplementsAtomicCache`, `EveryRequestEnds` | the same connections, one of each port sending everything, one reading; no failure, no expiry | holds |
| `multiget` | `TypeOK`, `OneCallPerHandler`, `EndIsComplete`, `TrueAnswers`, `EveryRequestEnds` | one connection, each orchestrator, two keys in all contents of the levels, two requests, two failures | holds |
| `chunked` | `TypeOK`, `TokensGuardReads`, `ActsLikeMemcached` | two clients, values of no, one and two chunks, two writes, one failure or eviction, a deadline to come and one that has passed; the keys of the second client have room for a suffix | holds |
| `batched` | `TypeOK`, `AnswersAreOwn`, `AnswersAreComplete`, `InSync`, `OnlyFaultsPanic`, `EveryCallEnds` | two clients, three calls, gets of two keys, batch sizes 0 and 2, a pool of up to two, sockets of one message, one failure | holds |
| `conn` | `TypeOK`, `BinaryReplies`, `TextReplies`, `ClosedForCause`, `SnapshotGets`, `OnlyGetsClash`, `EveryRequestIsServed` | every command of each protocol twice in a row; pipelines of four gets, quiet and not, of three through the wrapper; two connections on the same keys as time passes | holds |
| `histogram` | `TypeOK`, `ReportIsThePeriod`, `SortedBufferIsPrivate`, `SamplesAreOfThePeriod`, `BucketsCoverCounts`, `ObservationsAreBucketed`, `EveryObservationEnds` | two observers, three observations, two polls, buffers of two cells, with and without sampling | holds |
| `batch_gat` | `L1NeverOutlivesL2` | a gat on the batch port | violated |
| `chunked_get` | `HitIsWhole` | a first set beside a get | violated |
| `chunked_touch` | `TouchOverwritesMetadata` | one client, a set and a touch of a key with room for a suffix | violated |
| `conn_end` | `TextAnswersOnce` | the workloads of `conn` | violated |
| `conn_add` | `KeptUnlessAsked` | one client that sets and adds | violated |

The violated ones state what a comment or a document of the repository says; the
findings in `PROJECT.json` quote it and tell what the code does instead. In short:

1. A gat on the batch port drops the deadline of the L1 copy (`l1l2batch.go`).
2. A missing chunk is not a miss: the hit has zeros in its place (`chunked`).
3. A touch whose key has room for a suffix in its array, as short keys of the text
   protocol have, writes the metadata to another key and reports success (`chunked`).
4. Through the wrapper a text get of two keys is answered by two END lines.
5. `Add` of the in-memory handler removes the live entry because of which it is
   refused.

Behaviour that the models contain and that a reader of a passing property should
know of, because the property leaves room for it:

* Without `-locked`, a get that has read L2 puts back into L1 what a delete has just
  removed, although the comment in Delete says that "no other request can undo part
  of this request" (`l1l2.go:402-405`). `Coherent` and `ImplementsAtomicCache` are
  claimed with the wrapper only.
* When the fill of L1 fails, `L1L2Orca.Get` returns and leaves the goroutine of L2
  blocked, or at work on a socket that the next request uses, although its channels
  "are expected to be read from until" they are exhausted
  (`std/handler.go:184-186`). `OneCallPerHandler` names it as its exception.
* A chunk write that memcached refuses leaves a connection that sends nothing any more:
  `reset` puts a second writer behind the first, and a flush ends in it
  (`alive` = `"mute"`, `Muffled`). The next request waits until the link breaks.
* The batch size is never what was asked for: `uint32ValueOrDefault`
  (`batched/handler.go:54-59`) keeps a 0 and turns any other setting into the default,
  10, although the comment at lines 70-71 says "Any setting that is at the 0 value or
  negative will take the default" and the flag's help in `memproxy.go:98` that 0 assumes
  the default. With the flag untouched the request channel is unbuffered, a batch is
  full with one request, and an empty batch is sent after every timeout. The model has
  both sizes.
* A delete that failed at L1 and is sent again misses in L2 and stops, so that L1
  keeps the item: `Coherent` exempts a key until a later write is acknowledged
  at both levels.
* A gat whose item expires in L2 between its two calls answers "not found" and
  leaves the copy in L1 to its own deadline.
* An error of L1 in a get of several keys is forgotten when a fill succeeds
  (`EndIsComplete`, the `lost` case).
* A chunked get may spin for ever when its link breaks (label `stuck`), and a pooled
  connection of the batched handler hangs the calls it is given after an I/O
  error: liveness is claimed without them only.
* A chunked put whose deadline has passed is acknowledged and nothing is sent
  (`chunked/handler.go:209-213`): the live item that it replaces stays, where a plain
  memcached would drop it. Likewise the deadline in the metadata, which an append
  uses, is not the one a gat has set. `ActsLikeMemcached` stops comparing at such a
  request (`LeavesOldItem`, `LeavesOldDeadline`).
* A touch of a key with room for a suffix is not compared with a plain memcached
  (`Overwritten`), it being finding 3.
* Gets of the in-memory handler delete under the read lock (`OnlyGetsClash` says that
  nobody but two gets can clash).
* The percentiles of a buffer that is not full contain the stale cell 0 and lack
  the last observation (`SamplesAreOfThePeriod`).
* An opcode that may not follow a quiet get loses its header, and the connection
  its framing (`BinaryReplies`, `ClosedForCause`).

Met while reading, outside the models: after a failed `Accept` the listener calls
`Close` on a nil connection (`server/listen.go:81`), and its loop over the
protocols has no `break`, so that the last match wins where the comment at
lines 41-42 says the first has priority (with the two protocols of `memproxy.go`
at most one matches before the fallback).

### Bounds, and why they are enough to be interesting

* *One key, one bucket* in the core. Requests on different keys meet only through
  the lock; the proofs cover any number of keys and buckets.
* *Operations*: `locked` leaves out gete, whose handler calls are those of a get,
  and one of append and prepend on each port; `linearizable` has them all.
* *Values* are one or two symbols long with `MaxLen = 2`, so that an append can
  fit, reach the limit and exceed it.
* *Clock*: two instants, one deadline between them. Start above
  `RealTimeMaxDelta`, as Unix time is.
* *Failures*: one. Two unrelated failures are covered for the core by the proofs;
  `multiget` has two, since one failure there can hide another.
* *Two keys* in `multiget`: one goroutine has a key left to ask for when the first
  answer makes the loop return, and the second request meets it.
* *Two tokens* in `chunked`: two writes overlap with a read, or an append
  follows a set. The first client writes two chunks, the second none or one, so
  that old chunks are left over. `MaxPieces * MaxTokens` chunk keys are enough for
  the longest value that two writes can make; the proofs cover any bounds.
* *Batch sizes 0 and 2* in `batched`: the two that the code can have, the default of
  10 scaled down to what two clients can fill. With 0 the channel is a rendezvous, empty
  batches are sent, and the wait after a timeout produces batches of two. Sockets of
  one message are smaller than a batch, so that write and read must overlap.
* *Workloads* in `conn`: a pipeline needs two quiet gets, an end and a command
  behind it; every pair of commands covers what one leaves in the stream for
  the next.
* *Histogram*: buffers of two cells wrap with the third observation. Words end at 100
  and there are 20 buckets (`MaxUint64`, `NumAtlasBuckets`; the proofs cover the real
  ones), so that of the values 20 and 62 the second falls beyond the table and
  totals wrap around.

`CHECK_DEADLOCK FALSE` is set where the system may stop: in `batched`, whose
scripts end and whose process may panic; in `conn`, `conn_end` and `conn_add`, where
clients stop sending; in `histogram`, where observations and polls are used up.

## 4. Fairness

* Core (`FairSpec` of `LockedOrca`): weak fairness of handler calls and of the
  loop that answers, since a runnable goroutine is scheduled and handlers
  answer; strong fairness of taking a lock, since `sync.Mutex` hands over to a
  starving waiter and an `RWMutex` lets the waiting readers in after each writer;
  weak fairness of `Drain`, which is enough because the waiting writer keeps new
  readers out. Nothing obliges a client to send, L1 to evict or a call to fail.
* `Chunked`: none; only safety is claimed.
* `MultiGet`: weak fairness of the loop and of each goroutine; a server answers.
* `Conn`: weak fairness of the server's goroutine of each connection, while the
  process lives. Clients need not send. Taking the handler's lock needs no
  strong fairness: clients send finitely much.
* `Histogram`: weak fairness of observations and polls that have begun; there are
  finitely many, so a compare-and-swap fails finitely often.
* `Batched`: weak fairness of callers with a call in hand, batchers, readers and
  memcached; the batch timer is part of the batcher. A caller waiting for room in
  a request channel needs no more, because finitely many calls are made.

## 5. Proofs

For all values of the constants, with TLAPS:

* `OrcaProofs!TypeCorrect`: `Spec => []TypeOK`. That values stay in `Value`
  needs the size limit of append and prepend.
* `OrcaProofs!LocksExclude`: with the wrapper in use, `Spec => []LockExclusion`.
  The invariant says who holds what: a connection inside its orchestrator is in
  `writer` or `readers` of its bucket according to its request; a writer inside
  has no readers beside it, and a waiting one (`"drain"`) is the only writer.
* `CoherenceProofs!LevelsCohere` and `RequestsDoNotTear`: with the wrapper,
  absolute deadlines (`FixedDeadlines`) and none of them asked for by a gat on the
  batch port (`BatchGatsForGood`), `Spec => []Coherent` and
  `Spec => []OnlyFailuresTear`.
* `LinearizableProofs!LockedProxyIsAtomic`: under these hypotheses, without failed
  calls (`NoFailures`) and without an expiry inside a gat of the main port
  (`NothingExpiresInGats`), `Spec => ImplementsAtomicCache`.
* `ConnProofs!ConnTypes`, `GetsAreSnapshots`, `OnlyGetsThrow`: types, `SnapshotGets`
  and `OnlyGetsClash`, for any clients, keys and connections.
* `ConnProofs!EntriesAreKept`: the action property that a live entry leaves the map only
  in a delete or an add of its key. `KeptUnlessAsked` has no add; finding 5 is thus
  the only way to break it.
* `ConnProofs!ClosesForCause`, `BinaryClientsAreAnswered`, `TextClientsAreAnswered`:
  `ClosedForCause`, `BinaryReplies`, `TextReplies`, for any streams of frames or
  lines, arriving in any pieces, pipelines of any length included.
* `MultiGetProofs!MultiGetTypes`, `CallersTakeTurns`, `GetsEndComplete`,
  `AnswersAreTrue`: types, `OneCallPerHandler`, `EndIsComplete`, `TrueAnswers`, for
  any number of keys, requests and failures.
* `HistogramProofs!HistogramTypes`, `PollsReportThePeriod`, `SortsItsOwnBuffer`,
  `SamplesAreFresh`, `BucketsAreNotBehind`: types, `ReportIsThePeriod`,
  `SortedBufferIsPrivate`, `SamplesAreOfThePeriod`, `BucketsCoverCounts`, for any
  number of goroutines, polls and observations, any values, word length, sampling and
  buffer size.
* `ChunkedProofs!ChunkedTypes`, `TokensGuardEveryRead`: types and `TokensGuardReads`,
  for any number of connections, writes, chunks of a value, failures and evictions.
* `ChunkedProofs!ChunkingIsInvisible`: if an item of a plain memcached has room for the
  longest value that the writes can make (`Roomy`), and clients whose keys have room for a
  suffix do not touch (`TightTouches`), `Spec => []ActsLikeMemcached`. Without the second
  hypothesis finding 3 refutes the statement.
* `BatchedProofs!TypeCorrect`, `NeverOutOfSync`, `NoConfusion`, `NothingMissing`,
  `PanicsForCause`: types, `InSync`, `AnswersAreOwn`, `AnswersAreComplete`,
  `OnlyFaultsPanic`, for any clients, scripts, pool, setting and default of the batch size
  (0 included), socket size and faults.

### The two levels

`Coherent` is not inductive: it speaks of keys on which nobody is midway. The
invariant `CoherenceInv` adds, for every connection inside its orchestrator,
what it may rely on (`Known`): after the first half of a write, which entry L2
holds and which entries L1 can hold such that the second half restores agreement
(`Halfway`); with an item in hand for a fill, that L2 still holds it, unless it
expired; inside a gat, what the earlier calls found. It adds that every entry is
alive and has an absolute deadline. `LockExclusion` then gives that a step of one
connection cannot disturb what another relies on. Each write splits into
`FirstHalf` and `SecondHalf`, which are shared by both ports, since every method
has the form `L2ThenL1` (`WriteForm`); gets and gats have a lemma each; eviction
and the clock preserve `Known` (`KnownEvicted`, `KnownLater`).

The refinement maps the clients' cache to L2. A write takes effect with its call
to L2, a get that hits L1 with that call, which `CoherenceInv` makes as good as one
to L2, a get that goes on to L2 with the second; every other step maps to a
stutter. `Clean` says that no key is in doubt and no connection cut off, which is
what the absence of failures buys.

The hypotheses are needed. Relative expiry times are counted from each server's
own clock reading, so the two copies of an item can differ by the time between
the calls; the batch port's gat is finding 1; without the wrapper a get can undo a
delete. A failed call may or may not have been applied, and an item that expires in L2
between the calls of a gat makes it answer "not found" although it was touched in
L1: neither is a step of the atomic cache.

### The connection and its map

`ConnInv` is `TypeOK` with what the loop and the handler know of each other: in
which states of the loop there is a request in the handler, that the readers and
the writer of the lock are those in the states between taking and giving it back,
that a writer is alone, and that what a get has found so far is still in the map
or has expired (`SnapshotGets` itself, which is inductive with these). The types of
what the parsers return come from lemmas on `Bin!Parse` and `Text!Parse`; they need
only the assumption that the stream consists of `Frames` or of `Lines`.

The three properties of a connection's streams each extend the invariant before:

* `CauseInv`: what is left to parse is the end of what was sent (`Follows`), except
  that after a stray opcode a body without its header may be in front. A parser
  that returns an error which closes the connection has then met a frame that the
  client really sent.
* `ReplyInv`: between commands the responses answer exactly what has been parsed
  (`Answers`), and while a request is in the handler they answer the frames before
  some place `m`, and the requests still to be served were made of the frames from
  there on (`Due`, `Covers`), a quiet pipeline and its noop being one request of
  several frames.
* `TextInv`: as many final lines as commands parsed, one less while one is in the
  handler (`Told`). A data block is no command if the line before it opened it, so
  `WellCut` carries the assumption on the workloads along the stream: no parse ends
  between a line and its block.

### Chunks

`TokensGuardReads` speaks of a finished read. `ChunkedInv` says what is so before:
each chunk item in memcached is the piece, at its index, of the write whose token
it carries, and metadata announce as many chunks as the write under their token
has (`ServerOK`); a writer has its value under the token it drew (`Writing`); and
what a reader has collected, as long as every chunk answered and every token
agreed, is the beginning of the write its metadata name (`Reading`). None of it
mentions another connection, only `written`, which grows and never changes
(`Grown`), so that a step of one goroutine leaves what the others know alone
(`LocalStays`); one lemma per action shows the rest. That no value outgrows the
indices, which the types need, follows from `TokensOK`: with every write the longest
value grows by one request's at most, and the requests that have yet to draw a
token (`Drawing`) are counted when they arrive.

`ActsLikeMemcached` compares a finished request with the answer of a plain memcached,
`ref`, that was given the same request at once. Its invariant `CleanInv` says what is
so while nothing disturbs (`clean`): one request at a time, all links up, and, when
nobody is at work, the items in memcached are `ref`'s item cut into chunks or, if
there is none, no metadata (`Same`, from `Whole`, `ItemOf`). While a request is at work
`ref` is ahead of the items, and `Serving` says by how much, label by label: a put has
stored the metadata and the first chunks of the value (`Filling`), a read has the
metadata held and has found every chunk so far (`Collecting`), a delete has the
remaining chunks before it (`Clearing`), a touch has given the first chunks the new
deadline (`Touching`). Chunks of earlier, longer values may be left over at
any time; they carry other tokens or lie beyond what the metadata announce, and
`ItemOf` does not look at them. A touch whose metadata key was overwritten would end
with the old metadata; `TightTouches` excludes it. `NoItemAssumption` (the symbol for absence is no item)
makes absence tellable.

### Batches

`InSync` is not inductive, nor is `AnswersAreOwn` without it: an answer is handed to
the caller by its opaque, and that this is the right one depends on everything
between the two goroutines. `BatchedInv` says, for each connection of the pool,

* `InStep`: what comes on the sockets and what the batcher has yet to write splits into
  the responses to the reader's batch and those to the batch in the channel, each
  matching its handles one to one (`Matches`). A break of the link loses a part of
  what was to come; the invariant then lets some lost rest complete the sequence,
  because responses that have arrived may still be read.
* `Owned`: a call is held once, waiting to be batched, in the channel or with the
  reader (`Apart`), and is one that its client has submitted there; every handle
  belongs to a call held (`Belongs`).
* `Awaits`: each key of a waiting client is answered, or not yet batched, or has a
  handle, which is what makes the closing of the channel after the last handle the
  end of the call, and not too early.

A batch may be empty: it announces no handles and has nothing to write, and the
reader passes over it.

`Blame` says that a link is down, or the pool empty, only after a fault; with
`InStep`, the reader has no other reason to panic. That the opaques of a batch differ,
whatever mixture of calls of one and of several keys it is made of, is shown call by
call (`AddCallNumbers`) and along the recursive function of `BatchIntoBuffer` by an
induction (`BatchNumbered`; `AllNaturals` is the principle, obtained from the library's
`WFMin`).

### Gets of several keys

`MultiGetInv` says whose turn it is: at which labels of the loop which goroutine
exists, and at which of its own labels (`TurnsOK`); that a socket holds the command
or the answer of the one caller in it (`SocksOK`); that what is on its way is true
of the server it comes from (`TruthOK`); that the misses of L1 handed to L2 are
misses (`MissesOK`); and how many keys have been answered, asked and dropped at each
label (`L1Progress`, `L2Progress`). The last two give `EndIsComplete` by counting. A
goroutine left behind, and what it does to the socket of L2, is inside the
invariant, as the exception that `OneCallPerHandler` names.

### Histograms

`HistogramInv` adds to the properties: who holds the locks and that the buffer of a
poll is the one not in use (`LocksOK`); that each value observed in the period
lies within the extremes or is in the hands of a goroutine that has yet to
compare it, and that what a goroutine is about to swap in is not smaller than
what it loaded (`ExtremesOK`); that each counter plus the goroutines that have yet
to reach it is the number of observations (`CountsOK`); that each cell given out in
the period holds an observation of it or is about to be written (`CellsOK`). With
the write lock held nobody is midway, and the properties follow.

`Sum` is a recursive definition over sets. Its laws are proved by way of
`SumIsUnits`: a sum of naturals over a finite set is the cardinality of a set with
as many members (`Units`). The proof shows that the cardinalities satisfy the
recursive equation, and that any two solutions agree, by taking a smallest set
on which they do not (`SmallestSubset`, from the library's `WFMin`).

### Only model-checked

* Liveness under fairness, everywhere: outside what the prover supports, as is
  `ENABLED`.
* `ObservationsAreBucketed`: bucket by bucket what `BucketsCoverCounts`, which is proved,
  says of their sum.

## 6. Not modelled

* The layout of headers, bodies and lines: numbers, lengths and text. What the
  parsers do with a stream is in `BinProt` and `TextProt`.
* The accept loop, handler constructors, flags and start-up: a sequence of calls
  without state of its own.
* Counters, gauges and callbacks of the metrics: single atomic operations, names
  and formatting. The timer reads a clock.
* Client tools: load generators beside the program.
* The monitor of the batched handler as arithmetic: its decisions are a free
  choice.
* Panics recovered by the wrapper's `Get`: the chunked handler panics in `GetE`, which it
  does not support (`chunked/handler.go:610-617`), and the batched one when its pool is
  empty. The second is in `Batched`, without the wrapper: the panic of a get is on a
  goroutine of its own, where no recover reaches it.

## 7. Plan

Done: the core (`StdHandler` to `Linearizable`), `Chunked`, `Batched`, `MultiGet`,
`InMem`, the protocols and the connection (`Conn`), `Histogram`, each with its proofs.

Left, in this order:

1. *Relative expiry times* in the core: agreement up to the time between calls.
2. *Composition*: the batched and the in-memory handler below the two-level
   orchestrators, in particular a gete that has no deadline to give
   (`batched/handler.go:243`).
