# TLA+ models of the TitanLOB matching engine

This directory holds TLA+ models of the C++ limit order book in `src/`, the
TLC configurations that check them and `PROJECT.json`. The modules are:

| Module | Models | Checked through |
|---|---|---|
| `OrderBook` | the matching engine, its pool, bitmap, index and output batching | `MC_OrderBook`, `OrderBook_*.cfg` |
| `RingBuffer` | the SPSC ring of `src/unnamed/part_002`: producer, consumer and a `size_approx` caller | `MC_RingBuffer`, `RingBuffer_*.cfg` |
| `BoundedFifo` | the abstract queue the ring promises (spec 4.8); not code | instantiated by `RingBuffer` |
| `BinaryLogger` | the double-buffered logger of `src/logger.h`, its flush thread, and `BinaryLogReader` replaying the file | `MC_BinaryLogger`, `BinaryLogger_*.cfg` |
| `Gateway` | `TcpGateway` of `src/gateway.h` 31-281 over the wire layouts of `src/protocol.h` | `MC_Gateway`, `Gateway_*.cfg` |

`PROJECT.json` records:

- the components;
- the runs;
- the mutants;
- the map from each definition to the source lines it translates;
- the findings;
- the hazards.

## The system

| Part | Source | Role |
|---|---|---|
| Matching engine `OptimizedOrderBook` | `src/order_book.cpp` (compiled), `src/gateway.h` 282-1226 (the class, with inline copies of the internal methods) | price-level arrays, occupancy bitmaps, best-price cache, order index, the matching loop |
| `ObjectPool` and intrusive lists | `src/unnamed/part_001` 525-641 | slab of `Order` records with a free-index stack that doubles when empty |
| `RingBuffer` | `src/unnamed/part_002` | SPSC queue; the engine is its producer through `flush_batch` |
| `BinaryLogger` | `src/logger.h` 59-209 | double-buffered file logger with a flush thread; not used by any program |
| `BinaryLogReader` | `src/logger.h` 211-265 | reads a log file back; not used by any program |
| `TcpGateway` | `src/gateway.h` 1-281 | socket listener; serves one client at a time and dispatches messages |
| bridge `main` | `src/unnamed/part_004` | replay / TCP dispatch with the `_no_lock` API, dashboard snapshots |
| protocol, output messages, TUI, benchmark | `protocol.h`, `output_msg.h`, `tui.h`, `part_000` | layouts, display, timing |

### How the parts interact

1. A driver calls the public API:
   - `add_order` (`gateway.h` 1090-1103);
   - `match_order` (1118-1122);
   - `cancel_order` (1124-1127).
2. Each call takes the book mutex and runs to completion on the caller's thread. The gateway serves clients one after another. The bridge calls the `_no_lock` variants from the one thread that also reads the book for snapshots. As a result, engine operations never interleave.
3. An operation writes zero or more events into a 64-entry batch. A full batch is pushed into the ring.

### Internal methods without a public caller

`add_iceberg_internal`, `modify_order_internal` and `reset_internal` have no public caller. `add_aon_internal` is reached only from `match_internal`. The gateway maps the protocol messages onto the public API as follows:

- ADD_ICEBERG and ADD_AON become plain `add_order`.
- MODIFY becomes `cancel_order`.
- RESET and HEARTBEAT are ignored.

## Module `OrderBook`

### State

Each class member is one variable:

- `levels[side][price]` is the FIFO of pool indices, standing for the intrusive list.
- `volume[side][price]` holds the four running sums of a `PriceLevel`.
- `bitmap[side]` is the set of set bits. Its words are `WordBits` wide, so that `best_*_word_` and the scans from the cached word are modelled.
- `bestBid`, `bestAsk`, `bestBidWord`, `bestAskWord`.
- `levelCount`.
- `pool` and `freeList` are the `ObjectPool`.
- `index` is `order_index_`.
- `activeCount`.
- `batch`, `ring`, `dropped`, `trades`.

### Operations

- Each internal method is an operator from a book record to a book record, so composite methods compose them. For example, modify is `CancelOrderInternal` followed by `AddOrderInternal`.
- The three `add_*_internal` share one body, `Rest`.
- `calculate_available_quantity` is a pair of recursive operators. They follow `order_book.cpp`: the buy side breaks at the array end, the sell side skips out-of-array prices.
- `match_internal` runs one loop iteration per step, so a loop that never ends is a behaviour TLC can see:
  - `pc = "walk"` is the outer loop over levels;
  - `pc = "level"` is the inner loop over one FIFO.
- The client actions are:
  - `AddOrder`, `MatchOrder`, `CancelOrder`: the public API;
  - `AddIceberg`, `ModifyOrder`, `Reset`: the private methods, and `FlushOutputBuffer` (`flush_output_buffer`, public but called by no program). These are enabled only when `InternalOps`.
- Every action with a book effect is the whole method, with its trailing bitmap, best-price update and event emission.

### Abstractions

- An event is an `OutputMsg` (`output_msg.h`) as a record: its type and its four 8-byte words. A trade holds buy id, sell id, price and quantity; an accept holds id, side byte ('B' 66 / 'S' 83, `protocol.h` `bool_to_side`), price and quantity; a cancel holds id and quantity, the other words zero.
- User ids are left out.
- Timestamps are left out; `current_timestamp_` is never updated by the code.
- The order-index resize is left out.

### Ghost variables

- `emitted` is every event appended to the batch, in order. It is part of the book record so that `Emit` can extend it.
- `owed` is, per id, the quantity that should still rest: submitted, less traded, cancelled and the dropped IOC/FOK residue.
- `fills` records the trades of the current match.
- `used` records ids already submitted.
- `nops` bounds the number of client calls (`MaxOps`).

### Observers

The `shared_lock` getters (`gateway.h` 1144-1222: `get_best_bid`, `get_best_ask`, `get_best_volume`, `get_snapshot`, `get_order_count`, `get_level_count`, `get_pool_used`) are state functions. Every reader of the book (the bridge's dashboard) runs on the thread that also calls the engine, so a getter never sees an operation half done. No property is stated over them: each is a direct read of state that `LevelAggregatesConsistent`, `BestPriceTracking` and `IndexPoolConsistent` already constrain.

## Properties

| Property | Kind | What it says |
|---|---|---|
| `TypeOK` | invariant | types; also bounds the batch below `BATCH_SIZE` and the ring below capacity-1 |
| `LevelAggregatesConsistent` | invariant | each level's four sums equal the sums over its FIFO, and no empty order rests. At operation return, the bitmap bits and level counts agree with the FIFOs |
| `BestPriceTracking` | invariant | at return, the best prices are the extreme set bits, and the cached words bound every set bit |
| `IndexPoolConsistent` | invariant | the free list and the FIFOs partition the pool slots; the index and `active_order_count_` agree with the FIFOs |
| `QtyConserved` | invariant | each id's resting quantity equals `owed` |
| `NotCrossed` | invariant | best bid < best ask at return (spec 3.6, 8.1) |
| `NoTradeThrough` | invariant | a level is matched only within the limit and when no better level holds orders |
| `TimePriority` | action | a trade hits the first order of the FIFO that is not a too-large AON |
| `AllOrNothingTakers` | action | a FOK/AON taker that passed the probe leaves the loop fully filled |
| `AonNeverPartiallyFilled` | action | a resting AON's quantity never changes while it rests |
| `OutOfRangeAddNeverTrades` | invariant | an `add_order` at a price outside the array never trades (spec 7, 8.9) |
| `EventStreamAccounted` | invariant | the ring holds the first events emitted, in order; the batch holds the last; the events in between are exactly those counted in `messages_dropped_` (spec 4.7, 5) |
| `EventStreamReconstructsBook` | invariant | with every accept and cancel emitted and no drop, a consumer folding the emitted `OutputMsg`s (accepts add, trades subtract from the side's id the accept named, cancels remove) ends with exactly the resting orders: quantity, side and price per id |
| `MatchTerminates` | liveness | every `match_internal` call returns |

## Runs (`MC_OrderBook`, configs `OrderBook_*.cfg`)

All runs use:

- 3 prices in two 2-bit words, so the word caches and cross-word scans matter;
- 3 order ids;
- quantities {1, 2}, so partial fills, AON skips (an AON of 2 against a taker of 1) and icebergs with a reserve happen;
- a pool of 2, so the third resting order makes it grow;
- a batch of 2 and a ring of 4 (3 usable), so flushes, a full ring and drops happen within a few calls.

| Run | Expect | Checks |
|---|---|---|
| `public` | pass | 4 public calls with GTC/IOC/FOK: all safety properties above except the AON ones and `OutOfRangeAddNeverTrades`, with `EventStreamReconstructsBook` (418k states) |
| `live` | pass | `MatchTerminates` without AON orders, 3 calls (99k states) |
| `aon` | pass | 4 calls with AON too: aggregates, quantity, time priority, all-or-nothing, `AonNeverPartiallyFilled`, `EventStreamReconstructsBook` (1.24M states) |
| `internal` | pass | 3 calls including iceberg, modify, reset and `flush_output_buffer`; also `EventStreamAccounted`, since two accepts and a two-level sweep already fill the 3-slot ring and drop an event (619k states) |
| `aon_hang` | violation | `MatchTerminates`: an add rests, an AON of 2 rests behind it through the fallback, then an aggressive add of 1 consumes the first order and loops on the level of the AON for ever |
| `aon_cross` | violation | `NotCrossed`: the AON fallback rests a crossing order |
| `oor` | violation | `OutOfRangeAddNeverTrades`: with price 3 = MAX_PRICE_LEVELS allowed, an add at 3 sweeps the asks |

The violation runs are real disagreements between the code and `spec.md`, listed under findings in `PROJECT.json`.

A third disagreement was seen with the private modify among the calls (`InternalOps = TRUE`, `TIFs = {"GTC"}`, 3 calls). `NotCrossed` fails after add bid, add ask, and a modify of the bid above the ask, because `modify_order_internal` re-adds through `add_order_internal` without matching (spec 4.5.5). No program calls that method, so it is not kept as a run; its hazard records it.

`EventStreamReconstructsBook` is not checked with the private methods: after an add and an iceberg on the same side it fails, because an iceberg's accept shows only its display quantity and a refresh emits nothing, and `modify_order_internal` and `reset_internal` change the book silently. Spec 4.7 does not promise a complete stream for those methods, so the hazard at `order_book.cpp:210` records this and no run keeps it.

Each property of a passing run has a mutant in `OrderBook.tla`: a copy of a mapped definition with a plausible bug, for example:

- a flush one event late;
- a word cache not updated;
- an iceberg refreshed at the head of the FIFO;
- a bitmap bit not cleared.

TLC finds the property violated under the run's own config.

Deadlock checking is off: the engine is passive, and once the driver stops calling, the book rests where it is.

## Module `RingBuffer`

`RingBuffer<T, Size>` (`src/unnamed/part_002`) is used by the engine as `OutputBuffer` (`gateway.h` 306). The engine only calls `push_batch`, through `flush_batch`; no code in the repository pops. The module models every operation, so that the ring's own promise can be checked.

### State

- `buffer` holds the slots.
- `head` and `tail` are `head_` and `tail_`. They are `Width`-bit counters, so they wrap as `size_t` does.
- `pp`/`pl` and `cp`/`cl` are the producer's and the consumer's program counter and locals.
- `cachedTail` is the producer's last `get_tail_relaxed()` result.
- `op`, `obsHead` and `obsSize` belong to a third thread calling `size_approx()`.
- `written`, `published` and `consumed` are ghost counters.

The producer writes records numbered 1, 2, ..., so loss, duplication and reordering are visible.

### Steps

Each operation is split where another thread can observe it:

- a load step: the relaxed load of the thread's own counter, the acquire load of the other's, and the capacity arithmetic (`PushBatchLoad`, `TryPushLoad`, `TryPushWithCachedTailLoad`, `TryPopLoad`, `PopBatchLoad`);
- the copy, both chunks of a wrapping copy at once (`ProducerWrite`, `ConsumerRead`);
- the release store (`ProducerPublish`, `ConsumerCommit`).

Acquire/release pairs make a sequentially consistent interleaving of these steps sound for the slot data. Each behaviour picks, at `Init`, the entry points its producer uses (`pops`, from `ProducerOpSets`) and those its consumer uses (`cops`, from `ConsumerOpSets`). No program in the repository pops or uses the cached-tail push, so the model explores the disciplines a user of the class could follow.

### Refinement

`BoundedFifo` is the abstract queue: `Put(k)` appends k records if they fit in `Cap`, `Get(k)` removes the first k, and a consumer that keeps polling eventually takes everything. `RingBuffer` maps:

- the records between `tail_` and `head_` to `queue`;
- `published` to `sent`;
- `consumed` to `recv`.

`FifoRefinement == Fifo!Spec` is checked as a `PROPERTY`. This also justifies `OrderBook` modelling the ring as a bounded sequence.

### Properties

| Property | What it says |
|---|---|
| `TypeOK` | types; the occupancy `head - tail` never exceeds `capacity()` |
| `NoOverwrite` | the producer never copies into a slot between `tail_` and `head_` |
| `ConsumerReadsInOrder` | what the consumer copies out is the next records in production order |
| `FifoRefinement` | the ring implements `BoundedFifo`, including its liveness |

### Runs

All runs use 4 slots (3 usable), 3-bit counters (they wrap after 8 records), batches up to 3 and 10 records.

| Run | Expect | Checks |
|---|---|---|
| `ring_spsc` | pass | `TypeOK`, `NoOverwrite`, `ConsumerReadsInOrder`, `FifoRefinement`. The producer uses either `push_batch` + `try_push`, or only `try_push_with_cached_tail`, refreshing its cache at any time. The consumer uses `pop_batch`, or `try_pop` + `pop_batch`. A `size_approx` caller runs alongside (207k states) |

A producer that mixes `push_batch` with `try_push_with_cached_tail` breaks `NoOverwrite`. Once `push_batch` has moved `head_` a lap past a cached tail, the masked test passes on a full ring. No caller uses that method, so that run is not kept; the hazard at `part_002:97` records it.

The `size_approx` steps reach a state where the consumer has advanced `tail_` past the `head_` already loaded, so `h - t` wraps to nearly 2^64. The spec only calls the query approximate, so no property bounds it; the hazards list it.

## Module `BinaryLogger`

`BinaryLogger` (`src/logger.h`) has two threads:

- the owner's thread, which calls `log`, `log_batch` and finally the destructor;
- the flush thread started by the constructor.

### State

- `bufs` is the content of `buffer_a_` and `buffer_b_`; `count` is the length.
- `wb` is `write_buffer_`; the flush buffer is the other one.
- `pending` and `running` are the two atomics.
- `file` is what reached the file, as half-records `<<n, h>>`: the `FileHeader` is record 0, message n is `<<n, 1>>, <<n, 2>>`. Half-records are enough to show a short write ending inside a record.
- `rstate`, `rpos` and `mread` are the reader's `fd_`, file offset and `messages_read_`; `got` (ghost) is what it returned since the last rewind.
- `wpc`, `ret`, `left` and `fpc` are the threads' program counters and locals.
- `logged` counts the messages logged.

### Steps

- `LogCall`, `LogBatchCall`/`LogBatchCopy`/`LogBatchDone` and `TriggerFlush` model the logging calls. `LogBatchCopy` computes `remaining()`, which wraps once `count` exceeds the capacity, as `size_t` does.
- `Destroy`, `FlushSync`, `StopRunning`, `Signal` and `Join` model the destructor.
- The flush thread is `FlushCheckRunning`, `FlushCheckPending`, `FlushWork` and `FlushFinal`.
- `Init` includes the constructor's header `write()`, which may be short on a faulty disk.
- `ReaderOpen` (the constructor with its header read and `is_valid`), `ReaderRead`, `ReaderReadBatch(k)` and `ReaderRewind` model `BinaryLogReader`. The reader is constructed once the logger is destroyed, as a replay would be. A short `read()` moves the offset; `read_batch` counts `n / sizeof(OutputMsg)` and consumes a trailing partial record.

### Constants

- `FdOk` is the result of the constructor's two `open()` calls.
- `WriteFaults` allows a faulty disk. Each behaviour chooses at `Init` whether its disk is faulty (`faulty`). On a faulty disk a `write()` may persist only a prefix of its buffer, and the code ignores the shortfall and resets the buffer anyway.
- `Cap` is `BUFFER_CAPACITY` (2 in the runs, because the behaviour does not depend on its size).

### Properties

| Property | What it says |
|---|---|
| `TypeOK` | types, and no more than `MaxMsgs` messages logged |
| `BufferNeverOverrun` | no buffer ever holds more than `BUFFER_CAPACITY` messages |
| `NothingLostOrReordered` | with the file open and a healthy disk, file + pending flush buffer + write buffer = the messages logged, in order |
| `FileInLogOrder` | what reaches the file is in logging order, even with short writes |
| `ReplayReturnsLog` | on a healthy disk, the reader returns messages 1, 2, ... whole and in order, `messages_read()` counts them, and at end of file it has returned every message logged |
| `CallsReturn` | every `log`, `log_batch` and destructor call returns |

### Runs

All runs use `Cap = 2`, up to 5 messages, batches up to 3, and `read_batch` of up to 2 records.

| Run | Expect | Checks |
|---|---|---|
| `logger_handshake` | pass | `TypeOK`, `BufferNeverOverrun`, `NothingLostOrReordered`, `CallsReturn`, `FileInLogOrder`, `ReplayReturnsLog`, on healthy and faulty disks (19k states) |
| `logger_nofd` | violation | `BufferNeverOverrun`: with `fd_ < 0` the flush thread never resets the flush buffer, and the fifth `log()` writes `data[BUFFER_CAPACITY]` |

On a faulty disk `ReplayReturnsLog` fails, as expected: a lost `write()` leaves messages out, and a write cut inside a record makes the reader misalign every later record. Both follow from the writer ignoring `write()`'s result; the hazards list them.

With `fd_ < 0`, `log_batch` also loops for ever on two full buffers. `CallsReturn` would show this under `LogOps = {"log_batch"}`.

## Module `Gateway`

`TcpGateway` (`src/gateway.h` 31-281) has two kinds of threads:

- the owner, which calls `start()`, `stop()` and the destructor;
- a listener thread per `start()`, running `listener_loop`.

The listener creates, binds and listens on a socket, accepts one client, and serves it inline in `handle_client` until the client goes away. `stop()` only clears `running_` and detaches the thread. No program in the repository instantiates the class.

### State

- `running` is `running_`; `owner` turns to `"destroyed"` once the destructor has returned.
- `th[i]` is the listener of the i-th `start()`. It holds the thread's pc, the connection it serves, the frames it has consumed, the current header, and `message_buffer`.
- `conns` and `frames` are the clients: the frames each one has sent, and whether it has closed. A frame is its type tag, its declared length, and whether it arrived whole.
- `calls` records every order-book call. Each entry holds the operation, the frame that caused it, the frames its fields were read from, and the thread, the `start()` epoch, and whether `running_` was false at the time.

### Abstractions

- Each byte of `message_buffer` that `process_message` can read (11-51) holds the number of the frame that wrote it. It holds `Uninit` for the indeterminate initial bytes of the local array.
- `Reads(t)` gives the byte spans of the fields `process_message` reads for type `t`, taken from the packed layouts. `Owner` (`msg_cast`) tells whether a field came from one frame, and which one.
- `recv_exact` is one step: it returns when the bytes are there, and fails if the client closed first. A frame declaring fewer than 11 bytes is rejected at once; the code rejects it once 11 bytes have arrived, or fails the read.
- `running_` is read and written with relaxed order. The model treats it as sequentially consistent, which is what x86 gives.

### Properties and runs

Both runs use the tags ADD_ORDER, CANCEL_ORDER and HEARTBEAT and the declared lengths 5, 19, 44 and 2000. They allow two frames, two connections and two `start()` calls (1.8M states, 27 s).

| Run | Expect | Checks |
|---|---|---|
| `gateway` | pass | `TypeOK`; `StopQuiescesListener`: once `stop()` has returned, each listener hands at most one more message to the book before a later `start()` |
| `gateway_short_frame` | violation | `EngineCallsFromOwnFrame`: an ADD_ORDER that declares 19 bytes passes the length check, and `add_order` gets user id, side, price and quantity from bytes the frame never wrote |

Deadlock checking is off: a listener blocked in `accept` with no client, or in `recv` on an idle client, is a state the code really stays in. Because of that, the detached listener can outlive the gateway. An invariant forbidding a dispatch after the destructor fails: the listener wakes for a new client and dispatches through the freed object. The class has no join that a property could hold it to, so this is recorded as a hazard.

No fairness is assumed: every liveness question here depends on clients, who may stay idle or connected for ever.

## Fairness

- `OrderBook` assumes only `WF_vars(MatchStep)`. Once `match_internal` is entered it runs on the caller's thread without waiting on anything, so it keeps taking steps. No fairness is assumed for clients, who may stop calling at any time.
- `RingBuffer` assumes `WF_vars(ConsumerStep)`, which `FifoRefinement`'s liveness needs. The producer, the engine, may stop producing at any time.
- `BinaryLogger` assumes weak fairness for the steps of a call already in progress and for the flush thread. The writer's spins yield rather than block, and the flush thread polls every 100 us. Starting a call or destroying the logger is up to the owner and gets no fairness.

## Not modelled, and why

- The engine and the ring are not composed into one module. `OrderBook`'s ring is a bounded sequence with no consumer, because nothing in the repository consumes the ring. `RingBuffer`'s refinement of `BoundedFifo` is what justifies that abstraction.
- Whether a partial batch is ever published (`gateway.h` 588). `FlushOutputBuffer` models `flush_output_buffer`, but no driver calls it, and the model gives clients no fairness.
- Duplicate order ids and zero quantities. The runs use fresh ids and positive quantities. Either breaks the invariants at once (`IndexPoolConsistent` after two adds of one id; `LevelAggregatesConsistent` after an add of 0), as the hazards note.
- The sell-side probe loop length for a very negative limit (`order_book.cpp` 262). The model's prices stay near the array.
- The gateway's engine calls are recorded, not applied to an `OrderBook` instance. Their effect on the book is that of `OrderBook`'s public actions, and composing the two would multiply two state spaces that are each near TLC's limit. Byte-level `recv` chunking and the Windows WSA calls are left out.
- A reader running while the logger still writes: concurrent `read`/`write` on a regular file is not atomic at record granularity, so the model constructs the reader after the destructor.
- The TUI, JSON snapshots, benchmark and the protocol `create()` constructors: display, timing and data only. The output message layouts are modelled as event records.
- The `gateway.h` copy of `calculate_available_quantity`. It is not the compiled one: it continues instead of breaking at the array end.

## Plan for later work

1. An abstract price-time book and a refinement mapping from `OrderBook` to it.
2. A composed output path: the engine's `flush_batch` as the `RingBuffer` producer with a live consumer.
3. Larger `RingBuffer` instances (8 slots, 4-bit counters).
