----------------------------- MODULE OrderBook -----------------------------
(***************************************************************************)
(* The matching engine of TitanLOB: class OptimizedOrderBook (order_book.h *)
(* as embedded in src/gateway.h, and src/order_book.cpp).                  *)
(*                                                                         *)
(* The single writer calls one public operation at a time.  add_order and  *)
(* cancel_order are one step each; match_internal is a loop, and it is     *)
(* modelled one iteration per step (pc = "walk" is the head of the outer   *)
(* loop over price levels, pc = "level" the inner loop over one level's    *)
(* FIFO), so that the model sees the loop as the code runs it, including   *)
(* a loop that never ends.                                                 *)
(*                                                                         *)
(* Each internal method of the class is an operator from a book record to  *)
(* a book record (Book below), so that an operation composing several of  *)
(* them, as modify = cancel then add does, composes the operators.         *)
(*                                                                         *)
(* Data abstraction: the intrusive doubly-linked list of a price level is  *)
(* a sequence of pool indices (head = first, tail = last); prices are the  *)
(* indices 0..NPrices-1 (PRICE_OFFSET = 0); an output event keeps only     *)
(* its kind and order id; user ids and timestamps are left out.            *)
(***************************************************************************)
EXTENDS Integers, Sequences, SequencesExt, FiniteSets, FiniteSetsExt

CONSTANTS
  NPrices,      \* MAX_PRICE_LEVELS
  WordBits,     \* bits per bitmap word (64 in the code)
  OrderIds,     \* order ids the clients use
  Quantities,   \* quantities the clients send
  InputPrices,  \* prices the clients send (may include out-of-range ones)
  TIFs,         \* time-in-force values match_order is called with
  PoolInit,     \* initial ObjectPool capacity
  BatchSize,    \* BATCH_SIZE
  RingSize,     \* OUTPUT_BUFFER_SIZE (a power of two)
  EmitAccepts,  \* emit_accepts_
  EmitCancels,  \* emit_cancels_
  UseRing,      \* use_ring_buffer_
  InternalOps,  \* also drive what no program calls: the private
                \* add_iceberg / modify / reset and flush_output_buffer
  UniqueIds,    \* clients never reuse an order id
  MaxOps        \* bound on the number of client operations

ASSUME NPrices > 0 /\ WordBits > 0 /\ PoolInit > 0
ASSUME BatchSize > 0 /\ RingSize > 1
ASSUME OrderIds \subseteq Nat /\ Quantities \subseteq Nat \ {0}
ASSUME TIFs \subseteq {"GTC", "IOC", "FOK", "AON"}

Prices == 0 .. NPrices - 1
NoBid  == -1                \* best_bid_ sentinel
NoAsk  == NPrices + 100     \* INT64_MAX: above every price a client sends
NULL   == -1                \* NULL_INDEX
Sides  == BOOLEAN           \* is_buy

ASSUME \A p \in InputPrices : p < NoAsk

MinOf(a, b) == IF a <= b THEN a ELSE b

(***************************************************************************)
(* Records of the code: Order (64-byte pool record), the four running      *)
(* volumes of a PriceLevel, OrderLocation of the order index.              *)
(***************************************************************************)
OrderRec(id, p, q, h, pk, buy, aon) ==
  [oid |-> id, price |-> p, qty |-> q, hidden |-> h, peak |-> pk,
   buy |-> buy, aon |-> aon]
EmptyOrder == OrderRec(0, 0, 0, 0, 0, FALSE, FALSE)          \* T{}
NoVolume   == [total |-> 0, visible |-> 0, aonv |-> 0, nonaon |-> 0]
NoLocation == [price |-> 0, pidx |-> 0, buy |-> FALSE, active |-> FALSE]

VARIABLES
  levels,       \* levels[s][p]: FIFO of pool indices (bid_levels_/ask_levels_)
  volume,       \* volume[s][p]: the level's running volumes
  bitmap,       \* bitmap[s]: set of price indices whose bit is set
  bestBid, bestAsk, bestBidWord, bestAskWord,
  levelCount,   \* bid_level_count_ / ask_level_count_
  pool,         \* ObjectPool::pool_
  freeList,     \* ObjectPool::free_indices_ (back = Last)
  index,        \* order_index_
  activeCount,  \* active_order_count_
  batch,        \* batch_buffer_[0 .. batch_count_-1]
  ring,         \* events in output_buffer_ (no consumer in the program)
  dropped,      \* messages_dropped_
  trades,       \* trades_executed_
  emitted,      \* ghost: every event emitted into the batch, in order
  pc,           \* "idle", or the loop of match_internal ("walk", "level")
  m,            \* locals of the running match_internal
  owed,         \* ghost: quantity of each id that should still be resting
  fills,        \* ghost: fills <<resting slot, price, qty>> of the current match
  used,         \* ghost: ids already submitted
  nops          \* ghost: client operations so far

bookVars  == <<levels, volume, bitmap, bestBid, bestAsk, bestBidWord,
               bestAskWord, levelCount, pool, freeList, index, activeCount,
               batch, ring, dropped, trades, emitted>>
ghostVars == <<owed, fills, used, nops>>
vars      == <<bookVars, pc, m, ghostVars>>

Book == [levels |-> levels, volume |-> volume, bitmap |-> bitmap,
         bestBid |-> bestBid, bestAsk |-> bestAsk, bestBidWord |-> bestBidWord,
         bestAskWord |-> bestAskWord, levelCount |-> levelCount, pool |-> pool,
         freeList |-> freeList, index |-> index, activeCount |-> activeCount,
         batch |-> batch, ring |-> ring, dropped |-> dropped, trades |-> trades,
         emitted |-> emitted]

SetBook(b) ==
  /\ levels' = b.levels          /\ volume' = b.volume
  /\ bitmap' = b.bitmap          /\ bestBid' = b.bestBid
  /\ bestAsk' = b.bestAsk        /\ bestBidWord' = b.bestBidWord
  /\ bestAskWord' = b.bestAskWord /\ levelCount' = b.levelCount
  /\ pool' = b.pool              /\ freeList' = b.freeList
  /\ index' = b.index            /\ activeCount' = b.activeCount
  /\ batch' = b.batch            /\ ring' = b.ring
  /\ dropped' = b.dropped        /\ trades' = b.trades
  /\ emitted' = b.emitted

(***************************************************************************)
(* ObjectPool: a stack of free indices; allocate grows by doubling.        *)
(***************************************************************************)
FreshStack(n) == [i \in 1 .. n |-> n - i]         \* pushes n-1, ..., 0

Grow(b) ==
  LET old == Cardinality(DOMAIN b.pool)
  IN  [b EXCEPT !.pool = [i \in 0 .. 2 * old - 1 |->
                           IF i < old THEN b.pool[i] ELSE EmptyOrder],
                !.freeList = @ \o [i \in 1 .. old |-> 2 * old - i]]

\* The book after allocate(); the allocated index is Last(b.freeList).
Allocate(b) ==
  LET g == IF b.freeList = <<>> THEN Grow(b) ELSE b
  IN  [g EXCEPT !.freeList = Front(@)]
AllocatedIdx(b) ==
  IF b.freeList = <<>> THEN Cardinality(DOMAIN b.pool) ELSE Last(b.freeList)

FreeSlot(b, i) ==
  [b EXCEPT !.pool[i] = EmptyOrder, !.freeList = Append(@, i)]

(***************************************************************************)
(* Level volumes: add_to_level_volume, remove_from_level_volume,           *)
(* adjust_level_volume.                                                    *)
(***************************************************************************)
(* Mutations of the definitions below, each the shape of a plausible bug,
   used to show that the properties at the end can detect it. *)
AdjustVolumeKeepVisible(v, dv, dh, aon) ==
  [v EXCEPT !.total = @ + dv + dh,
            !.aonv = IF aon THEN @ + dv + dh ELSE @,
            !.nonaon = IF aon THEN @ ELSE @ + dv + dh]
AdjustVolumeIgnoreAon(v, dv, dh, aon) ==
  [v EXCEPT !.total = @ + dv + dh, !.visible = @ + dv,
            !.nonaon = @ + dv + dh]

AddVolume(v, o) ==
  LET t == o.qty + o.hidden
  IN  [v EXCEPT !.total = @ + t, !.visible = @ + o.qty,
                !.aonv = IF o.aon THEN @ + t ELSE @,
                !.nonaon = IF o.aon THEN @ ELSE @ + t]

RemoveVolume(v, o) ==
  LET t == o.qty + o.hidden
  IN  [v EXCEPT !.total = @ - t, !.visible = @ - o.qty,
                !.aonv = IF o.aon THEN @ - t ELSE @,
                !.nonaon = IF o.aon THEN @ ELSE @ - t]

AdjustVolume(v, dv, dh, aon) ==
  [v EXCEPT !.total = @ + dv + dh, !.visible = @ + dv,
            !.aonv = IF aon THEN @ + dv + dh ELSE @,
            !.nonaon = IF aon THEN @ ELSE @ + dv + dh]

(***************************************************************************)
(* Side bitmap and best-price tracking.                                    *)
(***************************************************************************)
Word(p) == p \div WordBits

\* bitmap_find_highest: scan words start_word, start_word-1, ..., 0.
FindHighest(bits, startWord) ==
  LET s == {p \in bits : Word(p) <= startWord}
  IN  IF s = {} THEN -1 ELSE Max(s)

\* bitmap_find_lowest: scan words start_word, start_word+1, ...
FindLowest(bits, startWord) ==
  LET s == {p \in bits : Word(p) >= startWord}
  IN  IF s = {} THEN -1 ELSE Min(s)

UpdateBestAfterAddKeepWord(b, buy, p) ==
  LET b1 == [b EXCEPT !.bitmap[buy] = @ \cup {p}]
  IN  IF buy
      THEN IF b.bestBid < 0 \/ p > b.bestBid THEN [b1 EXCEPT !.bestBid = p] ELSE b1
      ELSE IF b.bestAsk = NoAsk \/ p < b.bestAsk THEN [b1 EXCEPT !.bestAsk = p] ELSE b1

UpdateBestAfterAdd(b, buy, p) ==
  LET b1 == [b EXCEPT !.bitmap[buy] = @ \cup {p}]
  IN  IF buy
      THEN IF b.bestBid < 0 \/ p > b.bestBid
           THEN [b1 EXCEPT !.bestBid = p, !.bestBidWord = Word(p)] ELSE b1
      ELSE IF b.bestAsk = NoAsk \/ p < b.bestAsk
           THEN [b1 EXCEPT !.bestAsk = p, !.bestAskWord = Word(p)] ELSE b1

UpdateBestAfterRemoveKeepBit(b, buy, p) ==
  LET hi == FindHighest(b.bitmap[TRUE], b.bestBidWord)
      lo == FindLowest(b.bitmap[FALSE], b.bestAskWord)
  IN  IF buy
      THEN IF p = b.bestBid
           THEN IF hi >= 0 THEN [b EXCEPT !.bestBid = hi, !.bestBidWord = Word(hi)]
                           ELSE [b EXCEPT !.bestBid = NoBid, !.bestBidWord = -1]
           ELSE b
      ELSE IF p = b.bestAsk
           THEN IF lo >= 0 THEN [b EXCEPT !.bestAsk = lo, !.bestAskWord = Word(lo)]
                           ELSE [b EXCEPT !.bestAsk = NoAsk, !.bestAskWord = 0]
           ELSE b

UpdateBestAfterRemove(b, buy, p) ==
  LET b1 == IF b.levels[buy][p] = <<>>
            THEN [b EXCEPT !.bitmap[buy] = @ \ {p}] ELSE b
      hi == FindHighest(b1.bitmap[TRUE], b.bestBidWord)
      lo == FindLowest(b1.bitmap[FALSE], b.bestAskWord)
  IN  IF buy
      THEN IF p = b.bestBid
           THEN IF hi >= 0 THEN [b1 EXCEPT !.bestBid = hi, !.bestBidWord = Word(hi)]
                           ELSE [b1 EXCEPT !.bestBid = NoBid, !.bestBidWord = -1]
           ELSE b1
      ELSE IF p = b.bestAsk
           THEN IF lo >= 0 THEN [b1 EXCEPT !.bestAsk = lo, !.bestAskWord = Word(lo)]
                           ELSE [b1 EXCEPT !.bestAsk = NoAsk, !.bestAskWord = 0]
           ELSE b1

(***************************************************************************)
(* Event emission: the per-call batch, flushed into the ring when full;    *)
(* push_batch writes at most RingSize - 1 - used events, the rest are      *)
(* counted in messages_dropped_.                                           *)
(***************************************************************************)
\* (mutant) the events that fit are taken from the end of the batch.
FlushBatchKeepLast(b) ==
  IF b.batch = <<>> THEN b
  ELSE LET room   == (RingSize - 1) - Len(b.ring)
           pushed == MinOf(Len(b.batch), room)
       IN  [b EXCEPT !.ring = @ \o SubSeq(b.batch, Len(b.batch) - pushed + 1,
                                            Len(b.batch)),
                     !.dropped = @ + (Len(b.batch) - pushed),
                     !.batch = <<>>]

FlushBatch(b) ==
  IF b.batch = <<>> THEN b
  ELSE LET room   == (RingSize - 1) - Len(b.ring)
           pushed == MinOf(Len(b.batch), room)
       IN  [b EXCEPT !.ring = @ \o SubSeq(b.batch, 1, pushed),
                     !.dropped = @ + (Len(b.batch) - pushed),
                     !.batch = <<>>]

EmitLateFlush(b, ev) ==
  IF ~UseRing THEN b
  ELSE LET b1 == [b EXCEPT !.batch = Append(@, ev), !.emitted = Append(@, ev)]
       IN  IF Len(b1.batch) > BatchSize THEN FlushBatch(b1) ELSE b1

Emit(b, ev) ==
  IF ~UseRing THEN b
  ELSE LET b1 == [b EXCEPT !.batch = Append(@, ev), !.emitted = Append(@, ev)]
       IN  IF Len(b1.batch) >= BatchSize THEN FlushBatch(b1) ELSE b1

(***************************************************************************)
(* OutputMsg (output_msg.h): the tag and the first four 8-byte words of    *)
(* the union (the timestamp is left out).  make_* start from msg{}, so a   *)
(* word a layout does not use is 0.  accepted.side is the Side character,  *)
(* bool_to_side: 'B' = 66 or 'S' = 83; cancelled_qty is the second word.   *)
(***************************************************************************)
MakeTrade(buy, sell, p, q) == [type |-> "T", w0 |-> buy, w1 |-> sell, w2 |-> p, w3 |-> q]
MakeAccepted(id, side, p, q) == [type |-> "A", w0 |-> id, w1 |-> side, w2 |-> p, w3 |-> q]
MakeCancelled(id, q) == [type |-> "C", w0 |-> id, w1 |-> q, w2 |-> 0, w3 |-> 0]
SideCode(buy) == IF buy THEN 66 ELSE 83

EmitTrade(b, buy, sell, p, q) ==
  Emit([b EXCEPT !.trades = @ + 1], MakeTrade(buy, sell, p, q))
\* (mutant) bool_to_side maps true to Side::SELL.
EmitAcceptedWrongSide(b, id, buy, p, q) ==
  IF EmitAccepts THEN Emit(b, MakeAccepted(id, SideCode(~buy), p, q)) ELSE b
EmitAccepted(b, id, buy, p, q) ==
  IF EmitAccepts THEN Emit(b, MakeAccepted(id, SideCode(buy), p, q)) ELSE b
EmitCancelled(b, id, q) ==
  IF EmitCancels THEN Emit(b, MakeCancelled(id, q)) ELSE b

(***************************************************************************)
(* add_order_internal, add_iceberg_internal and add_aon_internal share one *)
(* body: allocate a pool record, append it to the level's FIFO, add its    *)
(* volume, set the bitmap bit and best price if the level was empty,       *)
(* write the order index entry and emit an accept.                         *)
(***************************************************************************)
Rest(b, id, buy, p, q, h, pk, aon, shownQty) ==
  IF p \notin Prices THEN b
  ELSE
  LET wasEmpty == b.levels[buy][p] = <<>>
      idx == AllocatedIdx(b)
      o   == OrderRec(id, p, q, h, pk, buy, aon)
      b1  == [Allocate(b) EXCEPT
                !.pool[idx] = o,
                !.levels[buy][p] = Append(@, idx),
                !.volume[buy][p] = AddVolume(@, o)]
      b2  == IF wasEmpty
             THEN UpdateBestAfterAdd([b1 EXCEPT !.levelCount[buy] = @ + 1], buy, p)
             ELSE b1
      b3  == [b2 EXCEPT !.index[id] = [price |-> p, pidx |-> idx, buy |-> buy,
                                       active |-> TRUE],
                        !.activeCount = @ + 1]
  IN  EmitAccepted(b3, id, buy, p, shownQty)

AddOrderInternal(b, id, buy, p, q) == Rest(b, id, buy, p, q, 0, 0, FALSE, q)

AddIcebergInternal(b, id, buy, p, total, vis) ==
  LET display == MinOf(vis, total)
  IN  Rest(b, id, buy, p, display, total - display, vis, FALSE, display)

AddAonInternal(b, id, buy, p, q) == Rest(b, id, buy, p, q, 0, 0, TRUE, q)

CancelOrderInternal(b, id) ==
  LET loc == b.index[id]
      o   == b.pool[loc.pidx]
      b1  == FreeSlot([b EXCEPT
                !.volume[loc.buy][loc.price] = RemoveVolume(@, o),
                !.levels[loc.buy][loc.price] = Remove(@, loc.pidx)], loc.pidx)
      b2  == IF b1.levels[loc.buy][loc.price] = <<>>
             THEN UpdateBestAfterRemove([b1 EXCEPT !.levelCount[loc.buy] = @ - 1],
                                        loc.buy, loc.price)
             ELSE b1
  IN  IF ~loc.active \/ loc.price \notin Prices THEN b
      ELSE EmitCancelled([b2 EXCEPT !.index[id].active = FALSE,
                                    !.activeCount = @ - 1], id, o.qty + o.hidden)

\* The quantity cancel_order_internal reports, and the ghost accounting uses.
CancelledQty(b, id) ==
  LET o == b.pool[b.index[id].pidx] IN o.qty + o.hidden

ModifyOrderInternal(b, id, newPrice, newQty) ==
  LET loc == b.index[id]
      o   == b.pool[loc.pidx]
  IN  IF ~loc.active \/ loc.price \notin Prices THEN b
      ELSE IF newPrice = loc.price /\ newQty <= o.qty
      THEN [b EXCEPT !.volume[loc.buy][loc.price] =
                        AdjustVolume(@, newQty - o.qty, 0, o.aon),
                     !.pool[loc.pidx].qty = newQty]
      ELSE AddOrderInternal(CancelOrderInternal(b, id), id, loc.buy, newPrice, newQty)

ResetInternalKeepFreeList(b) ==
  [b EXCEPT !.levels = [s \in Sides |-> [p \in Prices |-> <<>>]],
            !.volume = [s \in Sides |-> [p \in Prices |-> NoVolume]],
            !.bitmap = [s \in Sides |-> {}],
            !.bestBid = NoBid, !.bestAsk = NoAsk,
            !.bestBidWord = -1, !.bestAskWord = 0,
            !.levelCount = [s \in Sides |-> 0],
            !.activeCount = 0,
            !.index = [i \in OrderIds |-> [@[i] EXCEPT !.active = FALSE]]]
ResetInternalKeepBest(b) ==
  [b EXCEPT !.levels = [s \in Sides |-> [p \in Prices |-> <<>>]],
            !.volume = [s \in Sides |-> [p \in Prices |-> NoVolume]],
            !.bitmap = [s \in Sides |-> {}],
            !.levelCount = [s \in Sides |-> 0],
            !.activeCount = 0,
            !.freeList = FreshStack(Cardinality(DOMAIN b.pool)),
            !.index = [i \in OrderIds |-> [@[i] EXCEPT !.active = FALSE]]]

ResetInternal(b) ==
  [b EXCEPT !.levels = [s \in Sides |-> [p \in Prices |-> <<>>]],
            !.volume = [s \in Sides |-> [p \in Prices |-> NoVolume]],
            !.bitmap = [s \in Sides |-> {}],
            !.bestBid = NoBid, !.bestAsk = NoAsk,
            !.bestBidWord = -1, !.bestAskWord = 0,
            !.levelCount = [s \in Sides |-> 0],
            !.activeCount = 0,
            !.freeList = FreshStack(Cardinality(DOMAIN b.pool)),
            !.index = [i \in OrderIds |-> [@[i] EXCEPT !.active = FALSE]]]

(***************************************************************************)
(* calculate_available_quantity: the FOK / AON feasibility probe, a pure   *)
(* function of the book.                                                   *)
(***************************************************************************)
RECURSIVE FifoAvailable(_, _, _)
FifoAvailable(b, s, rem) ==
  IF s = <<>> \/ rem <= 0 THEN 0
  ELSE LET o    == b.pool[Head(s)]
           t    == o.qty + o.hidden
           take == IF o.aon THEN (IF rem >= t THEN t ELSE 0) ELSE MinOf(rem, t)
       IN  take + FifoAvailable(b, Tail(s), rem - take)

LevelAvailable(b, buy, p, rem) ==
  IF b.volume[~buy][p].aonv = 0 THEN MinOf(rem, b.volume[~buy][p].total)
  ELSE FifoAvailable(b, b.levels[~buy][p], rem)

\* The buy side stops at the first price outside the array (order_book.cpp
\* breaks), the sell side skips it.
RECURSIVE ScanAvailablePastLimit(_, _, _, _, _)
ScanAvailablePastLimit(b, buy, p, limit, rem) ==
  IF rem <= 0 \/ (buy /\ p > limit + 1) \/ (~buy /\ p < limit - 1) THEN 0
  ELSE IF p \notin Prices
  THEN IF buy THEN 0 ELSE ScanAvailablePastLimit(b, buy, p - 1, limit, rem)
  ELSE LET here == IF b.levels[~buy][p] = <<>> THEN 0
                   ELSE LevelAvailable(b, buy, p, rem)
       IN  here + ScanAvailablePastLimit(b, buy, IF buy THEN p + 1 ELSE p - 1,
                                         limit, rem - here)

RECURSIVE ScanAvailable(_, _, _, _, _)
ScanAvailable(b, buy, p, limit, rem) ==
  IF rem <= 0 \/ (buy /\ p > limit) \/ (~buy /\ p < limit) THEN 0
  ELSE IF p \notin Prices
  THEN IF buy THEN 0 ELSE ScanAvailable(b, buy, p - 1, limit, rem)
  ELSE LET here == IF b.levels[~buy][p] = <<>> THEN 0
                   ELSE LevelAvailable(b, buy, p, rem)
       IN  here + ScanAvailable(b, buy, IF buy THEN p + 1 ELSE p - 1,
                                limit, rem - here)

CalculateAvailableQuantity(b, buy, limit, qty) ==
  IF buy THEN IF b.bestAsk = NoAsk THEN 0
              ELSE ScanAvailable(b, buy, b.bestAsk, limit, qty)
  ELSE IF b.bestBid < 0 THEN 0
       ELSE ScanAvailable(b, buy, b.bestBid, limit, qty)
(***************************************************************************)
(* One iteration of the inner loop of match_internal against the resting   *)
(* order in pool slot s at price lvl of side opp: trade min(remaining,     *)
(* visible), then refresh an iceberg whose visible part is gone (moving it *)
(* to the FIFO tail) or free an order that is fully consumed.              *)
(***************************************************************************)
NextInFifoStay(f, s) == s
IsSkippedAonAny(o, rem) == rem < o.qty + o.hidden
IsSkippedAonExact(o, rem) == o.aon /\ rem <= o.qty + o.hidden
IsSkippedAonNever(o, rem) == FALSE
NextInFifo(f, s) ==
  LET i == CHOOSE i \in 1 .. Len(f) : f[i] = s
  IN  IF i < Len(f) THEN f[i + 1] ELSE NULL

IsSkippedAon(o, rem) == o.aon /\ rem < o.qty + o.hidden

TradeQty(o, rem) == MinOf(rem, o.qty)

ReplenishKeepHidden(b, s, opp, lvl) ==
  LET o  == b.pool[s]
      r  == MinOf(IF o.peak > 0 THEN o.peak ELSE o.hidden, o.hidden)
      o2 == [o EXCEPT !.qty = r]
  IN  [b EXCEPT !.volume[opp][lvl] = AddVolume(RemoveVolume(@, o), o2),
                !.levels[opp][lvl] = Append(Remove(@, s), s),
                !.pool[s] = o2,
                !.index = IF o.oid \in DOMAIN @
                          THEN [@ EXCEPT ![o.oid].pidx = s] ELSE @]
ReplenishNoVolume(b, s, opp, lvl) ==
  LET o  == b.pool[s]
      r  == MinOf(IF o.peak > 0 THEN o.peak ELSE o.hidden, o.hidden)
      o2 == [o EXCEPT !.qty = r, !.hidden = @ - r]
  IN  [b EXCEPT !.volume[opp][lvl] = RemoveVolume(@, o),
                !.levels[opp][lvl] = Append(Remove(@, s), s),
                !.pool[s] = o2,
                !.index = IF o.oid \in DOMAIN @
                          THEN [@ EXCEPT ![o.oid].pidx = s] ELSE @]
ReplenishAtHead(b, s, opp, lvl) ==
  LET o  == b.pool[s]
      r  == MinOf(IF o.peak > 0 THEN o.peak ELSE o.hidden, o.hidden)
      o2 == [o EXCEPT !.qty = r, !.hidden = @ - r]
  IN  [b EXCEPT !.volume[opp][lvl] = AddVolume(RemoveVolume(@, o), o2),
                !.levels[opp][lvl] = <<s>> \o Remove(@, s),
                !.pool[s] = o2,
                !.index = IF o.oid \in DOMAIN @
                          THEN [@ EXCEPT ![o.oid].pidx = s] ELSE @]

Replenish(b, s, opp, lvl) ==
  LET o  == b.pool[s]
      r  == MinOf(IF o.peak > 0 THEN o.peak ELSE o.hidden, o.hidden)
      o2 == [o EXCEPT !.qty = r, !.hidden = @ - r]
  IN  [b EXCEPT !.volume[opp][lvl] = AddVolume(RemoveVolume(@, o), o2),
                !.levels[opp][lvl] = Append(Remove(@, s), s),
                !.pool[s] = o2,
                !.index = IF o.oid \in DOMAIN @
                          THEN [@ EXCEPT ![o.oid].pidx = s] ELSE @]

ConsumeNoFree(b, s, opp, lvl) ==
  LET o  == b.pool[s]
      b1 == [b EXCEPT !.levels[opp][lvl] = Remove(@, s)]
  IN  IF o.oid \in DOMAIN b.index
      THEN [b1 EXCEPT !.index[o.oid].active = FALSE, !.activeCount = @ - 1]
      ELSE b1

Consume(b, s, opp, lvl) ==
  LET o  == b.pool[s]
      b1 == [b EXCEPT !.levels[opp][lvl] = Remove(@, s)]
      b2 == IF o.oid \in DOMAIN b.index
            THEN [b1 EXCEPT !.index[o.oid].active = FALSE, !.activeCount = @ - 1]
            ELSE b1
  IN  FreeSlot(b2, s)

\* (mutant) buy_id and sell_id taken the wrong way round.
TradeAgainstSwapSides(b, s, opp, lvl, aggressor, rem) ==
  LET o  == b.pool[s]
      tq == TradeQty(o, rem)
      b1 == [EmitTrade(b, IF opp THEN aggressor ELSE o.oid,
                          IF opp THEN o.oid ELSE aggressor, lvl, tq) EXCEPT
               !.volume[opp][lvl] = AdjustVolume(@, -tq, 0, o.aon),
               !.pool[s].qty = @ - tq]
  IN  IF b1.pool[s].qty # 0 THEN b1
      ELSE IF o.hidden > 0 THEN Replenish(b1, s, opp, lvl)
      ELSE Consume(b1, s, opp, lvl)

\* opp is the resting side: buy_id = is_buy ? order_id : book_order.order_id.
TradeAgainst(b, s, opp, lvl, aggressor, rem) ==
  LET o  == b.pool[s]
      tq == TradeQty(o, rem)
      b1 == [EmitTrade(b, IF opp THEN o.oid ELSE aggressor,
                          IF opp THEN aggressor ELSE o.oid, lvl, tq) EXCEPT
               !.volume[opp][lvl] = AdjustVolume(@, -tq, 0, o.aon),
               !.pool[s].qty = @ - tq]
  IN  IF b1.pool[s].qty # 0 THEN b1
      ELSE IF o.hidden > 0 THEN Replenish(b1, s, opp, lvl)
      ELSE Consume(b1, s, opp, lvl)

(***************************************************************************)
(* Client operations.                                                      *)
(***************************************************************************)
MatchState(id, buy, p, q, tif, viaAdd) ==
  [id |-> id, buy |-> buy, price |-> p, qty |-> q, tif |-> tif, rem |-> q,
   viaAdd |-> viaAdd,
   oppEmpty |-> IF buy THEN bestAsk = NoAsk ELSE bestBid < 0,
   lvl |-> NULL, curr |-> NULL]
NoMatch == MatchState(0, FALSE, 0, 0, "GTC", FALSE)

Fresh(id) == UniqueIds => id \notin used

Submit(id) ==
  /\ nops < MaxOps /\ pc = "idle" /\ Fresh(id)
  /\ nops' = nops + 1 /\ used' = used \cup {id}

\* match_internal up to its first loop iteration: the FOK / AON probe.
StartMatch(id, buy, p, q, tif, viaAdd) ==
  LET avail == CalculateAvailableQuantity(Book, buy, p, q)
  IN  \/ /\ tif = "FOK" /\ avail < q
         /\ UNCHANGED <<bookVars, pc, m, owed, fills>>
      \/ /\ tif = "AON" /\ avail < q
         /\ SetBook(AddAonInternal(Book, id, buy, p, q))
         /\ owed' = [owed EXCEPT ![id] = q]
         /\ UNCHANGED <<pc, m, fills>>
      \/ /\ tif \in {"FOK", "AON"} => avail >= q
         /\ pc' = "walk"
         /\ m' = MatchState(id, buy, p, q, tif, viaAdd)
         /\ owed' = [owed EXCEPT ![id] = q]
         /\ fills' = <<>>
         /\ UNCHANGED bookVars

IsAggressiveStrict(buy, p) ==
  IF buy THEN bestAsk # NoAsk /\ p > bestAsk ELSE bestBid >= 0 /\ p < bestBid

IsAggressive(buy, p) ==
  IF buy THEN bestAsk # NoAsk /\ p >= bestAsk ELSE bestBid >= 0 /\ p <= bestBid

AddOrder(id, buy, p, q) ==
  /\ Submit(id)
  /\ IF IsAggressive(buy, p)
     THEN StartMatch(id, buy, p, q, "GTC", TRUE)
     ELSE /\ SetBook(AddOrderInternal(Book, id, buy, p, q))
          /\ owed' = [owed EXCEPT ![id] = IF p \in Prices THEN q ELSE 0]
          /\ UNCHANGED <<pc, m, fills>>

MatchOrder(id, buy, p, q, tif) ==
  /\ Submit(id)
  /\ StartMatch(id, buy, p, q, tif, FALSE)

CancelOrder(id) ==
  /\ nops < MaxOps /\ pc = "idle"
  /\ nops' = nops + 1
  /\ SetBook(CancelOrderInternal(Book, id))
  /\ owed' = IF index[id].active
             THEN [owed EXCEPT ![id] = @ - CancelledQty(Book, id)] ELSE owed
  /\ UNCHANGED <<pc, m, fills, used>>

(***************************************************************************)
(* The loop of match_internal, one iteration per step.                     *)
(***************************************************************************)
OppBest == IF m.buy THEN bestAsk ELSE bestBid

LoopContinuesSellNoLimit ==
  /\ m.rem > 0 /\ ~m.oppEmpty
  /\ ~(m.buy /\ OppBest > m.price)
  /\ OppBest \in Prices

LoopContinues ==
  /\ m.rem > 0 /\ ~m.oppEmpty
  /\ ~(m.buy /\ OppBest > m.price) /\ ~(~m.buy /\ OppBest < m.price)
  /\ OppBest \in Prices

\* Enter the best opposite level; if it is empty (a stale best), refresh the
\* best and continue, without recomputing opposite_side_empty.
WalkNextLevel ==
  /\ pc = "walk" /\ LoopContinues
  /\ IF levels[~m.buy][OppBest] = <<>>
     THEN /\ SetBook(UpdateBestAfterRemove(Book, ~m.buy, OppBest))
          /\ UNCHANGED <<pc, m>>
     ELSE /\ pc' = "level"
          /\ m' = [m EXCEPT !.lvl = OppBest, !.curr = Head(levels[~m.buy][OppBest])]
          /\ UNCHANGED bookVars
  /\ UNCHANGED ghostVars

\* The loop is left: rest the residual (GTC, AON) or drop it (IOC, FOK).
WalkExitRestsFullQty ==
  /\ pc = "walk" /\ ~LoopContinues
  /\ SetBook(IF m.rem > 0 /\ m.tif = "GTC"
               THEN AddOrderInternal(Book, m.id, m.buy, m.price, m.qty)
             ELSE IF m.rem > 0 /\ m.tif = "AON"
               THEN AddAonInternal(Book, m.id, m.buy, m.price, m.rem)
             ELSE Book)
  /\ owed' = IF m.tif \in {"IOC", "FOK"}
             THEN [owed EXCEPT ![m.id] = @ - m.rem] ELSE owed
  /\ pc' = "idle"
  /\ m' = NoMatch
  /\ UNCHANGED <<fills, used, nops>>

WalkExit ==
  /\ pc = "walk" /\ ~LoopContinues
  /\ SetBook(IF m.rem > 0 /\ m.tif = "GTC"
               THEN AddOrderInternal(Book, m.id, m.buy, m.price, m.rem)
             ELSE IF m.rem > 0 /\ m.tif = "AON"
               THEN AddAonInternal(Book, m.id, m.buy, m.price, m.rem)
             ELSE Book)
  /\ owed' = IF m.tif \in {"IOC", "FOK"}
             THEN [owed EXCEPT ![m.id] = @ - m.rem] ELSE owed
  /\ pc' = "idle"
  /\ m' = NoMatch
  /\ UNCHANGED <<fills, used, nops>>

LevelSkipAon ==
  /\ pc = "level" /\ m.curr # NULL /\ m.rem > 0
  /\ IsSkippedAon(pool[m.curr], m.rem)
  /\ m' = [m EXCEPT !.curr = NextInFifo(levels[~m.buy][m.lvl], m.curr)]
  /\ UNCHANGED <<bookVars, pc, ghostVars>>

LevelTrade ==
  /\ pc = "level" /\ m.curr # NULL /\ m.rem > 0
  /\ ~IsSkippedAon(pool[m.curr], m.rem)
  /\ LET o  == pool[m.curr]
         tq == TradeQty(o, m.rem)
     IN  /\ SetBook(TradeAgainst(Book, m.curr, ~m.buy, m.lvl, m.id, m.rem))
         /\ m' = [m EXCEPT !.rem = @ - tq,
                           !.curr = NextInFifo(levels[~m.buy][m.lvl], m.curr)]
         /\ owed' = [owed EXCEPT ![m.id] = @ - tq, ![o.oid] = @ - tq]
         /\ fills' = Append(fills, [slot |-> m.curr, oid |-> o.oid,
                                    price |-> m.lvl, qty |-> tq])
  /\ UNCHANGED <<pc, used, nops>>

\* End of the inner loop: clear the level if it emptied, re-read the best.
LevelDone ==
  /\ pc = "level" /\ (m.curr = NULL \/ m.rem <= 0)
  /\ LET opp == ~m.buy
         b1  == IF levels[opp][m.lvl] = <<>>
                THEN UpdateBestAfterRemove([Book EXCEPT !.levelCount[opp] = @ - 1],
                                           opp, m.lvl)
                ELSE Book
     IN  /\ SetBook(b1)
         /\ m' = [m EXCEPT !.oppEmpty = IF m.buy THEN b1.bestAsk = NoAsk
                                                 ELSE b1.bestBid < 0,
                           !.curr = NULL]
  /\ pc' = "walk"
  /\ UNCHANGED ghostVars

(***************************************************************************)
(* The private operations of the spec's wider surface (no caller in the    *)
(* program): driven only when InternalOps.  An iceberg is added, as        *)
(* add_order does for add_order_internal, only at a price that does not    *)
(* cross; a modify may move an order to any price, as                      *)
(* modify_order_internal itself allows.                                    *)
(***************************************************************************)
AddIceberg(id, buy, p, total, vis) ==
  /\ InternalOps /\ Submit(id) /\ ~IsAggressive(buy, p) /\ vis <= total
  /\ SetBook(AddIcebergInternal(Book, id, buy, p, total, vis))
  /\ owed' = [owed EXCEPT ![id] = IF p \in Prices THEN total ELSE 0]
  /\ UNCHANGED <<pc, m, fills>>

ModifyOrder(id, p, q) ==
  /\ InternalOps /\ nops < MaxOps /\ pc = "idle"
  /\ nops' = nops + 1
  /\ SetBook(ModifyOrderInternal(Book, id, p, q))
  \* an in-place modify resets the visible quantity and keeps the reserve
  /\ owed' = LET o == pool[index[id].pidx]
             IN  IF ~index[id].active THEN owed
                 ELSE IF p = index[id].price /\ q <= o.qty
                      THEN [owed EXCEPT ![id] = q + o.hidden]
                      ELSE [owed EXCEPT ![id] = q]
  /\ UNCHANGED <<pc, m, fills, used>>

Reset ==
  /\ InternalOps /\ nops < MaxOps /\ pc = "idle"
  /\ nops' = nops + 1
  /\ SetBook(ResetInternal(Book))
  /\ owed' = [i \in OrderIds |-> 0]
  /\ UNCHANGED <<pc, m, fills, used>>

\* flush_output_buffer(): push the partial batch into the ring.
FlushOutputBuffer ==
  /\ InternalOps /\ nops < MaxOps /\ pc = "idle"
  /\ nops' = nops + 1
  /\ SetBook(FlushBatch(Book))
  /\ UNCHANGED <<pc, m, owed, fills, used>>

(***************************************************************************)
(* Observers, read under the shared lock, so each sees the book between    *)
(* two writer operations.  A snapshot maps every price whose level has     *)
(* total_visible_volume > 0 to that volume.                                *)
(***************************************************************************)
GetBestBid == IF bestBid >= 0 THEN bestBid ELSE 0
GetBestAsk == bestAsk
GetBestVolume(s) ==
  IF (s /\ bestBid < 0) \/ (~s /\ bestAsk = NoAsk) THEN 0
  ELSE volume[s][IF s THEN bestBid ELSE bestAsk].visible
Snapshot(s) ==
  [p \in {q \in Prices : volume[s][q].visible > 0} |-> volume[s][p].visible]
OrderCount == activeCount
LevelCountOf(s) == levelCount[s]
PoolUsed == Cardinality(DOMAIN pool) - Len(freeList)

(***************************************************************************)
(* Specification.                                                          *)
(***************************************************************************)
Init ==
  /\ levels = [s \in Sides |-> [p \in Prices |-> <<>>]]
  /\ volume = [s \in Sides |-> [p \in Prices |-> NoVolume]]
  /\ bitmap = [s \in Sides |-> {}]
  /\ bestBid = NoBid /\ bestAsk = NoAsk
  /\ bestBidWord = -1 /\ bestAskWord = 0
  /\ levelCount = [s \in Sides |-> 0]
  /\ pool = [i \in 0 .. PoolInit - 1 |-> EmptyOrder]
  /\ freeList = FreshStack(PoolInit)
  /\ index = [i \in OrderIds |-> NoLocation]
  /\ activeCount = 0
  /\ batch = <<>> /\ ring = <<>> /\ dropped = 0 /\ trades = 0
  /\ emitted = <<>>
  /\ pc = "idle" /\ m = NoMatch
  /\ owed = [i \in OrderIds |-> 0] /\ fills = <<>> /\ used = {} /\ nops = 0

ClientStep ==
  \/ \E id \in OrderIds, buy \in Sides, p \in InputPrices, q \in Quantities :
        AddOrder(id, buy, p, q)
  \/ \E id \in OrderIds, buy \in Sides, p \in InputPrices, q \in Quantities,
        tif \in TIFs : MatchOrder(id, buy, p, q, tif)
  \/ \E id \in OrderIds : CancelOrder(id)
  \/ \E id \in OrderIds, buy \in Sides, p \in InputPrices, t, v \in Quantities :
        AddIceberg(id, buy, p, t, v)
  \/ \E id \in OrderIds, p \in InputPrices, q \in Quantities : ModifyOrder(id, p, q)
  \/ Reset \/ FlushOutputBuffer

MatchStep ==
  \/ WalkNextLevel \/ WalkExit
  \/ LevelSkipAon \/ LevelTrade \/ LevelDone

Next == ClientStep \/ MatchStep

\* The matching loop runs on the writer thread without waiting for anything.
Spec == Init /\ [][Next]_vars /\ WF_vars(MatchStep)
(***************************************************************************)
(* Properties.                                                             *)
(***************************************************************************)
Resting(s, p) == {levels[s][p][i] : i \in DOMAIN levels[s][p]}
AllResting == UNION {Resting(s, p) : s \in Sides, p \in Prices}
SumOver(slots, F(_)) == FoldSet(LAMBDA x, acc : F(x) + acc, 0, slots)
TotalOf(i) == pool[i].qty + pool[i].hidden

Event == [type : {"T", "A", "C"}, w0 : Nat, w1 : Nat, w2 : Nat, w3 : Nat]

\* Type invariant; it also bounds the batch below BATCH_SIZE (flush_batch
\* runs as soon as it fills) and the ring below its usable capacity.
TypeOK ==
  /\ levels \in [Sides -> [Prices -> Seq(DOMAIN pool)]]
  /\ volume \in [Sides -> [Prices -> [total : Int, visible : Int, aonv : Int,
                                       nonaon : Int]]]
  /\ bitmap \in [Sides -> SUBSET Prices]
  /\ bestBid \in Prices \cup {NoBid} /\ bestAsk \in Prices \cup {NoAsk}
  /\ levelCount \in [Sides -> Nat] /\ activeCount \in Nat
  /\ index \in [OrderIds -> [price : Prices \cup {0}, pidx : Nat,
                             buy : BOOLEAN, active : BOOLEAN]]
  /\ batch \in Seq(Event) /\ Len(batch) < BatchSize
  /\ ring \in Seq(Event) /\ Len(ring) <= RingSize - 1
  /\ pc \in {"idle", "walk", "level"}

\* Every level's four running sums, kept up to date by hand on every add,
\* cancel, trade and iceberg refresh, equal the sums over the orders in its
\* FIFO, and no order with nothing left rests in a FIFO; at the return of
\* every public operation the bitmap bits and the non-empty level counts
\* agree with the FIFOs (spec 3.2, 3.3, 3.4, 8.2-8.3).
LevelAggregatesConsistent ==
  /\ \A s \in Sides, p \in Prices :
       LET R == Resting(s, p) IN
       /\ volume[s][p].total = SumOver(R, TotalOf)
       /\ volume[s][p].visible = SumOver(R, LAMBDA i : pool[i].qty)
       /\ volume[s][p].aonv =
            SumOver({i \in R : pool[i].aon}, TotalOf)
       /\ volume[s][p].nonaon =
            SumOver({i \in R : ~pool[i].aon}, TotalOf)
       /\ \A i \in R : pool[i].price = p /\ pool[i].buy = s /\ TotalOf(i) > 0
  /\ pc = "idle" =>
       \A s \in Sides :
         /\ \A p \in Prices : (p \in bitmap[s]) <=> levels[s][p] # <<>>
         /\ levelCount[s] = Cardinality({p \in Prices : levels[s][p] # <<>>})

\* At the return of every public operation the cached best prices are the
\* extreme set bits, and the cached best words bound every set bit, so the
\* next rescan, which starts at the cached word, cannot miss a level.
BestPriceTracking ==
  pc = "idle" =>
    /\ bestBid = IF bitmap[TRUE] = {} THEN NoBid ELSE Max(bitmap[TRUE])
    /\ bestAsk = IF bitmap[FALSE] = {} THEN NoAsk ELSE Min(bitmap[FALSE])
    /\ \A p \in bitmap[TRUE] : Word(p) <= bestBidWord
    /\ \A p \in bitmap[FALSE] : Word(p) >= bestAskWord

\* The pool, the FIFOs and the order index agree: every slot is either free
\* (once) or linked in exactly one FIFO; an id is active iff its slot is
\* linked and carries that id, price and side; active_order_count_ counts
\* the active ids (spec 8.4).
IndexPoolConsistent ==
  LET linkedCount == FoldSet(LAMBDA sp, acc : Len(levels[sp[1]][sp[2]]) + acc,
                             0, Sides \X Prices)
      freeSet == {freeList[i] : i \in DOMAIN freeList}
  IN  /\ linkedCount = Cardinality(AllResting)
      /\ Len(freeList) = Cardinality(freeSet)
      /\ freeSet \cap AllResting = {}
      /\ freeSet \cup AllResting = DOMAIN pool
      /\ \A id \in OrderIds : index[id].active =>
            /\ index[id].pidx \in Resting(index[id].buy, index[id].price)
            /\ pool[index[id].pidx].oid = id
      /\ \A i \in AllResting : LET id == pool[i].oid IN
            id \in OrderIds /\ index[id].active /\ index[id].pidx = i
      /\ activeCount = Cardinality({id \in OrderIds : index[id].active})

\* Quantity is conserved: after every public operation, each id has resting
\* exactly what it was submitted with, less what it traded (as aggressor or
\* as resting order), what was cancelled and the IOC/FOK residue dropped.
QtyConserved ==
  pc = "idle" =>
    \A id \in OrderIds :
      owed[id] = SumOver({i \in AllResting : pool[i].oid = id}, TotalOf)

\* The book is never left crossed: at the return of every public operation
\* best bid < best ask (spec 3.6, 4.6, 8.1).
NotCrossed ==
  pc = "idle" => (bestBid >= 0 /\ bestAsk # NoAsk => bestBid < bestAsk)

\* Price priority: while match_internal trades at a level, that level is
\* within the aggressor's limit and no better opposite level holds orders.
NoTradeThrough ==
  pc = "level" =>
    /\ IF m.buy THEN m.lvl <= m.price ELSE m.lvl >= m.price
    /\ \A p \in Prices : (IF m.buy THEN p < m.lvl ELSE p > m.lvl)
                           => levels[~m.buy][p] = <<>>

\* Time priority: a trade is made against a resting order only when every
\* order ahead of it in the level's FIFO is an AON order too large to fill.
TimePriority ==
  [][ LevelTrade =>
        LET f == levels[~m.buy][m.lvl]
            k == CHOOSE k \in 1 .. Len(f) : f[k] = m.curr
        IN  \A j \in 1 .. k - 1 :
              pool[f[j]].aon /\ m.rem < pool[f[j]].qty + pool[f[j]].hidden ]_vars

\* A FOK or AON aggressor that passed the feasibility probe leaves the loop
\* fully filled: the probe and the walk agree (spec 4.6, 8.10, 8.11).
AllOrNothingTakers ==
  [][ (WalkExit /\ m.tif \in {"FOK", "AON"}) => m.rem = 0 ]_vars

\* A resting AON order is never partially filled: while it rests its
\* quantity does not change (spec 8.11).
AonNeverPartiallyFilled ==
  [][ \A i \in AllResting :
        (pool[i].aon /\ i \in AllResting' /\ pool'[i].oid = pool[i].oid)
          => pool'[i].qty = pool[i].qty ]_vars

\* add_order with a price outside 0 .. MAX_PRICE_LEVELS-1 is a silent no-op
\* (spec 7, 8.9): such an order never trades against the book.  (Only
\* EXECUTE may carry an out-of-range price: that is how market orders are
\* encoded, spec 6.1.)
OutOfRangeAddNeverTrades ==
  (pc = "level" /\ m.viaAdd) => m.price \in Prices

\* Every match_internal call returns (spec 5: every core operation is
\* synchronous and bounded).
MatchTerminates == (pc # "idle") ~> (pc = "idle")

\* The output path loses nothing silently and reorders nothing (spec 4.7,
\* 5): the ring holds the first events emitted, in emission order; the
\* batch holds the last ones; every event in between was counted in
\* messages_dropped_ by a flush_batch that found the ring (which nothing
\* consumes) without room.
EventStreamAccounted ==
  /\ Len(emitted) = Len(ring) + dropped + Len(batch)
  /\ ring = SubSeq(emitted, 1, Len(ring))
  /\ batch = SubSeq(emitted, Len(emitted) - Len(batch) + 1, Len(emitted))


(* A consumer's view of the event stream: per id the side, price and      *)
(* quantity it believes rests.  An accept opens the order; a trade reduces *)
(* the order named in the buy word if that order was accepted as a buy,    *)
(* and the one named in the sell word if accepted as a sell (the aggressor *)
(* of a trade has not been accepted yet); a cancel removes the reported    *)
(* quantity.                                                               *)
NoView == [side |-> 0, price |-> 0, qty |-> 0]
ApplyEvent(v, e) ==
  CASE e.type = "A" -> [v EXCEPT ![e.w0] = [side |-> e.w1, price |-> e.w2,
                                             qty |-> e.w3]]
    [] e.type = "C" -> [v EXCEPT ![e.w0].qty = @ - e.w1]
    [] e.type = "T" ->
         LET v1 == IF v[e.w0].side = SideCode(TRUE)
                   THEN [v EXCEPT ![e.w0].qty = @ - e.w3] ELSE v
         IN  IF v1[e.w1].side = SideCode(FALSE)
             THEN [v1 EXCEPT ![e.w1].qty = @ - e.w3] ELSE v1
StreamView == FoldLeft(ApplyEvent, [i \in OrderIds |-> NoView], emitted)

\* With accepts and cancels emitted, a consumer applying the events in
\* emission order (the ring may drop some; the stream is what
\* emit_trade / emit_order_accepted / emit_order_cancelled hand to the
\* batch) knows exactly what rests: each id's quantity, and the side and
\* price of every resting order (spec 4.7, 8.6: an accept per rest, a
\* trade per fill, a cancel with the full cancelled quantity).
EventStreamReconstructsBook ==
  (EmitAccepts /\ EmitCancels /\ UseRing) =>
    LET v == StreamView IN
    /\ \A id \in OrderIds :
         v[id].qty = SumOver({i \in AllResting : pool[i].oid = id}, TotalOf)
    /\ \A i \in AllResting :
         /\ v[pool[i].oid].side = SideCode(pool[i].buy)
         /\ v[pool[i].oid].price = pool[i].price


=============================================================================
