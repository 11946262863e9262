----------------------------- MODULE RingBuffer -----------------------------
(***************************************************************************)
(* RingBuffer<T, Size> of src/unnamed/part_002 (the engine's OutputBuffer, *)
(* gateway.h 306): a single-producer / single-consumer queue over Size     *)
(* slots, with head_ written only by the producer and tail_ only by the    *)
(* consumer, both free-running size_t counters masked into slot indices.   *)
(*                                                                         *)
(* Every operation is split at the accesses another thread can observe:    *)
(* a load step (the relaxed load of the thread's own counter and the       *)
(* acquire load of the other's, and the capacity arithmetic), a copy step  *)
(* (the memcpy, both chunks of a wrapping copy) and a store step (the      *)
(* release store of the thread's counter).  The acquire/release pairs make *)
(* the slots written before a store visible after the matching load, so    *)
(* the steps interleave as in a sequentially consistent execution.         *)
(*                                                                         *)
(* The counters are Width-bit so that they wrap as size_t does at 2^64.    *)
(* The producer stores records numbered 1, 2, ... in the order it pushes   *)
(* them, so that loss, duplication and reordering are visible.             *)
(* A third thread may call size_approx() (Observer).                       *)
(***************************************************************************)
EXTENDS Naturals, Sequences

CONSTANTS
  Size,          \* slots (a power of two); capacity() = Size - 1
  Width,         \* bits of size_type
  MaxBatch,      \* largest count / max_count passed to a batch call
  MaxPushed,     \* bound on the records the producer pushes
  ProducerOpSets, \* the producer disciplines: sets of operations among
                 \* {"push_batch", "try_push", "try_push_cached"}
  ConsumerOpSets, \* the consumer disciplines: sets of operations among
                 \* {"try_pop", "pop_batch"}
  Observer       \* a third thread calls size_approx()

ASSUME Size > 1 /\ 2^Width >= Size /\ (2^Width) % Size = 0
ASSUME MaxBatch \in 1 .. Size - 1 /\ MaxPushed \in Nat

Modulus == 2^Width
Slot(i) == i % Size                   \* i & mask
Minus(a, b) == (a - b) % Modulus      \* size_type subtraction
Plus(a, b) == (a + b) % Modulus
capacity == Size - 1

VARIABLES
  buffer,      \* buffer_[0 .. Size-1]; 0 is a default-constructed T
  head,        \* head_ (producer)
  tail,        \* tail_ (consumer)
  pp, pl,      \* producer: pc ("idle", "write", "publish") and locals
  cp, cl,      \* consumer: pc ("idle", "read", "commit") and locals
  cachedTail,  \* the producer's last get_tail_relaxed() result
  pops, cops,  \* the operations the producer / the consumer uses
  op, obsHead, obsSize,   \* the size_approx() caller
  written, published, consumed   \* ghost: records written, published, taken

vars == <<buffer, head, tail, pp, pl, cp, cl, cachedTail, pops, cops, op,
          obsHead, obsSize, written, published, consumed>>

MinOf(a, b) == IF a <= b THEN a ELSE b

(***************************************************************************)
(* Producer.                                                               *)
(***************************************************************************)
\* The load step of a push that writes n records at counter h.
StartPush(h, n) ==
  /\ n > 0 /\ written + n <= MaxPushed
  /\ pp' = "write" /\ pl' = [h |-> h, n |-> n]

\* (mutant) available computed as capacity_value - used, one slot too many.
PushBatchLoadAvailSize(count) ==
  LET used == Slot(Minus(head, tail))
  IN  /\ pp = "idle" /\ "push_batch" \in pops
      /\ StartPush(head, MinOf(count, Size - used))
      /\ UNCHANGED <<pops, cops, buffer, head, tail, cp, cl, cachedTail, op, obsHead,
                     obsSize, written, published, consumed>>

\* push_batch(count): used = (head - tail) & mask, available = capacity - used.
PushBatchLoad(count) ==
  LET used      == Slot(Minus(head, tail))
      available == (Size - 1) - used
  IN  /\ pp = "idle" /\ "push_batch" \in pops
      /\ StartPush(head, MinOf(count, available))
      /\ UNCHANGED <<pops, cops, buffer, head, tail, cp, cl, cachedTail, op, obsHead,
                     obsSize, written, published, consumed>>

\* (mutant) the full test compares the unmasked counters.
TryPushLoadUnmasked ==
  /\ pp = "idle" /\ "try_push" \in pops
  /\ Plus(head, 1) # tail
  /\ StartPush(head, 1)
  /\ UNCHANGED <<pops, cops, buffer, head, tail, cp, cl, cachedTail, op, obsHead,
                 obsSize, written, published, consumed>>

\* try_push(item): full iff ((head + 1) & mask) == (tail & mask).
TryPushLoad ==
  /\ pp = "idle" /\ "try_push" \in pops
  /\ Slot(Plus(head, 1)) # Slot(tail)
  /\ StartPush(head, 1)
  /\ UNCHANGED <<pops, cops, buffer, head, tail, cp, cl, cachedTail, op, obsHead,
                 obsSize, written, published, consumed>>

\* get_tail_relaxed(): the producer caches the consumer's counter.
GetTailRelaxed ==
  /\ pp = "idle" /\ "try_push_cached" \in pops
  /\ cachedTail' = tail
  /\ UNCHANGED <<pops, cops, buffer, head, tail, pp, pl, cp, cl, op, obsHead, obsSize,
                 written, published, consumed>>

\* (mutant) the full test compares the unmasked counters.
TryPushWithCachedTailUnmasked ==
  /\ pp = "idle" /\ "try_push_cached" \in pops
  /\ Plus(head, 1) # cachedTail
  /\ StartPush(head, 1)
  /\ UNCHANGED <<pops, cops, buffer, head, tail, cp, cl, cachedTail, op, obsHead,
                 obsSize, written, published, consumed>>

\* try_push_with_cached_tail(item, cached_tail), with the cached value.
TryPushWithCachedTailLoad ==
  /\ pp = "idle" /\ "try_push_cached" \in pops
  /\ Slot(Plus(head, 1)) # Slot(cachedTail)
  /\ StartPush(head, 1)
  /\ UNCHANGED <<pops, cops, buffer, head, tail, cp, cl, cachedTail, op, obsHead,
                 obsSize, written, published, consumed>>

\* The copy into slots h & mask, ..., (h + n - 1) & mask (both chunks).
ProducerWrite ==
  /\ pp = "write"
  /\ buffer' = [i \in 0 .. Size - 1 |->
                  IF (i - pl.h) % Size < pl.n
                  THEN written + 1 + ((i - pl.h) % Size)
                  ELSE buffer[i]]
  /\ written' = written + pl.n
  /\ pp' = "publish"
  /\ UNCHANGED <<pops, cops, head, tail, pl, cp, cl, cachedTail, op, obsHead, obsSize,
                 published, consumed>>

\* head_.store(current_head + n, release).
ProducerPublish ==
  /\ pp = "publish"
  /\ head' = Plus(pl.h, pl.n)
  /\ published' = published + pl.n
  /\ pp' = "idle"
  /\ UNCHANGED <<pops, cops, buffer, tail, pl, cp, cl, cachedTail, op, obsHead, obsSize,
                 written, consumed>>

(***************************************************************************)
(* Consumer.                                                               *)
(***************************************************************************)
StartPop(t, n) ==
  /\ n > 0
  /\ cp' = "read" /\ cl' = [t |-> t, n |-> n, vals |-> <<>>]

\* try_pop(item): empty iff tail == head.
TryPopLoad ==
  /\ cp = "idle" /\ "try_pop" \in cops
  /\ ~(Slot(tail) = Slot(head) /\ tail = head)
  /\ StartPop(tail, 1)
  /\ UNCHANGED <<pops, cops, buffer, head, tail, pp, pl, cachedTail, op, obsHead,
                 obsSize, written, published, consumed>>

\* (mutant) available taken as a signed difference, wrong once head_ wraps.
PopBatchLoadSigned(maxCount) ==
  /\ cp = "idle" /\ "pop_batch" \in cops
  /\ StartPop(tail, MinOf(maxCount, head - tail))
  /\ UNCHANGED <<pops, cops, buffer, head, tail, pp, pl, cachedTail, op, obsHead,
                 obsSize, written, published, consumed>>

\* pop_batch(out, max_count): available = head - tail.
PopBatchLoad(maxCount) ==
  /\ cp = "idle" /\ "pop_batch" \in cops
  /\ StartPop(tail, MinOf(maxCount, Minus(head, tail)))
  /\ UNCHANGED <<pops, cops, buffer, head, tail, pp, pl, cachedTail, op, obsHead,
                 obsSize, written, published, consumed>>

\* (mutant) the second chunk of a wrapping copy starts at buffer_[1].
ConsumerReadSecondChunkOff ==
  /\ cp = "read"
  /\ cl' = [cl EXCEPT !.vals =
              [k \in 1 .. cl.n |->
                 IF Slot(cl.t) + k - 1 < Size THEN buffer[Slot(cl.t) + k - 1]
                 ELSE buffer[(Slot(cl.t) + k - Size) % Size]]]
  /\ cp' = "commit"
  /\ UNCHANGED <<pops, cops, buffer, head, tail, pp, pl, cachedTail, op, obsHead,
                 obsSize, written, published, consumed>>

\* The copy out of slots t & mask, ..., (t + n - 1) & mask (both chunks).
ConsumerRead ==
  /\ cp = "read"
  /\ cl' = [cl EXCEPT !.vals = [k \in 1 .. cl.n |-> buffer[Slot(cl.t + k - 1)]]]
  /\ cp' = "commit"
  /\ UNCHANGED <<pops, cops, buffer, head, tail, pp, pl, cachedTail, op, obsHead,
                 obsSize, written, published, consumed>>

\* (mutant) the tail advances by one whatever was read.
ConsumerCommitOne ==
  /\ cp = "commit"
  /\ tail' = Plus(cl.t, 1)
  /\ consumed' = consumed + cl.n
  /\ cp' = "idle"
  /\ UNCHANGED <<pops, cops, buffer, head, pp, pl, cl, cachedTail, op, obsHead, obsSize,
                 written, published>>

\* tail_.store(current_tail + n, release).
ConsumerCommit ==
  /\ cp = "commit"
  /\ tail' = Plus(cl.t, cl.n)
  /\ consumed' = consumed + cl.n
  /\ cp' = "idle"
  /\ UNCHANGED <<pops, cops, buffer, head, pp, pl, cl, cachedTail, op, obsHead, obsSize,
                 written, published>>

(***************************************************************************)
(* size_approx() from a third thread: two relaxed loads, head then tail.   *)
(***************************************************************************)
SizeApproxLoadHead ==
  /\ Observer /\ op = "idle"
  /\ obsHead' = head /\ op' = "tail"
  /\ UNCHANGED <<pops, cops, buffer, head, tail, pp, pl, cp, cl, cachedTail, obsSize,
                 written, published, consumed>>

SizeApproxLoadTail ==
  /\ op = "tail"
  /\ obsSize' = Minus(obsHead, tail) /\ op' = "idle"
  /\ UNCHANGED <<pops, cops, buffer, head, tail, pp, pl, cp, cl, cachedTail, obsHead,
                 written, published, consumed>>

(***************************************************************************)
(* Specification.                                                          *)
(***************************************************************************)
Init ==
  /\ buffer = [i \in 0 .. Size - 1 |-> 0]
  /\ head = 0 /\ tail = 0
  /\ pp = "idle" /\ pl = [h |-> 0, n |-> 0]
  /\ cp = "idle" /\ cl = [t |-> 0, n |-> 0, vals |-> <<>>]
  /\ cachedTail = 0
  /\ pops \in ProducerOpSets /\ cops \in ConsumerOpSets
  /\ op = "idle" /\ obsHead = 0 /\ obsSize = 0
  /\ written = 0 /\ published = 0 /\ consumed = 0

ProducerStep ==
  \/ \E count \in 1 .. MaxBatch : PushBatchLoad(count)
  \/ TryPushLoad \/ GetTailRelaxed \/ TryPushWithCachedTailLoad
  \/ ProducerWrite \/ ProducerPublish

ConsumerStep ==
  \/ TryPopLoad \/ \E maxCount \in 1 .. MaxBatch : PopBatchLoad(maxCount)
  \/ ConsumerRead \/ ConsumerCommit

ObserverStep == SizeApproxLoadHead \/ SizeApproxLoadTail

Next == ProducerStep \/ ConsumerStep \/ ObserverStep

\* A consumer thread that polls the ring keeps taking steps; the producer
\* (the engine) may stop producing at any time.
Spec == Init /\ [][Next]_vars /\ WF_vars(ConsumerStep)
(***************************************************************************)
(* Properties.                                                             *)
(***************************************************************************)
\* The records between tail_ and head_, oldest first: what the queue holds.
FifoQueue == [i \in 1 .. Minus(head, tail) |-> buffer[Slot(tail + i - 1)]]
LiveSlots == {Slot(tail + k) : k \in 0 .. Minus(head, tail) - 1}

\* Type invariant; the occupancy head - tail never exceeds capacity().
TypeOK ==
  /\ buffer \in [0 .. Size - 1 -> 0 .. MaxPushed]
  /\ head \in 0 .. Modulus - 1 /\ tail \in 0 .. Modulus - 1
  /\ Minus(head, tail) <= capacity
  /\ pp \in {"idle", "write", "publish"} /\ cp \in {"idle", "read", "commit"}
  /\ pl.n \in 0 .. capacity /\ cl.n \in 0 .. capacity
  /\ written \in 0 .. MaxPushed /\ consumed <= published /\ published <= written

\* The producer's copy never lands on a slot that holds a published record
\* the consumer has not released: with the capacity test of push_batch /
\* try_push / try_push_with_cached_tail done on a tail_ that may be stale,
\* and the consumer copying out of those slots at the same time.
NoOverwrite ==
  pp = "write" =>
    {Slot(pl.h + k) : k \in 0 .. pl.n - 1} \cap LiveSlots = {}

\* What the consumer copies out, before it releases the slots, is the next
\* records in production order: the copy of a wrapping batch in two chunks
\* and the acquire of head_ never expose an unwritten or an old slot.
ConsumerReadsInOrder ==
  cp = "commit" => cl.vals = [k \in 1 .. cl.n |-> consumed + k]

\* The ring implements the bounded FIFO of BoundedFifo: the records between
\* tail_ and head_ are its queue, and, with a consumer that keeps polling,
\* every published record is eventually taken, across counter wrap-around.
Fifo == INSTANCE BoundedFifo WITH
          Cap <- capacity, queue <- FifoQueue, sent <- published,
          recv <- consumed
FifoRefinement == Fifo!Spec

=============================================================================
