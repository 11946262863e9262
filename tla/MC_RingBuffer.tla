-------------------------- MODULE MC_RingBuffer ---------------------------
(* Instances of RingBuffer for TLC.                                        *)
EXTENDS RingBuffer

\* A producer that tests capacity against the live tail_ (push_batch,
\* try_push), or one that only pushes with a tail_ it cached.
MCSafeProducerOpSets == {{"push_batch", "try_push"}, {"try_push_cached"}}
\* A consumer polling with pop_batch, or with both entry points.
MCConsumerOpSets == {{"pop_batch"}, {"try_pop", "pop_batch"}}
=============================================================================
