---------------------------- MODULE BoundedFifo ----------------------------
(***************************************************************************)
(* What the single-producer / single-consumer output queue promises (spec  *)
(* section "Output ring"): a FIFO of at most Cap records; a producer call  *)
(* appends a batch that fits, a consumer call removes a prefix; nothing is *)
(* lost, duplicated or reordered, and, with a consumer that keeps polling, *)
(* everything appended is eventually removed.                              *)
(*                                                                         *)
(* Records are numbered in the order they are produced: sent counts the    *)
(* records appended, recv those removed.                                   *)
(***************************************************************************)
EXTENDS Naturals, Sequences

CONSTANT Cap

VARIABLES queue, sent, recv

fifoVars == <<queue, sent, recv>>

Init == queue = <<>> /\ sent = 0 /\ recv = 0

\* Append the next k records.
Put(k) ==
  /\ Len(queue) + k <= Cap
  /\ queue' = queue \o [i \in 1 .. k |-> sent + i]
  /\ sent' = sent + k
  /\ UNCHANGED recv

\* Remove the first k records.
Get(k) ==
  /\ k <= Len(queue)
  /\ queue' = SubSeq(queue, k + 1, Len(queue))
  /\ recv' = recv + k
  /\ UNCHANGED sent

Next == \E k \in 1 .. Cap : Put(k) \/ Get(k)

Spec == Init /\ [][Next]_fifoVars /\ WF_fifoVars(\E k \in 1 .. Cap : Get(k))
=============================================================================
