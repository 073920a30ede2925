------------------------------ MODULE ByteQueue ------------------------------
(***************************************************************************)
(* What a CircularBuffer promises to the sessions that own one: a bounded  *)
(* FIFO queue of bytes.  Bytes come out in the order in which they were    *)
(* committed, none is lost, duplicated or altered, and a whole buffer can  *)
(* be thrown away at once (BufferReset).                                   *)
(***************************************************************************)
EXTENDS Naturals, Sequences, SequencesExt

CONSTANT Capacity   (* the most bytes the queue can hold *)

VARIABLE queue

Init == queue = <<>>

(* Some bytes are appended; those already queued are not disturbed. *)
Put == /\ IsStrictPrefix(queue, queue')
       /\ Len(queue') <= Capacity

(* Some bytes are taken from the front. *)
Take == \E n \in 1 .. Len(queue) : queue' = SubSeq(queue, n + 1, Len(queue))

(* All of them are discarded. *)
Clear == queue' = <<>>

Next == Put \/ Take \/ Clear

Spec == Init /\ [][Next]_queue
=============================================================================
