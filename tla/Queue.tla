------------------------------- MODULE Queue -------------------------------
(***************************************************************************)
(* The growable ring of utils/jl777hash.h (struct queue of jl777.h) as     *)
(* operators on one record.  queue_enqueue and queue_dequeue each run      *)
(* under the queue's mutex, so one operator stands for one call.           *)
(*                                                                         *)
(* The buffer grows by exactly one cell, at its end, whenever it is full;  *)
(* the indices in and out are NOT moved when it grows.                     *)
(***************************************************************************)
EXTENDS Integers

CONSTANT NULL        (* the null pointer: an empty cell, "nothing to take" *)

(* A calloc'ed queue: no buffer, no cell. *)
EmptyQueue ==
  [buffer |-> [i \in 0..-1 |-> NULL], capacity |-> 0, size |-> 0,
   in |-> 0, out |-> 0]

(* Slip: the cell count is compared off by one, so the buffer grows early. *)
Slip_GrownEarly(q) ==
  IF q.size + 1 >= q.capacity
    THEN [buffer   |-> [i \in 0..q.capacity |->
                          IF i = q.capacity THEN NULL ELSE q.buffer[i]],
          capacity |-> q.capacity + 1,
          size     |-> q.size, in |-> q.in, out |-> q.out]
    ELSE q

(* The realloc loop: it runs once, for one more cell than size is enough.  *)
Grown(q) ==
  IF q.size = q.capacity
    THEN [buffer   |-> [i \in 0..q.capacity |->
                          IF i = q.size THEN NULL ELSE q.buffer[i]],
          capacity |-> q.capacity + 1,
          size     |-> q.size, in |-> q.in, out |-> q.out]
    ELSE q

(* Slip: the index in is advanced but not wrapped. *)
Slip_EnqueuedNoWrap(q, v) ==
  LET g == Grown(q) IN
  [g EXCEPT !.buffer[g.in] = v, !.size = @ + 1, !.in = @ + 1]

(* Slip: the call that had to make room returns without storing the item. *)
Slip_EnqueuedOnlyGrows(q, v) ==
  LET g == Grown(q) IN
  IF g # q THEN g
  ELSE [q EXCEPT !.buffer[q.in] = v, !.size = @ + 1,
                 !.in = (@ + 1) % q.capacity]

(* queue_enqueue *)
Enqueued(q, v) ==
  LET g == Grown(q) IN
  [buffer   |-> [g.buffer EXCEPT ![g.in] = v],
   capacity |-> g.capacity,
   size     |-> g.size + 1,
   in       |-> (g.in + 1) % g.capacity,
   out      |-> g.out]

(* What queue_dequeue returns ... *)
Front(q) == IF q.size > 0 THEN q.buffer[q.out] ELSE NULL

(* Slip: the cell just read is not cleared. *)
Slip_DequeuedNoClear(q) ==
  IF q.size > 0
    THEN [q EXCEPT !.size = @ - 1, !.out = (@ + 1) % q.capacity]
    ELSE q

(* Slip: the cell is cleared but still counted. *)
Slip_DequeuedStillCounted(q) ==
  IF q.size > 0
    THEN [q EXCEPT !.buffer[q.out] = NULL, !.out = (@ + 1) % q.capacity]
    ELSE q

(* ... and what it leaves behind. *)
Dequeued(q) ==
  IF q.size > 0
    THEN [buffer   |-> [q.buffer EXCEPT ![q.out] = NULL],
          capacity |-> q.capacity,
          size     |-> q.size - 1,
          in       |-> q.in,
          out      |-> (q.out + 1) % q.capacity]
    ELSE q

(***************************************************************************)
(* Views of a queue used by the properties.                                *)
(***************************************************************************)
Cells(q) == 0..(q.capacity - 1)

(* Everything the buffer still points to. *)
Held(q) == {q.buffer[i] : i \in Cells(q)} \ {NULL}

(* What the next size dequeues will return, oldest first. *)
Window(q) == [i \in 1..q.size |-> q.buffer[(q.out + i - 1) % q.capacity]]

(* The shape every queue keeps: all indices are inside the buffer. *)
IsQueue(q, V) ==
  /\ q.capacity \in Nat
  /\ q.size \in 0..q.capacity
  /\ q.buffer \in [0..(q.capacity - 1) -> V \cup {NULL}]
  /\ IF q.capacity = 0
       THEN q.in = 0 /\ q.out = 0
       ELSE q.in \in 0..(q.capacity - 1) /\ q.out \in 0..(q.capacity - 1)
=============================================================================
