----------------------------- MODULE FifoQueue -----------------------------
(***************************************************************************)
(* What the users of queue_t rely on: a first-in first-out queue that      *)
(* gives every accepted item back exactly once, in the order of arrival.   *)
(***************************************************************************)
EXTENDS Sequences

CONSTANT Values      (* the pointers the callers put into the queue *)

VARIABLES
  items,             (* accepted and not yet taken, oldest first *)
  sent,              (* every item ever accepted *)
  got                (* the items taken, in the order they were taken *)

vars == <<items, sent, got>>

Init ==
  /\ items = <<>>
  /\ sent = {}
  /\ got = <<>>

Enqueue(v) ==
  /\ v \notin sent
  /\ items' = Append(items, v)
  /\ sent' = sent \cup {v}
  /\ UNCHANGED got

Dequeue ==
  /\ items # <<>>
  /\ got' = Append(got, Head(items))
  /\ items' = Tail(items)
  /\ UNCHANGED sent

Next == Dequeue \/ \E v \in Values : Enqueue(v)

Spec == Init /\ [][Next]_vars
=============================================================================
