----------------------------- MODULE RingQueue -----------------------------
(***************************************************************************)
(* One queue_t shared by the threads of the program.  Producers hand over  *)
(* freshly allocated packets, so an item is enqueued once; consumers take  *)
(* them with queue_dequeue.  The mutex makes each call one step.           *)
(*                                                                         *)
(* MaxOutstanding is the discipline of the callers: how many items they    *)
(* let wait in the queue at the same time.                                 *)
(***************************************************************************)
EXTENDS Queue, Sequences, FiniteSets

CONSTANTS
  Values,            (* the packets; each is handed over at most once *)
  MaxOutstanding     (* bound: the items waiting at any one time *)

ASSUME RingAssumption ==
  /\ NULL \notin Values
  /\ MaxOutstanding \in Nat \ {0}

VARIABLES
  queue,             (* the struct queue *)
  sent,              (* history: items accepted by queue_enqueue *)
  got,               (* history: items queue_dequeue returned, in order *)
  peak               (* history: the largest size so far *)

vars == <<queue, sent, got, peak>>

Init ==
  /\ queue = EmptyQueue
  /\ sent = {}
  /\ got = <<>>
  /\ peak = 0

(* queue_enqueue called with a packet not handed over before. *)
Enqueue(v) ==
  /\ v \notin sent
  /\ queue.size < MaxOutstanding
  /\ queue' = Enqueued(queue, v)
  /\ sent' = sent \cup {v}
  /\ peak' = IF queue.size + 1 > peak THEN queue.size + 1 ELSE peak
  /\ UNCHANGED got

(* queue_dequeue; the caller sees "empty" when the result is NULL. *)
Dequeue ==
  /\ queue' = Dequeued(queue)
  /\ got' = IF Front(queue) = NULL THEN got ELSE Append(got, Front(queue))
  /\ UNCHANGED <<sent, peak>>

Next == Dequeue \/ \E v \in Values : Enqueue(v)

(* The consumer threads poll for ever: dequeueing never stops. *)
Spec == Init /\ [][Next]_vars
FairSpec == Spec /\ WF_vars(Dequeue)

-----------------------------------------------------------------------------
Received == {got[i] : i \in 1..Len(got)}

(* The indices stay inside the buffer and size never exceeds capacity: no  *)
(* call of queue_enqueue or queue_dequeue touches memory outside buffer.   *)
TypeOK ==
  /\ IsQueue(queue, Values)
  /\ sent \subseteq Values
  /\ got \in Seq(Values)
  /\ peak \in Nat

(* queue_dequeue hands a packet out at most once and never invents one,    *)
(* whatever the interleaving of growth and wrap-around: the receivers free *)
(* what they take, so a second delivery would be a double free.            *)
AtMostOnce ==
  /\ Received \cup Held(queue) \subseteq sent
  /\ Received \cap Held(queue) = {}
  /\ \A i, j \in 1..Len(got) : got[i] = got[j] => i = j
  /\ \A i, j \in Cells(queue) :
       queue.buffer[i] = queue.buffer[j] /\ queue.buffer[i] # NULL => i = j

(* The memory of the queue is bounded by its history: it has exactly as    *)
(* many cells as items have ever waited in it at the same time, so the     *)
(* realloc loop of queue_enqueue never over-allocates.                     *)
CapacityIsHighWater == queue.capacity = peak /\ peak <= MaxOutstanding

(* Every accepted packet was delivered or is among those the next size     *)
(* dequeues return.                                                        *)
NothingLost ==
  sent = Received \cup {Window(queue)[i] : i \in 1..queue.size}

(* The callers have let one packet wait at a time, as MTadd_hashtable and  *)
(* MTsearch_hashtable aim at with hashprocessing.                          *)
OneAtATime == peak <= 1

(* Among callers that let one packet wait at a time every accepted packet  *)
(* is eventually handed to a consumer.                                     *)
EveryItemDelivered ==
  []OneAtATime => \A v \in Values : v \in sent ~> v \in Received

(* As long as one packet waits at a time the queue is the first-in         *)
(* first-out queue its users expect, whatever is allowed later.            *)
Fifo == INSTANCE FifoQueue WITH items <- Window(queue)
RefinesFifo ==
  Fifo!Init /\ [][OneAtATime' => [Fifo!Next]_(Fifo!vars)]_vars
=============================================================================
