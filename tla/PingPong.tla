------------------------------ MODULE PingPong ------------------------------
(***************************************************************************)
(* The stages a request goes through (process_pingpong_queue of            *)
(* utils/jl777hash.h, wired by init_coin_tables and run by Coinloop of     *)
(* multigateway/multigateway.h).  A stage has two queues: a pass takes     *)
(* everything out of the first, then everything out of the second, and     *)
(* puts what must be tried again into the other one.                       *)
(*                                                                         *)
(* What a stage does with a request lies in functions of its own; here it  *)
(* answers "again", "error" or "done".                                     *)
(***************************************************************************)
EXTENDS Queue, Sequences, FiniteSets

CONSTANTS
  Items,             (* the requests *)
  Threads,           (* the threads that run the stages *)
  Stages,            (* their order in Coinloop *)
  Dest,              (* destqueue of each stage: a stage, or NULL *)
  Error,             (* errorqueue: a stage, "sink" for lp->errorqueue, NULL *)
  Entry,             (* the stage each request is handed to *)
  MaxInFlight        (* bound: requests of one entry on their way *)

Names == {Stages[i] : i \in 1..Len(Stages)}

ASSUME PingPongAssumption ==
  /\ NULL \notin Items \cup Names /\ Len(Stages) > 0
  /\ Dest \in [Names -> Names \cup {NULL}]
  /\ Error \in [Names -> Names \cup {"sink", NULL}]
  /\ Entry \in [Items -> Names]
  /\ MaxInFlight \in Nat \ {0}

VARIABLES
  queues,            (* the pair of queues of each stage *)
  sink,              (* lp->errorqueue, which nothing empties *)
  turn,              (* where each thread is: stage, iter, the request taken *)
  waiting,           (* requests not handed in yet *)
  finished,          (* requests freed by a last stage *)
  passed             (* history: the stages that were done with a request *)

vars == <<queues, sink, turn, waiting, finished, passed>>

Init ==
  /\ queues = [s \in Names |-> [i \in 0..1 |-> EmptyQueue]]
  /\ sink = EmptyQueue
  /\ turn = [t \in Threads |-> [stage |-> 1, iter |-> 0, item |-> NULL]]
  /\ waiting = Items
  /\ finished = {}
  /\ passed = [x \in Items |-> {}]

InFlight == Items \ (waiting \cup finished)
Stage(t) == Stages[turn[t].stage]
Iter(t) == turn[t].iter

(* A handler puts a new request into the first queue of its first stage. *)
HandIn(x) ==
  /\ x \in waiting
  /\ Cardinality({y \in InFlight : Entry[y] = Entry[x]}) < MaxInFlight
  /\ waiting' = waiting \ {x}
  /\ queues' = [queues EXCEPT ![Entry[x]][0] = Enqueued(@, x)]
  /\ UNCHANGED <<sink, turn, finished, passed>>

(* queue_dequeue gives the next request to try. *)
Take(t) ==
  LET q == queues[Stage(t)][Iter(t)] IN
  /\ turn[t].item = NULL /\ Front(q) # NULL
  /\ turn' = [turn EXCEPT ![t].item = Front(q)]
  /\ queues' = [queues EXCEPT ![Stage(t)][Iter(t)] = Dequeued(@)]
  /\ UNCHANGED <<sink, waiting, finished, passed>>

(* queue_dequeue finds nothing: the second queue, then the next stage. *)
Advance(t) ==
  LET last == turn[t].stage = Len(Stages) IN
  /\ turn[t].item = NULL /\ Front(queues[Stage(t)][Iter(t)]) = NULL
  /\ queues' = [queues EXCEPT ![Stage(t)][Iter(t)] = Dequeued(@)]
  /\ turn' = [turn EXCEPT ![t] =
                [item |-> NULL, iter |-> 1 - Iter(t),
                 stage |-> IF Iter(t) = 0 THEN turn[t].stage
                           ELSE IF last THEN 1 ELSE turn[t].stage + 1]]
  /\ UNCHANGED <<sink, waiting, finished, passed>>

(* Slip: a request to be tried again goes to the second queue. *)
Slip_PutInto(t, s) ==
  queues' = [queues EXCEPT ![s][IF s = Stage(t) THEN 1 ELSE 0] =
               Enqueued(@, turn[t].item)]

(* queue_enqueue into the first queue of a stage, or into the other queue  *)
(* when the stage is the one being run.                                    *)
PutInto(t, s) ==
  queues' = [queues EXCEPT ![s][IF s = Stage(t) THEN 1 - Iter(t) ELSE 0] =
               Enqueued(@, turn[t].item)]

Again(t) == PutInto(t, Stage(t)) /\ UNCHANGED <<sink, finished, passed>>

Fail(t) ==
  /\ IF Error[Stage(t)] = "sink"
       THEN sink' = Enqueued(sink, turn[t].item) /\ UNCHANGED queues
       ELSE PutInto(t, Error[Stage(t)]) /\ UNCHANGED sink
  /\ UNCHANGED <<finished, passed>>

(* Slip: the request is freed although a stage is to follow. *)
Slip_Done(t) ==
  /\ finished' = finished \cup {turn[t].item}
  /\ passed' = [passed EXCEPT ![turn[t].item] = @ \cup {Stage(t)}]
  /\ IF Dest[Stage(t)] = NULL THEN UNCHANGED queues
     ELSE PutInto(t, Dest[Stage(t)])
  /\ UNCHANGED sink

Done(t) ==
  /\ passed' = [passed EXCEPT ![turn[t].item] = @ \cup {Stage(t)}]
  /\ IF Dest[Stage(t)] = NULL
       THEN finished' = finished \cup {turn[t].item} /\ UNCHANGED queues
       ELSE PutInto(t, Dest[Stage(t)]) /\ UNCHANGED finished
  /\ UNCHANGED sink

(* The stage's action answers; without an error queue it never fails. *)
Act(t, result) ==
  /\ turn[t].item # NULL
  /\ \/ result = "again" /\ Again(t)
     \/ result = "error" /\ Error[Stage(t)] # NULL /\ Fail(t)
     \/ result = "done" /\ Done(t)
  /\ turn' = [turn EXCEPT ![t].item = NULL]
  /\ UNCHANGED waiting

Loop(t) == Take(t) \/ Advance(t) \/ \E r \in {"again", "error", "done"} : Act(t, r)

Next == \/ \E x \in Items : HandIn(x)
        \/ \E t \in Threads : Loop(t)

Spec == Init /\ [][Next]_vars

(* The threads loop for ever. *)
FairSpec == Spec /\ \A t \in Threads : WF_vars(Loop(t))

-----------------------------------------------------------------------------
Waits(x, q) == \E i \in 1..q.size : Window(q)[i] = x

TypeOK ==
  /\ \A s \in Names : \A i \in 0..1 : IsQueue(queues[s][i], Items)
  /\ IsQueue(sink, Items)
  /\ \A t \in Threads : /\ turn[t].stage \in 1..Len(Stages)
                        /\ turn[t].iter \in 0..1
                        /\ turn[t].item \in Items \cup {NULL}

(* The places a request can be in. *)
Places(x) ==
  {<<s, i>> \in Names \X (0..1) : Waits(x, queues[s][i])}
  \cup {t \in Threads : turn[t].item = x}
  \cup (IF Waits(x, sink) THEN {"sink"} ELSE {})
  \cup (IF x \in finished THEN {"freed"} ELSE {})

(* A request handed in is in one place: it is neither lost between two     *)
(* stages nor in one stage while another frees it.  Between two passes of  *)
(* a stage that is not in its second queue: the start of Coinloop only     *)
(* looks at the first to see whether work is left.                         *)
OnePlace ==
  /\ \A x \in Items \ waiting : Cardinality(Places(x)) = 1
  /\ \A s \in Names :
       (\A t \in Threads : Stage(t) # s) => queues[s][1].size = 0

(* Nothing is sent that has not been through every stage before. *)
StagesInOrder ==
  \A s \in Names : \A x \in Items : \A i \in 0..1 :
    Waits(x, queues[s][i]) =>
      \A r \in Names : Dest[r] = s /\ r # s => r \in passed[x]

(* No pass over a stage loses, doubles or reorders a request.              *)
RequestsKept == TypeOK /\ OnePlace /\ StagesInOrder

(* A pass over a stage comes to an end, even if nothing gets done in it. *)
PassEnds == \A t \in Threads : \A i \in 1..Len(Stages) :
  turn[t].stage = i ~> turn[t].stage # i

(* If what is tried again and again is done in the end, every request      *)
(* reaches the end of the last stage or the error queue.                   *)
EveryItemEnds ==
  SF_vars(\E t \in Threads : Act(t, "done")) =>
    \A x \in Items : x \in InFlight ~> x \in finished \/ Waits(x, sink)
=============================================================================
