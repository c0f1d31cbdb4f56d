-------------------------- MODULE RingQueueProofs --------------------------
(***************************************************************************)
(* Proofs about queue_t: the shape of the ring, at-most-once delivery and  *)
(* the size of the buffer for every number of packets and every            *)
(* discipline of the callers; first-in first-out order when at most one    *)
(* packet waits at a time.                                                 *)
(***************************************************************************)
EXTENDS RingQueue, StructureLemmas

-----------------------------------------------------------------------------
(* No call of queue_enqueue or queue_dequeue ever uses an index outside    *)
(* the buffer, in any interleaving.                                        *)
THEOREM TypeCorrect == Spec => []TypeOK
  <1>1. Init => TypeOK
    BY DEF Init, TypeOK, EmptyQueue, IsQueue
  <1>2. TypeOK /\ [Next]_vars => TypeOK'
    <2> SUFFICES ASSUME TypeOK, [Next]_vars PROVE TypeOK'
      OBVIOUS
    <2>1. ASSUME NEW v \in Values, Enqueue(v) PROVE TypeOK'
      <3>1. IsQueue(queue', Values)
        BY <2>1, EnqueuedIsQueue DEF TypeOK, Enqueue
      <3>2. peak' \in Nat
        BY <2>1 DEF TypeOK, Enqueue, IsQueue
      <3> QED BY <2>1, <3>1, <3>2 DEF TypeOK, Enqueue
    <2>2. CASE Dequeue
      <3>1. IsQueue(queue', Values) /\ Front(queue) \in Values \cup {NULL}
        BY <2>2, DequeuedIsQueue DEF TypeOK, Dequeue
      <3> QED BY <2>2, <3>1 DEF TypeOK, Dequeue
    <2>3. CASE UNCHANGED vars
      BY <2>3 DEF TypeOK, vars
    <2> QED BY <2>1, <2>2, <2>3 DEF Next
  <1> QED BY <1>1, <1>2, PTL DEF Spec

-----------------------------------------------------------------------------
(* No packet is delivered twice and none is invented: queue_dequeue clears *)
(* the cell it reads, and queue_enqueue writes one cell only, so a packet  *)
(* is never in two cells even when growth has confused the two indices.    *)
THEOREM DeliveredAtMostOnce == Spec => []AtMostOnce
  <1>1. Init => AtMostOnce
    BY DEF Init, AtMostOnce, EmptyQueue, Held, Cells, Received
  <1>2. TypeOK /\ TypeOK' /\ AtMostOnce /\ [Next]_vars => AtMostOnce'
    <2> SUFFICES ASSUME TypeOK, TypeOK', AtMostOnce, [Next]_vars
                 PROVE  AtMostOnce'
      OBVIOUS
    <2>0. IsQueue(queue, Values) /\ got \in Seq(Values) /\ NULL \notin Values
      BY RingAssumption DEF TypeOK
    <2>1. ASSUME NEW v \in Values, Enqueue(v) PROVE AtMostOnce'
      <3>1. PICK k \in Cells(queue') :
              /\ queue'.buffer[k] = v
              /\ \A i \in Cells(queue') \ {k} :
                   \/ i \in Cells(queue) /\ queue'.buffer[i] = queue.buffer[i]
                   \/ queue'.buffer[i] = NULL
        BY <2>0, <2>1, EnqueuedCells DEF Enqueue
      <3>2. /\ v \notin sent /\ sent' = sent \cup {v} /\ got' = got
            /\ Received' = Received
        BY <2>1 DEF Enqueue, Received
      <3>3. Held(queue') \subseteq Held(queue) \cup {v}
        BY <3>1 DEF Held
      <3>4. v \notin Received /\ \A i \in Cells(queue) : queue.buffer[i] # v
        BY <3>2, <2>0 DEF AtMostOnce, Held
      <3>5. \A i, j \in Cells(queue') :
              queue'.buffer[i] = queue'.buffer[j] /\ queue'.buffer[i] # NULL
                => i = j
        BY <3>1, <3>4, <2>0 DEF AtMostOnce
      <3> QED BY <3>2, <3>3, <3>4, <3>5 DEF AtMostOnce
    <2>2. CASE Dequeue
      <3>1. CASE queue.size > 0
        <4>1. /\ queue.out \in Cells(queue)
              /\ Cells(queue') = Cells(queue)
              /\ queue'.buffer[queue.out] = NULL
              /\ \A i \in Cells(queue) \ {queue.out} :
                    queue'.buffer[i] = queue.buffer[i]
              /\ Front(queue) = queue.buffer[queue.out]
          BY <2>0, <2>2, <3>1, DequeuedCells DEF Dequeue
        <4>2. /\ Held(queue') \subseteq Held(queue) \ {Front(queue)}
              /\ Front(queue) # NULL => Front(queue) \in Held(queue)
          BY <4>1 DEF AtMostOnce, Held
        <4>3. \A i, j \in Cells(queue') :
                queue'.buffer[i] = queue'.buffer[j] /\ queue'.buffer[i] # NULL
                  => i = j
          BY <4>1 DEF AtMostOnce
        <4>4. CASE Front(queue) = NULL
          <5>1. got' = got /\ sent' = sent /\ Received' = Received
            BY <2>2, <4>4 DEF Dequeue, Received
          <5> QED BY <4>2, <4>3, <5>1 DEF AtMostOnce
        <4>5. CASE Front(queue) # NULL
          <5>1. /\ got' = Append(got, Front(queue)) /\ sent' = sent
                /\ Front(queue) \in Held(queue)
                /\ Front(queue) \in Values
            BY <2>2, <4>5, <4>2, <2>0, DequeuedIsQueue DEF Dequeue
          <5>2. /\ Len(got') = Len(got) + 1
                /\ \A i \in 1..Len(got) : got'[i] = got[i]
                /\ got'[Len(got) + 1] = Front(queue)
            BY <5>1, <2>0
          <5>3. Received' = Received \cup {Front(queue)}
            BY <5>2, <2>0 DEF Received
          <5>4. \A i, j \in 1..Len(got') : got'[i] = got'[j] => i = j
            <6>1. \A i \in 1..Len(got) : got[i] # Front(queue)
              BY <5>1 DEF AtMostOnce, Received
            <6> QED BY <6>1, <5>2, <2>0 DEF AtMostOnce
          <5> QED BY <4>2, <4>3, <5>1, <5>3, <5>4 DEF AtMostOnce
        <4> QED BY <4>4, <4>5
      <3>2. CASE ~(queue.size > 0)
        <4>1. queue' = queue /\ got' = got /\ sent' = sent
          BY <2>2, <3>2 DEF Dequeue, Dequeued, Front
        <4> QED BY <4>1 DEF AtMostOnce, Received
      <3> QED BY <3>1, <3>2
    <2>3. CASE UNCHANGED vars
      BY <2>3 DEF AtMostOnce, vars, Received
    <2> QED BY <2>1, <2>2, <2>3 DEF Next
  <1> QED BY <1>1, <1>2, TypeCorrect, PTL DEF Spec

-----------------------------------------------------------------------------
(* The buffer has exactly as many cells as packets have ever waited at the *)
(* same time: queue_enqueue grows it only when every counted cell is used. *)
THEOREM CapacityBounded == Spec => []CapacityIsHighWater
  <1>1. Init => CapacityIsHighWater
    BY RingAssumption DEF Init, CapacityIsHighWater, EmptyQueue
  <1>2. TypeOK /\ CapacityIsHighWater /\ [Next]_vars => CapacityIsHighWater'
    <2> SUFFICES ASSUME TypeOK, CapacityIsHighWater, [Next]_vars
                 PROVE  CapacityIsHighWater'
      OBVIOUS
    <2>0. /\ queue.capacity \in Nat /\ queue.size \in 0..queue.capacity
          /\ MaxOutstanding \in Nat
      BY RingAssumption DEF TypeOK, IsQueue
    <2>1. ASSUME NEW v \in Values, Enqueue(v) PROVE CapacityIsHighWater'
      <3>1. queue'.capacity = IF queue.size = queue.capacity
                                THEN queue.capacity + 1 ELSE queue.capacity
        BY <2>1 DEF Enqueue, Enqueued, Grown
      <3>2. /\ queue.size < MaxOutstanding
            /\ peak' = IF queue.size + 1 > peak THEN queue.size + 1 ELSE peak
        BY <2>1 DEF Enqueue
      <3> QED BY <2>0, <3>1, <3>2 DEF CapacityIsHighWater
    <2>2. CASE Dequeue
      BY <2>2 DEF Dequeue, Dequeued, CapacityIsHighWater
    <2>3. CASE UNCHANGED vars
      BY <2>3 DEF vars, CapacityIsHighWater
    <2> QED BY <2>1, <2>2, <2>3 DEF Next
  <1> QED BY <1>1, <1>2, TypeCorrect, PTL DEF Spec

-----------------------------------------------------------------------------
(* What a queue that never holds two packets looks like: one cell, used    *)
(* over and over.                                                          *)
IsOneCell(q) ==
  /\ q.capacity \in {0, 1}
  /\ q.size \in 0..q.capacity
  /\ q.in = 0 /\ q.out = 0
  /\ q.size = 1 => q.buffer[0] \in Values

OneCell == IsOneCell(queue)

(* The window of a one-cell queue is the packet in its cell. *)
LEMMA WindowOfOneCell ==
  ASSUME NEW q, IsOneCell(q)
  PROVE  Window(q) = IF q.size = 0 THEN <<>> ELSE <<q.buffer[0]>>
  <1>1. CASE q.size = 0
    BY <1>1 DEF Window
  <1>2. CASE q.size = 1
    <2>1. q.capacity = 1 /\ q.out = 0
      BY <1>2 DEF IsOneCell
    <2>2. \A i \in 1..1 : (0 + i - 1) % 1 = 0
      OBVIOUS
    <2>3. Window(q) = [i \in 1..1 |-> q.buffer[0]]
      BY <1>2, <2>1, <2>2 DEF Window
    <2> QED BY <1>2, <2>3
  <1> QED BY <1>1, <1>2 DEF IsOneCell

(* A step that leaves at most one packet in a one-cell queue keeps it one  *)
(* cell, and is a step of the first-in first-out queue.                    *)
LEMMA OneCellStep ==
  ASSUME TypeOK, OneCell, [Next]_vars, queue'.size <= 1
  PROVE  OneCell' /\ [Fifo!Next]_(Fifo!vars)
  <1>0. /\ Window(queue) = IF queue.size = 0 THEN <<>> ELSE <<queue.buffer[0]>>
        /\ (0 + 1) % 1 = 0
        /\ \A x \in Values : x # NULL
    BY WindowOfOneCell, RingAssumption DEF OneCell
  <1>1. ASSUME NEW v \in Values, Enqueue(v)
        PROVE  OneCell' /\ [Fifo!Next]_(Fifo!vars)
    <2>1. queue.size = 0 /\ v \notin sent
      <3>1. queue'.size = queue.size + 1
      BY <1>1, EnqueuedIsQueue DEF Enqueue, TypeOK
    <3> QED BY <1>1, <3>1 DEF Enqueue, OneCell, IsOneCell
    <2>2. /\ Grown(queue).capacity = 1 /\ Grown(queue).size = 0
          /\ Grown(queue).in = 0 /\ Grown(queue).out = 0
          /\ DOMAIN Grown(queue).buffer = 0..0
      <3>1. CASE queue.capacity = 0
        BY <2>1, <3>1 DEF Grown, OneCell, IsOneCell
      <3>2. CASE queue.capacity = 1
        <4>1. queue.buffer \in [0..0 -> Values \cup {NULL}]
          BY <3>2 DEF TypeOK, IsQueue
        <4> QED BY <2>1, <3>2, <4>1 DEF Grown, OneCell, IsOneCell
      <3> QED BY <3>1, <3>2 DEF OneCell, IsOneCell
    <2>3. /\ queue'.capacity = 1 /\ queue'.size = 1
          /\ queue'.in = 0 /\ queue'.out = 0
          /\ queue'.buffer[0] = v
      <3> DEFINE g == Grown(queue)
      <3>1. queue' = [buffer |-> [g.buffer EXCEPT ![g.in] = v],
                      capacity |-> g.capacity, size |-> g.size + 1,
                      in |-> (g.in + 1) % g.capacity, out |-> g.out]
        BY <1>1 DEF Enqueue, Enqueued
      <3> HIDE DEF g
      <3>2. /\ g.capacity = 1 /\ g.size = 0 /\ g.in = 0 /\ g.out = 0
            /\ DOMAIN g.buffer = 0..0
        BY <2>2 DEF g
      <3> QED BY <3>1, <3>2, <1>0
    <2>4. OneCell'
      BY <2>3 DEF OneCell, IsOneCell
    <2>5. Window(queue) = <<>> /\ Window(queue)' = <<v>>
      <3>1. Window(queue)' = IF queue'.size = 0 THEN <<>>
                                               ELSE <<queue'.buffer[0]>>
        BY <2>4, WindowOfOneCell DEF OneCell
      <3> QED BY <1>0, <2>1, <2>3, <3>1
    <2>6. Fifo!Enqueue(v)
      BY <1>1, <2>1, <2>5 DEF Fifo!Enqueue, Enqueue
    <2> QED BY <2>4, <2>6 DEF Fifo!Next
  <1>2. CASE Dequeue
    <2>1. CASE queue.size > 0
      <3>1. /\ queue.size = 1 /\ queue.capacity = 1 /\ queue.out = 0
            /\ queue.in = 0 /\ queue.buffer[0] \in Values
        BY <2>1 DEF OneCell, IsOneCell
      <3>2. /\ queue'.capacity = 1 /\ queue'.size = 0
            /\ queue'.in = 0 /\ queue'.out = 0
        BY <1>2, <3>1, <1>0 DEF Dequeue, Dequeued
      <3>3. OneCell'
        BY <3>2 DEF OneCell, IsOneCell
      <3>4. Window(queue)' = <<>>
        <4>1. Window(queue)' = IF queue'.size = 0 THEN <<>>
                                                 ELSE <<queue'.buffer[0]>>
          BY <3>3, WindowOfOneCell DEF OneCell
        <4> QED BY <3>2, <4>1
      <3>5. Window(queue) = <<queue.buffer[0]>>
        BY <3>1, <1>0
      <3>6. /\ got' = Append(got, queue.buffer[0]) /\ sent' = sent
        BY <1>2, <3>1, <1>0 DEF Dequeue, Front
      <3>7. Fifo!Dequeue
        BY <3>4, <3>5, <3>6 DEF Fifo!Dequeue
      <3> QED BY <3>3, <3>7 DEF Fifo!Next
    <2>2. CASE ~(queue.size > 0)
      <3>1. UNCHANGED vars
        BY <1>2, <2>2 DEF Dequeue, Dequeued, Front, vars
      <3> QED BY <3>1 DEF vars, Fifo!vars, OneCell, IsOneCell, Window
    <2> QED BY <2>1, <2>2
  <1>3. CASE UNCHANGED vars
    BY <1>3 DEF vars, Fifo!vars, OneCell, IsOneCell, Window
  <1> QED BY <1>1, <1>2, <1>3 DEF Next

(* No more packets wait than have ever waited.                             *)
LEMMA PeakGrows ==
  ASSUME TypeOK, queue.size <= peak, [Next]_vars
  PROVE  peak' \in Nat /\ peak <= peak' /\ queue'.size <= peak'
  <1>1. IsQueue(queue, Values) /\ peak \in Nat
    BY DEF TypeOK
  <1>2. ASSUME NEW v \in Values, Enqueue(v)
        PROVE  peak' \in Nat /\ peak <= peak' /\ queue'.size <= peak'
    <2>1. queue'.size = queue.size + 1
      BY <1>1, <1>2, EnqueuedIsQueue DEF Enqueue
    <2> QED BY <1>1, <1>2, <2>1 DEF Enqueue, IsQueue
  <1>3. CASE Dequeue
    BY <1>1, <1>3 DEF Dequeue, Dequeued, IsQueue
  <1>4. CASE UNCHANGED vars
    BY <1>1, <1>4 DEF vars
  <1> QED BY <1>2, <1>3, <1>4 DEF Next

(* While the callers let one packet wait at a time, the ring is a first-in *)
(* first-out queue: nothing is lost, duplicated or reordered.  The bound   *)
(* MaxOutstanding may be any: what counts is what has waited so far.       *)
THEOREM OneAtATimeIsFifo == Spec => RefinesFifo
  <1> DEFINE Inv == queue.size <= peak /\ (OneAtATime => OneCell)
  <1>1. Init => Inv /\ Fifo!Init
    BY DEF Init, EmptyQueue, OneCell, IsOneCell, Fifo!Init, Window
  <1>2. TypeOK /\ Inv /\ [Next]_vars
          => Inv' /\ [OneAtATime' => [Fifo!Next]_(Fifo!vars)]_vars
    <2> SUFFICES ASSUME TypeOK, Inv, [Next]_vars
                 PROVE  Inv' /\ (OneAtATime' => [Fifo!Next]_(Fifo!vars))
      OBVIOUS
    <2>1. peak' \in Nat /\ peak <= peak' /\ queue'.size <= peak'
      BY PeakGrows
    <2>2. CASE OneAtATime'
      <3>1. OneCell /\ queue'.size <= 1
        <4>1. IsQueue(queue', Values) \/ UNCHANGED vars
          BY EnqueuedIsQueue, DequeuedIsQueue
             DEF Next, Enqueue, Dequeue, TypeOK
        <4> QED BY <2>1, <2>2, <4>1
                DEF OneAtATime, TypeOK, IsQueue, vars
      <3> QED BY <2>1, <3>1, OneCellStep
    <2> QED BY <2>1, <2>2
  <1> QED BY <1>1, <1>2, TypeCorrect, PTL DEF Spec, RefinesFifo
=============================================================================
