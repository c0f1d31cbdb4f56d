---------------------------- MODULE MTHashProofs ----------------------------
(***************************************************************************)
(* The shared hash tables for every number of threads, keys and calls:     *)
(* when threads call at the same time only while the history is scanned,   *)
(* tables stay sound, an entry is reported as created once, and a caller   *)
(* gets the answer to its own question.                                    *)
(***************************************************************************)
EXTENDS MTHash, StructureLemmas

(* The loads MTadd_hashtable and MTsearch_hashtable are made for: once the *)
(* history has ended one thread alone calls, as nothing is serialised any  *)
(* longer.                                                                 *)
Sequenced ==
  \A l \in Loads : l.ends =>
    \A c, e \in Clients : l.calls[c] > 0 /\ l.calls[e] > 0 => c = e

-----------------------------------------------------------------------------
(* The inductive invariant.                                                *)

Operating == {"fetch", "publish", "search", "insert"}
Busy(w) == pc[w] \in Operating
Waiting(c) == pc[c] = "spin" /\ ~packet[c].done

Tables == UNION {[hashsize : {n}, numitems : Nat, slots : [0..(n - 1) -> Keys \cup {EMPTY}]] :
                   n \in Nat}
Calls == [func : {"A", "S", "-"}, key : Keys \cup {EMPTY}, present : BOOLEAN]
Packets(t) == [done : BOOLEAN, entry : Keys \cup {EMPTY}, at : Slots(t) \cup {ERROR}]
Works == [gen : Nat, at : Nat \cup {ERROR}, copy : Tables]
Labels == Operating \cup {"idle", "test", "claim", "put", "spin", "release", "returned"}

Types ==
  /\ load \in Loads /\ hashprocessing \in 0..1 /\ iter \in 0..1
  /\ history \in {"scan", "drain0", "drain1", "done"}
  /\ pc \in [Workers -> Labels \cup {"poll"}]
  /\ call \in [Clients -> Calls] /\ packet \in [Clients -> Packets(Table)]
  /\ work \in [Workers -> Works]
  /\ calls \in [Clients -> Nat] /\ creations \in [Keys -> Nat]

TablesFine == tables \in Seq(Tables) /\ Len(tables) > 0 /\ Roomy(Table)

(* Who is inside a call asked for something; a caller works on the table   *)
(* itself only when the history has ended.                                 *)
CallersFine ==
  /\ history # "scan" => load.ends
  /\ \A c \in Clients :
       /\ pc[c] \in Labels
       /\ pc[c] # "idle" => /\ load.calls[c] > 0
                            /\ call[c].func \in {"A", "S"} /\ call[c].key \in Keys
       /\ Busy(c) => history = "done"

(* A packet waits in one cell of one queue or is in the server's hands,    *)
(* and only while its caller spins.                                        *)
Due(i) == {c \in Clients : Waiting(c) /\ c # serving /\ QueueOf(call[c].func) = i}
OnceEach(q) ==
  \A j, k \in Cells(q) : q.buffer[j] = q.buffer[k] /\ q.buffer[j] # NULL => j = k
QueuesFine ==
  /\ queues \in [0..1 -> {queues[0], queues[1]}]
  /\ \A i \in 0..1 : IsQueue(queues[i], Due(i)) /\ OnceEach(queues[i])

ServerFine ==
  /\ pc[Server] \in Operating \cup {"poll"}
  /\ pc[Server] = "poll" <=> serving = NULL
  /\ serving # NULL => serving \in Clients /\ Waiting(serving)

(* A worker in the middle of an operation works on the current table; for  *)
(* an add there is room, and the key is still missing as it is inserted.   *)
WorkFine(w) ==
  /\ pc[w] \in {"publish", "search", "insert"} => work[w].gen = Len(tables)
  /\ pc[w] = "publish" =>
       Request(w).func = "A" /\ work[w].copy = Table /\ NeedsResize(Table)
  /\ pc[w] \in {"search", "insert"} /\ Request(w).func = "A" =>
       Table.numitems + 1 < Table.hashsize
  /\ pc[w] = "insert" =>
       /\ Request(w).func = "A" /\ Request(w).key \notin Stored(Table)
       /\ work[w].at = Search(Table, Request(w).key)

(* The answer given to a caller.                                           *)
Asks(c) == Alone /\ call[c].func = "S" /\ call[c].present
AnswerFine(c) ==
  /\ pc[c] \in {"release", "returned"} => packet[c].done
  /\ pc[c] \in {"test", "claim", "put"} => ~packet[c].done
  /\ pc[c] # "idle" /\ call[c].present => call[c].key \in Stored(Table)
  /\ packet[c].done /\ pc[c] \in {"spin", "release", "returned"} =>
       /\ packet[c].entry \in {EMPTY, call[c].key}
       /\ Asks(c) => /\ packet[c].at # ERROR
                     /\ Table.slots[packet[c].at] = call[c].key
  /\ pc[c] = "idle" /\ Asks(c) => packet[c].entry = call[c].key

MTInv ==
  /\ Types /\ TablesFine /\ CreatedOnce /\ CallersFine /\ QueuesFine /\ ServerFine
  /\ \A w \in Workers : WorkFine(w)
  /\ \A c \in Clients : AnswerFine(c)
-----------------------------------------------------------------------------
(* What the tables and the queues' cells are.                              *)

(* A table of the program has the fields a table has. *)
LEMMA IsTableOfTables ==
  ASSUME NEW t, IsTable(t)
  PROVE  t \in Tables
  <1>1. /\ t = [hashsize |-> t.hashsize, numitems |-> t.numitems, slots |-> t.slots]
        /\ t.hashsize \in Nat /\ t.numitems \in Nat
        /\ t.slots \in [0..(t.hashsize - 1) -> Keys \cup {EMPTY}]
    BY DEF IsTable, Slots
  <1>2. t \in [hashsize : {t.hashsize}, numitems : Nat,
               slots : [0..(t.hashsize - 1) -> Keys \cup {EMPTY}]]
    BY <1>1
  <1> QED BY <1>1, <1>2 DEF Tables

(* The table of one slot a worker starts from. *)
LEMMA NoTable == NewTable(1) \in Tables
  <1>1. NewTable(1) \in [hashsize : {1}, numitems : Nat,
                         slots : [0..(1 - 1) -> Keys \cup {EMPTY}]]
    BY DEF NewTable
  <1> QED BY <1>1 DEF Tables

(* The constants of the proofs, in the form they are used. *)
LEMMA Threads ==
  /\ Clients \subseteq Workers /\ Server \in Workers /\ Server \notin Clients
  /\ NULL \notin Clients /\ \A w \in Workers : w # Server => w \in Clients
  /\ \A l \in Loads : l.calls \in [Clients -> Nat] /\ l.ends \in BOOLEAN
  BY MTAssumption DEF Workers

(* Tables, queues, packets and callers are in order from the start. *)
LEMMA StartFine == Init => MTInv
  <1> SUFFICES ASSUME Init PROVE MTInv
    OBVIOUS
  <1>1. Roomy(NewTable(StartSize)) /\ Stored(NewTable(StartSize)) = {}
    <2>1. StartSize \in Nat \ {0} /\ StartSize >= 3
      BY MTAssumption
    <2>2. NewTable(StartSize).hashsize = StartSize /\ NewTable(StartSize).numitems = 0
      BY DEF NewTable
    <2> QED BY <2>1, <2>2, NewTableFits DEF Roomy
  <1>2. NewTable(StartSize) \in Tables
    BY <1>1, IsTableOfTables DEF Roomy, Fit
  <1>3. tables = <<NewTable(StartSize)>> /\ Len(tables) = 1 /\ Table = NewTable(StartSize)
    BY DEF Init, Table
  <1>4. tables \in Seq(Tables)
    <2> DEFINE t == NewTable(StartSize)
    <2> HIDE DEF t
    <2>1. t \in Tables => <<t>> \in Seq(Tables)
      OBVIOUS
    <2> QED BY <1>2, <1>3, <2>1 DEF t
  <1>5. TablesFine /\ CreatedOnce
    BY <1>1, <1>3, <1>4 DEF TablesFine, CreatedOnce, Init
  <1>6. Types
    <2>1. pc \in [Workers -> Labels \cup {"poll"}]
      BY Threads DEF Init, Labels
    <2>2. call \in [Clients -> Calls]
      BY DEF Init, Calls, NoCall
    <2>3. packet \in [Clients -> Packets(Table)]
      BY DEF Init, Packets, NoAnswer
    <2>4. work \in [Workers -> Works]
      <3>1. NoWork \in Works
        BY NoTable DEF NoWork, Works
      <3> QED BY <3>1 DEF Init
    <2> QED BY <2>1, <2>2, <2>3, <2>4 DEF Init, Types
  <1>7. CallersFine
    BY Threads DEF Init, CallersFine, Labels, Busy, Operating
  <1>8. QueuesFine
    <2>1. queues = [i \in 0..1 |-> EmptyQueue] /\ Cells(EmptyQueue) = {}
          /\ \A S : IsQueue(EmptyQueue, S)
      BY DEF Init, EmptyQueue, IsQueue, Cells
    <2> QED BY <2>1 DEF QueuesFine, OnceEach
  <1>9. ServerFine
    BY Threads DEF Init, ServerFine, Operating
  <1>10. ASSUME NEW w \in Workers PROVE WorkFine(w)
    BY Threads DEF Init, WorkFine
  <1>11. ASSUME NEW c \in Clients PROVE AnswerFine(c)
    BY Threads DEF Init, AnswerFine, Asks, NoAnswer, NoCall
  <1> QED BY <1>5, <1>6, <1>7, <1>8, <1>9, <1>10, <1>11 DEF MTInv
-----------------------------------------------------------------------------
(* Who may be in the middle of an operation.                               *)

(* What a worker works on is the call of a client inside a call.           *)
LEMMA Working ==
  ASSUME MTInv, NEW w \in Workers, Busy(w)
  PROVE  /\ Client(w) \in Clients /\ Request(w) = call[Client(w)]
         /\ load.calls[Client(w)] > 0
         /\ Request(w).func \in {"A", "S"} /\ Request(w).key \in Keys
         /\ w = Server => serving \in Clients /\ Waiting(serving)
         /\ w # Server => history = "done" /\ load.ends
         /\ pc[Client(w)] \in {"release", "returned"} => FALSE
         /\ pc[Client(w)] = "spin" => ~packet[Client(w)].done
         /\ pc[Client(w)] # "idle"
  <1>1. CASE w = Server
    <2>1. serving \in Clients /\ Waiting(serving)
      BY <1>1 DEF MTInv, ServerFine, Busy, Operating
    <2>2. Client(w) = serving /\ Request(w) = call[serving]
      BY <1>1 DEF Client, Request
    <2> QED BY <1>1, <2>1, <2>2 DEF MTInv, CallersFine, Waiting
  <1>2. CASE w # Server
    <2>1. w \in Clients /\ Client(w) = w /\ Request(w) = call[w]
      BY <1>2, Threads DEF Client, Request
    <2> QED BY <1>2, <2>1 DEF MTInv, CallersFine, Busy, Operating
  <1> QED BY <1>1, <1>2

(* A load of one caller has no other client inside a call. *)
LEMMA NoOther ==
  ASSUME MTInv, Alone, NEW c \in Clients, NEW e \in Clients,
         pc[c] # "idle", pc[e] # "idle"
  PROVE  c = e
  BY DEF MTInv, CallersFine, Alone

(* Once the history may end, its load has one caller. *)
LEMMA EndsAlone ==
  ASSUME MTInv, Sequenced, load.ends
  PROVE  Alone
  BY DEF MTInv, Types, Sequenced, Alone

(* Never two workers in the middle of an operation. *)
LEMMA OneWorker ==
  ASSUME MTInv, Sequenced, NEW v \in Workers, NEW w \in Workers, Busy(v), Busy(w)
  PROVE  v = w
  <1>1. ASSUME NEW x \in Workers, NEW y \in Workers, Busy(x), Busy(y), x # Server
        PROVE  x = y
    <2>1. Alone
      BY <1>1, Working, EndsAlone
    <2>2. x \in Clients /\ pc[x] # "idle" /\ pc[x] # "spin"
      BY <1>1, Threads DEF Busy, Operating
    <2>3. /\ Client(y) \in Clients /\ pc[Client(y)] # "idle"
          /\ y = Server => serving \in Clients /\ Waiting(serving)
      BY <1>1, Working
    <2>4. Client(y) = x
      BY <2>1, <2>2, <2>3, NoOther
    <2> QED BY <2>2, <2>3, <2>4 DEF Client, Waiting
  <1> QED BY <1>1
-----------------------------------------------------------------------------
(* The caller's steps.                                                     *)

(* What a step that leaves the tables alone keeps of them. *)
LEMMA TablesKept ==
  ASSUME MTInv, UNCHANGED <<tables, creations>>
  PROVE  TablesFine' /\ CreatedOnce' /\ Table' = Table
  BY DEF MTInv, TablesFine, CreatedOnce, Table

(* A queue of packets that wait is one of more that wait. *)
LEMMA MoreWaiting ==
  ASSUME NEW q, NEW S, NEW T, IsQueue(q, S), S \subseteq T
  PROVE  IsQueue(q, T)
  BY DEF IsQueue

(* A packet that is put while no cell holds it is in one cell. *)
LEMMA PutOnce ==
  ASSUME NEW q, NEW S, IsQueue(q, S), OnceEach(q), NEW c, c \notin S
  PROVE  IsQueue(Enqueued(q, c), S \cup {c}) /\ OnceEach(Enqueued(q, c))
  <1> DEFINE r == Enqueued(q, c)
  <1>1. IsQueue(q, S \cup {c})
    BY MoreWaiting
  <1>2. IsQueue(r, S \cup {c})
    BY <1>1, EnqueuedIsQueue
  <1>3. PICK k \in Cells(r) :
          /\ r.buffer[k] = c
          /\ \A j \in Cells(r) \ {k} :
               (j \in Cells(q) /\ r.buffer[j] = q.buffer[j]) \/ r.buffer[j] = NULL
    BY <1>1, EnqueuedCells
  <1>4. \A j \in Cells(q) : q.buffer[j] # NULL => q.buffer[j] # c
    BY DEF IsQueue, Cells
  <1> HIDE DEF r
  <1>5. OnceEach(r)
    BY <1>3, <1>4 DEF OnceEach
  <1> QED BY <1>2, <1>5 DEF r

(* What is taken is in no cell any longer. *)
LEMMA TakenOnce ==
  ASSUME NEW q, NEW S, IsQueue(q, S), OnceEach(q), NULL \notin S
  PROVE  /\ IsQueue(Dequeued(q), S \ {Front(q)}) /\ OnceEach(Dequeued(q))
         /\ Front(q) \in S \cup {NULL}
  <1> DEFINE r == Dequeued(q)
  <1>1. IsQueue(r, S) /\ Front(q) \in S \cup {NULL}
    BY DequeuedIsQueue
  <1>2. CASE q.size > 0
    <2>1. /\ q.out \in Cells(q) /\ Cells(r) = Cells(q) /\ r.buffer[q.out] = NULL
          /\ \A i \in Cells(q) \ {q.out} : r.buffer[i] = q.buffer[i]
          /\ Front(q) = q.buffer[q.out]
      BY <1>2, DequeuedCells
    <2> HIDE DEF r
    <2>2. OnceEach(r)
      BY <2>1 DEF OnceEach
    <2>3. \A i \in Cells(r) : r.buffer[i] # NULL => r.buffer[i] # Front(q)
      BY <2>1 DEF OnceEach
    <2>4. IsQueue(r, S \ {Front(q)})
      BY <1>1, <2>3 DEF IsQueue, Cells
    <2> QED BY <1>1, <2>2, <2>4 DEF r
  <1>3. CASE ~(q.size > 0)
    <2>1. r = q /\ Front(q) = NULL /\ S \ {Front(q)} = S
      BY <1>3 DEF Dequeued, Front
    <2> QED BY <2>1
  <1> QED BY <1>2, <1>3

(* A step that leaves the queues and their packets alone keeps them fine. *)
LEMMA StillDue ==
  ASSUME QueuesFine, UNCHANGED queues, \A i \in 0..1 : Due(i) \subseteq Due(i)'
  PROVE  QueuesFine'
  <1>1. ASSUME NEW i \in 0..1
        PROVE  IsQueue(queues[i], Due(i)') /\ OnceEach(queues[i])
    BY MoreWaiting DEF QueuesFine
  <1> QED BY <1>1 DEF QueuesFine

LEMMA BeginKeeps ==
  ASSUME MTInv, NEW c \in Clients, NEW f \in {"A", "S"}, NEW k \in Keys, Begin(c, f, k)
  PROVE  MTInv'
  <1>1. /\ pc[c] = "idle" /\ calls[c] < load.calls[c]
        /\ pc' = [pc EXCEPT ![c] = IF history = "done" THEN "fetch" ELSE "test"]
        /\ calls' = [calls EXCEPT ![c] = calls[c] + 1]
        /\ call' = [call EXCEPT ![c] =
                      [func |-> f, key |-> k, present |-> k \in Stored(Table)]]
        /\ packet' = [packet EXCEPT ![c] = NoAnswer]
        /\ UNCHANGED <<load, tables, queues, hashprocessing, iter, serving, history,
                       work, creations>>
    BY DEF Begin, Step, Goto, queued
  <1>2. /\ Types /\ CallersFine /\ QueuesFine /\ ServerFine
        /\ \A w \in Workers : WorkFine(w)
        /\ \A e \in Clients : AnswerFine(e)
    BY DEF MTInv
  <1>3. TablesFine' /\ CreatedOnce' /\ Table' = Table
    BY <1>1, TablesKept
  <1>4. load.calls[c] \in Nat /\ load.calls[c] > 0 /\ calls[c] \in Nat
    BY <1>1, <1>2, Threads DEF Types
  <1>5. Types'
    <2>1. pc' \in [Workers -> Labels \cup {"poll"}]
      BY <1>1, <1>2 DEF Types, Labels, Operating
    <2>2. call' \in [Clients -> Calls]
      <3>1. [func |-> f, key |-> k, present |-> k \in Stored(Table)] \in Calls
        BY DEF Calls
      <3> QED BY <1>1, <1>2, <3>1 DEF Types
    <2>3. packet' \in [Clients -> Packets(Table')]
      <3>1. NoAnswer \in Packets(Table)
        BY DEF NoAnswer, Packets
      <3> QED BY <1>1, <1>2, <1>3, <3>1 DEF Types
    <2>4. calls' \in [Clients -> Nat]
      BY <1>1, <1>2, <1>4 DEF Types
    <2> QED BY <1>1, <1>2, <2>1, <2>2, <2>3, <2>4 DEF Types
  <1>6. \A w \in Workers \ {c} : pc'[w] = pc[w]
    BY <1>1, <1>2 DEF Types
  <1>7. \A e \in Clients \ {c} : call'[e] = call[e] /\ packet'[e] = packet[e]
    BY <1>1, <1>2 DEF Types
  <1>8. /\ pc'[c] \in {"fetch", "test"} /\ (pc'[c] = "fetch" => history = "done")
        /\ call'[c].func = f /\ call'[c].key = k
        /\ call'[c].present = (k \in Stored(Table)) /\ ~packet'[c].done
    BY <1>1, <1>2, Threads DEF Types, NoAnswer
  <1>9. CallersFine'
    BY <1>1, <1>2, <1>4, <1>6, <1>7, <1>8, Threads DEF CallersFine, Busy, Operating, Labels
  <1>10. \A e \in Clients : Waiting(e) => e # c /\ Waiting(e)' /\ call'[e] = call[e]
    BY <1>1, <1>6, <1>7, Threads DEF Waiting
  <1>11. QueuesFine'
    <2>1. \A i \in 0..1 : Due(i) \subseteq Due(i)'
      BY <1>1, <1>10 DEF Due
    <2> QED BY <1>1, <1>2, <2>1, StillDue
  <1>12. ServerFine'
    BY <1>1, <1>2, <1>6, <1>10, Threads DEF ServerFine
  <1>13. ASSUME NEW w \in Workers PROVE WorkFine(w)'
    <2>1. CASE w = c
      BY <1>8, <2>1 DEF WorkFine
    <2>2. CASE w # c
      <3>1. pc'[w] = pc[w] /\ work' = work /\ Table' = Table /\ tables' = tables
        BY <1>1, <1>3, <1>6, <2>2
      <3>2. pc[w] \in {"publish", "search", "insert"} => Request(w)' = Request(w)
        BY <1>1, <1>2, <1>7, <1>10, <2>2, Threads DEF Request, ServerFine
      <3> QED BY <1>2, <3>1, <3>2 DEF WorkFine
    <2> QED BY <2>1, <2>2
  <1>14. ASSUME NEW e \in Clients PROVE AnswerFine(e)'
    <2>1. CASE e = c
      BY <1>3, <1>8, <2>1 DEF AnswerFine
    <2>2. CASE e # c
      <3>1. pc'[e] = pc[e] /\ call'[e] = call[e] /\ packet'[e] = packet[e]
            /\ load' = load
        BY <1>1, <1>6, <1>7, <2>2, Threads
      <3> QED BY <1>2, <1>3, <3>1 DEF AnswerFine, Asks, Alone
    <2> QED BY <2>1, <2>2
  <1> QED BY <1>3, <1>5, <1>9, <1>11, <1>12, <1>13, <1>14 DEF MTInv
(* A step in which a caller that does not wait only moves on. *)
LEMMA MoveKeeps ==
  ASSUME MTInv, NEW c \in Clients, NEW to \in {"claim", "put", "release", "returned"},
         pc[c] \in {"test", "claim", "spin", "release"}, ~Waiting(c),
         IF to \in {"release", "returned"}
           THEN packet[c].done /\ pc[c] \in {"spin", "release"}
           ELSE pc[c] \in {"test", "claim"},
         pc' = [pc EXCEPT ![c] = to], hashprocessing' \in 0..1,
         UNCHANGED <<load, tables, queues, iter, serving, history, call, work, packet,
                     calls, creations>>
  PROVE  MTInv'
  <1>1. /\ Types /\ CallersFine /\ QueuesFine /\ ServerFine
        /\ \A w \in Workers : WorkFine(w)
        /\ \A e \in Clients : AnswerFine(e)
    BY DEF MTInv
  <1>2. TablesFine' /\ CreatedOnce' /\ Table' = Table
    BY TablesKept
  <1>3. pc'[c] = to /\ \A w \in Workers \ {c} : pc'[w] = pc[w]
    BY <1>1, Threads DEF Types
  <1>4. Types'
    <2>1. pc' \in [Workers -> Labels \cup {"poll"}]
      BY <1>1 DEF Types, Labels
    <2> QED BY <1>1, <1>2, <2>1 DEF Types
  <1>5. CallersFine'
    BY <1>1, <1>3, Threads DEF CallersFine, Busy, Operating, Labels
  <1>6. \A e \in Clients : Waiting(e) => e # c /\ Waiting(e)'
    BY <1>3, Threads DEF Waiting
  <1>7. QueuesFine'
    <2>1. \A i \in 0..1 : Due(i) \subseteq Due(i)'
      BY <1>6 DEF Due
    <2> QED BY <1>1, <2>1, StillDue
  <1>8. ServerFine'
    BY <1>1, <1>3, <1>6, Threads DEF ServerFine
  <1>9. ASSUME NEW w \in Workers PROVE WorkFine(w)'
    <2>1. CASE w = c
      BY <1>3, <2>1 DEF WorkFine
    <2>2. CASE w # c
      BY <1>1, <1>2, <1>3, <2>2 DEF WorkFine, Request
    <2> QED BY <2>1, <2>2
  <1>10. ASSUME NEW e \in Clients PROVE AnswerFine(e)'
    <2>1. CASE e = c
      BY <1>1, <1>2, <1>3, <2>1 DEF AnswerFine, Asks, Alone
    <2>2. CASE e # c
      BY <1>1, <1>2, <1>3, <2>2, Threads DEF AnswerFine, Asks, Alone
    <2> QED BY <2>1, <2>2
  <1> QED BY <1>2, <1>4, <1>5, <1>7, <1>8, <1>9, <1>10 DEF MTInv

(* hashprocessing is tested and set, the answer is collected, the call     *)
(* returns.                                                                *)
LEMMA CallerMovesKeep ==
  ASSUME MTInv, NEW c \in Clients,
         Test(c) \/ Claim(c) \/ Collect(c) \/ Release(c)
  PROVE  MTInv'
  <1>1. hashprocessing \in 0..1 /\ (pc[c] = "release" => packet[c].done)
    BY DEF MTInv, Types, AnswerFine
  <1>2. CASE Test(c)
    BY <1>1, <1>2, MoveKeeps DEF Test, Step, Goto, queued, Waiting
  <1>3. CASE Claim(c)
    <2>1. /\ pc[c] = "claim" /\ pc' = [pc EXCEPT ![c] = "put"] /\ hashprocessing' \in 0..1
          /\ UNCHANGED <<load, tables, queues, iter, serving, history, call, work, packet,
                         calls, creations>>
      BY <1>3 DEF Claim, Step, Goto
    <2> QED BY <2>1, MoveKeeps DEF Waiting
  <1>4. CASE Collect(c)
    BY <1>1, <1>4, MoveKeeps DEF Collect, Step, Goto, queued, Waiting
  <1>5. CASE Release(c)
    <2>1. /\ pc[c] = "release" /\ pc' = [pc EXCEPT ![c] = "returned"]
          /\ hashprocessing' \in 0..1
          /\ UNCHANGED <<load, tables, queues, iter, serving, history, call, work, packet,
                         calls, creations>>
      BY <1>5 DEF Release, Step, Goto
    <2> QED BY <1>1, <2>1, MoveKeeps DEF Waiting
  <1> QED BY <1>2, <1>3, <1>4, <1>5
(* A packet is put into its queue while no cell holds it. *)
LEMMA PutKeeps ==
  ASSUME MTInv, NEW c \in Clients, Put(c)
  PROVE  MTInv'
  <1>0. PICK i \in 0..1 : i = QueueOf(call[c].func)
    BY DEF QueueOf
  <1> DEFINE q == queues[i]
             r == Enqueued(q, c)
  <1>1. /\ pc[c] = "put" /\ pc' = [pc EXCEPT ![c] = "spin"]
        /\ queues' = [queues EXCEPT ![i] = r]
        /\ UNCHANGED <<load, tables, hashprocessing, iter, serving, history, call, work,
                       packet, calls, creations>>
    BY <1>0 DEF Put, Step, Goto
  <1>2. /\ Types /\ CallersFine /\ QueuesFine /\ ServerFine
        /\ \A w \in Workers : WorkFine(w)
        /\ \A e \in Clients : AnswerFine(e)
    BY DEF MTInv
  <1>3. TablesFine' /\ CreatedOnce' /\ Table' = Table
    BY <1>1, TablesKept
  <1>4. /\ pc'[c] = "spin" /\ ~packet[c].done
        /\ \A w \in Workers \ {c} : pc'[w] = pc[w]
    BY <1>1, <1>2, Threads DEF Types, AnswerFine
  <1>5. Types'
    <2>1. pc' \in [Workers -> Labels \cup {"poll"}]
      BY <1>1, <1>2 DEF Types, Labels
    <2> QED BY <1>1, <1>2, <1>3, <2>1 DEF Types
  <1>6. CallersFine'
    BY <1>1, <1>2, <1>4, Threads DEF CallersFine, Busy, Operating, Labels
  <1>7. /\ Waiting(c)' /\ ~Waiting(c)
        /\ \A e \in Clients : Waiting(e) => e # c /\ Waiting(e)'
    BY <1>1, <1>4, Threads DEF Waiting
  <1>8. serving # c
    BY <1>2, <1>7, Threads DEF ServerFine
  <1>9. QueuesFine'
    <2>1. /\ i \in 0..1 /\ queues'[i] = r /\ IsQueue(q, Due(i)) /\ OnceEach(q)
          /\ \A j \in 0..1 \ {i} : queues'[j] = queues[j]
          /\ queues' \in [0..1 -> {queues'[0], queues'[1]}]
      BY <1>1, <1>2 DEF QueuesFine
    <2>2. /\ c \notin Due(i) /\ Due(i) \cup {c} \subseteq Due(i)'
          /\ \A j \in 0..1 : Due(j) \subseteq Due(j)'
      BY <1>0, <1>1, <1>7, <1>8 DEF Due
    <2>3. IsQueue(r, Due(i) \cup {c}) /\ OnceEach(r)
      BY <2>1, <2>2, PutOnce
    <2>4. IsQueue(r, Due(i)')
      BY <2>2, <2>3, MoreWaiting
    <2>5. ASSUME NEW j \in 0..1, j # i
          PROVE  IsQueue(queues'[j], Due(j)') /\ OnceEach(queues'[j])
      BY <1>2, <2>1, <2>2, <2>5, MoreWaiting DEF QueuesFine
    <2> HIDE DEF r, q
    <2> QED BY <2>1, <2>3, <2>4, <2>5 DEF QueuesFine
  <1>10. ServerFine'
    BY <1>1, <1>2, <1>4, <1>7, Threads DEF ServerFine
  <1>11. ASSUME NEW w \in Workers PROVE WorkFine(w)'
    <2>1. CASE w = c
      BY <1>4, <2>1 DEF WorkFine
    <2>2. CASE w # c
      BY <1>1, <1>2, <1>3, <1>4, <2>2 DEF WorkFine, Request
    <2> QED BY <2>1, <2>2
  <1>12. ASSUME NEW e \in Clients PROVE AnswerFine(e)'
    <2>1. CASE e = c
      BY <1>1, <1>2, <1>3, <1>4, <2>1 DEF AnswerFine, Asks, Alone
    <2>2. CASE e # c
      BY <1>1, <1>2, <1>3, <1>4, <2>2, Threads DEF AnswerFine, Asks, Alone
    <2> QED BY <2>1, <2>2
  <1> QED BY <1>3, <1>5, <1>6, <1>9, <1>10, <1>11, <1>12 DEF MTInv
(* The index of an answer is followed into the current table. *)
LEMMA UseKeeps ==
  ASSUME MTInv, NEW c \in Clients, Use(c)
  PROVE  MTInv'
  <1> DEFINE follows == call[c].func = "S" /\ packet[c].at # ERROR
             entry == Table.slots[packet[c].at]
  <1>1. /\ pc[c] = "returned" /\ pc' = [pc EXCEPT ![c] = "idle"]
        /\ packet' = IF follows THEN [packet EXCEPT ![c].entry = entry] ELSE packet
        /\ UNCHANGED <<load, tables, queues, hashprocessing, iter, serving, history,
                       call, work, calls, creations>>
    BY DEF Use, Step, Goto, queued
  <1>2. /\ Types /\ CallersFine /\ QueuesFine /\ ServerFine
        /\ \A w \in Workers : WorkFine(w)
        /\ \A e \in Clients : AnswerFine(e)
    BY DEF MTInv
  <1>3. TablesFine' /\ CreatedOnce' /\ Table' = Table
    BY <1>1, TablesKept
  <1>4. pc'[c] = "idle" /\ \A w \in Workers \ {c} : pc'[w] = pc[w]
    BY <1>1, <1>2, Threads DEF Types
  <1>5. follows => packet[c].at \in Slots(Table) /\ entry \in Keys \cup {EMPTY}
    <2>1. IsTable(Table)
      BY DEF MTInv, TablesFine, Roomy, Fit
    <2>2. packet[c].at \in Slots(Table) \cup {ERROR}
      BY <1>2 DEF Types, Packets
    <2> QED BY <2>1, <2>2 DEF IsTable
  <1> HIDE DEF entry
  <1>6. /\ packet' \in [Clients -> Packets(Table)]
        /\ \A e \in Clients \ {c} : packet'[e] = packet[e]
        /\ packet'[c].entry = IF follows THEN entry ELSE packet[c].entry
    <2>1. packet \in [Clients -> [done : BOOLEAN, entry : Keys \cup {EMPTY},
                                  at : Slots(Table) \cup {ERROR}]]
      BY <1>2 DEF Types, Packets
    <2>2. CASE follows
      <3>1. packet' = [packet EXCEPT ![c].entry = entry]
        BY <1>1, <2>2
      <3> HIDE DEF follows
      <3> QED BY <1>5, <2>1, <2>2, <3>1 DEF Packets
    <2>3. CASE ~follows
      BY <1>1, <2>1, <2>3 DEF Packets
    <2> QED BY <2>2, <2>3
  <1>7. Types'
    <2>1. pc' \in [Workers -> Labels \cup {"poll"}]
      BY <1>1, <1>2 DEF Types, Labels
    <2> QED BY <1>1, <1>2, <1>3, <1>6, <2>1 DEF Types
  <1>8. CallersFine'
    BY <1>1, <1>2, <1>4, Threads DEF CallersFine, Busy, Operating, Labels
  <1>9. \A e \in Clients : Waiting(e) => e # c /\ Waiting(e)'
    BY <1>1, <1>4, <1>6, Threads DEF Waiting
  <1>10. QueuesFine'
    <2>1. \A i \in 0..1 : Due(i) \subseteq Due(i)'
      BY <1>1, <1>9 DEF Due
    <2> QED BY <1>1, <1>2, <2>1, StillDue
  <1>11. ServerFine'
    BY <1>1, <1>2, <1>4, <1>9, Threads DEF ServerFine
  <1>12. ASSUME NEW w \in Workers PROVE WorkFine(w)'
    <2>1. CASE w = c
      BY <1>4, <2>1 DEF WorkFine
    <2>2. CASE w # c
      BY <1>1, <1>2, <1>3, <1>4, <2>2 DEF WorkFine, Request
    <2> QED BY <2>1, <2>2
  <1>13. ASSUME NEW e \in Clients PROVE AnswerFine(e)'
    <2>1. CASE e = c
      <3>1. packet[c].done /\ AnswerFine(c)
        BY <1>1, <1>2 DEF AnswerFine
      <3>2. Asks(c) => packet[c].at # ERROR /\ Table.slots[packet[c].at] = call[c].key
        BY <1>1, <3>1 DEF AnswerFine
      <3>3. Asks(c)' = Asks(c)
        BY <1>1 DEF Asks, Alone
      <3>4. Asks(c) => packet'[c].entry = call'[c].key
        BY <1>1, <1>6, <3>2 DEF Asks, entry
      <3> QED BY <1>4, <2>1, <3>3, <3>4 DEF AnswerFine
    <2>2. CASE e # c
      BY <1>1, <1>2, <1>3, <1>4, <1>6, <2>2, Threads DEF AnswerFine, Asks, Alone
    <2> QED BY <2>1, <2>2
  <1> QED BY <1>3, <1>7, <1>8, <1>10, <1>11, <1>12, <1>13 DEF MTInv

-----------------------------------------------------------------------------
(* The server's queues and the end of the history.                         *)

LEMMA DrainKeeps ==
  ASSUME MTInv, Drain
  PROVE  MTInv'
  <1>1. /\ load.ends /\ history # "done"
        /\ history' \in {"drain0", "drain1", "done"}
        /\ UNCHANGED <<load, tables, queues, hashprocessing, iter, serving, pc, call, work,
                       packet, calls, creations>>
    BY DEF Drain, queued
  <1>2. /\ Types /\ CallersFine /\ QueuesFine /\ ServerFine
        /\ \A w \in Workers : WorkFine(w)
        /\ \A e \in Clients : AnswerFine(e)
    BY DEF MTInv
  <1>3. TablesFine' /\ CreatedOnce' /\ Table' = Table
    BY <1>1, TablesKept
  <1>4. Types'
    BY <1>1, <1>2, <1>3 DEF Types
  <1>5. CallersFine'
    BY <1>1, <1>2 DEF CallersFine, Busy
  <1>6. QueuesFine'
    <2>1. \A i \in 0..1 : Due(i) \subseteq Due(i)'
      BY <1>1 DEF Due, Waiting
    <2> QED BY <1>1, <1>2, <2>1, StillDue
  <1>7. ServerFine'
    BY <1>1, <1>2 DEF ServerFine, Waiting
  <1>8. ASSUME NEW w \in Workers PROVE WorkFine(w)'
    BY <1>1, <1>2, <1>3 DEF WorkFine, Request
  <1>9. ASSUME NEW e \in Clients PROVE AnswerFine(e)'
    BY <1>1, <1>2, <1>3 DEF AnswerFine, Asks, Alone
  <1> QED BY <1>3, <1>4, <1>5, <1>6, <1>7, <1>8, <1>9 DEF MTInv

(* The packet taken is the server's now, and in no cell. *)
LEMMA PollKeeps ==
  ASSUME MTInv, Poll
  PROVE  MTInv'
  <1> DEFINE q == queues[iter]
             r == Dequeued(q)
  <1>0. PICK f : f = Front(q)
    OBVIOUS
  <1>1. /\ pc[Server] = "poll" /\ queues' = [queues EXCEPT ![iter] = r]
        /\ serving' = f /\ iter' = (IF f = NULL THEN 1 - iter ELSE iter)
        /\ pc' = IF f = NULL THEN pc ELSE [pc EXCEPT ![Server] = "fetch"]
        /\ UNCHANGED <<load, tables, hashprocessing, history, call, work, packet, calls,
                       creations>>
    BY <1>0 DEF Poll
  <1>2. /\ Types /\ CallersFine /\ QueuesFine /\ ServerFine
        /\ \A w \in Workers : WorkFine(w)
        /\ \A e \in Clients : AnswerFine(e)
    BY DEF MTInv
  <1>3. TablesFine' /\ CreatedOnce' /\ Table' = Table
    BY <1>1, TablesKept
  <1>4. iter \in 0..1 /\ serving = NULL
    BY <1>1, <1>2 DEF Types, ServerFine
  <1>5. /\ IsQueue(r, Due(iter) \ {f}) /\ OnceEach(r) /\ f \in Due(iter) \cup {NULL}
        /\ \A i \in 0..1 \ {iter} : queues'[i] = queues[i]
        /\ queues'[iter] = r /\ queues' \in [0..1 -> {queues'[0], queues'[1]}]
    <2>1. IsQueue(q, Due(iter)) /\ OnceEach(q) /\ NULL \notin Due(iter)
      BY <1>2, <1>4, Threads DEF QueuesFine, Due
    <2>2. queues \in [0..1 -> {queues[0], queues[1]}]
      BY <1>2 DEF QueuesFine
    <2> HIDE DEF r
    <2>3. /\ \A i \in 0..1 \ {iter} : queues'[i] = queues[i]
          /\ queues'[iter] = r /\ queues' \in [0..1 -> {queues'[0], queues'[1]}]
      BY <1>1, <1>4, <2>2
    <2> QED BY <1>0, <2>1, <2>3, TakenOnce DEF r
  <1> HIDE DEF q, r
  <1>6. /\ \A w \in Workers \ {Server} : pc'[w] = pc[w]
        /\ pc'[Server] = IF f = NULL THEN "poll" ELSE "fetch"
        /\ pc' \in [Workers -> Labels \cup {"poll"}]
    BY <1>1, <1>2, Threads DEF Types, Labels, Operating
  <1>7. Types'
    BY <1>1, <1>2, <1>3, <1>4, <1>6 DEF Types
  <1>8. CallersFine'
    BY <1>1, <1>2, <1>6, Threads DEF CallersFine, Busy
  <1>9. \A e \in Clients : Waiting(e)' = Waiting(e)
    BY <1>1, <1>6, Threads DEF Waiting
  <1>10. QueuesFine'
    <2>1. \A i \in 0..1 : Due(i) \ {f} \subseteq Due(i)'
      BY <1>1, <1>9 DEF Due
    <2>2. \A i \in 0..1 \ {iter} : f \notin Due(i)
      BY <1>5, Threads DEF Due
    <2>3. ASSUME NEW i \in 0..1
          PROVE  IsQueue(queues'[i], Due(i)') /\ OnceEach(queues'[i])
      <3>1. CASE i = iter
        BY <1>5, <2>1, <3>1, MoreWaiting
      <3>2. CASE i # iter
        <4>1. Due(i) \subseteq Due(i)' /\ queues'[i] = queues[i]
          BY <1>5, <2>1, <2>2, <3>2
        <4> QED BY <1>2, <4>1, MoreWaiting DEF QueuesFine
      <3> QED BY <3>1, <3>2
    <2> QED BY <1>5, <2>3 DEF QueuesFine
  <1>11. ServerFine'
    <2>1. f # NULL => f \in Clients /\ Waiting(f)'
      BY <1>5, <1>9 DEF Due
    <2> QED BY <1>1, <1>6, <2>1 DEF ServerFine, Operating, Waiting
  <1>12. ASSUME NEW w \in Workers PROVE WorkFine(w)'
    <2>1. CASE w = Server
      BY <1>6, <2>1 DEF WorkFine
    <2>2. CASE w # Server
      BY <1>1, <1>2, <1>3, <1>6, <2>2 DEF WorkFine, Request
    <2> QED BY <2>1, <2>2
  <1>13. ASSUME NEW e \in Clients PROVE AnswerFine(e)'
    BY <1>1, <1>2, <1>3, <1>6, Threads DEF AnswerFine, Asks, Alone
  <1> QED BY <1>3, <1>7, <1>8, <1>10, <1>11, <1>12, <1>13 DEF MTInv
-----------------------------------------------------------------------------
(* The steps of an operation on the table.                                 *)

(* The table that is current before an operation's step. *)
LEMMA Current ==
  ASSUME MTInv
  PROVE  /\ tables \in Seq(Tables) /\ Len(tables) \in Nat /\ Len(tables) > 0
         /\ Roomy(Table) /\ Fit(Table) /\ IsTable(Table) /\ Table \in Tables
         /\ Table.hashsize \in Nat /\ Table.numitems \in Nat
         /\ Table.numitems < Table.hashsize
         /\ \A g \in Nat : g = Len(tables) => ~Freed(g) /\ tables[g] = Table
  <1>1. tables \in Seq(Tables) /\ Len(tables) > 0 /\ Roomy(Table)
    BY DEF MTInv, TablesFine
  <1>2. /\ Fit(Table) /\ IsTable(Table)
        /\ Table.hashsize \in Nat /\ Table.numitems \in Nat
        /\ Table.numitems < Table.hashsize
    BY <1>1 DEF Roomy, Fit, IsTable
  <1>3. Table \in Tables
    BY <1>2, IsTableOfTables
  <1> QED BY <1>1, <1>2, <1>3 DEF Freed, Table

(* A step in which a worker moves on inside an operation: who waits for    *)
(* what stays as it is.                                                    *)
LEMMA OnwardKeeps ==
  ASSUME MTInv, Sequenced, NEW w \in Workers, Busy(w), NEW to \in Operating,
         pc' = [pc EXCEPT ![w] = to], work' \in [Workers -> Works],
         TablesFine', CreatedOnce', WorkFine(w)',
         Slots(Table) \subseteq Slots(Table'), Stored(Table) \subseteq Stored(Table'),
         UNCHANGED <<load, queues, hashprocessing, iter, serving, history, call, packet,
                     calls, creations>>
  PROVE  MTInv'
  <1>1. /\ Types /\ CallersFine /\ QueuesFine /\ ServerFine
        /\ \A u \in Workers : WorkFine(u)
        /\ \A e \in Clients : AnswerFine(e)
    BY DEF MTInv
  <1>2. pc'[w] = to /\ \A u \in Workers \ {w} : pc'[u] = pc[u]
    BY <1>1 DEF Types
  <1>3. Types'
    <2>1. pc' \in [Workers -> Labels \cup {"poll"}]
      BY <1>1 DEF Types, Labels
    <2>2. packet \in [Clients -> Packets(Table')]
      BY <1>1 DEF Types, Packets
    <2> QED BY <1>1, <2>1, <2>2 DEF Types
  <1>4. CallersFine'
    BY <1>1, <1>2, Threads DEF CallersFine, Busy, Operating, Labels
  <1>5. \A e \in Clients : Waiting(e)' = Waiting(e)
    BY <1>2, Threads DEF Waiting, Busy, Operating
  <1>6. QueuesFine'
    <2>1. \A i \in 0..1 : Due(i) \subseteq Due(i)'
      BY <1>5 DEF Due
    <2> QED BY <1>1, <2>1, StillDue
  <1>7. ServerFine'
    BY <1>1, <1>2, <1>5 DEF ServerFine, Busy, Operating
  <1>8. ASSUME NEW u \in Workers PROVE WorkFine(u)'
    <2>1. CASE u # w
      <3>1. ~Busy(u)
        BY <2>1, OneWorker
      <3> QED BY <1>2, <2>1, <3>1 DEF WorkFine, Busy, Operating
    <2> QED BY <2>1
  <1>9. ASSUME NEW e \in Clients PROVE AnswerFine(e)'
    <2>1. /\ pc[e] # "idle" => pc'[e] # "idle"
          /\ pc'[e] # "idle" => pc[e] # "idle"
          /\ \A l \in {"release", "returned", "test", "claim", "put", "spin", "idle"} :
                pc'[e] = l => pc[e] = l
      BY <1>2, Threads DEF Busy, Operating
    <2>2. Asks(e)' = Asks(e)
      BY DEF Asks, Alone
    <2>3. /\ pc[e] \in {"release", "returned"} => packet[e].done
          /\ pc[e] \in {"test", "claim", "put"} => ~packet[e].done
          /\ pc[e] # "idle" /\ call[e].present => call[e].key \in Stored(Table)
          /\ pc[e] = "idle" /\ Asks(e) => packet[e].entry = call[e].key
          /\ packet[e].done /\ pc[e] \in {"spin", "release", "returned"} =>
               packet[e].entry \in {EMPTY, call[e].key}
      BY <1>1 DEF AnswerFine
    <2>4. ~(packet[e].done /\ pc[e] \in {"spin", "release", "returned"} /\ Asks(e))
      <3>1. CASE Alone /\ pc[e] # "idle"
        <4>1. e = Client(w)
          BY <3>1, Working, NoOther
        <4> QED BY <4>1, Working
      <3> QED BY <3>1 DEF Asks
    <2> QED BY <2>1, <2>2, <2>3, <2>4 DEF AnswerFine
  <1> QED BY <1>3, <1>4, <1>6, <1>7, <1>8, <1>9 DEF MTInv
(* An answer about the key asked for, given by the one worker that is in   *)
(* the middle of an operation.                                             *)
LEMMA AnswerKeeps ==
  ASSUME MTInv, Sequenced, NEW w \in Workers, Busy(w), NEW entry, NEW at,
         Answer(w, entry, at), work' \in [Workers -> Works],
         entry \in {EMPTY, Request(w).key}, at \in Slots(Table') \cup {ERROR},
         Asks(Client(w)) => at # ERROR /\ Table'.slots[at] = Request(w).key,
         TablesFine', CreatedOnce', creations' \in [Keys -> Nat],
         Slots(Table) \subseteq Slots(Table'), Stored(Table) \subseteq Stored(Table'),
         UNCHANGED <<load, queues, hashprocessing, iter, history, call, calls>>
  PROVE  MTInv'
  <1>0. PICK c \in Clients : c = Client(w)
    BY Working
  <1>1. /\ Types /\ CallersFine /\ QueuesFine /\ ServerFine
        /\ \A u \in Workers : WorkFine(u)
        /\ \A e \in Clients : AnswerFine(e)
    BY DEF MTInv
  <1>2. /\ Request(w) = call[c] /\ call[c].key \in Keys
        /\ c \in Clients /\ pc[c] # "idle"
        /\ w = Server => serving = c /\ Waiting(c)
        /\ w # Server => c = w
    BY <1>0, Working DEF Client
  <1>3. /\ packet' = [packet EXCEPT ![c] = [done |-> TRUE, entry |-> entry, at |-> at]]
        /\ serving' = (IF w = Server THEN NULL ELSE serving)
        /\ pc' = [pc EXCEPT ![w] = IF w = Server THEN "poll" ELSE "returned"]
    BY <1>0 DEF Answer, Goto
  <1>4. /\ pc'[w] = (IF w = Server THEN "poll" ELSE "returned")
        /\ \A u \in Workers \ {w} : pc'[u] = pc[u]
        /\ pc' \in [Workers -> Labels \cup {"poll"}]
    BY <1>1, <1>3 DEF Types, Labels
  <1>5. /\ packet' \in [Clients -> Packets(Table')]
        /\ \A e \in Clients \ {c} : packet'[e] = packet[e]
        /\ packet'[c].done /\ packet'[c].entry = entry /\ packet'[c].at = at
    <2>1. packet \in [Clients -> Packets(Table')]
      BY <1>1 DEF Types, Packets
    <2>2. [done |-> TRUE, entry |-> entry, at |-> at] \in Packets(Table')
      BY <1>2 DEF Packets
    <2> QED BY <1>3, <2>1, <2>2
  <1>6. Types'
    BY <1>1, <1>3, <1>4, <1>5 DEF Types
  <1>7. CallersFine'
    BY <1>1, <1>2, <1>4, Threads DEF CallersFine, Busy, Operating, Labels
  <1>8. \A e \in Clients : Waiting(e) /\ e # c => Waiting(e)'
    BY <1>2, <1>4, <1>5, Threads DEF Waiting, Busy, Operating
  <1>9. QueuesFine'
    <2>1. \A i \in 0..1 : c \notin Due(i)
      BY <1>2, Threads DEF Due, Waiting, Busy, Operating
    <2>2. \A i \in 0..1 : Due(i) \subseteq Due(i)'
      BY <1>3, <1>8, <2>1, Threads DEF Due
    <2> QED BY <1>1, <2>2, StillDue
  <1>10. ServerFine'
    <2>1. CASE w = Server
      BY <1>3, <1>4, <2>1 DEF ServerFine
    <2>2. CASE w # Server
      <3>1. ~Busy(Server)
        BY <2>2, OneWorker, Threads
      <3>2. pc[Server] = "poll" /\ serving = NULL
        BY <1>1, <3>1 DEF ServerFine, Busy
      <3> QED BY <1>3, <1>4, <2>2, <3>2, Threads DEF ServerFine
    <2> QED BY <2>1, <2>2
  <1>11. ASSUME NEW u \in Workers PROVE WorkFine(u)'
    <2>1. CASE u # w
      <3>1. ~Busy(u)
        BY <2>1, OneWorker
      <3> QED BY <1>4, <2>1, <3>1 DEF WorkFine, Busy, Operating
    <2>2. CASE u = w
      BY <1>4, <2>2 DEF WorkFine
    <2> QED BY <2>1, <2>2
  <1>12. ASSUME NEW e \in Clients PROVE AnswerFine(e)'
    <2>1. Asks(e)' = Asks(e)
      BY DEF Asks, Alone
    <2>2. CASE e = c
      <3>1. pc'[c] \in {"spin", "returned"}
        BY <1>2, <1>4, Threads DEF Waiting
      <3>2. call[c].present => call[c].key \in Stored(Table')
        BY <1>1, <1>2 DEF AnswerFine
      <3>3. Asks(c) => at # ERROR /\ Table'.slots[at] = call[c].key
        BY <1>0, <1>2
      <3> QED BY <1>2, <1>5, <2>1, <2>2, <3>1, <3>2, <3>3 DEF AnswerFine
    <2>3. CASE e # c
      <3>1. pc'[e] = pc[e] /\ packet'[e] = packet[e]
        BY <1>2, <1>4, <1>5, <2>3, Threads
      <3>2. ~(pc[e] # "idle" /\ Asks(e))
        BY <1>2, <2>3, NoOther DEF Asks
      <3> QED BY <1>1, <2>1, <3>1, <3>2 DEF AnswerFine
    <2> QED BY <2>2, <2>3
  <1> QED BY <1>6, <1>7, <1>9, <1>10, <1>11, <1>12 DEF MTInv

(* The table is fetched; a full one is read for the copy. *)
LEMMA FetchKeeps ==
  ASSUME MTInv, Sequenced, NEW w \in Workers, Fetch(w)
  PROVE  MTInv'
  <1> DEFINE grow == Request(w).func = "A" /\ NeedsResize(Table)
             to == IF grow THEN "publish" ELSE "search"
             job == [gen |-> Len(tables), at |-> ERROR,
                     copy |-> IF grow THEN Table ELSE NewTable(1)]
  <1>1. /\ pc[w] = "fetch" /\ pc' = [pc EXCEPT ![w] = to]
        /\ work' = [work EXCEPT ![w] = job]
        /\ UNCHANGED <<load, tables, queues, hashprocessing, iter, serving, history, call,
                       packet, calls, creations>>
    BY DEF Fetch, Step, Goto, queued
  <1>2. Busy(w) /\ to \in Operating
    BY <1>1 DEF Busy, Operating
  <1>3. TablesFine' /\ CreatedOnce' /\ Table' = Table
    BY <1>1, TablesKept
  <1>4. job \in Works /\ work \in [Workers -> Works] /\ pc \in [Workers -> Labels \cup {"poll"}]
    BY Current, NoTable DEF Works, MTInv, Types
  <1>5. /\ work'[w].gen = Len(tables) /\ (grow => work'[w].copy = Table)
        /\ work' \in [Workers -> Works] /\ pc'[w] = to
    BY <1>1, <1>4
  <1>6. ~NeedsResize(Table) => Table.numitems + 1 < Table.hashsize
    <2>1. ~NeedsResize(Table) => MadeRoom(Table) = Table
      BY DEF MadeRoom
    <2> QED BY <2>1, Current, RoomIsMade
  <1>7. Request(w)' = Request(w)
    BY <1>1 DEF Request
  <1>8. WorkFine(w)'
    BY <1>1, <1>3, <1>5, <1>6, <1>7 DEF WorkFine
  <1> HIDE DEF to, job
  <1> QED BY <1>1, <1>2, <1>3, <1>5, <1>8, OnwardKeeps
(* The enlarged table holds the same entries and has room. *)
LEMMA PublishKeeps ==
  ASSUME MTInv, Sequenced, NEW w \in Workers, Publish(w)
  PROVE  MTInv'
  <1> DEFINE n == MadeRoom(Table)
             job == [gen |-> Len(tables) + 1, at |-> ERROR, copy |-> NewTable(1)]
  <1>1. pc[w] = "publish" /\ Busy(w) /\ WorkFine(w)
    BY DEF Publish, Step, Busy, Operating, MTInv
  <1>2. ~Freed(work[w].gen) /\ work[w].copy = Table
    BY <1>1, Current DEF WorkFine
  <1>3. /\ pc' = [pc EXCEPT ![w] = "search"] /\ tables' = Append(tables, n)
        /\ work' = [work EXCEPT ![w] = job]
        /\ UNCHANGED <<load, queues, hashprocessing, iter, serving, history, call, packet,
                       calls, creations>>
    BY <1>2 DEF Publish, Step, Goto, queued
  <1>4. /\ Fit(n) /\ Stored(n) = Stored(Table) /\ n.hashsize >= 3
        /\ n.hashsize >= Table.hashsize /\ n.numitems + 1 < n.hashsize
        /\ n.hashsize \in Nat /\ n.numitems \in Nat /\ n \in Tables
    <2>1. /\ Fit(n) /\ Stored(n) = Stored(Table) /\ n.hashsize >= 3
          /\ n.hashsize >= Table.hashsize /\ n.numitems + 1 < n.hashsize
      BY Current, RoomIsMade
    <2> HIDE DEF n
    <2> QED BY <2>1, IsTableOfTables DEF Fit, IsTable
  <1> HIDE DEF n
  <1>5. /\ tables' \in Seq(Tables) /\ Len(tables') = Len(tables) + 1
        /\ Len(tables') > 0 /\ Table' = n
    BY <1>3, <1>4, Current DEF Table
  <1>6. Slots(Table) \subseteq Slots(Table') /\ Stored(Table) \subseteq Stored(Table')
    BY <1>4, <1>5, Current DEF Slots
  <1>7. TablesFine' /\ CreatedOnce'
    <2>1. Roomy(n)
      BY <1>4 DEF Roomy
    <2>2. CreatedOnce
      BY DEF MTInv
    <2> QED BY <1>3, <1>4, <1>5, <2>1, <2>2 DEF TablesFine, CreatedOnce
  <1>8. job \in Works /\ work \in [Workers -> Works] /\ pc \in [Workers -> Labels \cup {"poll"}]
    BY Current, NoTable DEF Works, MTInv, Types
  <1>9. /\ work'[w].gen = Len(tables') /\ work' \in [Workers -> Works] /\ pc'[w] = "search"
    BY <1>3, <1>5, <1>8
  <1>10. WorkFine(w)'
    BY <1>4, <1>5, <1>9 DEF WorkFine
  <1>11. "search" \in Operating
    BY DEF Operating
  <1> HIDE DEF job
  <1> QED BY <1>1, <1>3, <1>6, <1>7, <1>9, <1>10, <1>11, OnwardKeeps

(* A search is answered; an add of a missing key goes on to the free slot. *)
LEMMA LookUpKeeps ==
  ASSUME MTInv, Sequenced, NEW w \in Workers, LookUp(w)
  PROVE  MTInv'
  <1> DEFINE k == Request(w).key
             at == Search(Table, k)
             vacant == at # ERROR /\ Table.slots[at] = EMPTY
             entry == IF vacant \/ at = ERROR THEN EMPTY ELSE Table.slots[at]
             adds == Request(w).func = "A"
  <1>1. pc[w] = "search" /\ Busy(w) /\ WorkFine(w)
    BY DEF LookUp, Busy, Operating, MTInv
  <1>2. ~Freed(work[w].gen) /\ tables[work[w].gen] = Table /\ work[w].gen = Len(tables)
    BY <1>1, Current DEF WorkFine
  <1>3. /\ work' = [work EXCEPT ![w].at = at]
        /\ IF vacant /\ adds
             THEN Goto(w, "insert") /\ UNCHANGED <<packet, serving>>
             ELSE Answer(w, entry, at)
        /\ UNCHANGED <<load, tables, queues, hashprocessing, iter, history, call, calls,
                       creations>>
    BY <1>2 DEF LookUp
  <1>4. k \in Keys /\ Client(w) \in Clients /\ Request(w) = call[Client(w)]
    BY <1>1, Working
  <1>5. at = ERROR \/ (at \in Slots(Table) /\ Table.slots[at] \in {EMPTY, k})
    BY <1>4, Current, SearchEnds
  <1>6. k \in Stored(Table) => at # ERROR /\ Table.slots[at] = k /\ ~vacant
    <2>1. k \in Stored(Table) => FoundIn(Table, k)
      BY Current DEF Fit
    <2> QED BY <1>4, <2>1, TableAssumption DEF FoundIn
  <1>7. TablesFine' /\ CreatedOnce' /\ Table' = Table
    BY <1>3, TablesKept
  <1> HIDE DEF at
  <1>8. /\ work' \in [Workers -> Works] /\ work'[w].gen = Len(tables) /\ work'[w].at = at
        /\ pc \in [Workers -> Labels \cup {"poll"}] /\ creations \in [Keys -> Nat]
    <2>1. /\ work \in [Workers -> [gen : Nat, at : Nat \cup {ERROR}, copy : Tables]]
          /\ pc \in [Workers -> Labels \cup {"poll"}] /\ creations \in [Keys -> Nat]
      BY DEF MTInv, Types, Works
    <2>2. at \in Nat \cup {ERROR}
      BY <1>5 DEF Slots
    <2> QED BY <1>2, <1>3, <2>1, <2>2 DEF Works
  <1>9. CASE vacant /\ adds
    <2>1. pc' = [pc EXCEPT ![w] = "insert"] /\ pc'[w] = "insert"
          /\ UNCHANGED <<packet, serving>>
      BY <1>3, <1>8, <1>9 DEF Goto
    <2>2. Request(w)' = Request(w)
      BY <1>3, <2>1 DEF Request
    <2>3. WorkFine(w)'
      BY <1>1, <1>3, <1>6, <1>7, <1>8, <1>9, <2>1, <2>2 DEF WorkFine, at
    <2>4. "insert" \in Operating
      BY DEF Operating
    <2> QED BY <1>1, <1>3, <1>7, <1>8, <2>1, <2>3, <2>4, OnwardKeeps
  <1>10. CASE ~(vacant /\ adds)
    <2>1. Answer(w, entry, at)
      BY <1>3, <1>10
    <2>2. entry \in {EMPTY, k} /\ at \in Slots(Table') \cup {ERROR}
      BY <1>5, <1>7
    <2>3. Asks(Client(w)) => at # ERROR /\ Table'.slots[at] = k
      <3>1. pc[Client(w)] # "idle" /\ AnswerFine(Client(w))
        BY <1>1, <1>4, Working DEF MTInv
      <3>2. Asks(Client(w)) => k \in Stored(Table)
        BY <1>4, <3>1 DEF Asks, AnswerFine
      <3> QED BY <1>6, <1>7, <3>2
    <2> HIDE DEF entry
    <2> QED BY <1>1, <1>3, <1>7, <1>8, <2>1, <2>2, <2>3, AnswerKeeps
  <1> QED BY <1>9, <1>10

(* The key was missing and the slot free until now: one creation more, and *)
(* one entry more.                                                         *)
LEMMA InsertKeeps ==
  ASSUME MTInv, Sequenced, NEW w \in Workers, Insert(w)
  PROVE  MTInv'
  <1>0. PICK k : k = Request(w).key
    OBVIOUS
  <1>00. PICK at : at = Search(Table, k)
    OBVIOUS
  <1> DEFINE n == Store(Table, at, k)
  <1>1. pc[w] = "insert" /\ Busy(w) /\ WorkFine(w)
    BY DEF Insert, Busy, Operating, MTInv
  <1>2. /\ ~Freed(work[w].gen) /\ work[w].at = at /\ Request(w).func = "A"
        /\ k \notin Stored(Table) /\ Table.numitems + 1 < Table.hashsize
    BY <1>0, <1>00, <1>1, Current DEF WorkFine
  <1>3. /\ tables' = [tables EXCEPT ![Len(tables)] = n]
        /\ creations' = [creations EXCEPT ![k] = creations[k] + 1]
        /\ Answer(w, k, at)
        /\ UNCHANGED <<load, queues, hashprocessing, iter, history, call, work, calls>>
    BY <1>0, <1>2 DEF Insert, Table
  <1>4. k \in Keys /\ Client(w) \in Clients /\ Request(w) = call[Client(w)]
    BY <1>0, <1>1, Working
  <1>5. /\ Fit(n) /\ Stored(n) = Stored(Table) \cup {k}
        /\ n.hashsize = Table.hashsize /\ n.numitems = Table.numitems + 1
        /\ at \in Slots(Table)
    <2>1. /\ at # ERROR /\ Fit(n) /\ Stored(n) = Stored(Table) \cup {k}
          /\ n.hashsize = Table.hashsize /\ n.numitems = Table.numitems + 1
      BY <1>00, <1>2, <1>4, Current, StoreFits
    <2> QED BY <1>00, <1>4, <2>1, Current, SearchEnds
  <1> HIDE DEF n
  <1>6. Roomy(n) /\ n \in Tables
    <2>1. Table.hashsize >= 3 /\ Table.hashsize \in Nat /\ Table.numitems \in Nat
      BY Current DEF Roomy
    <2> QED BY <1>2, <1>5, <2>1, IsTableOfTables DEF Roomy, Fit
  <1>7. tables' \in Seq(Tables) /\ Len(tables') = Len(tables) /\ Table' = n
    BY <1>3, <1>6, Current DEF Table
  <1>8. Slots(Table) \subseteq Slots(Table') /\ Stored(Table) \subseteq Stored(Table')
    BY <1>5, <1>7 DEF Slots
  <1>9. creations' \in [Keys -> Nat] /\ CreatedOnce'
    <2>1. /\ creations \in [Keys -> Nat]
          /\ \A l \in Keys : creations[l] = IF l \in Stored(Table) THEN 1 ELSE 0
      BY DEF MTInv, Types, CreatedOnce
    <2>2. \A l \in Keys : creations'[l] = IF l \in Stored(n) THEN 1 ELSE 0
      BY <1>2, <1>3, <1>4, <1>5, <2>1
    <2> QED BY <1>3, <1>4, <1>7, <2>1, <2>2 DEF CreatedOnce
  <1>10. TablesFine'
    BY <1>6, <1>7, Current DEF TablesFine
  <1>11. ~Asks(Client(w))
    BY <1>2, <1>4 DEF Asks
  <1>12. work' \in [Workers -> Works]
    BY <1>3 DEF MTInv, Types
  <1>13. at \in Slots(Table') /\ k \in {EMPTY, Request(w).key}
    BY <1>0, <1>5, <1>8
  <1> QED BY <1>1, <1>3, <1>8, <1>9, <1>10, <1>11, <1>12, <1>13, AnswerKeeps
-----------------------------------------------------------------------------
(* The theorems.                                                           *)

(* Every step of the program keeps tables, queues and callers fine. *)
LEMMA StepKeeps == Sequenced /\ MTInv /\ [Next]_vars => MTInv'
  <1> SUFFICES ASSUME Sequenced, MTInv, [Next]_vars PROVE MTInv'
    OBVIOUS
  <1>1. ASSUME NEW w \in Workers, Operate(w) PROVE MTInv'
    BY <1>1, FetchKeeps, PublishKeeps, LookUpKeeps, InsertKeeps DEF Operate
  <1>2. ASSUME NEW c \in Clients, Continue(c) PROVE MTInv'
    <2>1. CASE Test(c) \/ Claim(c) \/ Collect(c) \/ Release(c)
      BY <2>1, CallerMovesKeep
    <2>2. CASE Put(c)
      BY <2>2, PutKeeps
    <2>3. CASE Use(c)
      BY <2>3, UseKeeps
    <2>4. CASE Operate(c)
      BY <1>1, <2>4, Threads
    <2> QED BY <1>2, <2>1, <2>2, <2>3, <2>4 DEF Continue
  <1>3. ASSUME NEW c \in Clients, NEW f \in {"A", "S"}, NEW k \in Keys, Begin(c, f, k)
        PROVE  MTInv'
    BY <1>3, BeginKeeps
  <1>4. CASE UNCHANGED vars
    <2>1. UNCHANGED <<load, tables, queues, hashprocessing, iter, serving, history, pc,
                      call, work, packet, calls, creations>>
      BY <1>4 DEF vars, queued
    <2>2. /\ Types /\ CallersFine /\ QueuesFine /\ ServerFine
          /\ \A w \in Workers : WorkFine(w)
          /\ \A e \in Clients : AnswerFine(e)
      BY DEF MTInv
    <2>3. TablesFine' /\ CreatedOnce' /\ Table' = Table
      BY <2>1, TablesKept
    <2>4. Types' /\ CallersFine' /\ ServerFine'
      BY <2>1, <2>2, <2>3 DEF Types, CallersFine, Busy, ServerFine, Waiting
    <2>5. QueuesFine'
      <3>1. \A i \in 0..1 : Due(i) \subseteq Due(i)'
        BY <2>1 DEF Due, Waiting
      <3> QED BY <2>1, <2>2, <3>1, StillDue
    <2>6. ASSUME NEW w \in Workers PROVE WorkFine(w)'
      BY <2>1, <2>2, <2>3 DEF WorkFine, Request
    <2>7. ASSUME NEW e \in Clients PROVE AnswerFine(e)'
      BY <2>1, <2>2, <2>3 DEF AnswerFine, Asks, Alone
    <2> QED BY <2>3, <2>4, <2>5, <2>6, <2>7 DEF MTInv
  <1>5. Server \in Workers
    BY Threads
  <1> QED BY <1>1, <1>2, <1>3, <1>4, <1>5, PollKeeps, DrainKeeps DEF Next

LEMMA InvAlways == Sequenced => (Spec => []MTInv)
  <1> SUFFICES ASSUME Sequenced PROVE Spec => []MTInv
    OBVIOUS
  <1>1. MTInv /\ [Next]_vars => MTInv'
    BY StepKeeps
  <1> QED BY <1>1, StartFine, PTL DEF Spec

(* add_hashtable and search_hashtable leave tables and queues sound        *)
(* although many threads call them and the server's add takes several      *)
(* steps: no entry is lost, no slot runs out, no freed table is used.      *)
THEOREM TablesAlwaysSound == Sequenced => (Spec => []TablesSound)
  <1>1. MTInv => TablesSound
    <2> SUFFICES ASSUME MTInv PROVE TablesSound
      OBVIOUS
    <2>1. Types /\ QueuesFine /\ ServerFine
      BY DEF MTInv
    <2>2. \A i \in 0..1 : IsQueue(queues[i], Clients)
      <3>1. \A i \in 0..1 : IsQueue(queues[i], Due(i)) /\ Due(i) \subseteq Clients
        BY <2>1 DEF QueuesFine, Due
      <3> QED BY <3>1, MoreWaiting
    <2>3. \A c \in Clients : packet[c].entry \in Keys \cup {EMPTY}
      BY <2>1 DEF Types, Packets
    <2>4. TypeOK
      BY <2>1, <2>2, <2>3 DEF TypeOK, Types, ServerFine
    <2>5. \A w \in Workers : pc[w] # "crashed"
      BY <2>1 DEF Types, Labels, Operating
    <2>6. /\ \A k \in Stored(Table) : FoundIn(Table, k)
          /\ Table.numitems = Cardinality(Stored(Table))
          /\ Table.numitems < Table.hashsize
      BY Current DEF Fit
    <2> QED BY <2>4, <2>5, <2>6 DEF TablesSound, TableIntact
  <1> QED BY <1>1, InvAlways, PTL

(* *createdflagp is set for one call for each key, however many threads    *)
(* add it.                                                                 *)
THEOREM AlwaysCreatedOnce == Sequenced => (Spec => []CreatedOnce)
  <1>1. MTInv => CreatedOnce
    BY DEF MTInv
  <1> QED BY <1>1, InvAlways, PTL

(* The answer of MTadd_hashtable and MTsearch_hashtable is about the key   *)
(* asked for; a thread that is alone finds the entry at the index it was   *)
(* given.                                                                  *)
THEOREM AnswersAlwaysRight == Sequenced => (Spec => []AnswersRight)
  <1>1. MTInv => AnswersRight
    <2> SUFFICES ASSUME MTInv PROVE AnswersRight
      OBVIOUS
    <2>1. \A c \in Clients : AnswerFine(c)
      BY DEF MTInv
    <2>2. OwnAnswer
      BY <2>1 DEF OwnAnswer, AnswerFine
    <2>3. IndexLeadsToEntry
      BY <2>1 DEF IndexLeadsToEntry, AnswerFine, Asks
    <2> QED BY <2>2, <2>3 DEF AnswersRight
  <1> QED BY <1>1, InvAlways, PTL
=============================================================================
