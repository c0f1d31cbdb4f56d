-------------------------- MODULE StructureLemmas --------------------------
(***************************************************************************)
(* What the operators of Queue and Table do, the structures of             *)
(* utils/jl777hash.h: the lemmas the proofs about their users rest on.     *)
(*                                                                         *)
(* resize_hashtable is a loop, here a recursive function.  What it         *)
(* computes is proved by induction, which rests on the well-foundedness of *)
(* the natural numbers for sets (NatSetInduction).                         *)
(***************************************************************************)
EXTENDS Queue, Table, FiniteSetTheorems, WellFoundedInduction, TLAPS

-----------------------------------------------------------------------------
(* The ring of queue_t.                                                    *)

(* The remainder by a positive number is an index below it. *)
LEMMA ModIndex ==
  ASSUME NEW a \in Nat, NEW n \in Nat, n > 0
  PROVE  a % n \in 0..(n - 1)
  OBVIOUS

(* realloc in queue_enqueue leaves a well-formed queue with room to store. *)
LEMMA GrownIsQueue ==
  ASSUME NEW V, NEW q, IsQueue(q, V)
  PROVE  /\ IsQueue(Grown(q), V)
         /\ Grown(q).capacity \in Nat \ {0}
         /\ Grown(q).size = q.size
         /\ Grown(q).size < Grown(q).capacity
         /\ Grown(q).in = q.in /\ Grown(q).out = q.out
         /\ Grown(q).in \in 0..(Grown(q).capacity - 1)
         /\ Grown(q).out \in 0..(Grown(q).capacity - 1)
  <1>1. CASE q.size = q.capacity
    BY <1>1 DEF IsQueue, Grown
  <1>2. CASE q.size # q.capacity
    BY <1>2 DEF IsQueue, Grown
  <1> QED BY <1>1, <1>2

(* queue_enqueue keeps the ring well-formed and counts one more item. *)
LEMMA EnqueuedIsQueue ==
  ASSUME NEW V, NEW q, IsQueue(q, V), NEW v \in V
  PROVE  /\ IsQueue(Enqueued(q, v), V)
         /\ Enqueued(q, v).size = q.size + 1
  <1> DEFINE g == Grown(q)
  <1>1. /\ IsQueue(g, V) /\ g.capacity \in Nat \ {0} /\ g.size < g.capacity
        /\ g.size = q.size
        /\ g.in \in 0..(g.capacity - 1) /\ g.out \in 0..(g.capacity - 1)
    BY GrownIsQueue
  <1>2. (g.in + 1) % g.capacity \in 0..(g.capacity - 1)
    BY <1>1, ModIndex
  <1> HIDE DEF g
  <1>3. Enqueued(q, v) =
          [buffer |-> [g.buffer EXCEPT ![g.in] = v],
           capacity |-> g.capacity, size |-> g.size + 1,
           in |-> (g.in + 1) % g.capacity, out |-> g.out]
    BY DEF Enqueued, g
  <1> QED BY <1>1, <1>2, <1>3 DEF IsQueue

(* queue_dequeue keeps the ring well-formed. *)
LEMMA DequeuedIsQueue ==
  ASSUME NEW V, NEW q, IsQueue(q, V)
  PROVE  /\ IsQueue(Dequeued(q), V)
         /\ Front(q) \in V \cup {NULL}
  <1>1. CASE q.size > 0
    <2>1. /\ q.capacity \in Nat \ {0}
          /\ q.out \in 0..(q.capacity - 1)
          /\ (q.out + 1) % q.capacity \in 0..(q.capacity - 1)
      <3>1. q.capacity \in Nat \ {0} /\ q.out \in 0..(q.capacity - 1)
        BY <1>1 DEF IsQueue
      <3>2. q.out + 1 \in Nat
        BY <3>1
      <3> QED BY <3>1, <3>2, ModIndex
    <2> QED BY <1>1, <2>1 DEF IsQueue, Dequeued, Front
  <1>2. CASE ~(q.size > 0)
    BY <1>2 DEF Dequeued, Front
  <1> QED BY <1>1, <1>2

(* Where the cells of the enlarged buffer come from. *)
LEMMA GrownCells ==
  ASSUME NEW V, NEW q, IsQueue(q, V)
  PROVE  /\ Cells(q) \subseteq Cells(Grown(q))
         /\ \A i \in Cells(Grown(q)) :
              \/ i \in Cells(q) /\ Grown(q).buffer[i] = q.buffer[i]
              \/ Grown(q).buffer[i] = NULL
  <1>1. CASE q.size = q.capacity
    <2>1. /\ Grown(q).capacity = q.capacity + 1
          /\ Grown(q).buffer = [i \in 0..q.capacity |->
                                 IF i = q.size THEN NULL ELSE q.buffer[i]]
      BY <1>1 DEF Grown
    <2>2. q.capacity \in Nat
      BY DEF IsQueue
    <2>3. \A i \in 0..q.capacity : i # q.size => i \in 0..(q.capacity - 1)
      BY <1>1, <2>2
    <2>4. Cells(Grown(q)) = 0..q.capacity
      BY <2>1, <2>2 DEF Cells
    <2>5. ASSUME NEW i \in Cells(Grown(q))
          PROVE  \/ i \in Cells(q) /\ Grown(q).buffer[i] = q.buffer[i]
                 \/ Grown(q).buffer[i] = NULL
      <3>1. i \in 0..q.capacity
        BY <2>4
      <3>2. Grown(q).buffer[i] = IF i = q.size THEN NULL ELSE q.buffer[i]
        BY <2>1, <3>1
      <3> QED BY <2>3, <3>1, <3>2 DEF Cells
    <2>6. Cells(q) \subseteq 0..q.capacity
      BY <2>2 DEF Cells
    <2> QED BY <2>4, <2>5, <2>6
  <1>2. CASE q.size # q.capacity
    BY <1>2 DEF Grown
  <1> QED BY <1>1, <1>2

(* After queue_enqueue(v) a cell holds v, or what it held before, or NULL; *)
(* v is in one cell only.                                                  *)
LEMMA EnqueuedCells ==
  ASSUME NEW V, NEW q, IsQueue(q, V), NEW v \in V
  PROVE  \E k \in Cells(Enqueued(q, v)) :
           /\ Enqueued(q, v).buffer[k] = v
           /\ \A i \in Cells(Enqueued(q, v)) \ {k} :
                \/ i \in Cells(q) /\ Enqueued(q, v).buffer[i] = q.buffer[i]
                \/ Enqueued(q, v).buffer[i] = NULL
  <1> DEFINE g == Grown(q)
  <1>1. /\ IsQueue(g, V) /\ g.in \in 0..(g.capacity - 1)
        /\ \A i \in Cells(g) :
              \/ i \in Cells(q) /\ g.buffer[i] = q.buffer[i]
              \/ g.buffer[i] = NULL
    BY GrownIsQueue, GrownCells
  <1> HIDE DEF g
  <1>2. /\ Enqueued(q, v).buffer = [g.buffer EXCEPT ![g.in] = v]
        /\ Cells(Enqueued(q, v)) = Cells(g)
    BY DEF Enqueued, g, Cells
  <1>3. g.buffer \in [0..(g.capacity - 1) -> V \cup {NULL}] /\ g.in \in Cells(g)
    BY <1>1 DEF IsQueue, Cells
  <1>4. g.in \in Cells(Enqueued(q, v))
    BY <1>2, <1>3
  <1> WITNESS g.in \in Cells(Enqueued(q, v))
  <1> QED BY <1>1, <1>2, <1>3 DEF Cells

(* After queue_dequeue every cell is as before, but the one it read, which *)
(* is empty now.                                                           *)
LEMMA DequeuedCells ==
  ASSUME NEW V, NEW q, IsQueue(q, V), q.size > 0
  PROVE  /\ q.out \in Cells(q)
         /\ Cells(Dequeued(q)) = Cells(q)
         /\ Dequeued(q).buffer[q.out] = NULL
         /\ \A i \in Cells(q) \ {q.out} : Dequeued(q).buffer[i] = q.buffer[i]
         /\ Front(q) = q.buffer[q.out]
  BY DEF IsQueue, Dequeued, Cells, Front

-----------------------------------------------------------------------------
(* Induction over the natural numbers, with sets of numbers.               *)

(* A set of natural numbers that is not empty has a least element. *)
LEMMA LeastNat ==
  ASSUME NEW S \in SUBSET Nat, S # {}
  PROVE  \E m \in S : \A n \in S : m <= n
  <1> DEFINE R == {ss \in Nat \X Nat : ss[1] < ss[2]}
  <1>1. IsWellFoundedOn(R, Nat)
    BY NatLessThanWellFounded DEF OpToRel
  <1>2. PICK m \in S : \A n \in S : <<n, m>> \notin R
    <2> HIDE DEF R
    <2> QED BY <1>1, WFMin
  <1>3. ASSUME NEW n \in S PROVE m <= n
    <2>1. <<n, m>> \notin R
      BY <1>2
    <2>2. m \in Nat /\ n \in Nat
      OBVIOUS
    <2>3. n < m => <<n, m>> \in R
      BY <2>2
    <2> QED BY <2>1, <2>2, <2>3
  <1> QED BY <1>3

(* A set with 0 and the successor of each of its numbers holds them all. *)
LEMMA NatSetInduction ==
  ASSUME NEW S, 0 \in S, \A n \in Nat : n \in S => n + 1 \in S
  PROVE  Nat \subseteq S
  <1> SUFFICES ASSUME Nat \ S # {} PROVE FALSE
    OBVIOUS
  <1>1. PICK m \in Nat \ S : \A n \in Nat \ S : m <= n
    BY LeastNat
  <1>2. m # 0 /\ m - 1 \in Nat /\ m - 1 \notin Nat \ S
    BY <1>1
  <1> QED BY <1>1, <1>2

-----------------------------------------------------------------------------
(* The slots a search looks at.                                            *)

(* What the compiler makes of hp: a table of its own size. *)
IsTable(t) ==
  /\ t = [hashsize |-> t.hashsize, numitems |-> t.numitems, slots |-> t.slots]
  /\ t.hashsize \in Nat \ {0} /\ t.numitems \in Nat
  /\ t.slots \in [Slots(t) -> Keys \cup {EMPTY}]

(* A search stays inside the table. *)
LEMMA ProbeInSlots ==
  ASSUME NEW t, IsTable(t), NEW k \in Keys, NEW d \in Nat
  PROVE  Probe(t, k, d) \in Slots(t)
  <1>1. HashOf[k] + d \in Nat /\ t.hashsize \in Nat /\ t.hashsize > 0
    BY TableAssumption DEF IsTable
  <1>2. \A h, n \in Nat : n > 0 => h % n \in 0..(n - 1)
    OBVIOUS
  <1> QED BY <1>1, <1>2 DEF Probe, Slots

(* Remainders: of a number, and of a multiple and a smaller number. *)
LEMMA Remainders ==
  ASSUME NEW n \in Nat \ {0}
  PROVE  /\ \A h \in Nat : /\ h % n \in 0..(n - 1) /\ h \div n \in Nat
                          /\ h = n * (h \div n) + (h % n)
         /\ \A x \in Nat, i \in 0..(n - 1) : (n * x + i) % n = i
  <1>1. ASSUME NEW h \in Nat
        PROVE  h % n \in 0..(n - 1) /\ h \div n \in Nat
    OBVIOUS
  <1>2. ASSUME NEW h \in Nat PROVE h = n * (h \div n) + (h % n)
    OBVIOUS
  <1>3. ASSUME NEW x \in Nat, NEW i \in 0..(n - 1) PROVE (n * x + i) % n = i
    OBVIOUS
  <1> QED BY <1>1, <1>2, <1>3

(* A search that does not stop looks at every slot. *)
LEMMA ProbeReachesAll ==
  ASSUME NEW t, IsTable(t), NEW k \in Keys, NEW i \in Slots(t)
  PROVE  \E d \in Slots(t) : Probe(t, k, d) = i
  <1> DEFINE n == t.hashsize
             h == HashOf[k]
             q == h \div n
             r == h % n
             d == IF i >= r THEN i - r ELSE i - r + n
  <1>1. h \in Nat /\ n \in Nat \ {0} /\ i \in 0..(n - 1)
    BY TableAssumption DEF IsTable, Slots
  <1>2. r \in 0..(n - 1) /\ q \in Nat /\ h = n * q + r
    BY <1>1, Remainders
  <1>3. \A x \in Nat : (n * x + i) % n = i
    BY <1>1, Remainders
  <1> HIDE DEF h, n, r, q
  <1>4. d \in 0..(n - 1)
    BY <1>1, <1>2
  <1>5. (h + d) % n = i
    <2>1. CASE i >= r
      <3>1. h + d = n * q + i
        BY <1>1, <1>2, <2>1
      <3> QED BY <1>2, <1>3, <3>1
    <2>2. CASE i < r
      <3>1. h + d = n * q + n + i
        BY <1>1, <1>2, <2>2
      <3>2. n * q + n = n * (q + 1)
        BY <1>1, <1>2
      <3>3. (n * (q + 1) + i) % n = i /\ q + 1 \in Nat
        BY <1>2, <1>3
      <3> QED BY <3>1, <3>2, <3>3
    <2> QED BY <1>1, <1>2, <2>1, <2>2
  <1> QED BY <1>4, <1>5 DEF Probe, Slots, h, n
(* No slot before the d-th of a search for k ends it. *)
Clear(t, k, d) == \A e \in 0..(d - 1) : t.slots[Probe(t, k, e)] \notin {EMPTY, k}

(* A search that may end at its d-th slot ends there or before, at the     *)
(* first slot that ends it.                                                *)
LEMMA SearchStops ==
  ASSUME NEW t, IsTable(t), NEW k \in Keys, NEW d \in Slots(t),
         t.slots[Probe(t, k, d)] \in {EMPTY, k}
  PROVE  \E c \in 0..d :
           /\ c \in Slots(t) /\ Clear(t, k, c)
           /\ t.slots[Probe(t, k, c)] \in {EMPTY, k}
           /\ Search(t, k) = Probe(t, k, c)
  <1> DEFINE stops == {e \in Slots(t) : t.slots[Probe(t, k, e)] \in {EMPTY, k}}
             c == CHOOSE e \in stops : \A f \in stops : e <= f
  <1>1. d \in stops /\ stops \subseteq Slots(t) /\ Slots(t) \subseteq Nat
    BY DEF Slots
  <1>2. c \in stops /\ \A f \in stops : c <= f
    <2> HIDE DEF stops
    <2>1. \E e \in stops : \A f \in stops : e <= f
      BY <1>1, LeastNat
    <2> QED BY <2>1
  <1>3. Search(t, k) = Probe(t, k, c)
    BY <1>1 DEF Search
  <1> HIDE DEF c
  <1>4. c \in 0..d /\ c \in Slots(t) /\ t.slots[Probe(t, k, c)] \in {EMPTY, k}
    BY <1>1, <1>2
  <1>5. Clear(t, k, c)
    <2> SUFFICES ASSUME NEW e \in 0..(c - 1), t.slots[Probe(t, k, e)] \in {EMPTY, k}
                 PROVE  FALSE
      BY DEF Clear
    <2>1. e \in stops
      BY <1>4 DEF Slots, IsTable
    <2> QED BY <1>2, <1>4, <2>1 DEF Slots
  <1> QED BY <1>3, <1>4, <1>5

(* A search ends inside the table, at a free slot or at its key, or fails. *)
LEMMA SearchEnds ==
  ASSUME NEW t, IsTable(t), NEW k \in Keys
  PROVE  \/ Search(t, k) = ERROR
         \/ Search(t, k) \in Slots(t) /\ t.slots[Search(t, k)] \in {EMPTY, k}
  <1>1. CASE \E d \in Slots(t) : t.slots[Probe(t, k, d)] \in {EMPTY, k}
    <2>1. PICK d \in Slots(t) : t.slots[Probe(t, k, d)] \in {EMPTY, k}
      BY <1>1
    <2>2. PICK c \in 0..d : /\ c \in Slots(t)
                            /\ t.slots[Probe(t, k, c)] \in {EMPTY, k}
                            /\ Search(t, k) = Probe(t, k, c)
      BY <2>1, SearchStops
    <2>3. c \in Nat
      BY <2>2
    <2> QED BY <2>2, <2>3, ProbeInSlots
  <1>2. CASE ~\E d \in Slots(t) : t.slots[Probe(t, k, d)] \in {EMPTY, k}
    BY <1>2 DEF Search
  <1> QED BY <1>1, <1>2

(* A key is found when nothing on the way to its place ends the search. *)
LEMMA FoundIff ==
  ASSUME NEW t, IsTable(t), NEW k \in Keys
  PROVE  FoundIn(t, k) <=>
           \E d \in Slots(t) : t.slots[Probe(t, k, d)] = k /\ Clear(t, k, d)
  <1>1. ASSUME NEW d \in Slots(t), t.slots[Probe(t, k, d)] = k, Clear(t, k, d)
        PROVE  FoundIn(t, k)
    <2>1. PICK c \in 0..d : /\ c \in Slots(t)
                            /\ t.slots[Probe(t, k, c)] \in {EMPTY, k}
                            /\ Search(t, k) = Probe(t, k, c)
      BY <1>1, SearchStops
    <2>2. c = d
      BY <1>1, <2>1 DEF Clear, Slots
    <2>3. Probe(t, k, c) # ERROR
      BY <2>1, ProbeInSlots, TableAssumption DEF Slots
    <2> QED BY <1>1, <2>1, <2>2, <2>3 DEF FoundIn
  <1>2. ASSUME FoundIn(t, k)
        PROVE  \E d \in Slots(t) : t.slots[Probe(t, k, d)] = k /\ Clear(t, k, d)
    <2>1. Search(t, k) # ERROR /\ t.slots[Search(t, k)] = k
      BY <1>2 DEF FoundIn
    <2>2. PICK d \in Slots(t) : t.slots[Probe(t, k, d)] \in {EMPTY, k}
      BY <2>1 DEF Search
    <2>3. PICK c \in 0..d : /\ c \in Slots(t) /\ Clear(t, k, c)
                            /\ Search(t, k) = Probe(t, k, c)
      BY <2>2, SearchStops
    <2> QED BY <2>1, <2>3
  <1> QED BY <1>1, <1>2
-----------------------------------------------------------------------------
(* Storing a key.                                                          *)

(* A table whose entries are all found, each in one slot, and counted. *)
Fit(t) ==
  /\ IsTable(t)
  /\ \A k \in Stored(t) : FoundIn(t, k)
  /\ \A i, j \in Slots(t) : t.slots[i] = t.slots[j] /\ t.slots[i] # EMPTY => i = j
  /\ t.numitems = Cardinality(Stored(t))

(* What is stored are keys, no more than there are slots. *)
LEMMA StoredKeys ==
  ASSUME NEW t, IsTable(t)
  PROVE  /\ Stored(t) \subseteq Keys
         /\ IsFiniteSet(Slots(t)) /\ Cardinality(Slots(t)) = t.hashsize
         /\ IsFiniteSet(Stored(t)) /\ Cardinality(Stored(t)) <= t.hashsize
  <1>1. Stored(t) \subseteq Keys
    BY DEF IsTable, Stored
  <1>2. IsFiniteSet(Slots(t)) /\ Cardinality(Slots(t)) = t.hashsize
    <2>1. t.hashsize \in Nat \ {0} /\ t.hashsize - 1 \in Int /\ 0 \in Int
      BY DEF IsTable
    <2>2. IsFiniteSet(0..(t.hashsize - 1))
          /\ Cardinality(0..(t.hashsize - 1))
               = IF 0 > t.hashsize - 1 THEN 0 ELSE t.hashsize - 1 - 0 + 1
      BY <2>1, FS_Interval
    <2> QED BY <2>1, <2>2 DEF Slots
  <1>3. IsFiniteSet(Stored(t)) /\ Cardinality(Stored(t)) <= t.hashsize
    <2> DEFINE f == [k \in Stored(t) |-> CHOOSE i \in Slots(t) : t.slots[i] = k]
    <2>1. \A k \in Stored(t) : f[k] \in Slots(t) /\ t.slots[f[k]] = k
      BY DEF Stored
    <2>2. f \in Injection(Stored(t), Slots(t))
      BY <2>1 DEF Injection, IsInjective
    <2> QED BY <1>2, <2>2, FS_Injection
  <1> QED BY <1>1, <1>2, <1>3

(* A table that is not full has a free slot. *)
LEMMA FreeSlot ==
  ASSUME NEW t, Fit(t), t.numitems < t.hashsize
  PROVE  \E i \in Slots(t) : t.slots[i] = EMPTY
  <1> SUFFICES ASSUME \A i \in Slots(t) : t.slots[i] # EMPTY PROVE FALSE
    OBVIOUS
  <1>1. t.slots \in [Slots(t) -> Stored(t)]
    BY DEF Fit, IsTable, Stored
  <1>2. /\ IsFiniteSet(Stored(t)) /\ IsFiniteSet(Slots(t))
        /\ Cardinality(Stored(t)) < Cardinality(Slots(t))
    BY StoredKeys DEF Fit
  <1>3. \E i, j \in Slots(t) : i # j /\ t.slots[i] = t.slots[j]
    BY <1>1, <1>2, FS_PigeonHole
  <1> QED BY <1>3 DEF Fit

(* An entry is put where a search for it ends, which disturbs no search    *)
(* for another.                                                            *)
LEMMA StoreFits ==
  ASSUME NEW t, Fit(t), t.numitems < t.hashsize, NEW k \in Keys, k \notin Stored(t)
  PROVE  LET at == Search(t, k) IN
         /\ at # ERROR /\ t.slots[at] = EMPTY
         /\ Fit(Store(t, at, k))
         /\ Stored(Store(t, at, k)) = Stored(t) \cup {k}
         /\ Store(t, at, k).hashsize = t.hashsize
         /\ Store(t, at, k).numitems = t.numitems + 1
  <1> DEFINE at == Search(t, k)
             u == Store(t, at, k)
  <1>1. IsTable(t)
    BY DEF Fit
  <1>2. PICK c \in Slots(t) : Clear(t, k, c) /\ at = Probe(t, k, c) /\ t.slots[at] = EMPTY
    <2>1. PICK i \in Slots(t) : t.slots[i] = EMPTY
      BY FreeSlot
    <2>2. PICK d \in Slots(t) : Probe(t, k, d) = i
      BY <1>1, ProbeReachesAll
    <2>3. PICK c \in 0..d : /\ c \in Slots(t) /\ Clear(t, k, c)
                            /\ t.slots[Probe(t, k, c)] \in {EMPTY, k}
                            /\ Search(t, k) = Probe(t, k, c)
      BY <1>1, <2>1, <2>2, SearchStops
    <2>4. c \in Nat
      BY <2>3
    <2>5. Probe(t, k, c) \in Slots(t)
      BY <1>1, <2>4, ProbeInSlots
    <2>6. t.slots[Probe(t, k, c)] # k
      BY <2>5, TableAssumption DEF Stored
    <2> QED BY <2>3, <2>6
  <1>3. at \in Slots(t) /\ at # ERROR
    <2>1. c \in Nat
      BY DEF Slots
    <2> QED BY <1>1, <1>2, <2>1, ProbeInSlots, TableAssumption DEF Slots
  <1> HIDE DEF at
  <1>4. /\ u = [hashsize |-> t.hashsize, numitems |-> t.numitems + 1,
                slots |-> [t.slots EXCEPT ![at] = k]]
        /\ u.hashsize = t.hashsize /\ u.numitems = t.numitems + 1
        /\ u.slots = [t.slots EXCEPT ![at] = k]
    BY DEF Store
  <1> HIDE DEF u
  <1>5. Slots(u) = Slots(t) /\ \A l, e : Probe(u, l, e) = Probe(t, l, e)
    BY <1>4 DEF Slots, Probe
  <1>6. \A i \in Slots(t) : u.slots[i] = IF i = at THEN k ELSE t.slots[i]
    BY <1>1, <1>4 DEF IsTable
  <1>7. IsTable(u)
    BY <1>1, <1>3, <1>4, <1>5 DEF IsTable
  <1>8. Stored(u) = Stored(t) \cup {k}
    BY <1>2, <1>3, <1>5, <1>6, TableAssumption DEF Stored
  <1>9. \A i, j \in Slots(u) : u.slots[i] = u.slots[j] /\ u.slots[i] # EMPTY => i = j
    BY <1>5, <1>6, TableAssumption DEF Fit, Stored
  <1>10. u.numitems = Cardinality(Stored(u))
    BY <1>1, <1>4, <1>8, StoredKeys, FS_AddElement DEF Fit
  <1>11. ASSUME NEW l \in Stored(u) PROVE FoundIn(u, l)
    <2>1. \A e \in Nat, m \in Keys : Probe(t, m, e) \in Slots(t)
      BY <1>1, ProbeInSlots
    <2>2. CASE l = k
      <3>1. u.slots[Probe(u, k, c)] = k
        BY <1>2, <1>3, <1>5, <1>6
      <3>2. Clear(u, k, c)
        <4> SUFFICES ASSUME NEW e \in 0..(c - 1)
                     PROVE  u.slots[Probe(u, k, e)] \notin {EMPTY, k}
          BY DEF Clear
        <4>1. t.slots[Probe(t, k, e)] \notin {EMPTY, k} /\ Probe(t, k, e) \in Slots(t)
          BY <1>2, <2>1 DEF Clear, Slots
        <4> QED BY <1>2, <1>5, <1>6, <4>1
      <3> QED BY <1>5, <1>7, <2>2, <3>1, <3>2, FoundIff
    <2>3. CASE l # k
      <3>1. l \in Stored(t) /\ l \in Keys /\ l # EMPTY
        BY <1>1, <1>8, <2>3, StoredKeys, TableAssumption
      <3>2. PICK d \in Slots(t) : t.slots[Probe(t, l, d)] = l /\ Clear(t, l, d)
        BY <1>1, <3>1, FoundIff DEF Fit
      <3>3. d \in Nat /\ Probe(t, l, d) \in Slots(t)
        BY <2>1, <3>1 DEF Slots
      <3>4. u.slots[Probe(u, l, d)] = l
        BY <1>2, <1>5, <1>6, <3>1, <3>2, <3>3
      <3>5. Clear(u, l, d)
        <4> SUFFICES ASSUME NEW e \in 0..(d - 1)
                     PROVE  u.slots[Probe(u, l, e)] \notin {EMPTY, l}
          BY DEF Clear
        <4>1. t.slots[Probe(t, l, e)] \notin {EMPTY, l} /\ Probe(t, l, e) \in Slots(t)
          BY <2>1, <3>1, <3>2, <3>3 DEF Clear
        <4> QED BY <1>2, <1>5, <1>6, <2>3, <4>1
      <3> QED BY <1>5, <1>7, <3>1, <3>2, <3>4, <3>5, FoundIff
    <2> QED BY <2>2, <2>3
  <1>12. Fit(u)
    BY <1>7, <1>9, <1>10, <1>11 DEF Fit
  <1> QED BY <1>2, <1>3, <1>4, <1>8, <1>12 DEF at, u
-----------------------------------------------------------------------------
(* Growing the table.                                                      *)

(* A new table is fit and empty. *)
LEMMA NewTableFits ==
  ASSUME NEW size \in Nat \ {0}
  PROVE  /\ Fit(NewTable(size)) /\ Stored(NewTable(size)) = {}
         /\ NewTable(size).hashsize = size /\ NewTable(size).numitems = 0
  <1> DEFINE t == NewTable(size)
  <1>1. /\ t.hashsize = size /\ t.numitems = 0
        /\ t.slots = [i \in 0..(size - 1) |-> EMPTY]
        /\ t = [hashsize |-> t.hashsize, numitems |-> t.numitems, slots |-> t.slots]
    BY DEF NewTable
  <1> HIDE DEF t
  <1>2. IsTable(t) /\ Stored(t) = {}
    BY <1>1 DEF IsTable, Slots, Stored
  <1>3. \A i \in Slots(t) : t.slots[i] = EMPTY
    BY <1>1 DEF Slots
  <1>4. Fit(t)
    BY <1>1, <1>2, <1>3, FS_EmptySet DEF Fit
  <1> QED BY <1>1, <1>2, <1>4 DEF t

(* The keys in the first n slots. *)
Upto(t, n) == {t.slots[i] : i \in 0..(n - 1)} \ {EMPTY}

(* f holds the new table as it is after each of the first n slots. *)
Copies(f, t, newsize, n) ==
  f = [i \in 0..n |-> IF i = 0 THEN NewTable(newsize)
                      ELSE Placed(f[i - 1], t.slots[i - 1])]

(* The loop of resize_hashtable goes through as many slots as there are. *)
LEMMA CopiesExist ==
  ASSUME NEW t, NEW newsize, NEW n \in Nat
  PROVE  \E f : Copies(f, t, newsize, n)
  <1> DEFINE S == {m \in Nat : \E f : Copies(f, t, newsize, m)}
  <1>1. 0 \in S
    <2> DEFINE f == [i \in 0..0 |-> NewTable(newsize)]
    <2>1. Copies(f, t, newsize, 0)
      BY DEF Copies
    <2> QED BY <2>1
  <1>2. ASSUME NEW m \in Nat, m \in S PROVE m + 1 \in S
    <2>1. PICK f : Copies(f, t, newsize, m)
      BY <1>2
    <2> DEFINE next(i) == IF i = m + 1 THEN Placed(f[m], t.slots[m]) ELSE f[i]
               g == [i \in 0..(m + 1) |-> next(i)]
               step(i) == IF i = 0 THEN NewTable(newsize)
                          ELSE Placed(g[i - 1], t.slots[i - 1])
    <2>2. ASSUME NEW i \in 0..(m + 1) PROVE next(i) = step(i)
      <3>1. CASE i = m + 1
        <4>1. g[i - 1] = f[m] /\ i - 1 = m /\ i # 0
          BY <3>1
        <4> QED BY <3>1, <4>1
      <3>2. CASE i = 0
        <4>1. f[0] = NewTable(newsize)
          BY <2>1 DEF Copies
        <4> QED BY <3>2, <4>1
      <3>3. CASE i \in 1..m
        <4>1. f[i] = Placed(f[i - 1], t.slots[i - 1])
          BY <2>1, <3>3 DEF Copies
        <4>2. g[i - 1] = f[i - 1]
          BY <3>3
        <4> QED BY <3>3, <4>1, <4>2
      <3> QED BY <3>1, <3>2, <3>3
    <2>3. g = [i \in 0..(m + 1) |-> step(i)]
      BY <2>2
    <2>4. Copies(g, t, newsize, m + 1)
      BY <2>3 DEF Copies
    <2> QED BY <2>4
  <1> HIDE DEF S
  <1>3. n \in S
    BY <1>1, <1>2, NatSetInduction
  <1> QED BY <1>3 DEF S

(* resize_hashtable keeps every entry, although it puts them elsewhere. *)
LEMMA ResizedFits ==
  ASSUME NEW t, Fit(t), NEW newsize \in Nat, newsize > t.hashsize
  PROVE  /\ Fit(Resized(t, newsize)) /\ Stored(Resized(t, newsize)) = Stored(t)
         /\ Resized(t, newsize).hashsize = newsize
  <1>1. /\ t.hashsize \in Nat /\ IsTable(t) /\ newsize \in Nat \ {0}
        /\ t.slots \in [0..(t.hashsize - 1) -> Keys \cup {EMPTY}]
    BY DEF Fit, IsTable, Slots
  <1>2. PICK f : Copies(f, t, newsize, t.hashsize) /\ Resized(t, newsize) = f[t.hashsize]
    <2> DEFINE f == CHOOSE g : Copies(g, t, newsize, t.hashsize)
    <2>1. Copies(f, t, newsize, t.hashsize)
      <3>1. \E g : Copies(g, t, newsize, t.hashsize)
        BY <1>1, CopiesExist
      <3> QED BY <3>1
    <2>2. Resized(t, newsize) = f[t.hashsize]
      BY DEF Resized, Copies
    <2> QED BY <2>1, <2>2
  <1>3. /\ f[0] = NewTable(newsize)
        /\ \A i \in 0..(t.hashsize - 1) : f[i + 1] = Placed(f[i], t.slots[i])
    <2>1. f[0] = NewTable(newsize)
      BY <1>1, <1>2 DEF Copies
    <2>2. ASSUME NEW i \in 0..(t.hashsize - 1)
          PROVE  f[i + 1] = Placed(f[i], t.slots[i])
      <3>1. i + 1 \in 0..t.hashsize /\ i + 1 # 0 /\ (i + 1) - 1 = i
        BY <1>1
      <3> QED BY <1>2, <3>1 DEF Copies
    <2> QED BY <2>1, <2>2
  <1> DEFINE Good(n) == /\ Fit(f[n]) /\ f[n].hashsize = newsize
                        /\ Stored(f[n]) = Upto(t, n)
             S == {n \in Nat : n <= t.hashsize => Good(n)}
  <1>4. 0 \in S
    BY <1>1, <1>3, NewTableFits DEF Upto
  <1>5. ASSUME NEW n \in Nat, n \in S PROVE n + 1 \in S
    <2> SUFFICES ASSUME n + 1 <= t.hashsize PROVE Good(n + 1)
      OBVIOUS
    <2> DEFINE k == t.slots[n]
    <2>1. Good(n) /\ n \in Slots(t) /\ f[n + 1] = Placed(f[n], k)
      BY <1>1, <1>3, <1>5 DEF Slots
    <2>2. Upto(t, n + 1) = (Upto(t, n) \cup {k}) \ {EMPTY}
      <3>1. 0..((n + 1) - 1) = 0..(n - 1) \cup {n}
        OBVIOUS
      <3> QED BY <3>1 DEF Upto
    <2>3. EMPTY \notin Upto(t, n)
      BY DEF Upto
    <2>4. CASE k = EMPTY
      <3>1. Placed(f[n], k) = f[n]
        BY <2>4 DEF Placed
      <3> QED BY <2>1, <2>2, <2>3, <2>4, <3>1
    <2>5. CASE k # EMPTY
      <3>1. k \in Keys
        BY <1>1, <2>1, <2>5 DEF Slots
      <3>2. k \notin Stored(f[n])
        <4> SUFFICES ASSUME NEW i \in 0..(n - 1), t.slots[i] = k PROVE FALSE
          BY <2>1 DEF Upto
        <4>1. i \in Slots(t) /\ i # n
          BY <1>1, <2>1 DEF Slots
        <4> QED BY <2>1, <2>5, <4>1 DEF Fit
      <3>3. f[n].numitems < newsize
        <4>1. Stored(f[n]) \in SUBSET Stored(t)
          <5>1. 0..(n - 1) \subseteq Slots(t)
            BY <1>1, <2>1 DEF Slots
          <5>2. Upto(t, n) \subseteq Stored(t)
            BY <5>1 DEF Upto, Stored
          <5> QED BY <2>1, <5>2
        <4>2. Cardinality(Stored(f[n])) <= Cardinality(Stored(t))
          BY <1>1, <4>1, StoredKeys, FS_Subset
        <4>3. Cardinality(Stored(t)) <= t.hashsize
          BY <1>1, StoredKeys
        <4>4. f[n].numitems = Cardinality(Stored(f[n])) /\ f[n].numitems \in Nat
          BY <2>1 DEF Fit, IsTable
        <4>5. Cardinality(Stored(t)) \in Nat
          BY <1>1, StoredKeys, FS_CardinalityType
        <4> QED BY <1>1, <4>2, <4>3, <4>4, <4>5
      <3> DEFINE at == Search(f[n], k)
      <3>4. /\ at # ERROR /\ f[n].slots[at] = EMPTY
            /\ Fit(Store(f[n], at, k))
            /\ Stored(Store(f[n], at, k)) = Stored(f[n]) \cup {k}
            /\ Store(f[n], at, k).hashsize = newsize
        BY <2>1, <3>1, <3>2, <3>3, StoreFits
      <3>5. Placed(f[n], k) = Store(f[n], at, k)
        BY <2>5, <3>4 DEF Placed
      <3> QED BY <2>1, <2>2, <2>3, <2>5, <3>4, <3>5
    <2> QED BY <2>4, <2>5
  <1>6. Good(t.hashsize)
    <2> HIDE DEF S
    <2>1. t.hashsize \in S
      BY <1>1, <1>4, <1>5, NatSetInduction
    <2> QED BY <1>1, <2>1 DEF S
  <1>7. Upto(t, t.hashsize) = Stored(t)
    BY DEF Upto, Stored, Slots
  <1> QED BY <1>2, <1>6, <1>7
(* A search finds what is stored and nothing else. *)
LEMMA FoundIsStored ==
  ASSUME NEW t, Fit(t), NEW k \in Keys
  PROVE  FoundIn(t, k) <=> k \in Stored(t)
  <1>1. ASSUME FoundIn(t, k) PROVE k \in Stored(t)
    <2>1. PICK d \in Slots(t) : t.slots[Probe(t, k, d)] = k
      BY <1>1, FoundIff DEF Fit
    <2>2. Probe(t, k, d) \in Slots(t)
      <3>1. d \in Nat
        BY DEF Slots
      <3> QED BY <3>1, ProbeInSlots DEF Fit
    <2> QED BY <2>1, <2>2, TableAssumption DEF Stored
  <1> QED BY <1>1 DEF Fit

-----------------------------------------------------------------------------
(* Adding a key.                                                           *)

(* A table that can take any call: fit, large enough for the load test to  *)
(* come in time, and not full.                                             *)
Roomy(t) == Fit(t) /\ t.hashsize >= 3 /\ t.numitems < t.hashsize

(* The load test and the growth leave room for one entry and another slot. *)
LEMMA RoomIsMade ==
  ASSUME NEW t, Roomy(t)
  PROVE  /\ Fit(MadeRoom(t)) /\ Stored(MadeRoom(t)) = Stored(t)
         /\ MadeRoom(t).hashsize >= 3 /\ MadeRoom(t).hashsize >= t.hashsize
         /\ MadeRoom(t).numitems + 1 < MadeRoom(t).hashsize
  <1>1. t.hashsize \in Nat /\ t.numitems \in Nat /\ t.hashsize >= 3
        /\ t.numitems < t.hashsize /\ Fit(t)
    BY DEF Roomy, Fit, IsTable
  <1>2. CASE ~NeedsResize(t)
    <2>1. MadeRoom(t) = t
      BY <1>2 DEF MadeRoom
    <2>2. t.numitems * 1000 <= t.hashsize * 666
      BY <1>1, <1>2 DEF NeedsResize
    <2> QED BY <1>1, <2>1, <2>2
  <1>3. CASE NeedsResize(t)
    <2> DEFINE size == t.hashsize * ResizeFactor
               u == Resized(t, size)
    <2>1. size \in Nat /\ size > t.hashsize
      <3>1. ResizeFactor \in Nat /\ ResizeFactor - 2 \in Nat
        BY TableAssumption
      <3>2. size = t.hashsize + t.hashsize + t.hashsize * (ResizeFactor - 2)
        BY <1>1, <3>1
      <3>3. t.hashsize * (ResizeFactor - 2) \in Nat
        BY <1>1, <3>1
      <3> HIDE DEF size
      <3> QED BY <1>1, <3>2, <3>3
    <2>2. MadeRoom(t) = u
      BY <1>3 DEF MadeRoom
    <2> HIDE DEF size
    <2>3. Fit(u) /\ Stored(u) = Stored(t) /\ u.hashsize = size
      BY <1>1, <2>1, ResizedFits
    <2> HIDE DEF u
    <2>4. u.numitems = t.numitems
      BY <1>1, <2>3 DEF Fit
    <2> QED BY <1>1, <2>1, <2>2, <2>3, <2>4
  <1> QED BY <1>2, <1>3

(* add_hashtable returns the entry of its key, says whether it is new, and *)
(* leaves a table that can take any call.                                  *)
LEMMA AddedIsStored ==
  ASSUME NEW t, Roomy(t), NEW k \in Keys
  PROVE  /\ Roomy(Added(t, k).table)
         /\ Stored(Added(t, k).table) = Stored(t) \cup {k}
         /\ Added(t, k).entry = k
         /\ Added(t, k).created = (k \notin Stored(t))
  <1> DEFINE r == MadeRoom(t)
             at == Search(r, k)
             fresh == at # ERROR /\ r.slots[at] = EMPTY
             a == Added(t, k)
  <1>1. /\ Fit(r) /\ Stored(r) = Stored(t) /\ r.hashsize >= 3
        /\ r.numitems + 1 < r.hashsize
        /\ r.hashsize \in Nat /\ r.numitems \in Nat
    BY RoomIsMade DEF Fit, IsTable
  <1>2. /\ a.table = IF fresh THEN Store(r, at, k) ELSE r
        /\ a.entry = IF at = ERROR THEN EMPTY ELSE k
        /\ a.created = fresh
    BY DEF Added
  <1> HIDE DEF r, a
  <1>3. CASE k \in Stored(t)
    <2>1. at # ERROR /\ r.slots[at] = k
      BY <1>1, <1>3 DEF Fit, FoundIn
    <2>2. fresh = FALSE
      BY <2>1, TableAssumption
    <2> HIDE DEF at
    <2>3. a.table = r /\ a.entry = k /\ a.created = FALSE
      BY <1>2, <2>1, <2>2
    <2>4. Stored(t) \cup {k} = Stored(t) /\ (k \notin Stored(t)) = FALSE
      BY <1>3
    <2> HIDE DEF fresh
    <2>5. Roomy(a.table) /\ Stored(a.table) = Stored(t) \cup {k}
      BY <1>1, <2>3, <2>4 DEF Roomy
    <2> QED BY <2>3, <2>4, <2>5 DEF a
  <1>4. CASE k \notin Stored(t)
    <2>1. /\ at # ERROR /\ r.slots[at] = EMPTY
          /\ Fit(Store(r, at, k))
          /\ Stored(Store(r, at, k)) = Stored(r) \cup {k}
          /\ Store(r, at, k).hashsize = r.hashsize
          /\ Store(r, at, k).numitems = r.numitems + 1
      BY <1>1, <1>4, StoreFits
    <2>2. fresh = TRUE
      BY <2>1
    <2> HIDE DEF at
    <2>3. a.table = Store(r, at, k) /\ a.entry = k /\ a.created = TRUE
      BY <1>2, <2>1, <2>2
    <2> QED BY <1>1, <1>4, <2>1, <2>3 DEF Roomy, a
  <1> QED BY <1>3, <1>4
=============================================================================
