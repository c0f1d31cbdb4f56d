------------------------------- MODULE Table -------------------------------
(***************************************************************************)
(* The open-addressing hash table of utils/jl777hash.h (struct hashtable)  *)
(* as operators on one record.  An entry is represented by its key: the    *)
(* structure an entry points to never moves, only the slot naming it does. *)
(***************************************************************************)
EXTENDS Integers

CONSTANTS
  Keys,              (* keys that fit keysize *)
  HashOf,            (* calc_decimalhash of each key *)
  ResizeFactor,      (* HASHTABLE_RESIZEFACTOR *)
  EMPTY,             (* a null slot *)
  ERROR              (* HASHSEARCH_ERROR *)

ASSUME TableAssumption ==
  /\ HashOf \in [Keys -> Nat]
  /\ ResizeFactor \in Nat \ {0, 1}
  /\ EMPTY \notin Keys
  /\ ERROR \notin Nat

(* hashtable_create *)
NewTable(size) ==
  [hashsize |-> size, numitems |-> 0, slots |-> [i \in 0..(size - 1) |-> EMPTY]]

Slots(t) == 0..(t.hashsize - 1)
Stored(t) == {t.slots[i] : i \in Slots(t)} \ {EMPTY}

(* The slot looked at in the d-th iteration of search_hashtable. *)
Probe(t, k, d) == (HashOf[k] + d) % t.hashsize

(* Slip: the probe stops at the last slot instead of going on at slot 0. *)
Slip_SearchNoWrap(t, k) ==
  LET first == HashOf[k] % t.hashsize
      stops == {i \in first..(t.hashsize - 1) : t.slots[i] \in {EMPTY, k}}
  IN  IF stops = {} THEN ERROR
      ELSE CHOOSE i \in stops : \A j \in stops : i <= j

(* Slip: the slot of the hash value is returned without comparing keys. *)
Slip_SearchNoCompare(t, k) == Probe(t, k, 0)

(* search_hashtable: the slot of k, or the first free slot on its way. *)
Search(t, k) ==
  LET stops == {d \in Slots(t) : t.slots[Probe(t, k, d)] \in {EMPTY, k}}
  IN  IF stops = {} THEN ERROR
      ELSE Probe(t, k, CHOOSE d \in stops : \A e \in stops : d <= e)

Store(t, at, k) ==
  [hashsize |-> t.hashsize, numitems |-> t.numitems + 1,
   slots |-> [t.slots EXCEPT ![at] = k]]

(* resize_hashtable: the entries are put into a larger table, slot by slot;*)
(* an entry that finds no free slot of its own is dropped with a message.  *)
Placed(n, k) ==
  LET at == IF k = EMPTY THEN ERROR ELSE Search(n, k)
  IN  IF at # ERROR /\ n.slots[at] = EMPTY THEN Store(n, at, k) ELSE n

Resized(t, newsize) ==
  LET copy[i \in 0..t.hashsize] ==
        IF i = 0 THEN NewTable(newsize) ELSE Placed(copy[i - 1], t.slots[i - 1])
  IN  copy[t.hashsize]

(* The test of add_hashtable: numitems > hashsize * .666 *)
NeedsResize(t) == t.numitems * 1000 > t.hashsize * 666

(* Slip: the table may fill up completely before it is resized. *)
Slip_MadeRoomLate(t) ==
  IF t.numitems > t.hashsize THEN Resized(t, t.hashsize * ResizeFactor) ELSE t

MadeRoom(t) ==
  IF NeedsResize(t) THEN Resized(t, t.hashsize * ResizeFactor) ELSE t

(* add_hashtable for a key that fits: the new table, the entry returned    *)
(* (EMPTY for a null pointer) and the flag *createdflagp.                  *)
Added(t, k) ==
  LET r == MadeRoom(t)
      at == Search(r, k)
      fresh == at # ERROR /\ r.slots[at] = EMPTY
  IN  [table |-> IF fresh THEN Store(r, at, k) ELSE r,
       entry |-> IF at = ERROR THEN EMPTY ELSE k,
       created |-> fresh]

-----------------------------------------------------------------------------
(* Whether a search for k ends at k. *)
FoundIn(t, k) == LET at == Search(t, k) IN at # ERROR /\ t.slots[at] = k
=============================================================================
