----------------------------- MODULE HashTable -----------------------------
(***************************************************************************)
(* One struct hashtable used by one thread: add_hashtable creates the      *)
(* entry of a key or returns the one that is there, search_hashtable looks *)
(* a key up.  A key that is empty or does not fit keysize is replaced by   *)
(* the fixed key "123456" (Fallback).                                      *)
(***************************************************************************)
EXTENDS Table, FiniteSets

CONSTANTS
  BadKeys,           (* keys add_hashtable refuses: empty or too long *)
  Fallback,          (* "123456" *)
  StartSize          (* HASHTABLES_STARTSIZE *)

ASSUME HashTableAssumption ==
  /\ Fallback \in Keys
  /\ BadKeys \cap Keys = {}
  /\ StartSize \in Nat /\ StartSize >= 3   (* with 2 slots the load test is late *)

VARIABLES
  hp,                (* the table the handle points to *)
  answer             (* the last call and what it returned *)

vars == <<hp, answer>>

Init == hp = NewTable(StartSize) /\ answer = [call |-> "none"]

Effective(k) == IF k \in BadKeys THEN Fallback ELSE k

(* add_hashtable; a null result would be answer.key = EMPTY. *)
Add(k) ==
  LET r == Added(hp, Effective(k)) IN
  /\ hp' = r.table
  /\ answer' = [call |-> "add", key |-> r.entry, created |-> r.created]

(* search_hashtable and the caller's look at the slot it names. *)
Find(k) ==
  LET at == Search(hp, k) IN
  /\ answer' = [call |-> "find", key |-> k,
                present |-> at # ERROR /\ hp.slots[at] = k]
  /\ UNCHANGED hp

Next ==
  \/ \E k \in Keys \cup BadKeys : Add(k)
  \/ \E k \in Keys : Find(k)

Spec == Init /\ [][Next]_vars

-----------------------------------------------------------------------------
TypeOK ==
  /\ hp.hashsize \in Nat
  /\ hp.numitems \in 0..hp.hashsize
  /\ hp.slots \in [Slots(hp) -> Keys \cup {EMPTY}]

(* resize_hashtable and add_hashtable leave every entry where a later      *)
(* search_hashtable from its hash value reaches it, and in one slot only:  *)
(* otherwise a second add would create a second account or transaction.    *)
EveryEntryFound ==
  /\ \A k \in Stored(hp) : FoundIn(hp, k)
  /\ \A i, j \in Slots(hp) :
       hp.slots[i] = hp.slots[j] /\ hp.slots[i] # EMPTY => i = j

(* The load test runs before the insertion, yet a free slot always         *)
(* remains, so a search for a missing key ends: numitems counts the        *)
(* entries exactly and never reaches hashsize.                             *)
AlwaysRoom ==
  /\ hp.numitems = Cardinality(Stored(hp))
  /\ hp.numitems < hp.hashsize

(* The table stays fit for any further search or insertion.                *)
TableSound == TypeOK /\ EveryEntryFound /\ AlwaysRoom

(* Probing, growth and the created flag together implement a set of keys.  *)
Abstract == INSTANCE KeySet WITH keys <- Stored(hp)
RefinesKeySet == Abstract!Spec
=============================================================================
