-------------------------- MODULE HashTableProofs --------------------------
(***************************************************************************)
(* Proofs about struct hashtable: that a table stays fit for any search or *)
(* insertion, for every set of keys and every hash function, through any   *)
(* number of growths; and that it implements a set of keys.                *)
(***************************************************************************)
EXTENDS HashTable, StructureLemmas

-----------------------------------------------------------------------------
(* The table of one thread.                                                *)

(* The inductive invariant: the table can take any call. *)
IInv == Roomy(hp)

LEMMA InitRoomy == Init => IInv
  <1> SUFFICES ASSUME Init PROVE Roomy(hp)
    BY DEF IInv
  <1>1. StartSize \in Nat \ {0} /\ StartSize >= 3
    BY HashTableAssumption
  <1>2. hp = NewTable(StartSize)
    BY DEF Init
  <1> QED BY <1>1, <1>2, NewTableFits DEF Roomy

(* A key that is refused is replaced by one that is not. *)
LEMMA EffectiveKey ==
  ASSUME NEW k \in Keys \cup BadKeys
  PROVE  Effective(k) \in Keys
  BY HashTableAssumption DEF Effective

LEMMA StepRoomy == IInv /\ [Next]_vars => IInv'
  <1> SUFFICES ASSUME IInv, [Next]_vars PROVE IInv'
    OBVIOUS
  <1>1. ASSUME NEW k \in Keys \cup BadKeys, Add(k) PROVE IInv'
    <2>1. hp' = Added(hp, Effective(k)).table
      BY <1>1 DEF Add
    <2> QED BY <2>1, EffectiveKey, AddedIsStored DEF IInv
  <1>2. ASSUME NEW k \in Keys, Find(k) PROVE IInv'
    BY <1>2 DEF Find, IInv
  <1>3. CASE UNCHANGED vars
    BY <1>3 DEF IInv, vars
  <1> QED BY <1>1, <1>2, <1>3 DEF Next

(* Every search and every insertion finds the table fit, whatever was      *)
(* added before and however the keys collide (search_hashtable,            *)
(* resize_hashtable, add_hashtable).                                       *)
THEOREM AlwaysSound == Spec => []TableSound
  <1>1. IInv => TableSound
    <2> SUFFICES ASSUME IInv PROVE TableSound
      OBVIOUS
    <2>1. Fit(hp) /\ hp.numitems < hp.hashsize
      BY DEF IInv, Roomy
    <2>2. TypeOK
      BY <2>1 DEF TypeOK, Fit, IsTable
    <2>3. EveryEntryFound /\ AlwaysRoom
      BY <2>1 DEF Fit, EveryEntryFound, AlwaysRoom
    <2> QED BY <2>2, <2>3 DEF TableSound
  <1> QED BY <1>1, InitRoomy, StepRoomy, PTL DEF Spec

(* The table implements a set of keys: add_hashtable says "created" for a  *)
(* key exactly the first time, and search_hashtable finds what was added.  *)
THEOREM ImplementsKeySet == Spec => RefinesKeySet
  <1>1. Init => Abstract!Init
    <2> SUFFICES ASSUME Init PROVE Abstract!Init
      OBVIOUS
    <2>1. Stored(hp) = {}
      BY NewTableFits, HashTableAssumption DEF Init
    <2> QED BY <2>1 DEF Init, Abstract!Init
  <1>2. IInv /\ [Next]_vars => [Abstract!Next]_<<Stored(hp), answer>>
    <2> SUFFICES ASSUME IInv, [Next]_vars
                 PROVE  [Abstract!Next]_<<Stored(hp), answer>>
      OBVIOUS
    <2>1. ASSUME NEW k \in Keys \cup BadKeys, Add(k) PROVE Abstract!Next
      <3> DEFINE e == Effective(k)
      <3>1. e \in Keys
        BY EffectiveKey
      <3> HIDE DEF e
      <3>2. hp' = Added(hp, e).table
            /\ answer' = [call |-> "add", key |-> Added(hp, e).entry,
                          created |-> Added(hp, e).created]
        BY <2>1 DEF Add, e
      <3>3. Stored(hp') = Stored(hp) \cup {e} /\ Added(hp, e).entry = e
            /\ Added(hp, e).created = (e \notin Stored(hp))
        BY <3>1, <3>2, AddedIsStored DEF IInv
      <3>4. Stored(hp)' = Stored(hp')
        BY DEF Stored, Slots
      <3>5. Abstract!Add(e)
        BY <3>2, <3>3, <3>4 DEF Abstract!Add
      <3> QED BY <3>1, <3>5 DEF Abstract!Next
    <2>2. ASSUME NEW k \in Keys, Find(k) PROVE Abstract!Next
      <3>1. (Search(hp, k) # ERROR /\ hp.slots[Search(hp, k)] = k) = (k \in Stored(hp))
        BY FoundIsStored DEF FoundIn, IInv, Roomy
      <3>2. answer' = [call |-> "find", key |-> k, present |-> k \in Stored(hp)]
            /\ hp' = hp
        BY <2>2, <3>1 DEF Find
      <3>3. Stored(hp)' = Stored(hp)
        BY <3>2 DEF Stored, Slots
      <3>4. Abstract!Find(k)
        BY <3>2, <3>3 DEF Abstract!Find
      <3> QED BY <3>4 DEF Abstract!Next
    <2>3. CASE UNCHANGED vars
      BY <2>3 DEF vars, Stored, Slots
    <2> QED BY <2>1, <2>2, <2>3 DEF Next
  <1> QED BY <1>1, <1>2, InitRoomy, StepRoomy, PTL DEF Spec, RefinesKeySet, Abstract!Spec
=============================================================================
