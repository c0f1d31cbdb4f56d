------------------------------- MODULE KeySet -------------------------------
(***************************************************************************)
(* What the tables of accounts, assets, transactions and listings promise: *)
(* a set of keys.  Adding a key always succeeds and says whether the key   *)
(* is new; looking one up says whether it is there.                        *)
(***************************************************************************)
CONSTANTS Keys

VARIABLES
  keys,              (* the keys added so far *)
  answer             (* the last call and its result *)

Init == keys = {} /\ answer = [call |-> "none"]

Add(k) ==
  /\ keys' = keys \cup {k}
  /\ answer' = [call |-> "add", key |-> k, created |-> k \notin keys]

Find(k) ==
  /\ answer' = [call |-> "find", key |-> k, present |-> k \in keys]
  /\ UNCHANGED keys

Next == \E k \in Keys : Add(k) \/ Find(k)

Spec == Init /\ [][Next]_<<keys, answer>>
=============================================================================
