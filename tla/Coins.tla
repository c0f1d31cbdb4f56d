------------------------------- MODULE Coins -------------------------------
(***************************************************************************)
(* What the gateways rely on when they pay out: an output becomes          *)
(* available at most once, and once it is spent it is never available      *)
(* again.                                                                  *)
(***************************************************************************)
CONSTANT Outputs
VARIABLES available, used   (* used: the outputs that ever were available *)

Init == available = {} /\ used = {}

(* A transaction makes outputs available and spends others.                *)
Transact(new, spent) ==
  /\ available' = (available \cup new) \ spent
  /\ used' = used \cup new

Next ==
  \E new \in SUBSET (Outputs \ used) : \E spent \in SUBSET available :
    Transact(new, spent)

Spec == Init /\ [][Next]_<<available, used>>
=============================================================================
