------------------------------ MODULE MCMTHash ------------------------------
(* Three keys that collide at size 3, two of them still at size 9. *)
EXTENDS MTHash, TLC

CONSTANTS a, b, d, t1, t2

MCKeys == {a, b, d}
MCHashOf == a :> 2 @@ b :> 11 @@ d :> 5
MCClients == {t1, t2}

(* How many calls the two threads begin. *)
Load(n1, n2, ends) == [calls |-> t1 :> n1 @@ t2 :> n2, ends |-> ends]

(* Two threads while the history is scanned, enough calls for a growth; or *)
(* one thread before, across and after its end.                            *)
MCLoads == {Load(2, 1, FALSE), Load(4, 0, TRUE)}

(* Two threads after the end of the history; two during it.                *)
MCDirect == {Load(1, 1, TRUE)}
MCLost == {Load(1, 1, FALSE)}
=============================================================================
