---------------------------- MODULE MCHashTable ----------------------------
(* Seven keys whose hash values collide in the first slots of the table,   *)
(* wrap around its end and separate only after growth.                     *)
EXTENDS HashTable, TLC

CONSTANTS a, b, c, d, e, f, g, long

MCKeys == {a, b, c, d, e, f, g}
MCBadKeys == {long}
MCHashOf ==
  a :> 8 @@ b :> 8 @@ c :> 26 @@ d :> 2 @@ e :> 17 @@ f :> 8 @@ g :> 5
MCFallback == g
=============================================================================
