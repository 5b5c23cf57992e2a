---------------------------- MODULE MCHashTable ----------------------------
(* Three keys that collide in a table of one bucket and of two; two of     *)
(* them still do in a table of eight.                                      *)
EXTENDS HashTable

CONSTANTS k1, k2, k3
MCHashOf == k1 :> 3 @@ k2 :> 5 @@ k3 :> 11
=============================================================================
