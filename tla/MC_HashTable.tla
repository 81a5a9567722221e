----------------------------- MODULE MC_HashTable -----------------------------
(* Integer keys hashed by the identity hash_fn, a prime table scaled down *)
(* from 53, 97, 193 with load limits a little under the code's 0.65 ratio *)
(* so that the third insert expands the table, and 2-bit values.          *)
(*                                                                         *)
(* do_hash(1), do_hash(2), do_hash(3), do_hash(9) are 4234006247,         *)
(* 4177239502, 3830556884 and 2624345643 (computed from its shifts in unsigned 32-bit arithmetic).    *)
(* TLC's integers are 32-bit signed, so each is given here modulo          *)
(* 3 * 5 * 7 = 105, which leaves its remainder by every table length of    *)
(* the model, and so every bucket, unchanged. Keys 1 and 3 share a bucket  *)
(* of the 3-slot table; key 9 alone is in bucket 0, the one bucket Plan B  *)
(* copies when a pointer takes two bytes, and it moves on expansion.       *)
(* The two-prime table ends at 5: a fourth key (2, sharing key 1's bucket  *)
(* of 5) overfills it at the last prime, where the table stops growing.   *)
EXTENDS HashTable

MCHashOf == [k \in Keys |-> CASE k = 1 -> 2 [] k = 2 -> 37 [] k = 3 -> 14 [] k = 9 -> 3]
MCPrimes == <<3, 5, 7>>
MCLoadFactors == <<2, 3, 4>>
MCPrimesLast == <<3, 5>>
MCLoadFactorsLast == <<2, 3>>
=============================================================================
