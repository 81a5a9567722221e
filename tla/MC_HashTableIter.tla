--------------------------- MODULE MC_HashTableIter ---------------------------
(* HashTableIter over the keys, hashes and primes of MC_HashTable: keys 1  *)
(* and 3 share the last bucket of the 3-slot table, so an iteration walks *)
(* a chain of two, removes a head and a mid-chain entry, and ends on the   *)
(* last bucket.                                                            *)
EXTENDS MC_HashTable, HashTableIter
=============================================================================
