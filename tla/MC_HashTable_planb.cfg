\* Plan B reachable (the second allocation of an expansion may succeed
\* after the first failed), and four keys for a table that stops growing
\* at its second prime.
CONSTANTS
  Keys = {1, 2, 3, 9}
  InValues = {0, 1}
  Deltas = {1}
  ValueBits = 2
  HashOf <- MCHashOf
  Primes <- MCPrimesLast
  LoadFactors <- MCLoadFactorsLast
  MinSizes = {0, 3}
  PtrBytes = 2
  ConcurrentFree = TRUE

SPECIFICATION Spec

INVARIANTS
  EntriesInHomeBucket
