\* The table with one iterator; both expansion allocations fail together
\* (ConcurrentFree = FALSE), so Plan B is never reached.
CONSTANTS
  Keys = {1, 3, 9}
  InValues = {1}
  Deltas = {1}
  ValueBits = 1
  HashOf <- MCHashOf
  Primes <- MCPrimes
  LoadFactors <- MCLoadFactors
  MinSizes = {0}
  PtrBytes = 2
  ConcurrentFree = FALSE

SPECIFICATION IterSpec

INVARIANTS
  TypeOK
  IterationComplete

PROPERTIES
  ImplementsMap
