CONSTANTS
  Keys = {1, 3, 9}
  InValues = {0, 1}
  Deltas = {1}
  ValueBits = 2
  HashOf <- MCHashOf
  Primes <- MCPrimes
  LoadFactors <- MCLoadFactors
  MinSizes = {0, 3}
  PtrBytes = 2
  ConcurrentFree = TRUE

SPECIFICATION Spec

PROPERTIES
  ImplementsMap
