\* One page-table page for two PDEs: does exhaustion stay contained to a
\* failed fault, as spec section 5 requires?
CONSTANTS
  PdeIdx = {0, 1}
  PteIdx = {0, 1, 2}
  PtPages = {t1}
  NullPage = null
  Region <- MCRegion
  HostFrame <- MCHostFrame
SPECIFICATION Spec
INVARIANTS
  AllocFailureContained
