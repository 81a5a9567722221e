\* Two-level: one page-table page for two PDEs, so whichever PDE faults
\* first gets it and the other's fault exhausts the pool. Four-level: three
\* table pages for five tables, so the second PDP entry's PD allocation
\* exhausts the pool. Every region kind is reached before and at exhaustion.
CONSTANTS
  PdeIdx = {0, 1}
  PteIdx = {0, 1, 2}
  PtPages32 = {t1}
  Region32 <- MCRegion32
  HostFrame32 <- MCHostFrame32
  PmlIdx = {0}
  PdpIdx = {0, 1}
  PdIdx = {0}
  PtIdx = {0, 1}
  PtPages64 = {t1, t2, t3}
  Policy64 <- MCPolicy64
  HostFrame64 <- MCHostFrame64
  Root = root
  NullPage = null
SPECIFICATION PagingSpec
INVARIANTS
  TypeOK
  TablesNotLeaked
PROPERTIES
  AccessEventuallyCompletes
  ImplementsShadowPaging
