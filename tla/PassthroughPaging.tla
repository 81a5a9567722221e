------------------------- MODULE PassthroughPaging -------------------------
(***************************************************************************)
(* The passthrough page-table engine of one virtual core, as the spec's    *)
(* Shadow Page Table Engine describes it: two variants distinguished only  *)
(* by table depth, the two-level one of vmm_direct_paging_32.h and the     *)
(* four-level one of vmm_direct_paging_64.h. The caller that picks the     *)
(* variant from the core's CPU mode (v3_handle_passthrough_pagefault) is   *)
(* outside src/; here the variant is fixed when the core is created, and   *)
(* a guest switching paging mode at run time is not modelled.              *)
(*                                                                         *)
(* The variants share the core's pool of table pages, its pending access   *)
(* and its status; each keeps its own tables (pde and pt, or tbl), and the *)
(* other variant's tables stay at their initial, empty value.              *)
(***************************************************************************)
EXTENDS Naturals

CONSTANTS
  PdeIdx, PteIdx,                  \* indices of the two-level tables
  PtPages32, HostFrame32, Region32, \* its pool, frames and region types
  PmlIdx, PdpIdx, PdIdx, PtIdx,    \* indices of the four-level tables
  PtPages64, HostFrame64, Policy64, \* its pool, frames and region policies
  Root,                            \* the four-level PML4 page
  NullPage                         \* V3_PAddr(NULL)

VARIABLES
  mode,        \* the core's paging variant: "32" or "64"
  pde, pt,     \* the two-level tables
  tbl,         \* the four-level tables
  allocated, pending, lastAccess, status

vars == <<mode, pde, pt, tbl, allocated, pending, lastAccess, status>>

P32 == INSTANCE DirectPaging32
         WITH PtPages <- PtPages32, HostFrame <- HostFrame32, Region <- Region32

P64 == INSTANCE DirectPaging64
         WITH PtPages <- PtPages64, HostFrame <- HostFrame64, Policy <- Policy64

\* Both variants start with empty tables, no page handed out, no access
\* pending and the core running, so one Init serves either.
PagingInit ==
  /\ mode \in {"32", "64"}
  /\ P32!Init
  /\ P64!Init

\* A step of the core's own variant; the other variant's tables stay put.
Step32(A) == mode = "32" /\ A /\ UNCHANGED <<mode, tbl>>
Step64(A) == mode = "64" /\ A /\ UNCHANGED <<mode, pde, pt>>

PagingNext == Step32(P32!Next) \/ Step64(P64!Next)

\* The core's one thread services each exit of its own variant and
\* re-enters the guest (the fairness of each variant, for its mode).
PagingFairness ==
  /\ WF_vars(Step32(P32!HandleFault \/ P32!AllocFailure))
  /\ WF_vars(Step32(P32!Reexecute))
  /\ WF_vars(Step64(P64!HandleFault))
  /\ WF_vars(Step64(P64!Reexecute))

PagingSpec == PagingInit /\ [][PagingNext]_vars /\ PagingFairness

-----------------------------------------------------------------------------
(* Properties: each variant's, for a core of that variant.                 *)

TypeOK ==
  /\ mode \in {"32", "64"}
  /\ mode = "32" => P32!TypeOK
  /\ mode = "64" => P64!TypeOK

\* Every table page handed out is referenced by exactly one present entry
\* of a table above it, in either variant: the fix-ups allocate only for
\* an absent entry and never replace (and so leak) a table already linked,
\* also when a lower level's allocation fails after upper levels took
\* pages from the pool.
TablesNotLeaked ==
  /\ mode = "32" => P32!TablesNotLeaked
  /\ mode = "64" => P64!TablesNotLeaked

\* A guest access that faulted is eventually completed, directly or by a
\* hook, unless the core stops: no fix-up returns 0 with an entry that
\* still refuses the re-executed access (the fault/re-execute loop of both
\* handlers, and the hook test of the 64-bit one).
AccessEventuallyCompletes ==
  /\ mode = "32" => P32!AccessEventuallyCompletes
  /\ mode = "64" => P64!AccessEventuallyCompletes

\* Both variants implement the depth-independent engine of
\* ShadowPagingSpec: every fault maps exactly its own page as the region's
\* policy says (or forwards it), building a table at any level never
\* disturbs another page's mapping, and an invalidation unmaps one page.
\* (Each variant's Abs!Spec, written out so that the variant guards its
\* initial condition and its steps.)
ImplementsShadowPaging ==
  /\ mode = "32" => P32!Abs!Init
  /\ mode = "64" => P64!Abs!Init
  /\ [][mode = "32" => P32!Abs!Next]_(P32!Abs!vars)
  /\ [][mode = "64" => P64!Abs!Next]_(P64!Abs!vars)
=============================================================================
