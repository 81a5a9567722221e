--------------------------- MODULE DirectPaging32 ---------------------------
(***************************************************************************)
(* The 32-bit passthrough page-table engine of                             *)
(* src/palacios/src/palacios/vmm_direct_paging_32.h: the page-fault        *)
(* handler handle_passthrough_pagefault_32, which builds the two-level     *)
(* table on demand from the shadow-region policy, and invalidate_addr_32.  *)
(*                                                                         *)
(* The guest side is the hardware walk: a guest access either goes through *)
(* the table or raises a #PF exit that this core services; a fault fixed   *)
(* locally returns 0 and the guest re-executes the instruction, a fault on *)
(* a hooked region is emulated by the (external) hook handler.             *)
(*                                                                         *)
(* Data is abstracted: an address is a pair <<pde index, pte index>> (the  *)
(* offset within the page never matters), a host frame is a number, and   *)
(* the user bits, always 1 in this code, are left out.                     *)
(***************************************************************************)
EXTENDS Naturals, FiniteSets

CONSTANTS
  PdeIdx,     \* page-directory indices the model uses (PDE32_INDEX)
  PteIdx,     \* page-table indices the model uses (PTE32_INDEX)
  PtPages,    \* host pages create_generic_pt_page can hand out
  HostFrame,  \* v3_get_shadow_addr: guest page -> host frame (a number > 0)
  Region,     \* v3_get_shadow_region: guest page -> region host_type
  NullPage    \* V3_PAddr(NULL): what a failed allocation installs

\* Region host types; "NONE" is a NULL region, "INVALID" any other host_type.
ALLOCATED  == "ALLOCATED"
WRITE_HOOK == "WRITE_HOOK"
FULL_HOOK  == "FULL_HOOK"
RegionTypes == {ALLOCATED, WRITE_HOOK, FULL_HOOK, "INVALID", "NONE"}

Addr == PdeIdx \X PteIdx

ASSUME /\ Region \in [Addr -> RegionTypes]
       /\ HostFrame \in [Addr -> Nat \ {0}]
       /\ NullPage \notin PtPages

NoAccess == [none |-> TRUE]

VARIABLES
  pde,        \* the page directory: PdeIdx -> pde32_t
  pt,         \* contents of every page-table page: PtPages -> (PteIdx -> pte32_t)
  allocated,  \* the page-table pages handed out so far
  pending,    \* the guest access waiting on a #PF exit, or NoAccess
  lastAccess, \* the last completed guest access and how it completed
  status      \* "running", "halted" (handler returned -1), "crashed" (host oops)

vars == <<pde, pt, allocated, pending, lastAccess, status>>

ZeroPte   == [present |-> FALSE, writable |-> FALSE, base |-> 0]
ZeroTable == [j \in PteIdx |-> ZeroPte]
ZeroPde   == [present |-> FALSE, writable |-> FALSE, large |-> FALSE, base |-> NullPage]

TypeOK ==
  /\ pde \in [PdeIdx -> [present : BOOLEAN, writable : BOOLEAN, large : BOOLEAN,
                         base : PtPages \cup {NullPage}]]
  /\ pt \in [PtPages -> [PteIdx -> [present : BOOLEAN, writable : BOOLEAN,
                                    base : {0} \cup {HostFrame[a] : a \in Addr}]]]
  /\ allocated \subseteq PtPages
  /\ pending \in {NoAccess} \cup [addr : Addr, write : BOOLEAN, resumed : BOOLEAN]
  /\ lastAccess \in {NoAccess} \cup
        [addr : Addr, write : BOOLEAN, via : {"mmu", "hook"}, frame : Nat]
  /\ status \in {"running", "halted", "crashed"}

Init ==
  /\ pde = [i \in PdeIdx |-> ZeroPde]
  /\ pt = [p \in PtPages |-> ZeroTable]
  /\ allocated = {}
  /\ pending = NoAccess
  /\ lastAccess = NoAccess
  /\ status = "running"

-----------------------------------------------------------------------------
(* The hardware walk of a guest access.                                    *)

Permits(a, w) ==
  LET d == pde[a[1]]
      e == pt[d.base][a[2]]
  IN  /\ d.present /\ ~d.large
      /\ d.base \in PtPages   \* not the V3_PAddr(NULL) of a failed allocation
      /\ e.present
      /\ w => (d.writable /\ e.writable)

\* The guest executes an access; it either completes or exits with #PF.
GuestAccess(a, w) ==
  /\ status = "running"
  /\ pending = NoAccess
  /\ IF Permits(a, w)
       THEN /\ lastAccess' = [addr |-> a, write |-> w, via |-> "mmu",
                              frame |-> pt[pde[a[1]].base][a[2]].base]
            /\ UNCHANGED pending
       ELSE /\ pending' = [addr |-> a, write |-> w, resumed |-> FALSE]
            /\ UNCHANGED lastAccess
  /\ UNCHANGED <<pde, pt, allocated, status>>

\* After the handler returned 0 the guest re-executes the faulting access.
Reexecute ==
  LET a == pending.addr
      w == pending.write
  IN  /\ status = "running"
      /\ pending /= NoAccess /\ pending.resumed
      /\ IF Permits(a, w)
           THEN /\ lastAccess' = [addr |-> a, write |-> w, via |-> "mmu",
                                  frame |-> pt[pde[a[1]].base][a[2]].base]
                /\ pending' = NoAccess
           ELSE /\ pending' = [pending EXCEPT !.resumed = FALSE]
                /\ UNCHANGED lastAccess
      /\ UNCHANGED <<pde, pt, allocated, status>>

-----------------------------------------------------------------------------
(* handle_passthrough_pagefault_32                                         *)

\* Defects of the kind this code could have, each kept next to the definition
\* it replaces to show that a property below tells the two apart.
NeedsTableAlways(i) == TRUE                      \* the present check dropped
LeafBaseTable(tbl, a) == tbl                     \* the table's address, not the frame
LeafWritableHooked(r) == r \in {ALLOCATED, WRITE_HOOK} \* write hook mapped writable
ForwardsWriteNever(r, w) == FALSE                \* trailing write-hook check dropped

\* "if (pde[pde_index].present == 0)": the PDE needs a new page table.
NeedsTable(i) == ~pde[i].present

\* The leaf's page_base_addr: PAGE_BASE_ADDR(host_addr).
LeafBase(tbl, a) == HostFrame[a]

\* The leaf's writable bit: 1 for SHDW_REGION_ALLOCATED, 0 for a write hook.
LeafWritable(r) == r = ALLOCATED

\* The trailing write-hook check: a write to a WRITE_HOOK region is forwarded.
ForwardsWrite(r, w) == r = WRITE_HOOK /\ w

\* Forward to a hook handler: it emulates the access, or fails (-1).
Forward ==
  \/ /\ lastAccess' = [addr |-> pending.addr, write |-> pending.write,
                       via |-> "hook", frame |-> 0]
     /\ pending' = NoAccess
     /\ UNCHANGED status
  \/ /\ status' = "halted"
     /\ UNCHANGED <<pending, lastAccess>>

\* Return 0: the guest resumes and re-executes the access.
Resume ==
  /\ pending' = [pending EXCEPT !.resumed = TRUE]
  /\ UNCHANGED <<lastAccess, status>>

\* The PTE fix-up, given the page table tbl and the table contents ptab
\* after the PDE fix-up.
FixPte(tbl, ptab) ==
  LET a == pending.addr
      j == a[2]
      r == Region[a]
      e == ptab[tbl][j]
  IN  \/ /\ ~e.present /\ r = FULL_HOOK
         /\ pt' = ptab
         /\ Forward
      \/ /\ ~e.present /\ r \notin {ALLOCATED, WRITE_HOOK, FULL_HOOK}
         /\ pt' = ptab
         /\ status' = "halted"
         /\ UNCHANGED <<pending, lastAccess>>
      \/ /\ e.present \/ r \in {ALLOCATED, WRITE_HOOK}
         /\ pt' = IF e.present THEN ptab
                  ELSE [ptab EXCEPT ![tbl][j] =
                          [present |-> TRUE, writable |-> LeafWritable(r),
                           base |-> LeafBase(tbl, a)]]
         /\ IF ForwardsWrite(r, pending.write) THEN Forward ELSE Resume

HandleFault ==
  LET a == pending.addr
      i == a[1]
  IN  /\ status = "running"
      /\ pending /= NoAccess /\ ~pending.resumed
      /\ \/ /\ Region[a] = "NONE"
            /\ status' = "halted"
            /\ UNCHANGED <<pde, pt, allocated, pending, lastAccess>>
         \/ /\ Region[a] /= "NONE"
            /\ ~NeedsTable(i)
            /\ UNCHANGED <<pde, allocated>>
            /\ FixPte(pde[i].base, pt)
         \/ /\ Region[a] /= "NONE"
            /\ NeedsTable(i)
            /\ \E p \in PtPages \ allocated :
                 /\ pde' = [pde EXCEPT ![i] = [present |-> TRUE, writable |-> TRUE,
                                               large |-> FALSE, base |-> p]]
                 /\ allocated' = allocated \cup {p}
                 /\ FixPte(p, [pt EXCEPT ![p] = ZeroTable])

\* create_generic_pt_page finds no free page; nothing checks for NULL, so the
\* host faults, either inside the allocator or on the PTE write after the
\* PDE has been pointed at V3_PAddr(NULL).
AllocFailure ==
  LET i == pending.addr[1]
  IN  /\ status = "running"
      /\ pending /= NoAccess /\ ~pending.resumed
      /\ Region[pending.addr] /= "NONE"
      /\ NeedsTable(i)
      /\ PtPages \ allocated = {}
      /\ \/ UNCHANGED pde
         \/ pde' = [pde EXCEPT ![i] = [present |-> TRUE, writable |-> TRUE,
                                       large |-> FALSE, base |-> NullPage]]
      /\ status' = "crashed"
      /\ UNCHANGED <<pt, allocated, pending, lastAccess>>

-----------------------------------------------------------------------------
(* invalidate_addr_32, run for an intercepted guest INVLPG.                *)

Invalidate(a) ==
  LET i == a[1]
      j == a[2]
  IN  /\ status = "running"
      /\ pending = NoAccess
      /\ IF ~pde[i].present THEN UNCHANGED <<pde, pt>>
         ELSE IF pde[i].large THEN /\ pde' = [pde EXCEPT ![i].present = FALSE]
                                   /\ UNCHANGED pt
         ELSE /\ pt' = [pt EXCEPT ![pde[i].base][j].present = FALSE]
              /\ UNCHANGED pde
      /\ UNCHANGED <<allocated, pending, lastAccess, status>>

\* After a fatal return or a host fault the core no longer runs.
Stopped ==
  /\ status /= "running"
  /\ UNCHANGED vars

Next ==
  \/ \E a \in Addr, w \in BOOLEAN : GuestAccess(a, w)
  \/ Reexecute
  \/ HandleFault
  \/ AllocFailure
  \/ \E a \in Addr : Invalidate(a)
  \/ Stopped

\* The core's one thread services each exit (start_svm_guest loops) and
\* re-enters the guest, which re-executes the faulting instruction.
Fairness == WF_vars(HandleFault \/ AllocFailure) /\ WF_vars(Reexecute)

Spec == Init /\ [][Next]_vars /\ Fairness

-----------------------------------------------------------------------------
(* Properties                                                              *)

\* Every page-table page handed out is referenced by exactly one present
\* PDE: the PDE fix-up allocates a table only for an absent PDE and never
\* replaces (and so leaks) a table a PDE already points to. (A PDE pointed
\* at V3_PAddr(NULL) on exhaustion is AllocFailureContained's concern.)
TablesNotLeaked ==
  LET linked == {k \in PdeIdx : pde[k].present /\ pde[k].base \in PtPages}
  IN  /\ allocated = {pde[i].base : i \in linked}
      /\ \A i, k \in linked : i /= k => pde[i].base /= pde[k].base

\* A guest access that faulted is eventually completed (directly or by a
\* hook) unless the core stops: a fix-up that returns 0 must leave an entry
\* the re-executed access gets through, or the guest re-faults forever.
AccessEventuallyCompletes ==
  \A a \in Addr, w \in BOOLEAN :
    pending = [addr |-> a, write |-> w, resumed |-> FALSE] ~>
      (pending = NoAccess \/ status /= "running")

\* The page's mapping as the hardware walk sees it.
PermOf(a) == IF Permits(a, TRUE) THEN "rw" ELSE IF Permits(a, FALSE) THEN "ro" ELSE "none"

\* The host fault of a failed table allocation is, to the engine's caller,
\* the fault failing and the core stopping (whether only this core stops
\* is AllocFailureContained's question).
AbsStatus == IF status = "crashed" THEN "halted" ELSE status

Abs == INSTANCE ShadowPagingSpec
         WITH Policy <- Region, Frame <- HostFrame, perm <- [a \in Addr |-> PermOf(a)],
              status <- AbsStatus

\* The two-level engine implements the depth-independent engine of
\* ShadowPagingSpec: every fault maps exactly its own page as the region's
\* policy says (or forwards it), building a table never disturbs another
\* page's mapping, and an invalidation unmaps exactly one page.
ImplementsShadowPaging == Abs!Spec

\* A page-table allocation failure fails the fault of this core and nothing
\* else (spec section 5): the host never faults, and no present PDE points
\* outside the allocated page tables.
AllocFailureContained ==
  /\ status /= "crashed"
  /\ \A i \in PdeIdx : pde[i].present /\ ~pde[i].large => pde[i].base \in allocated
=============================================================================
