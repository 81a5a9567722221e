--------------------------- MODULE DirectPaging64 ---------------------------
(***************************************************************************)
(* The 64-bit passthrough page-table engine of                             *)
(* src/palacios/src/palacios/vmm_direct_paging_64.h: the page-fault        *)
(* handler handle_passthrough_pagefault_64, which builds the four-level    *)
(* table (PML4, PDP, PD, PT) on demand, and invalidate_addr_64.            *)
(*                                                                         *)
(* Unlike the 32-bit engine, the leaf is decided by the region's flags    *)
(* (alloced, read, write, hook). An address is a 4-tuple of table indices, *)
(* a table page is a function from index to entry, and the root PML4 page *)
(* is the constant Root (info->ctrl_regs.cr3 or info->direct_map_pt).      *)
(***************************************************************************)
EXTENDS Naturals, FiniteSets

CONSTANTS
  PmlIdx, PdpIdx, PdIdx, PtIdx,  \* table indices the model uses at each level
  PtPages,    \* pages create_generic_pt_page can hand out
  Root,       \* the PML4 page
  NullPage,   \* V3_PAddr(NULL)
  HostFrame,  \* v3_get_shadow_addr: guest page -> host frame (a number > 0)
  Policy      \* the region of each page, by its spec policy, or "NONE"

Addr == PmlIdx \X PdpIdx \X PdIdx \X PtIdx
Idx == PmlIdx \cup PdpIdx \cup PdIdx \cup PtIdx
Pages == PtPages \cup {Root}

ASSUME /\ Policy \in [Addr -> {"ALLOCATED", "WRITE_HOOK", "FULL_HOOK", "NONE"}]
       /\ HostFrame \in [Addr -> Nat \ {0}]
       /\ Root \notin PtPages /\ NullPage \notin Pages

NoAccess == [none |-> TRUE]
NoRegion == [none |-> TRUE]

\* The flags v3_get_shadow_region's region carries for each policy (the
\* region constructors of vmm_mem are outside src/).
RegionFlags(pol) ==
  CASE pol = "ALLOCATED"  -> [alloced |-> TRUE,  read |-> TRUE,  write |-> TRUE,  hook |-> FALSE]
    [] pol = "WRITE_HOOK" -> [alloced |-> TRUE,  read |-> TRUE,  write |-> FALSE, hook |-> TRUE]
    [] pol = "FULL_HOOK"  -> [alloced |-> FALSE, read |-> FALSE, write |-> FALSE, hook |-> TRUE]
    [] OTHER              -> NoRegion

Region == [a \in Addr |-> RegionFlags(Policy[a])]

VARIABLES
  tbl,        \* page -> index -> entry, for the root and every table page
  allocated,  \* the table pages handed out so far
  pending,    \* the guest access waiting on a #PF exit, or NoAccess
  lastAccess, \* the last completed guest access
  status      \* "running", "halted" (handler returned -1), "crashed"

vars == <<tbl, allocated, pending, lastAccess, status>>

ZeroEntry == [present |-> FALSE, writable |-> FALSE, large |-> FALSE, base |-> NullPage]
ZeroTable == [i \in Idx |-> ZeroEntry]

TypeOK ==
  /\ tbl \in [Pages -> [Idx -> [present : BOOLEAN, writable : BOOLEAN, large : BOOLEAN,
                                base : PtPages \cup {NullPage} \cup {HostFrame[a] : a \in Addr}]]]
  /\ allocated \subseteq PtPages
  /\ pending \in {NoAccess} \cup [addr : Addr, write : BOOLEAN, resumed : BOOLEAN]
  /\ lastAccess \in {NoAccess} \cup
        [addr : Addr, write : BOOLEAN, via : {"mmu", "hook"}, frame : Nat]
  /\ status \in {"running", "halted", "crashed"}

Init ==
  /\ tbl = [p \in Pages |-> ZeroTable]
  /\ allocated = {}
  /\ pending = NoAccess
  /\ lastAccess = NoAccess
  /\ status = "running"

-----------------------------------------------------------------------------
(* The hardware walk.                                                      *)

\* The page holding the level-l table of a's walk (level 1 is the PML4).
\* (NullPage once an entry above points at V3_PAddr(NULL).)
RECURSIVE TableAt(_, _, _)
TableAt(t, a, l) ==
  IF l = 1 THEN Root
  ELSE LET up == TableAt(t, a, l - 1)
       IN  IF up \in Pages THEN t[up][a[l - 1]].base ELSE NullPage

Leaf(t, a) == t[TableAt(t, a, 4)][a[4]]

Permits(a, w) ==
  \A l \in 1..4 :
    LET p == TableAt(tbl, a, l)
    IN  /\ p \in Pages
        /\ tbl[p][a[l]].present /\ (w => tbl[p][a[l]].writable)
        /\ l < 4 => ~tbl[p][a[l]].large

Complete(a, w) == lastAccess' = [addr |-> a, write |-> w, via |-> "mmu", frame |-> Leaf(tbl, a).base]

GuestAccess(a, w) ==
  /\ status = "running" /\ pending = NoAccess
  /\ IF Permits(a, w) THEN Complete(a, w) /\ UNCHANGED pending
     ELSE pending' = [addr |-> a, write |-> w, resumed |-> FALSE] /\ UNCHANGED lastAccess
  /\ UNCHANGED <<tbl, allocated, status>>

Reexecute ==
  LET a == pending.addr
      w == pending.write
  IN  /\ status = "running" /\ pending /= NoAccess /\ pending.resumed
      /\ IF Permits(a, w) THEN Complete(a, w) /\ pending' = NoAccess
         ELSE pending' = [pending EXCEPT !.resumed = FALSE] /\ UNCHANGED lastAccess
      /\ UNCHANGED <<tbl, allocated, status>>

-----------------------------------------------------------------------------
(* handle_passthrough_pagefault_64                                         *)

NeedsTableAlways(e) == TRUE                           \* a defect: present check dropped
\* "if (pml[pml_index].present == 0)", and the same for the PDPE and PDE.
NeedsTable(e) == ~e.present

\* The PML4, PDPE and PDE fix-ups, from level l down: an absent entry gets
\* a fresh zeroed page (present, writable, user). The result is the tables,
\* the page reached and its level (4: the leaf table), the pages used, and
\* whether the allocator ran dry at that level.
RECURSIVE FixUp(_, _, _, _, _)
FixUp(t, a, page, l, alloc) ==
  IF l = 4 THEN [t |-> t, leaf |-> page, level |-> l, alloc |-> alloc, oom |-> FALSE]
  ELSE LET e == t[page][a[l]]
       IN  IF ~NeedsTable(e) THEN FixUp(t, a, e.base, l + 1, alloc)
           ELSE IF PtPages \ alloc = {}
             THEN [t |-> t, leaf |-> page, level |-> l, alloc |-> alloc, oom |-> TRUE]
           ELSE LET p == CHOOSE q \in PtPages \ alloc : TRUE
                IN  FixUp([t EXCEPT ![page][a[l]] = [present |-> TRUE, writable |-> TRUE,
                                                     large |-> FALSE, base |-> p],
                                    ![p] = ZeroTable],
                          a, p, l + 1, alloc \cup {p})

\* "(region->flags.alloced == 1) && (region->flags.read == 1)"
LeafPresent(r) == r.alloced /\ r.read

LeafBaseUnset(a) == 0                                 \* a defect: host_addr still 0
\* "pte.page_base_addr = PAGE_BASE_ADDR(host_addr)", host_addr from
\* v3_get_shadow_addr.
LeafBase(a) == HostFrame[a]

LeafWritableAlways(r) == TRUE                         \* a defect: the write flag ignored
\* "if (region->flags.write == 1) pte.writable = 1 else 0"
LeafWritable(r) == r.write

HookTriggerWriteOnly(r, w) == r.hook /\ w              \* a defect: "|| read == 0" dropped
\* "flags.hook == 1" and "(error_code.write == 1) || (flags.read == 0)"
HookTrigger(r, w) == r.hook /\ (w \/ ~r.read)

\* The hook handler (v3_handle_mem_hook) emulates the access, or fails.
Forward ==
  \/ /\ lastAccess' = [addr |-> pending.addr, write |-> pending.write,
                       via |-> "hook", frame |-> 0]
     /\ pending' = NoAccess
     /\ UNCHANGED status
  \/ /\ status' = "halted"
     /\ UNCHANGED <<pending, lastAccess>>

HandleFault ==
  LET a == pending.addr
      r == Region[a]
      x == FixUp(tbl, a, Root, 1, allocated)
      e == x.t[x.leaf][a[4]]
  IN  /\ status = "running"
      /\ pending /= NoAccess /\ ~pending.resumed
      /\ \/ /\ r = NoRegion
            /\ status' = "halted"
            /\ UNCHANGED <<tbl, allocated, pending, lastAccess>>
         \* create_generic_pt_page returned NULL; nothing checks, so the host
         \* faults in the allocator or after the entry is pointed at NULL.
         \/ /\ r /= NoRegion /\ x.oom
            /\ tbl' \in {x.t, [x.t EXCEPT ![x.leaf][a[x.level]] =
                                 [present |-> TRUE, writable |-> TRUE,
                                  large |-> FALSE, base |-> NullPage]]}
            /\ allocated' = x.alloc
            /\ status' = "crashed"
            /\ UNCHANGED <<pending, lastAccess>>
         \/ /\ r /= NoRegion /\ ~x.oom
            /\ tbl' = IF ~e.present /\ LeafPresent(r)
                        THEN [x.t EXCEPT ![x.leaf][a[4]] =
                                [present |-> TRUE, writable |-> LeafWritable(r),
                                 large |-> FALSE, base |-> LeafBase(a)]]
                        ELSE x.t
            /\ allocated' = x.alloc
            /\ IF HookTrigger(r, pending.write)
                 THEN Forward
                 ELSE /\ pending' = [pending EXCEPT !.resumed = TRUE]
                      /\ UNCHANGED <<lastAccess, status>>

-----------------------------------------------------------------------------
(* invalidate_addr_64: clear the first absent-or-large level's entry, or   *)
(* the leaf.                                                               *)

Invalidate(a) ==
  LET pml == tbl[Root][a[1]]
      pdpPage == pml.base
      pdpe == tbl[pdpPage][a[2]]
      pdPage == pdpe.base
      pde == tbl[pdPage][a[3]]
  IN  /\ status = "running" /\ pending = NoAccess
      /\ tbl' = IF ~pml.present \/ ~pdpe.present THEN tbl
                ELSE IF pdpe.large THEN [tbl EXCEPT ![pdpPage][a[2]].present = FALSE]
                ELSE IF ~pde.present THEN tbl
                ELSE IF pde.large THEN [tbl EXCEPT ![pdPage][a[3]].present = FALSE]
                ELSE [tbl EXCEPT ![pde.base][a[4]].present = FALSE]
      /\ UNCHANGED <<allocated, pending, lastAccess, status>>

Stopped ==
  /\ status /= "running"
  /\ UNCHANGED vars

Next ==
  \/ \E a \in Addr, w \in BOOLEAN : GuestAccess(a, w)
  \/ Reexecute
  \/ HandleFault
  \/ \E a \in Addr : Invalidate(a)
  \/ Stopped

\* As for the 32-bit engine: the core's thread services every exit and the
\* guest re-executes the faulting instruction.
Fairness == WF_vars(HandleFault) /\ WF_vars(Reexecute)

Spec == Init /\ [][Next]_vars /\ Fairness

-----------------------------------------------------------------------------
(* Properties                                                              *)

PermOf(a) == IF Permits(a, TRUE) THEN "rw" ELSE IF Permits(a, FALSE) THEN "ro" ELSE "none"

\* As for the 32-bit engine, the host fault of a failed table allocation is
\* the fault failing and the core stopping.
AbsStatus == IF status = "crashed" THEN "halted" ELSE status

Abs == INSTANCE ShadowPagingSpec
         WITH Frame <- HostFrame, perm <- [a \in Addr |-> PermOf(a)], status <- AbsStatus

\* The four-level engine implements the same depth-independent engine as
\* the two-level one: the flag tests of the leaf fix-up and of the hook
\* check give each policy exactly its mapping and its forwarding, and the
\* three intermediate fix-ups never disturb another page's mapping.
ImplementsShadowPaging == Abs!Spec

\* Every table page handed out is referenced by exactly one present entry
\* of a table above it: each level is built once per index and never
\* replaced.
TablesNotLeaked ==
  LET refs == {<<p, i>> \in (Pages) \X Idx : tbl[p][i].present /\ tbl[p][i].base \in PtPages}
  IN  /\ allocated = {tbl[r[1]][r[2]].base : r \in refs}
      /\ \A r, s \in refs : r /= s => tbl[r[1]][r[2]].base /= tbl[s[1]][s[2]].base

\* A faulting access is eventually completed, directly or by a hook, unless
\* the core stops: the flag tests never return 0 with an entry that still
\* refuses the re-executed access.
AccessEventuallyCompletes ==
  \A a \in Addr, w \in BOOLEAN :
    pending = [addr |-> a, write |-> w, resumed |-> FALSE] ~>
      (pending = NoAccess \/ status /= "running")
=============================================================================
