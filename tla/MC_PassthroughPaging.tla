----------------------- MODULE MC_PassthroughPaging -----------------------
(***************************************************************************)
(* Model-checking instance of PassthroughPaging. The two-level variant has *)
(* two PDEs of three PTEs each and one table page, and every region kind;  *)
(* the four-level one has one PML4 entry, two PDP entries, one PD entry    *)
(* and two PT entries, with three table pages for the five tables its four *)
(* guest pages need.                                                       *)
(***************************************************************************)
EXTENDS PassthroughPaging

\* PDE 0 holds an ALLOCATED, a WRITE_HOOK and a FULL_HOOK page; PDE 1 an
\* ALLOCATED page, a region of unknown host_type and a guest page with no
\* region at all.
MCRegion32 ==
  [a \in PdeIdx \X PteIdx |->
     CASE a = <<0, 0>> -> "ALLOCATED"
       [] a = <<0, 1>> -> "WRITE_HOOK"
       [] a = <<0, 2>> -> "FULL_HOOK"
       [] a = <<1, 0>> -> "ALLOCATED"
       [] a = <<1, 1>> -> "INVALID"
       [] OTHER        -> "NONE"]

\* Under PDPE 0 an ALLOCATED and a WRITE_HOOK page; under PDPE 1 a
\* FULL_HOOK page and a guest page with no region.
MCPolicy64 ==
  [a \in PmlIdx \X PdpIdx \X PdIdx \X PtIdx |->
     CASE a[2] = 0 /\ a[4] = 0 -> "ALLOCATED"
       [] a[2] = 0             -> "WRITE_HOOK"
       [] a[4] = 0             -> "FULL_HOOK"
       [] OTHER                -> "NONE"]

\* Distinct host frames in each variant, so a leaf at the wrong frame shows.
MCHostFrame32 == [a \in PdeIdx \X PteIdx |-> 1 + 3 * a[1] + a[2]]
MCHostFrame64 == [a \in PmlIdx \X PdpIdx \X PdIdx \X PtIdx |-> 1 + 2 * a[2] + a[4]]
=============================================================================
