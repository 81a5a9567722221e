------------------------- MODULE MC_DirectPaging32 -------------------------
(***************************************************************************)
(* Model-checking instance of DirectPaging32: two page-directory entries   *)
(* with three page-table entries each, and one guest page of every region  *)
(* kind, so each branch of the fault handler is reachable.                 *)
(***************************************************************************)
EXTENDS DirectPaging32

\* PDE 0 holds an ALLOCATED, a WRITE_HOOK and a FULL_HOOK page; PDE 1 an
\* ALLOCATED page, a region of unknown host_type and a guest page with no
\* region at all.
MCRegion ==
  [a \in Addr |->
     CASE a = <<0, 0>> -> ALLOCATED
       [] a = <<0, 1>> -> WRITE_HOOK
       [] a = <<0, 2>> -> FULL_HOOK
       [] a = <<1, 0>> -> ALLOCATED
       [] a = <<1, 1>> -> "INVALID"
       [] OTHER        -> "NONE"]

\* Distinct host frames, so a leaf pointing at the wrong frame shows.
MCHostFrame == [a \in Addr |-> 1 + 3 * a[1] + a[2]]
=============================================================================
