----------------------------- MODULE MC_SvmVcore -----------------------------
(* A core whose guest touches one ALLOCATED and one WRITE_HOOK page, each   *)
(* under its own directory slot, with one device port hooked at the end of *)
(* an IOPM byte and a 4-bit TSC.                                            *)
EXTENDS SvmVcore

MCRegion ==
  [a \in PdeIdx \X PteIdx |-> IF a[1] = 0 THEN "ALLOCATED" ELSE "WRITE_HOOK"]

MCHostFrame == [a \in PdeIdx \X PteIdx |-> 1 + a[1] + a[2]]
=============================================================================
