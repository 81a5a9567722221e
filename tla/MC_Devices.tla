------------------------------ MODULE MC_Devices ------------------------------
(* The generic devices of MC_Generic beside a file disk whose C int is 3  *)
(* bits wide, so that the image's 8 bytes stand for 4 GiB: offsets 4 to 7  *)
(* are the ones at or above 2 GiB, whose int is negative.                 *)
EXTENDS MC_Generic, Devices

\* Every combination of "path" present, "writable" and "readable".
MCDiskCfgs == [path : BOOLEAN, writable : {"1", "0", "absent"}, readable : {"1", "0", "absent"}]
=============================================================================
