------------------------------ MODULE MC_FileDisk ------------------------------
(* The file disk alone, for an image larger than the int narrowing of its *)
(* offsets can address.                                                   *)
EXTENDS FileDisk

\* Every combination of "path" present, "writable" and "readable".
MCDiskCfgs == [path : BOOLEAN, writable : {"1", "0", "absent"}, readable : {"1", "0", "absent"}]
=============================================================================
