------------------------------ MODULE Devices ------------------------------
(***************************************************************************)
(* The devices of one VM built from src/palacios/src/devices: the generic *)
(* port devices of Generic and a file-backed disk of FileDisk. They share *)
(* no state under src/; the device manager (outside src/) initialises and  *)
(* frees each of them, and the guest's port I/O and the disk frontend's    *)
(* transfers interleave freely with those steps.                           *)
(***************************************************************************)
EXTENDS Generic, FileDisk

DevicesInit == Init /\ FileDiskInit

DevicesNext ==
  \/ Next /\ UNCHANGED diskVars
  \/ DiskNext /\ UNCHANGED vars

DevicesSpec == DevicesInit /\ [][DevicesNext]_<<vars, diskVars>>
=============================================================================
