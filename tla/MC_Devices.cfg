\* The disjoint generic configuration of MC_Generic, and a disk image of
\* 2^IntBits bytes: the largest image whose offsets the int narrowing does
\* not wrap, with every offset of its upper half negative as an int.
CONSTANTS
  Devs = {"g1", "g2"}
  Ports <- MCPorts
  Cfg <- MCCfg
  Others <- MCOthersNone
  NoDev = "none"
  Vals = {0}
  IntBits = 3
  ImageSize = 8
  MaxReq = 2
  DiskCfgs <- MCDiskCfgs
SPECIFICATION DevicesSpec
INVARIANTS
  TypeOK
  DiskTypeOK
  NoHookAfterFree
