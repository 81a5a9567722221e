\* Port 0x61 of g1's ignore range is already hooked by the keyboard: does
\* the failed add_port_range leave no port behind once g1 is freed?
CONSTANTS
  Devs = {"g1", "g2"}
  Ports <- MCPorts
  Cfg <- MCCfg
  Others <- MCOthersKbd
  NoDev = "none"
  Vals = {0, 1}
SPECIFICATION Spec
INVARIANTS
  NoHookAfterFree
