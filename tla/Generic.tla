------------------------------- MODULE Generic -------------------------------
(***************************************************************************)
(* The generic port device of src/palacios/src/devices/generic.c: each     *)
(* instance reads a list of port ranges from its configuration and hooks  *)
(* every port of a range with the passthrough or the ignore handlers;     *)
(* generic_free unhooks the ranges it recorded.                           *)
(*                                                                         *)
(* The I/O hook table of the VM (v3_dev_hook_io, v3_dev_unhook_io) is     *)
(* outside src/: hooking an already hooked port fails, unhooking removes  *)
(* whatever hook the port has, and fails if there is none. Only the ports *)
(* of the set Ports are tracked; no other port is ever hooked by another  *)
(* device, so hooking one cannot fail and need not be recorded.           *)
(***************************************************************************)
EXTENDS Naturals, Sequences, SequencesExt

CONSTANTS
  Devs,       \* generic device instances
  Cfg,        \* device -> its "ports" subtree: a sequence of [start, end, mode]
  Ports,      \* the port numbers tracked
  Others,     \* port -> the device of another kind hooking it at boot, or NoDev
  NoDev,
  Vals        \* port values the guest writes or the hardware holds

NoHook == [dev |-> NoDev, kind |-> "none"]
NoIo == [port |-> -1, len |-> 0, hw |-> {}]   \* no access yet (-1 is no port)
IoLens == {1, 2, 4}   \* the operand sizes of IN and OUT
OtherDevs == {Others[p] : p \in Ports} \ {NoDev}

VARIABLES
  hooks,       \* port -> [dev, kind]: the VM's I/O hook table
  port_list,   \* device -> its recorded ranges, head first (list_add)
  num_port_ranges,
  devState,    \* "none", "unattached", "running", "initfailed", "freed"
  hw,          \* port -> the value the hardware port holds
  lastIo       \* the guest's I/O since the devices last changed: its first
               \* port, its size, and the ports whose hardware it drove; or NoIo

vars == <<hooks, port_list, num_port_ranges, devState, hw, lastIo>>

PortRange == [start : 0..65535, end : 0..65535, mode : {"IGNORE", "PRINT_AND_IGNORE",
                                                  "PRINT_AND_PASSTHROUGH", "PASSTHROUGH"}]

TypeOK ==
  /\ hooks \in [Ports -> {NoHook} \cup [dev : Devs \cup OtherDevs, kind : {"passthrough", "ignore", "other"}]]
  /\ port_list \in [Devs -> Seq(PortRange)]
  /\ num_port_ranges \in [Devs -> Nat]
  /\ devState \in [Devs -> {"none", "unattached", "running", "initfailed", "freed"}]
  /\ hw \in [Ports -> Vals]
  /\ lastIo \in {NoIo} \cup [port : Ports, len : IoLens, hw : SUBSET Ports]

Init ==
  /\ hooks = [p \in Ports |-> IF Others[p] = NoDev THEN NoHook
                              ELSE [dev |-> Others[p], kind |-> "other"]]
  /\ port_list = [d \in Devs |-> <<>>]
  /\ num_port_ranges = [d \in Devs |-> 0]
  /\ devState = [d \in Devs |-> "none"]
  /\ hw \in [Ports -> Vals]
  /\ lastIo = NoIo

-----------------------------------------------------------------------------
(* generic_init and add_port_range                                         *)

Parse16Untruncated(x) == x                   \* a defect: the uint16_t narrowing lost
\* "uint16_t start = atox(...)": the parsed number narrowed to 16 bits.
Parse16(x) == x % 65536

\* The mode string of a port entry, or "INVALID" for "Invalid Mode".
ModeOf(s) == CASE s = "print_and_ignore"      -> "PRINT_AND_IGNORE"
               [] s = "print_and_passthrough" -> "PRINT_AND_PASSTHROUGH"
               [] OTHER                       -> "INVALID"

\* The handler pair add_port_range hooks for a mode; "none" hooks nothing.
Handlers(mode) == CASE mode = "PRINT_AND_PASSTHROUGH" -> "passthrough"
                    [] mode = "PRINT_AND_IGNORE"      -> "ignore"
                    [] OTHER                          -> "none"

\* v3_dev_hook_io for a port not hooked yet.
HookIo(h, d, p, kind) == [h EXCEPT ![p] = [dev |-> d, kind |-> kind]]

\* "for (i = start; i <= end; i++)" hooking each port in order; the first
\* port already hooked returns -1 with the earlier ones left hooked.
RECURSIVE HookPorts(_, _, _, _)
HookPorts(h, d, ps, kind) ==
  IF ps = <<>> \/ kind = "none" THEN [hooks |-> h, ok |-> TRUE]
  ELSE IF h[Head(ps)] /= NoHook THEN [hooks |-> h, ok |-> FALSE]
  ELSE HookPorts(HookIo(h, d, Head(ps), kind), d, Tail(ps), kind)

PortsIn(r) == SetToSortSeq({p \in Ports : r.start <= p /\ p <= r.end}, <)

\* The "while (port_cfg)" loop: the state after the entries, and whether
\* generic_init returns 0.
RECURSIVE ScanPorts(_, _, _, _)
ScanPorts(d, cfg, h, list) ==
  IF cfg = <<>> THEN [hooks |-> h, list |-> list, ok |-> TRUE]
  ELSE LET c == Head(cfg)
           r == [start |-> Parse16(c.start), end |-> Parse16(c.end), mode |-> ModeOf(c.mode)]
           x == HookPorts(h, d, PortsIn(r), Handlers(r.mode))
       IN  IF r.mode = "INVALID" THEN [hooks |-> h, list |-> list, ok |-> FALSE]
           ELSE IF ~x.ok THEN [hooks |-> x.hooks, list |-> list, ok |-> FALSE]
           ELSE ScanPorts(d, Tail(cfg), x.hooks, <<r>> \o list)

GenericInit(d) ==
  LET x == ScanPorts(d, Cfg[d], hooks, <<>>)
  IN  /\ devState[d] = "none"
      /\ \/ /\ devState' = [devState EXCEPT ![d] = "unattached"]   \* v3_attach_device failed
            /\ UNCHANGED <<hooks, port_list, num_port_ranges>>
         \/ /\ hooks' = x.hooks
            /\ port_list' = [port_list EXCEPT ![d] = x.list]
            /\ num_port_ranges' = [num_port_ranges EXCEPT ![d] = Len(x.list)]
            /\ devState' = [devState EXCEPT ![d] = IF x.ok THEN "running" ELSE "initfailed"]
      /\ lastIo' = NoIo
      /\ UNCHANGED hw

-----------------------------------------------------------------------------
(* generic_free, called by the device manager for an attached device      *)

UnhookRangeShort(r) == {p \in Ports : r.start <= p /\ p < r.end}   \* a defect: "i < end"
\* "for (i = cur->start; i <= cur->end; i++) v3_dev_unhook_io(dev, i)"
UnhookRange(r) == {p \in Ports : r.start <= p /\ p <= r.end}

GenericFree(d) ==
  LET freed == UNION {UnhookRange(port_list[d][i]) : i \in DOMAIN port_list[d]}
  IN  /\ devState[d] \in {"running", "initfailed"}
      /\ hooks' = [p \in Ports |-> IF p \in freed THEN NoHook ELSE hooks[p]]
      /\ port_list' = [port_list EXCEPT ![d] = <<>>]
      /\ num_port_ranges' = [num_port_ranges EXCEPT ![d] = @ - Len(port_list[d])]
      /\ devState' = [devState EXCEPT ![d] = "freed"]
      /\ lastIo' = NoIo
      /\ UNCHANGED hw

-----------------------------------------------------------------------------
(* The guest's IN and OUT of 1, 2 or 4 bytes. The I/O exit handler       *)
(* (outside src/) calls the hook of the access's first port with its size. *)

\* The tracked ports an access of len bytes at p covers.
PortsOf(p, len) == {q \in Ports : p <= q /\ q < p + len}

\* The passthrough handlers' "switch (length)": v3_outb/outw/outdw (and
\* v3_inb/inw/indw) at p drive ports p to p + len - 1; any other length
\* repeats a byte access at p.
PassthroughPorts(p, len) == IF len \in {1, 2, 4} THEN PortsOf(p, len) ELSE PortsOf(p, 1)

\* The ports a hook's handler drives: generic_read_port_ignore returns a
\* zeroed buffer and generic_write_port_ignore drops the data; another
\* device's handler is taken to drive none of the tracked ports.
HandlerPorts(kind, p, len) == IF kind = "passthrough" THEN PassthroughPorts(p, len) ELSE {}

\* An access whose first port is hooked goes to that hook alone. One whose
\* first port is unhooked exits if any of its bytes is hooked (the IOPM
\* has a bit per byte), finds no hook and fails; otherwise it reaches the
\* hardware directly.
HwTouched(p, len) ==
  IF hooks[p] /= NoHook THEN HandlerPorts(hooks[p].kind, p, len)
  ELSE IF \E q \in PortsOf(p, len) : hooks[q] /= NoHook THEN {}
  ELSE PortsOf(p, len)

GuestIn(p, len) ==
  /\ lastIo' = [port |-> p, len |-> len, hw |-> HwTouched(p, len)]
  /\ UNCHANGED <<hooks, port_list, num_port_ranges, devState, hw>>

GuestOut(p, len, v) ==
  /\ hw' = [q \in Ports |-> IF q \in HwTouched(p, len) THEN v ELSE hw[q]]
  /\ lastIo' = [port |-> p, len |-> len, hw |-> HwTouched(p, len)]
  /\ UNCHANGED <<hooks, port_list, num_port_ranges, devState>>

Next ==
  \/ \E d \in Devs : GenericInit(d) \/ GenericFree(d)
  \/ \E p \in Ports, len \in IoLens : GuestIn(p, len) \/ \E v \in Vals : GuestOut(p, len, v)

Spec == Init /\ [][Next]_vars

-----------------------------------------------------------------------------
(* Properties                                                              *)

\* Once the device manager has freed a generic device, no port is left
\* hooked to it: generic_free walks every recorded range from start to end
\* inclusive, and every port the device hooked lies in a recorded range.
NoHookAfterFree ==
  \A d \in Devs : devState[d] = "freed" => \A p \in Ports : hooks[p].dev /= d

=============================================================================
