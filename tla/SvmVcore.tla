------------------------------ MODULE SvmVcore ------------------------------
(***************************************************************************)
(* One SVM virtual core (src/palacios/src/palacios/svm.c): the control     *)
(* block built by Allocate_VMCB, Init_VMCB_BIOS and init_svm_guest, and    *)
(* the world-switch loop start_svm_guest, composed with the hardware it    *)
(* drives (VMRUN, #VMEXIT, the TLB, the guest's TSC and I/O) and with the  *)
(* passthrough page-table engine of DirectPaging32, which services the     *)
(* page-fault and INVLPG exits. The host's bring-up (SvmCapability) comes  *)
(* first: init_svm_guest and start_svm_guest are reached only through the *)
(* vmm_ops Init_SVM installs, after is_svm_capable returned 1.            *)
(*                                                                         *)
(* handle_svm_exit and v3_update_time live outside src/; their effect is   *)
(* modelled from the spec (sections 4.4 and 6). The initial shadow table   *)
(* create_passthrough_pde32_pts returns is the model value Root and starts *)
(* empty: the engine fills it on demand.                                   *)
(***************************************************************************)
EXTENDS Naturals, FiniteSets, Bitwise, SvmCapability

CONSTANTS
  PdeIdx, PteIdx, PtPages, HostFrame, Region, NullPage,  \* as in DirectPaging32
  ShdwPgMode,   \* vm_info.shdw_pg_mode: "SHADOW_PAGING" or "NESTED_PAGING"
  HookedPorts,  \* ports of vm_info.io_map (hooked by devices)
  Root,         \* the page directory create_passthrough_pde32_pts returns
  TscBits,      \* width of the modelled TSC (64 in the code)
  HostTsc0,     \* the host TSC when the core starts
  MaxTsc        \* bound on the host TSC, to keep the model finite

ASSUME /\ ShdwPgMode \in {"SHADOW_PAGING", "NESTED_PAGING"}
       /\ HookedPorts \subseteq 0..65535
       /\ HostTsc0 <= MaxTsc /\ MaxTsc < 2^TscBits

VARIABLES
  pde, pt, allocated, pending, lastAccess, status,  \* the paging engine
  pc,            \* where the core's thread is in start_svm_guest
  gif,           \* the host's global interrupt flag (CLGI/STGI)
  vmcb,          \* the fields of the VMCB this model keeps
  info,          \* the guest_info fields: vm_regs.rdx and shdw_pg_state.shadow_cr3
  hostTsc,       \* the host time-stamp counter
  guestTsc,      \* info->time_state.guest_tsc
  cachedHostTsc, \* info->time_state.cached_host_tsc
  tlb,           \* the guest's TLB: page -> [frame, writable]
  exitInfo,      \* exit_code (and address) of the last #VMEXIT
  lastGuestTsc,  \* history: the last TSC value the guest read
  lastIo,        \* history: the last guest port access and whether it trapped
  invalidated    \* history: pages invalidated and not yet faulted back in

pagingVars == <<pde, pt, allocated, pending, lastAccess, status>>
coreVars == <<pc, gif, vmcb, info, hostTsc, guestTsc, cachedHostTsc, tlb,
              exitInfo, lastGuestTsc, lastIo, invalidated>>
vars == <<capVars, pagingVars, coreVars>>

P == INSTANCE DirectPaging32

TscMod == 2^TscBits
NoExit == [reason |-> "NONE", addr |-> <<>>]
NoIopm == [b \in {} |-> 0]

\* Every port on either side of a hooked one, in the same and in the next
\* bitmap byte, and the two ends of the port space.
ProbePorts ==
  {0, 65535} \cup
  {q \in 0..65535 : \E p \in HookedPorts : q \in {p - 8, p - 1, p, p + 1, p + 8}}

TypeOK ==
  /\ CapTypeOK
  /\ P!TypeOK
  /\ pc \in {"uninit", "host", "entry", "guest", "exited", "dispatch", "done"}
  /\ gif \in BOOLEAN
  /\ hostTsc \in 0..MaxTsc
  /\ guestTsc \in 0..MaxTsc
  /\ cachedHostTsc \in 0..MaxTsc
  /\ \A a \in DOMAIN tlb : a \in P!Addr /\ tlb[a] \in [frame : Nat, writable : BOOLEAN]
  /\ lastGuestTsc \in 0..(TscMod - 1)
  /\ invalidated \subseteq P!Addr

-----------------------------------------------------------------------------
(* Allocate_VMCB, Init_VMCB_BIOS and init_svm_guest                        *)

ExceptionInterceptsNoPf ==   \* a defect: the #PF intercept left out
  {"de", "df", "ts", "ss", "ac", "mc", "gp", "ud", "np", "of", "nmi"}
\* ctrl_area->exceptions.* = 1
ExceptionIntercepts ==
  {"de", "df", "pf", "ts", "ss", "ac", "mc", "gp", "ud", "np", "of", "nmi"}

\* cr_reads.cr0, cr_writes.cr0, svm_instrs.VMRUN, instrs.HLT
InstrIntercepts == {"cr0_read", "cr0_write", "VMRUN", "HLT"}

IntrInterceptNone == {}   \* a defect: "Exiting on interrupts" left out
\* guest_ctrl.V_INTR_MASKING = 1 and instrs.INTR = 1
IntrIntercept == {"INTR"}

IopmBitShifted(port) == 2^((port + 1) % 8)  \* a defect: bit index off by one
\* "*bitmap |= 1 << (port % 8)" on the byte at port / 8
IopmBit(port) == 2^(port % 8)

IopmSetBit(bm, port) == [bm EXCEPT ![port \div 8] = @ | IopmBit(port)]

RECURSIVE IopmSetAll(_, _)
IopmSetAll(bm, ports) ==
  IF ports = {} THEN bm
  ELSE LET p == CHOOSE q \in ports : TRUE
       IN  IopmSetAll(IopmSetBit(bm, p), ports \ {p})

\* The three zeroed pages, of which only the bytes hooked ports touch are kept.
BuildIopm(ports) == IopmSetAll([b \in {p \div 8 : p \in ports} |-> 0], ports)

TlbControlOff == 0   \* a defect: the flush-on-VMRUN the comment calls a performance killer
\* ctrl_area->TLB_CONTROL = 1 in the shadow-paging branch
TlbControl == 1

\* The VMCB Init_VMCB_BIOS leaves, for the shadow-paging and nested branches.
BuildVmcb ==
  LET io     == HookedPorts /= {}
      shadow == ShdwPgMode = "SHADOW_PAGING"
  IN  [intercepts |-> ExceptionIntercepts \cup InstrIntercepts \cup IntrIntercept
                      \cup (IF io THEN {"IOIO_PROT"} ELSE {})
                      \cup (IF shadow THEN {"cr3_read", "cr3_write", "INVLPG", "INVLPGA"}
                                      ELSE {}),
       asid       |-> 1,
       efer_svme  |-> TRUE,
       v_intr_masking |-> TRUE,
       iopm       |-> IF io THEN BuildIopm(HookedPorts) ELSE NoIopm,
       tlb_control |-> IF shadow THEN TlbControl ELSE 0,
       cr3        |-> IF shadow THEN Root ELSE NullPage,
       paging     |-> shadow,
       tsc_offset |-> 0]

\* init_svm_guest: Init_VMCB_BIOS receives *info by value, so its writes to
\* vm_regs.rdx and shdw_pg_state.shadow_cr3 land in a copy; the caller then
\* zeroes the general-purpose registers. The caller reaches it through
\* vmm_ops->init_guest, which Init_SVM installed.
\* Allocate_VMCB's allocate_pages(1), and Init_VMCB_BIOS's allocate_pages(3)
\* for the IOPM, may return NULL, which the memset after each writes
\* through unchecked: the host faults.
InitGuest ==
  /\ pc = "uninit" /\ opsInstalled
  /\ \/ /\ vmcb' = BuildVmcb
        /\ info' = [info EXCEPT !.rdx = 0]
        /\ pc' = "host"
        /\ UNCHANGED status
     \/ /\ status' = "crashed"
        /\ pc' = "done"
        /\ UNCHANGED <<vmcb, info>>
  /\ UNCHANGED <<capVars, pde, pt, allocated, pending, lastAccess, gif, hostTsc, guestTsc,
                 cachedHostTsc, tlb, exitInfo, lastGuestTsc, lastIo, invalidated>>

-----------------------------------------------------------------------------
(* start_svm_guest: one iteration of the loop per pass.                    *)

Clgi ==
  /\ pc = "host"
  /\ gif' = FALSE
  /\ pc' = "entry"
  /\ UNCHANGED <<capVars, pagingVars, vmcb, info, hostTsc, guestTsc, cachedHostTsc, tlb,
                 exitInfo, lastGuestTsc, lastIo, invalidated>>

\* rdtscll(cached_host_tsc); TSC_OFFSET = guest_tsc - cached_host_tsc (as
\* unsigned 64-bit values); safe_svm_launch: VMRUN, which flushes the TLB
\* when TLB_CONTROL is 1.
TscOffsetHostOnly(g, h) == (TscMod - h) % TscMod   \* a defect: guest_tsc left out
\* guest_tsc - cached_host_tsc, in unsigned 64-bit arithmetic
TscOffset(g, h) == (g + TscMod - h) % TscMod

Enter ==
  /\ pc = "entry"
  /\ cachedHostTsc' = hostTsc
  /\ vmcb' = [vmcb EXCEPT !.tsc_offset = TscOffset(guestTsc, hostTsc)]
  /\ tlb' = IF vmcb.tlb_control = 1 THEN [a \in {} |-> 0] ELSE tlb
  /\ pc' = "guest"
  /\ UNCHANGED <<capVars, pagingVars, gif, info, hostTsc, guestTsc, exitInfo,
                 lastGuestTsc, lastIo, invalidated>>

\* rdtscll(tmp_tsc); v3_update_time adds tmp_tsc - cached_host_tsc to the
\* guest's time (spec 4.4 step 4); STGI.
UpdateTimeDelta(tmp) == tmp - cachedHostTsc

PostExit ==
  /\ pc = "exited"
  /\ guestTsc' = guestTsc + UpdateTimeDelta(hostTsc)
  /\ gif' = TRUE
  /\ pc' = "dispatch"
  /\ UNCHANGED <<capVars, pagingVars, vmcb, info, hostTsc, cachedHostTsc, tlb, exitInfo,
                 lastGuestTsc, lastIo, invalidated>>

\* handle_svm_exit: a #PF goes to the page-table engine, an INVLPG to its
\* invalidation, anything else to the exit handlers outside src/, which
\* succeed or fail. A failure ends the loop (the diagnostic dump and break).
DispatchFault ==
  /\ pc = "dispatch" /\ exitInfo.reason = "PF"
  /\ P!HandleFault \/ P!AllocFailure
  /\ invalidated' = invalidated \ {pending.addr}
  /\ pc' = IF status' = "running" THEN "host" ELSE "done"
  /\ UNCHANGED <<capVars, gif, vmcb, info, hostTsc, guestTsc, cachedHostTsc, tlb,
                 exitInfo, lastGuestTsc, lastIo>>

DispatchInvlpg ==
  /\ pc = "dispatch" /\ exitInfo.reason = "INVLPG"
  /\ P!Invalidate(exitInfo.addr)
  /\ invalidated' = invalidated \cup {exitInfo.addr}
  /\ pc' = "host"
  /\ UNCHANGED <<capVars, gif, vmcb, info, hostTsc, guestTsc, cachedHostTsc, tlb,
                 exitInfo, lastGuestTsc, lastIo>>

DispatchOther ==
  /\ pc = "dispatch" /\ exitInfo.reason \in {"INTR", "HLT", "IO"}
  /\ \E ok \in BOOLEAN :
       /\ pc' = IF ok THEN "host" ELSE "done"
       /\ status' = IF ok THEN status ELSE "halted"
  /\ UNCHANGED <<capVars, pde, pt, allocated, pending, lastAccess, gif, vmcb, info, hostTsc,
                 guestTsc, cachedHostTsc, tlb, exitInfo, lastGuestTsc, lastIo,
                 invalidated>>

-----------------------------------------------------------------------------
(* The guest and the hardware while the core is in guest mode.             *)

Exit(reason, a) ==
  /\ exitInfo' = [reason |-> reason, addr |-> a]
  /\ pc' = "exited"

\* The MMU: a TLB hit with enough rights, else a walk of the shadow table
\* that fills the TLB, else a #PF exit (which drops the page's TLB entry).
\* A completed access clears the pending one, if any.
MmuAccess(a, w) ==
  \/ /\ a \in DOMAIN tlb /\ (w => tlb[a].writable)
     /\ lastAccess' = [addr |-> a, write |-> w, via |-> "mmu", frame |-> tlb[a].frame]
     /\ pending' = P!NoAccess
     /\ UNCHANGED <<tlb, pc, exitInfo>>
  \/ /\ ~(a \in DOMAIN tlb /\ (w => tlb[a].writable))
     /\ P!Permits(a, w)
     /\ LET d == pde[a[1]]
            e == pt[d.base][a[2]]
        IN  /\ tlb' = [b \in DOMAIN tlb \cup {a} |->
                         IF b = a THEN [frame |-> e.base, writable |-> d.writable /\ e.writable]
                         ELSE tlb[b]]
            /\ lastAccess' = [addr |-> a, write |-> w, via |-> "mmu", frame |-> e.base]
     /\ pending' = P!NoAccess
     /\ UNCHANGED <<pc, exitInfo>>
  \/ /\ ~(a \in DOMAIN tlb /\ (w => tlb[a].writable))
     /\ ~P!Permits(a, w)
     /\ pending' = [addr |-> a, write |-> w, resumed |-> FALSE]
     /\ tlb' = [b \in DOMAIN tlb \ {a} |-> tlb[b]]
     /\ Exit("PF", a)
     /\ UNCHANGED lastAccess

GuestAccess(a, w) ==
  /\ pc = "guest" /\ pending = P!NoAccess
  /\ MmuAccess(a, w)
  /\ UNCHANGED <<capVars, pde, pt, allocated, status, gif, vmcb, info, hostTsc, guestTsc,
                 cachedHostTsc, lastGuestTsc, lastIo, invalidated>>

\* The guest re-executes an access whose fault the engine fixed.
GuestRetry ==
  /\ pc = "guest" /\ pending /= P!NoAccess /\ pending.resumed
  /\ MmuAccess(pending.addr, pending.write)
  /\ UNCHANGED <<capVars, pde, pt, allocated, status, gif, vmcb, info, hostTsc, guestTsc,
                 cachedHostTsc, lastGuestTsc, lastIo, invalidated>>

\* RDTSC is not intercepted: the guest reads host TSC + TSC_OFFSET.
GuestRdtsc ==
  /\ pc = "guest"
  /\ lastGuestTsc' = (hostTsc + vmcb.tsc_offset) % TscMod
  /\ UNCHANGED <<capVars, pagingVars, pc, gif, vmcb, info, hostTsc, guestTsc, cachedHostTsc,
                 tlb, exitInfo, lastIo, invalidated>>

\* IN/OUT: with IOIO_PROT set, a port whose IOPM bit is set exits; any
\* other port goes to the hardware.
IoIntercepted(p) ==
  /\ "IOIO_PROT" \in vmcb.intercepts
  /\ (p \div 8) \in DOMAIN vmcb.iopm
  /\ (vmcb.iopm[p \div 8] \div 2^(p % 8)) % 2 = 1

GuestIo(p) ==
  /\ pc = "guest" /\ pending = P!NoAccess
  /\ lastIo' = [port |-> p, trapped |-> IoIntercepted(p)]
  /\ IF IoIntercepted(p) THEN Exit("IO", <<>>) ELSE UNCHANGED <<pc, exitInfo>>
  /\ UNCHANGED <<capVars, pagingVars, gif, vmcb, info, hostTsc, guestTsc, cachedHostTsc,
                 tlb, lastGuestTsc, invalidated>>

\* INVLPG and HLT are intercepted; with INVLPG intercepted the guest's own
\* TLB flush does not happen.
GuestInvlpg(a) ==
  /\ pc = "guest" /\ pending = P!NoAccess
  /\ "INVLPG" \in vmcb.intercepts
  /\ Exit("INVLPG", a)
  /\ UNCHANGED <<capVars, pagingVars, gif, vmcb, info, hostTsc, guestTsc, cachedHostTsc,
                 tlb, lastGuestTsc, lastIo, invalidated>>

GuestHlt ==
  /\ pc = "guest" /\ pending = P!NoAccess
  /\ "HLT" \in vmcb.intercepts
  /\ Exit("HLT", <<>>)
  /\ UNCHANGED <<capVars, pagingVars, gif, vmcb, info, hostTsc, guestTsc, cachedHostTsc,
                 tlb, lastGuestTsc, lastIo, invalidated>>

\* A physical interrupt while in the guest exits when INTR is intercepted.
InterruptExit ==
  /\ pc = "guest"
  /\ "INTR" \in vmcb.intercepts
  /\ Exit("INTR", <<>>)
  /\ UNCHANGED <<capVars, pagingVars, gif, vmcb, info, hostTsc, guestTsc, cachedHostTsc,
                 tlb, lastGuestTsc, lastIo, invalidated>>

\* The TLB may drop an entry at any time.
TlbEvict(a) ==
  /\ a \in DOMAIN tlb
  /\ tlb' = [b \in DOMAIN tlb \ {a} |-> tlb[b]]
  /\ UNCHANGED <<capVars, pagingVars, pc, gif, vmcb, info, hostTsc, guestTsc, cachedHostTsc,
                 exitInfo, lastGuestTsc, lastIo, invalidated>>

Tick ==
  /\ hostTsc < MaxTsc
  /\ hostTsc' = hostTsc + 1
  /\ UNCHANGED <<capVars, pagingVars, pc, gif, vmcb, info, guestTsc, cachedHostTsc, tlb,
                 exitInfo, lastGuestTsc, lastIo, invalidated>>

Stopped ==
  /\ pc = "done"
  /\ UNCHANGED vars

-----------------------------------------------------------------------------

Init ==
  /\ CapInit
  /\ P!Init
  /\ pc = "uninit"
  /\ gif = TRUE
  /\ vmcb = [intercepts |-> {}, asid |-> 0, efer_svme |-> FALSE, v_intr_masking |-> FALSE,
             iopm |-> NoIopm, tlb_control |-> 0, cr3 |-> NullPage, paging |-> FALSE,
             tsc_offset |-> 0]
  /\ info = [rdx |-> 0, shadow_cr3 |-> NullPage]
  /\ hostTsc = HostTsc0
  /\ guestTsc = 0
  /\ cachedHostTsc = 0
  /\ tlb = [a \in {} |-> 0]
  /\ exitInfo = NoExit
  /\ lastGuestTsc = 0
  /\ lastIo = [port |-> 0, trapped |-> FALSE]
  /\ invalidated = {}

Next ==
  \/ Probe /\ UNCHANGED <<pagingVars, coreVars>>
  \/ InitSVM /\ UNCHANGED <<pagingVars, coreVars>>
  \/ Done /\ ~opsInstalled /\ UNCHANGED <<pagingVars, coreVars>>
  \/ InitGuest \/ Clgi \/ Enter \/ PostExit
  \/ DispatchFault \/ DispatchInvlpg \/ DispatchOther
  \/ \E a \in P!Addr, w \in BOOLEAN : GuestAccess(a, w)
  \/ GuestRetry \/ GuestRdtsc \/ GuestHlt \/ InterruptExit
  \/ \E p \in ProbePorts : GuestIo(p)
  \/ \E a \in P!Addr : GuestInvlpg(a) \/ TlbEvict(a)
  \/ Tick \/ Stopped

\* The core's thread always takes its next step (it is the only thread of
\* this core, spec section 5); a host timer interrupt eventually arrives
\* and, with INTR intercepted, forces an exit.
Fairness ==
  /\ WF_vars(InitGuest) /\ WF_vars(Clgi) /\ WF_vars(Enter) /\ WF_vars(PostExit)
  /\ WF_vars(DispatchFault) /\ WF_vars(DispatchInvlpg) /\ WF_vars(DispatchOther)
  /\ WF_vars(InterruptExit)

Spec == Init /\ [][Next]_vars /\ Fairness

-----------------------------------------------------------------------------
(* Properties                                                              *)

\* Whenever the guest runs, the VMCB passes the VMRUN consistency checks the
\* code is responsible for (guest EFER.SVME, a non-zero ASID, the VMRUN
\* intercept) and intercepts every exception and instruction spec section
\* 4.3 lists as mandatory.
VmcbValidForEntry ==
  pc = "guest" =>
    /\ vmcb.efer_svme /\ vmcb.asid /= 0
    /\ {"de", "df", "pf", "ts", "ss", "ac", "mc", "gp", "ud", "np", "of", "nmi",
        "HLT", "VMRUN"} \subseteq vmcb.intercepts

\* A guest IN/OUT on a port some device hooked always exits to the VMM, and
\* one on a neighbouring unhooked port never does: the IOPM bit arithmetic
\* (byte port/8, bit port%8) selects exactly the hooked ports.
HookedPortsTrap ==
  pc /= "uninit" => (lastIo.trapped <=> lastIo.port \in HookedPorts)

\* The TSC the guest reads never goes backwards across world switches: the
\* offset written before VMRUN and the time accounted after the exit keep
\* the guest's clock continuous.
GuestTscMonotonic == [][lastGuestTsc' >= lastGuestTsc]_lastGuestTsc

\* While the guest runs, the TLB holds no translation for a page the guest
\* invalidated and that has not faulted back in since: invalidate_addr_32
\* only clears the shadow entry and issues no INVLPGA, so this rests on
\* TLB_CONTROL flushing the TLB at the next VMRUN.
NoStaleTranslation ==
  pc = "guest" => DOMAIN tlb \cap invalidated = {}

\* The host regains control from a running guest: every guest run ends in
\* an exit, after which STGI restores the global interrupt flag.
HostRegainsControl == pc = "guest" ~> gif

\* The guest only ever runs on a CPU that reports the SVM feature, whose
\* VM_CR.SVMDIS is clear, and on which Init_SVM set EFER.SVME: the core is
\* reached only through the ops Init_SVM installs once is_svm_capable
\* returned 1. The probe's misread of SVMDIS is caught here by the #GP of
\* the EFER write, so the guest still never runs on a disabled CPU.
GuestOnlyOnEnabledSvm ==
  pc = "guest" =>
    /\ (ecx & CPUID_FEATURE_IDS_ecx_svm_avail) /= 0
    /\ (vmcr & SVM_VM_CR_MSR_svmdis) = 0
    /\ svme

\* Every VMRUN finds a host-state save area in VM_HSAVE_PA, where the CPU
\* stores the host's state on entry: spec section 5 says an enablement
\* failure is surfaced before any loop starts, and Init_SVM's
\* allocate_pages(4) can fail.
HostSaveAreaValid ==
  pc = "guest" => hsave \in HostPages

\* After the core is initialised, its guest_info records the root of the
\* shadow table the VMCB's CR3 points to (spec section 3: the core owns a
\* handle to its shadow table root).
ShadowRootRecorded ==
  pc /= "uninit" /\ ShdwPgMode = "SHADOW_PAGING" => info.shadow_cr3 = vmcb.cr3
=============================================================================
