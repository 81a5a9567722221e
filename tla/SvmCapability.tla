---------------------------- MODULE SvmCapability ----------------------------
(***************************************************************************)
(* Host bring-up of SVM (src/palacios/src/palacios/svm.c): the capability  *)
(* probe is_svm_capable (the live "#if 1" branch), and Init_SVM, which     *)
(* sets EFER.SVME and registers the host-state save area.                  *)
(*                                                                         *)
(* The CPU is the three words the probe reads: CPUID Fn8000_0001 ECX,      *)
(* the low half of the VM_CR MSR and CPUID Fn8000_000A EDX. The bit masks  *)
(* come from palacios/svm.h (not in this tree) and are CONSTANTS set to    *)
(* their architectural values in the cfg; the nested-paging bit is only    *)
(* logged by the code and is left out. The caller that runs Init_SVM    *)
(* once the probe returns 1 is outside src/ and is modelled from the spec  *)
(* (section 2: Capability Prober -> Virtualization Enabler).               *)
(***************************************************************************)
EXTENDS Naturals, Bitwise

CONSTANTS
  CPUID_FEATURE_IDS_ecx_svm_avail,        \* Fn8000_0001 ECX bit 2
  SVM_VM_CR_MSR_svmdis,                   \* VM_CR bit 4
  CPUID_SVM_REV_AND_FEATURE_IDS_edx_svml, \* Fn8000_000A EDX bit 2
  EcxWords, VmcrWords, EdxWords,          \* register values the model tries
  HostPages                               \* pages allocate_pages may return

VARIABLES
  ecx, vmcr, edx,   \* what the CPU reports (fixed at boot)
  probeRet,         \* is_svm_capable's return value
  probePath,        \* which of its four outcomes the probe took
  svme,             \* EFER.SVME
  hsave,            \* SVM_VM_HSAVE_PA (0 until written)
  opsInstalled,     \* vmm_ops->init_guest/start_guest point at the SVM code
  bootPc                \* "boot", "probed", "enabled", "gp" (#GP on WRMSR)

capVars == <<ecx, vmcr, edx, probeRet, probePath, svme, hsave, opsInstalled, bootPc>>

Paths == {"Unavailable", "DisabledLocked", "DisabledUnlockable", "Available", "none"}

CapTypeOK ==
  /\ ecx \in EcxWords /\ vmcr \in VmcrWords /\ edx \in EdxWords
  /\ probeRet \in {0, 1}
  /\ probePath \in Paths
  /\ svme \in BOOLEAN
  /\ hsave \in {0} \cup HostPages
  /\ opsInstalled \in BOOLEAN
  /\ bootPc \in {"boot", "probed", "enabled", "gp"}

CapInit ==
  /\ ecx \in EcxWords /\ vmcr \in VmcrWords /\ edx \in EdxWords
  /\ probeRet = 0 /\ probePath = "none"
  /\ svme = FALSE /\ hsave = 0 /\ opsInstalled = FALSE
  /\ bootPc = "boot"

-----------------------------------------------------------------------------
(* is_svm_capable, as a function of the three words.                      *)

\* "(ret & CPUID_FEATURE_IDS_ecx_svm_avail) == 0"
SvmAvailAlways(c) == TRUE   \* a defect: the feature test dropped
SvmAvail(c) == (c & CPUID_FEATURE_IDS_ecx_svm_avail) /= 0

\* "(vm_cr_low & SVM_VM_CR_MSR_svmdis) == 1": the masked word compared to 1.
SvmDisabledTest(v) == (v & SVM_VM_CR_MSR_svmdis) = 1

\* The outcome and return value of is_svm_capable.
ProbePath(c, v, d) ==
  IF ~SvmAvail(c) THEN "Unavailable"
  ELSE IF SvmDisabledTest(v)
         THEN IF (d & CPUID_SVM_REV_AND_FEATURE_IDS_edx_svml) = 0
                THEN "DisabledLocked" ELSE "DisabledUnlockable"
         ELSE "Available"

\* a defect: the masked feature word returned instead of 1
ProbeRetMasked(path) == IF path = "Available" THEN CPUID_FEATURE_IDS_ecx_svm_avail ELSE 0
ProbeRet(path) == IF path = "Available" THEN 1 ELSE 0

\* The classification spec section 4.1 asks for.
SpecProbe(c, v, d) ==
  IF (c & CPUID_FEATURE_IDS_ecx_svm_avail) = 0 THEN "Unavailable"
  ELSE IF (v & SVM_VM_CR_MSR_svmdis) /= 0
         THEN IF (d & CPUID_SVM_REV_AND_FEATURE_IDS_edx_svml) = 0
                THEN "DisabledLocked" ELSE "DisabledUnlockable"
         ELSE "Available"

Probe ==
  /\ bootPc = "boot"
  /\ probePath' = ProbePath(ecx, vmcr, edx)
  /\ probeRet' = ProbeRet(ProbePath(ecx, vmcr, edx))
  /\ bootPc' = "probed"
  /\ UNCHANGED <<ecx, vmcr, edx, svme, hsave, opsInstalled>>

-----------------------------------------------------------------------------
(* Init_SVM, run by the caller when the probe returned 1. Setting          *)
(* EFER.SVME while VM_CR.SVMDIS is set raises #GP (AMD APM vol. 2, 15.4).  *)
(* allocate_pages may return NULL, and the result is written to            *)
(* SVM_VM_HSAVE_PA unchecked.                                              *)

InitSVM ==
  /\ bootPc = "probed"
  /\ probeRet = 1
  /\ IF (vmcr & SVM_VM_CR_MSR_svmdis) /= 0
       THEN /\ bootPc' = "gp"
            /\ UNCHANGED <<svme, hsave, opsInstalled>>
       ELSE /\ svme' = TRUE
            /\ hsave' \in {0} \cup HostPages
            /\ opsInstalled' = TRUE
            /\ bootPc' = "enabled"
  /\ UNCHANGED <<ecx, vmcr, edx, probeRet, probePath>>

\* The boot sequence ends: the probe said no, SVM is on, or the host faulted.
Done ==
  /\ \/ bootPc \in {"enabled", "gp"}
     \/ bootPc = "probed" /\ probeRet = 0
  /\ UNCHANGED capVars

CapNext == Probe \/ InitSVM \/ Done

CapSpec == CapInit /\ [][CapNext]_capVars

-----------------------------------------------------------------------------
(* Properties                                                              *)

\* The probe classifies every CPU as spec section 4.1 and the scenarios of
\* section 8 say: a set VM_CR.SVMDIS gives DisabledLocked or
\* DisabledUnlockable, never Available.
ProbeMatchesSpec ==
  bootPc /= "boot" => probePath = SpecProbe(ecx, vmcr, edx)
=============================================================================
