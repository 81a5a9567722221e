\* Every combination of bits 0, 2 and 4 of each word the probe reads: the
\* masks it tests are bits 2 and 4, and bit 0 is the value its "== 1"
\* comparison looks for. One host page.
CONSTANTS
  CPUID_FEATURE_IDS_ecx_svm_avail = 4
  SVM_VM_CR_MSR_svmdis = 16
  CPUID_SVM_REV_AND_FEATURE_IDS_edx_svml = 4
  EcxWords = {0, 1, 4, 5, 16, 17, 20, 21}
  VmcrWords = {0, 1, 4, 5, 16, 17, 20, 21}
  EdxWords = {0, 1, 4, 5, 16, 17, 20, 21}
  HostPages = {1}
SPECIFICATION CapSpec
INVARIANTS
  ProbeMatchesSpec
