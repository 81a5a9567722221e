CONSTANTS
  CPUID_FEATURE_IDS_ecx_svm_avail = 4
  SVM_VM_CR_MSR_svmdis = 16
  CPUID_SVM_REV_AND_FEATURE_IDS_edx_svml = 4
  EcxWords = {4}
  VmcrWords = {0}
  EdxWords = {0}
  HostPages = {1}
  PdeIdx = {0, 1}
  PteIdx = {0}
  PtPages = {t1, t2}
  NullPage = null
  Root = root
  Region <- MCRegion
  HostFrame <- MCHostFrame
  ShdwPgMode = "SHADOW_PAGING"
  HookedPorts = {1023}
  TscBits = 4
  HostTsc0 = 1
  MaxTsc = 2

SPECIFICATION Spec

INVARIANTS
  ShadowRootRecorded
