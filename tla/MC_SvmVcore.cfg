\* A CPU with and without the SVM feature bit and with VM_CR.SVMDIS clear
\* and set; one host page for the save area. One page-table page for two
\* PDEs: the second PDE fault exhausts the pool, so the loop is checked
\* through the host fault that follows as well.
CONSTANTS
  CPUID_FEATURE_IDS_ecx_svm_avail = 4
  SVM_VM_CR_MSR_svmdis = 16
  CPUID_SVM_REV_AND_FEATURE_IDS_edx_svml = 4
  EcxWords = {0, 4}
  VmcrWords = {0, 16}
  EdxWords = {0}
  HostPages = {1}
  PdeIdx = {0, 1}
  PteIdx = {0}
  PtPages = {t1}
  NullPage = null
  Root = root
  Region <- MCRegion
  HostFrame <- MCHostFrame
  ShdwPgMode = "SHADOW_PAGING"
  HookedPorts = {1023}
  TscBits = 4
  HostTsc0 = 1
  MaxTsc = 2

SPECIFICATION Spec

INVARIANTS
  TypeOK
  GuestOnlyOnEnabledSvm
  VmcbValidForEntry
  HookedPortsTrap
  NoStaleTranslation

PROPERTIES
  GuestTscMonotonic
  HostRegainsControl
