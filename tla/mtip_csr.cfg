SPECIFICATION Spec
CONSTANTS
  WordSize = 8
  CsrTimer = TRUE
  MmioTimer = FALSE
  TimeWords = {0}
  MaxTime = 4
  RVC = TRUE
  Timer = TRUE
  Mmio = FALSE
  Checks = FALSE
  EcallHandler = TRUE
  GuestCsrs = {}
  CsrWords = {4}
  GuestCauses = {"other"}
INVARIANTS MtipShown
CHECK_DEADLOCK FALSE
