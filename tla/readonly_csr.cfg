SPECIFICATION Spec
CONSTANTS
  WordSize = 8
  CsrTimer = FALSE
  MmioTimer = FALSE
  TimeWords = {0}
  MaxTime = 4
  RVC = TRUE
  Timer = TRUE
  Mmio = FALSE
  Checks = FALSE
  EcallHandler = TRUE
  GuestCsrs = {"mhartid", "mtvec"}
  CsrWords = {4}
  GuestCauses = {"other"}
INVARIANTS ReadOnlyCsrKept
CHECK_DEADLOCK FALSE
