SPECIFICATION FairSpec
CONSTANTS
  WordSize = 8
  CsrTimer = FALSE
  MmioTimer = TRUE
  TimeWords = {0}
  MaxTime = 8
  RVC = FALSE
  Timer = TRUE
  Mmio = TRUE
  Checks = TRUE
  EcallHandler = TRUE
  GuestCsrs = {"mstatus", "mie", "mtvec"}
  CsrWords = {4}
  GuestCauses = {"other"}
INVARIANTS MtipShown  MachineModeOnly
PROPERTIES ArmedTimerFires BypassActsAsTrapMret
CHECK_DEADLOCK FALSE
