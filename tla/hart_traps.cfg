SPECIFICATION Spec
CONSTANTS
  WordSize = 8
  CsrTimer = TRUE
  MmioTimer = FALSE
  TimeWords = {0}
  MaxTime = 1
  RVC = TRUE
  Timer = TRUE
  Mmio = FALSE
  Checks = FALSE
  EcallHandler = FALSE
  GuestCsrs = {"mstatus", "mie", "mip", "mtvec", "mepc", "mcause", "mhartid"}
  CsrWords = {4}
  GuestCauses = {"other"}
INVARIANTS TypeOK TrapStateIntact
PROPERTIES HandlerNotPreempted MretResumes
CHECK_DEADLOCK FALSE
