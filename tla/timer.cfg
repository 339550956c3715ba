SPECIFICATION TimerSpec
CONSTANTS
  WordSize = 4
  CsrTimer = TRUE
  MmioTimer = TRUE
  TimeWords = {1}
  MaxTime = 2
 
PROPERTIES MtimeIsAtomic MtimecmpIsAtomic
CHECK_DEADLOCK FALSE
