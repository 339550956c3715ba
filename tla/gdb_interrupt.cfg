SPECIFICATION Spec
CONSTANTS
  Addr = {a1, a2}
  InterruptPeriod = 2
  MaxShortReads = 0
  MaxCtrlC = 2
PROPERTIES NoInterruptMissed
CHECK_DEADLOCK FALSE
