SPECIFICATION FairSpec
CONSTANTS
  Addr = {a1, a2}
  InterruptPeriod = 2
  MaxShortReads = 1
  MaxCtrlC = 2
PROPERTIES  CommandsAnswered  SessionEnds
CHECK_DEADLOCK FALSE
