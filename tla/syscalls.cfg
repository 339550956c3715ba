SPECIFICATION Spec
CONSTANTS
  MaxFd = 4
  MaxHostFd = 4
  OwnFds = {3}
  HeapStarts = {5}
  StackBottom = 38
  MIN_GAP = 4
  Args <- MCArgs
  MaxArgs = 2
  Increments = {6, 64}
  Masks = {"022"}
  RawTty = TRUE
  CheckInv = TRUE
INVARIANTS DescriptorsFaithful CallsReachTheirFile  ChecksJustified HostUmaskKept TerminalRestored
PROPERTIES ErrorsChangeNothing
CHECK_DEADLOCK FALSE
