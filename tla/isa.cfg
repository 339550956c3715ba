SPECIFICATION Spec
CONSTANTS
  W = 4
  Mantissa = 6
  Errors = {1, 2, 8}
  Immediates <- MCImmediates
  ByteSize = 2
  Size = 8
  Base = 4
  DeviceAt = 12
  MaxLen = 3
  Fetches <- MCFetches
INVARIANTS RegistersAgree BranchesAgree LoadsAgree  DecodedAsFetched
CHECK_DEADLOCK FALSE
