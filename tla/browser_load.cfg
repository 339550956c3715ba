SPECIFICATION Spec
CONSTANTS
  Options = {"A"}
  NoOptions = "none"
  MaxWaiting = 2
  MaxFrames = 2
INVARIANT LoadAlwaysFresh
CHECK_DEADLOCK FALSE
