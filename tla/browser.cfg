SPECIFICATION Spec
CONSTANTS
  Options = {"A"}
  NoOptions = "none"
  MaxWaiting = 2
  MaxFrames = 2
INVARIANTS LoopAlive QuietMeansStopped LabelTruthful RunsLoadedProgram
PROPERTIES StopThenRunResumes EndNoticed
CHECK_DEADLOCK FALSE
