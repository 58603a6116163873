\* Blocking reads of one-shot captures, in pieces, over several captures
CONSTANTS
  N = 3
  Units = 3
  OpenFlags = {FALSE}
  Triggers = {"oneshot"}
  Calls <- ReadCalls
  Signals = FALSE
  StopSignals = FALSE
  BadPointers = FALSE
  BigBuffers = TRUE
SPECIFICATION FairSpec
INVARIANTS StateTracksCapture NoFalseOverrun
PROPERTIES ReadsAreStream
CHECK_DEADLOCK FALSE
