\* stop() called while a one-shot capture ends
CONSTANTS
  N = 2
  Units = 1
  OpenFlags = {FALSE}
  Triggers = {"oneshot"}
  Calls <- ReadCalls
  Signals = FALSE
  StopSignals = FALSE
  BadPointers = FALSE
  BigBuffers = TRUE
SPECIFICATION FairSpec
PROPERTIES StopReturns
CHECK_DEADLOCK FALSE
