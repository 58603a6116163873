\* A polling reader of a one-shot capture
CONSTANTS
  N = 2
  Units = 1
  OpenFlags = {TRUE}
  Triggers = {"oneshot"}
  Calls <- ReadCalls
  Signals = FALSE
  StopSignals = FALSE
  BadPointers = FALSE
  BigBuffers = TRUE
SPECIFICATION Spec
PROPERTIES EofMeansDrained
CHECK_DEADLOCK FALSE
