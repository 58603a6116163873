\* A signal reaches a process that waits in stop()
CONSTANTS
  N = 2
  Units = 1
  OpenFlags = {FALSE}
  Triggers = {"oneshot"}
  Calls <- ReadCalls
  Signals = FALSE
  StopSignals = TRUE
  BadPointers = FALSE
  BigBuffers = TRUE
SPECIFICATION Spec
INVARIANTS CaptureHoldsMutex
CHECK_DEADLOCK FALSE
