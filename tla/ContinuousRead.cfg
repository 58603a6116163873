\* Reads and polls of captures of both kinds, blocking or not, with signals
\* and faults
CONSTANTS
  N = 2
  Units = 2
  OpenFlags = {TRUE, FALSE}
  Triggers = {"oneshot", "continuous"}
  Calls <- PollCalls
  Signals = TRUE
  StopSignals = FALSE
  BadPointers = TRUE
  BigBuffers = TRUE
SPECIFICATION PromptSpec
INVARIANTS FillingHidden ReadyMeansComplete RingSync CaptureHoldsMutex
PROPERTIES OverrunInProgressReported ReadReturns
CHECK_DEADLOCK FALSE
