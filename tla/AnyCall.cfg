\* A client that makes every call but poll(), with signals that interrupt
\* stop() as well
CONSTANTS
  N = 2
  Units = 2
  OpenFlags = {FALSE}
  Triggers = {"oneshot"}
  Calls <- AnyCalls
  Signals = TRUE
  StopSignals = TRUE
  BadPointers = FALSE
  BigBuffers = TRUE
SPECIFICATION Spec
INVARIANTS TypeOK ReaderHasBuffer
CHECK_DEADLOCK FALSE
