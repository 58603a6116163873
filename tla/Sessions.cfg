\* Three processes that start captures, stop their own, configure and resize
CONSTANTS
  p1 = p1
  p2 = p2
  p3 = p3
  NoProc = NoProc
  Procs <- P3
  Careful = TRUE
  Coordinated = TRUE
  Signals = FALSE
SPECIFICATION Spec
SYMMETRY Symmetric
INVARIANTS TypeOK MutexHeldWhileRunning RunsAsConfigured CommandsAnswered FillsOwnBuffers
PROPERTIES StopEndsCapture SubmitsWhenIdle
CHECK_DEADLOCK FALSE
