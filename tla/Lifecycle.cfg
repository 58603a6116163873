\* A failure at any step of probe, any answer of the firmware, several files,
\* writers to the attributes, and the module unloaded
CONSTANTS
  MaxFiles = 8
  Coordinated = TRUE
  QuietRemove = TRUE
SPECIFICATION Spec
INVARIANTS AllOrNothing ReleasesWhatItHolds CaptureIsServed NobodyBeforeLocks RemoveCanGoOn
CHECK_DEADLOCK FALSE
