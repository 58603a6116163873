\* Captures of both kinds over several lists, stopped or not
CONSTANTS
  Settings = {s1, s2}
  Triggers = {"oneshot", "continuous"}
  Lists <- ShortLists
  MaxEntries = 7
  CountMod = 5
SPECIFICATION FairSpec
INVARIANTS ConfigMeetsHalt SamplesAsConfigured
PROPERTIES BurstsInOrder AnswersMatch RunFillsRing CaptureCompletes StopEnds
