\* A list as long as MAX_BUFLIST_ENTRIES
CONSTANTS
  Settings = {s1}
  Triggers = {"oneshot"}
  Lists <- FullLists
  MaxEntries = 5
  CountMod = 5
SPECIFICATION Spec
PROPERTIES RunEndsRight
CHECK_DEADLOCK FALSE
