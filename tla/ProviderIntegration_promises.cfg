\* By hand, with -continue, each violated: a preview, a removal that fails and two saves.
CONSTANTS
  Processes = {p1, p2}
  MaxPreviews = 1
  MaxRemovals = 2
  MaxSaves = 2
  MaxFaults = 0
SPECIFICATION Spec
CHECK_DEADLOCK FALSE
PROPERTIES
  NeverOverwritten
  FailureIsAlwaysUndone
