\* By hand, with -continue, each violated: one command recovers a session that has just
\* been observed, or replaces a writer session that cannot be resumed.
CONSTANTS
  Sessions = {1}
  Exclusive = {1}
  Attempts = {"a1"}
  Commands = {c1}
  MaxCalls = 2
  MaxActs = 1
  MaxFaults = 0
SPECIFICATION Spec
CHECK_DEADLOCK FALSE
PROPERTIES
  LiveAreSkipped
  ReplacementsBegin
