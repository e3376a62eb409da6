\* Two calls at a time: a preview and up to three removals, a save and a fault.  Or two
\* calls of an app-server that says up to four things, whatever they are.
CONSTANTS
  Processes = {p1, p2}
  MaxPreviews = 1
  MaxRemovals = 3
  MaxSaves = 1
  MaxFaults = 1
  Threads = {"t1", "t2"}
  MaxMessages = 4
  MaxPages = 2
  MaxThreads = 1
  Restarts = 1
  PageTurns = 1
  MaxServerCalls = 2
  MaxSpoken = 4
  MaxTurns = 1
SPECIFICATION ProvidersSpec
CHECK_DEADLOCK FALSE
INVARIANTS
  EverySaveIsKept
  ReceiptsAreTrue
PROPERTIES
  RemovedAsConfirmed
  FailureIsUndone
  CallsReturn
