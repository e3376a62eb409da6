\* By hand, with -continue, each violated: an item is previewed twice, and the second run
\* confirmed after the first has integrated it; or it is reviewed again with a newer head
\* while a run integrates it.
CONSTANTS
  Items = {"a"}
  Repositories = {"r1"}
  Runs = {"k1", "k2"}
  Processes = {p1}
  Dependencies <- NoDependencies
  ProposalOrder <- PlanOrder
  Conflicting = {}
  Moves = {"review"}
  MaxHead = 2
  MaxDrift = 0
  MaxFaults = 0
SPECIFICATION FairSpec
CHECK_DEADLOCK FALSE
INVARIANTS
  DoneIsMerged
PROPERTIES
  RunsEnd
