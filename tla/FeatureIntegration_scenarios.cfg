\* Two instances: two processes execute and resume one run of dependent items of which
\* one may conflict, with a fault; one process integrates an item into two repositories
\* by two runs, with two faults and a commit of somebody else on a Feature checkout.
CONSTANTS
  Items = {"a", "b", "c"}
  Repositories = {"r1", "r2"}
  Runs = {"k1", "k2"}
  Processes = {p1, p2}
  Twins = {"a", "b"}
  Lone = p1
  Dependencies <- Chain
  ProposalOrder <- PlanOrder
  Conflicting = {"a"}
  Moves = {"review", "in_progress"}
  MaxHead = 1
  MaxDrift = 1
  MaxFaults = 2
SPECIFICATION ScenarioSpec
CHECK_DEADLOCK FALSE
INVARIANTS
  DependencyOrder
  AloneForgetsNone
  DoneIsMerged
PROPERTIES
  UndisturbedRunsEnd
