\* By hand, each violated: two calls hand over two messages of one session; the first
\* property with hooks, the second when HookProcesses is FALSE.
CONSTANTS
  Sessions = {"s1"}
  Keys = {"m1", "m2"}
  Senders = {p1, p2}
  Tools = {"codex"}
  Target <- OneTarget
  Text <- TextOfItsOwn
  HookProcesses = TRUE
  MaxSends = 3
  MaxMoves = 0
  MaxFaults = 0
SPECIFICATION Spec
CHECK_DEADLOCK FALSE
SYMMETRY SenderSymmetry
INVARIANTS AcceptedInOrder
PROPERTIES ChangedForCause
