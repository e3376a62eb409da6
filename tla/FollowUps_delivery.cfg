\* Three calls, two at a time, to two keys; a fault and one change of a binding.
CONSTANTS
  Sessions = {"s1"}
  Keys = {"m1", "m2"}
  Senders = {p1, p2}
  Tools = {"claude", "codex"}
  Target <- OneTarget
  Text <- TextOfItsOwn
  HookProcesses = TRUE
  MaxSends = 3
  MaxMoves = 1
  MaxFaults = 1
SPECIFICATION Spec
CHECK_DEADLOCK FALSE
SYMMETRY SenderSymmetry
INVARIANTS
  NoDuplicateDelivery
PROPERTIES
  NotRedirected
