\* By hand, with tlc -continue: both are violated by what the code does.
CONSTANTS
  Keys = {"k1", "k2"}
  Repositories = {"web", "api"}
  Home = "web"
  Commands = {c1, c2}
  MaxCalls = 2
  MaxActs = 0
  MaxFaults = 1
SPECIFICATION Spec
CHECK_DEADLOCK FALSE
INVARIANTS
  BoundIsTold
  OneWriter
