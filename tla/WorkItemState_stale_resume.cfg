\* By hand, violated: two processes resume one update; disk, HEAD and database afterwards.
CONSTANTS
  Items = {"item"}
  Repositories = {"r1"}
  Processes = {p1, p2}
  Requests <- Chain
  Runs = {}
  Payloads = {"a", "b"}
  MaxHead = 0
  MaxEdits = 0
  MaxFaults = 0
SPECIFICATION Spec
SYMMETRY ProcessSymmetry
INVARIANTS
  SettledParity
