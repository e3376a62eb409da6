\* Two crashes or failing commands between any two steps of three updates of two items.
CONSTANTS
  Items = {"item", "other"}
  Repositories = {"r1"}
  Processes = {p1}
  Requests <- RivalsAndOther
  Runs = {}
  Payloads = {"a", "b", "c"}
  MaxHead = 0
  MaxEdits = 0
  MaxFaults = 2
SPECIFICATION FairSpec
INVARIANTS
  SettledParity
PROPERTIES
  Converges
