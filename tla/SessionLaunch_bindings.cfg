\* Two drivers, two launches, two sessions, an adoption and one fault.
CONSTANTS
  Sessions = {"s1", "s2"}
  Requests <- WriterLaunches
  Drivers = {d1, d2}
  WriterCheckouts = {"writer"}
  ItemCheckouts <- ItemsAdopt
  MaxActs = 2
  MaxFaults = 1
SPECIFICATION Spec
CHECK_DEADLOCK FALSE
SYMMETRY DriverSymmetry
INVARIANTS
  BindingParity
  AuthorityMatches
  WriterCheckoutExclusive
  SpawnedOnce
