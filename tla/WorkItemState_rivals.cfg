\* Two processes race with three updates, two of them reviews, for one item that a run
\* integrates; a new head, a second review, or an edit by hand.
CONSTANTS
  Items = {"item"}
  Repositories = {"r1"}
  Processes = {p1, p2}
  Requests <- ReviewsAndReuse
  Runs = {"run1"}
  Payloads = {"a", "b", "c"}
  MaxHead = 1
  MaxEdits = 1
  MaxFaults = 0
SPECIFICATION Spec
CONSTRAINT EditOrReview
SYMMETRY ProcessSymmetry
INVARIANTS
  ProjectionParity
  DoneIntegrated
  StagedStillValid
PROPERTIES
  NoFalseSuccess
  ImplementsLedger
