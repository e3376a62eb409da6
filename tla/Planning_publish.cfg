\* Two processes publish two Features, and an addition to one, in one Git repository,
\* or create two Features of one slug, or repeat creating them.
CONSTANTS
  f1 = f1
  f2 = f2
  q1 = q1
  Features = {f1, f2}
  Additions = {q1}
  Of <- OneAddition
  Slug <- OneSlug
  Processes = {p1, p2}
  MaxCalls = 5
  MaxMoves = 1
  MaxGenerations = 2
  MaxFaults = 1
  Epics = {"e1", "e2"}
  Slugs = {"s"}
  AdoptionKeys = {"k"}
  MaxCreations = 3
  MaxDisturbances = 2
SPECIFICATION Scenarios
CHECK_DEADLOCK FALSE
SYMMETRY ProcessSymmetry
INVARIANTS
  PublicationsAreTrue
  RowsFollow
  AloneSucceeds
