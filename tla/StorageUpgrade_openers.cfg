\* Two processes of this release open a database that any earlier release left, while
\* batches are imported, paths recorded and attestations inserted by hand; a crash.  Or two
\* batches of plans are imported by releases of different schemas.
CONSTANTS
  Processes = {p1, p2}
  Batches = {b1}
  Repositories = {r1, r2}
  Store = store
  None = none
  Releases = {13, 14, 15, 17, 20}
  MaxMistakes = 1
  MaxCrashes = 1
  Upgrades = {"owners", "evidence"}
  ImportedBatches = {i1, i2}
  ImportReleases = {22, 23, 26, 30}
  MaxReparents = 1
SPECIFICATION UpgradeSpec
CHECK_DEADLOCK FALSE
INVARIANTS
  SettledIsTrue
PROPERTIES
  FinalizedStays
  UpgradesEnd
