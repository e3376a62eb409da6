\* Two commands at a time start, resume and check one batch of three children, or
\* recover two sessions, one with a checkout of its own, in one attempt, or request
\* sessions under two keys in two repositories, in one of which they work themselves, or
\* read two transcripts of either provider while these are written three times.
CONSTANTS
  Commands = {c1, c2}
  MaxFailures = 2
  Size = 3
  MaxBatchCalls = 3
  Sessions = {1, 2}
  Exclusive = {2}
  Attempts = {"a1"}
  MaxRecoveries = 2
  MaxActs = 1
  Keys = {"k1", "k2"}
  Repositories = {"web", "api"}
  Home = "web"
  MaxRequestCalls = 3
  Providers = {"claude", "codex"}
  MaxRecords = 2
  MaxLines = 3
  MaxWrites = 3
  MaxReads = 2
SPECIFICATION DriversSpec
CHECK_DEADLOCK FALSE
SYMMETRY CommandSymmetry
INVARIANTS
  SpawnedOnce
  RecordsAreTrue
