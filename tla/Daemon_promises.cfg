\* By hand, with -continue, each violated: a daemon is killed before it has written its
\* marker; one fails as it takes the lock, and two more start; accepting fails.
CONSTANTS
  Daemons = {d1, d2}
  MaxStarts = 3
  MaxConnections = 0
  MaxChanges = 0
  MaxFaults = 1
SPECIFICATION Spec
CHECK_DEADLOCK FALSE
INVARIANTS
  UnmarkedIsBeingMade
  OneOwner
  RunningListens
