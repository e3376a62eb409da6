\* Two daemons for one database, two starts, a connection, a change and a fault.
CONSTANTS
  Daemons = {d1, d2}
  MaxStarts = 2
  MaxConnections = 1
  MaxChanges = 1
  MaxFaults = 1
SPECIFICATION FairSpec
CHECK_DEADLOCK FALSE
INVARIANTS
  EndpointNamesOwner
PROPERTIES
  LosersExit
  ChangesAreRefreshed
