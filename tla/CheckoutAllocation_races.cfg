\* Two processes prepare and reconcile the checkout of one item while work goes on.
CONSTANTS
  Allocations <- OneItem
  Processes = {p1, p2}
  Keys = {"k"}
  MaxHead = 2
  MaxGenerations = 2
  MaxTampers = 1
  MaxFaults = 1
SPECIFICATION Spec
INVARIANTS
  EveryGenerationRecorded
PROPERTIES
  HeadsNeverRegress
  RetrySucceeds
SYMMETRY ProcessSymmetry
