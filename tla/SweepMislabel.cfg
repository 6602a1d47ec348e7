SPECIFICATION Spec
CONSTANTS
  Strategies = {"rename-reopen"}
  Needs = {0}
  RunFaults = {"exit"}
  Ranges <- MCPair
  Repetitions = 1
INVARIANT
  FunctionalFailuresAreNoThreshold
