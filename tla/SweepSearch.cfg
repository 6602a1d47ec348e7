SPECIFICATION Spec
CONSTANTS
  Strategies = {"rename-reopen"}
  Needs <- MCNeeds
  RunFaults = {}
  Ranges <- MCEveryRange
  Repetitions = 1
INVARIANT
  LeastLimitFound
