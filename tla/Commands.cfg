SPECIFICATION Spec
CONSTANTS
  Paths = {"state", "integrity", "summary", "output"}
  Invocations = 2
  Accidents = 2
  Lower = 1
  Upper = 3
  Needs = {1, 3}
INVARIANTS
  ReportsWhole
  SummaryBacked
  StatusZeroMeansOwnSummary
  DeltaFollowsSearches
