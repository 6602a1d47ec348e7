SPECIFICATION Spec
CONSTANTS
  Kernels <- MCKernels
  Levels = {0, 1, 3}
  StartPhase = "rename"
  Rotations = 2
  Samples = 3
  MaxTime = 3
  StepsBack = 1
INVARIANTS
  RatesFitSteps
  RanksByCounting
  TransientHappened
  SegmentsCoverSamples
  SlopeIsPairwise
  CountersSurvive
