SPECIFICATION Spec
CONSTANTS
  MaxInt = 31
  Second = 4
  Rates = {1, 7, 11, 30}
  RecordBytes = 5
  Gaps = {0, 1, 3, 9}
  Ticks = 7
  Sizes = {1, 9, 16}
  Counts = {2, 13}
INVARIANTS
  NeverAhead
  KeepsUp
  BaselineVolumeReached
