SPECIFICATION Spec
CONSTANTS
  Configs <- MCFiles
  Rotations = 2
  MaxFileBytes = 2
  RecordBytes = 3
  BufferBytes = 4
  Inodes = {i1, i2, i3, i4}
  None = None
  Faults = {"open", "exit", "rotator", "timeout", "cancel", "kill", "oom", "monitor", "report", "startup"}
  Burst = 1
  FileCap = 6
INVARIANTS
  CopyIsPrefix
  CopytruncateKeepsOrder
  OnlyLossIsReported
  RangesFollowRotations
PROPERTIES
  CopiedUnitsSurvive
  KeepsStream
