SPECIFICATION FairSpec
CONSTANTS
  Configs <- MCAll
  Rotations = 2
  MaxFileBytes = 1
  RecordBytes = 3
  BufferBytes = 4
  Inodes = {i1, i2, i3, i4}
  None = None
  Faults = {"exit", "rotator", "timeout", "cancel", "kill", "monitor", "report", "startup"}
  Burst = 1
  FileCap = 3
PROPERTIES
  RunEnds
