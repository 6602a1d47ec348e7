SPECIFICATION FairSpec
CONSTANTS
  Configs <- MCRename
  Rotations = 2
  MaxFileBytes = 2
  RecordBytes = 3
  BufferBytes = 4
  Inodes = {i1, i2, i3, i4}
  None = None
  Faults = {"open"}
  Burst = 1
  FileCap = 6
PROPERTY
  ReopenFailureInvalidatesRun
