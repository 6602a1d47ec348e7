SPECIFICATION Spec
CONSTANTS
  Configs <- MCRename
  Rotations = 3
  MaxFileBytes = 2
  RecordBytes = 3
  BufferBytes = 4
  Inodes = {i1, i2, i3, i4, i5}
  None = None
  Faults = {"open", "encode", "write", "exit", "rotator", "timeout", "cancel", "kill", "oom", "monitor", "report", "startup"}
  Burst = 1
  FileCap = 6
INVARIANTS
  TypeOK
  ReopenNeverRefused
  ReplacementPathFree
  NextRotationWaitsForReopen
  OpenFileStaysLinked
  ChildrenReaped
  CleanExitWroteEverything
  VerdictIsExact
