SPECIFICATION MonitoredSpec
CONSTANTS
  Configs <- MCMonitored
  Rotations = 2
  MaxFileBytes = 2
  RecordBytes = 3
  BufferBytes = 3
  Inodes = {i1, i2, i3, i4}
  None = None
  Faults = {"monitor", "startup"}
  Burst = 1
  FileCap = 4
  Samples = 1
INVARIANTS
  SampleCoversLog
  SampleCountsOnce
