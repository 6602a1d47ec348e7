SPECIFICATION FairSpec
CONSTANTS
  Strategies = {"copytruncate", "rename-reopen"}
  Needs <- MCLow
  RunFaults = {"prepare", "exit", "summary", "hang", "timeout", "cancel"}
  Ranges <- MCRanges
  Repetitions = 2
INVARIANTS
  TypeOK
  ProbesAreNew
  BoundaryMeasured
  OOMMeansMemory
  
PROPERTY
  SearchEnds
