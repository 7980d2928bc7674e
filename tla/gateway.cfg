CONSTANTS
  NSources = 2
  NEgresses = 2
  Capacity = 2
  MaxFrames = 1
  Burst = 2
  MaxSeq = 3
SPECIFICATION FairSpec
INVARIANTS ReportBalances EndsDrained NothingDangles
PROPERTY ShutdownCompletes
