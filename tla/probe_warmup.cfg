CONSTANTS
  fast = fast
  slow = slow
  Ids = {fast, slow}
  Period <- MCPeriod
  Calibrate = 2
  Factor = 2
  Late = {0, 4}
  MaxTime = 10
  Clients = {c1, c2}
  MaxRequest = 2
  Response = 2
  Second = 1
  Window = 1
  MaxSamples = 2
  RateWindow = 2
  RecentFrames = 2
  MaxBatch = 2
  MaxFrames = 3
  MaxUnits = 3
  Batches <- MCBatches
  Starts = {0, 1}
  MaxConnections = 2
  MaxRecords = 3
  RecvUnits = 3
  MaxReplyBuf = 9
  MaxProbes = 3
SPECIFICATION Spec
INVARIANT WarmupDiscarded
