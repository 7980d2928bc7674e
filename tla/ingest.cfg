CONSTANTS
  NSources = 2
  NSinks = 2
  DrainBatch = 2
  BufferSize = 3
  Capacity = 2
  MaxArrivals = 3
  Noisy = {1}
SPECIFICATION FairSpec
INVARIANTS SinksAgree OrderKept StopKeepsFrames
PROPERTIES StopReturns NoStarvation
