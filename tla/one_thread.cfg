CONSTANTS
  Radix = 8
  Magic <- MCMagic
  Version = 3
  HeaderSize = 4
  RecordSize = 9
  MaxCount = 31
  MaxPayload = 5
  GapBit = 1
  EchoBit = 2
  ReservedBit = 4
  Digits = {0, 1, 4, 7}
  Numbers <- MCNumbers
  Requested = 6
  Values = {1, 2, 3}
  MaxSamples = 60
  CanBatch = 2
  QueueSize = 2
  OvflModulus = 4
  MaxArrivals = 12
  PerTick = 2
  DrainBatch = 3
  Ids = 3
  MaxStalls = 6
  Period = 2
  FramesDue = 4
  MaxTime = 9
  Addresses = 2
SPECIFICATION FairSpec
INVARIANTS CodecExact PercentilesFair DropsSinceFirstStamp Paced NoLeak
PROPERTY DebtRepaid
