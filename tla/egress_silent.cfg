CONSTANTS
  Capacity = 2
  MaxFrames = 2
  Tunings <- LingeringOnly
  SockUnits = 2
  MaxSeq = 5
  MaxEchoes = 0
  MaxConns = 2
SPECIFICATION Spec
INVARIANT NothingSilent
