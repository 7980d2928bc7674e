CONSTANTS
  Capacity = 2
  MaxFrames = 2
  Tunings <- AllTunings
  SockUnits = 2
  MaxSeq = 4
  MaxEchoes = 2
  MaxConns = 2
SPECIFICATION FairSpec
INVARIANTS
  Framing AtMostOnce BooksClose OverrunsAreFaults
PROPERTIES StopJoins FeedReachesConsumer
