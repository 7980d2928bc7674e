CONSTANTS
  Requested = 2
  OutSizes = {1, 3}
  MaxBatch = 3
  MaxItems = 6
  Producers = {p1}
  Readers = {r1, r2}
  OutSize = 1
  MaxPublish = 2
  MaxTickets = 2
SPECIFICATION WaitingFairSpec
INVARIANTS Conservation WaitersExact
PROPERTIES ImplementsDropOldest NoLostWakeup CloseWakes PublishedIsDelivered
