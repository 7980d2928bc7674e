CONSTANTS
  Producers = {p1, p2}
  Readers = {r1}
  Capacity = 2
  FrameWords = 2
  ClaimOrdered = TRUE
  MaxBatch = 2
  MaxTickets = 5
SPECIFICATION FairSpec
INVARIANTS SingleWriter WholeReads Accounting
PROPERTIES ImplementsLog PublishReturns EveryFrameSettled
