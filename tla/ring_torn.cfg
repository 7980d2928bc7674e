CONSTANTS
  Producers = {p1, p2}
  Readers = {r1}
  Capacity = 2
  FrameWords = 2
  ClaimOrdered = FALSE
  MaxBatch = 2
  MaxTickets = 5
SPECIFICATION Spec
INVARIANT WholeReads
