CONSTANTS
  Producers = {p1}
  Readers = {r1}
  OutSize = 2
  MaxPublish = 2
  MaxTickets = 2
SPECIFICATION IdleFairSpec
PROPERTY PublishWakes
