CONSTANTS
  Clients <- ManyClients
  Outgoing <- ManyOutgoing
  MAX_HELLO = 8
  MAX_RECORD = 3
  HEADER = 2
  PREFIX = 1
  Buffers = {1, 2, 4}
SPECIFICATION Spec
INVARIANTS TypeOK NothingLost VerdictIsOfMessage CaptureIsWire
PROPERTIES HelloIsAnswered
CHECK_DEADLOCK FALSE
