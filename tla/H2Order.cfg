CONSTANTS
  Streams = {1}
  MinFrame = 2
  TopFrame = 5
  MAX_BLOCK = 4
  MaxOver = 1
  MaxFrames = 3
  TableCap = 3
  FirstTable = 1
  Growth <- Resizes
  Overs = {1}
  Lens = {0, 2}
  Tables = {1}
  FrameSizes = {3}
  Faults <- ManyFaults
  Does <- OrderDoes
  Budget <- OrderBudget
  WireCap = 1
SPECIFICATION Spec
INVARIANTS TypeOK BlocksIntact
PROPERTIES KeepsOrder
CHECK_DEADLOCK FALSE
