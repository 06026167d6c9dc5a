CONSTANTS
  Streams = {1}
  MinFrame = 2
  TopFrame = 5
  MAX_BLOCK = 4
  MaxOver = 1
  MaxFrames = 3
  TableCap = 3
  FirstTable = 1
  Growth = {0, 2}
  Overs = {0, 1}
  Lens = {1, 3}
  Tables = {0, 2}
  FrameSizes = {2, 4}
  Faults <- NoFaults
  Does <- RaceDoes
  Budget <- RaceBudget
  WireCap = 2
SPECIFICATION Spec
INVARIANTS LimitsKept OnlyLoweringRejects
CHECK_DEADLOCK FALSE
