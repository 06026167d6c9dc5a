CONSTANTS
  Streams = {1}
  MinFrame = 2
  TopFrame = 5
  MAX_BLOCK = 4
  MaxOver = 1
  MaxFrames = 3
  TableCap = 3
  FirstTable = 1
  Growth = {1}
  Overs = {0}
  Lens = {2}
  Tables = {1}
  FrameSizes = {2}
  Faults <- NoFaults
  Does <- LiveDoes
  Budget <- LiveBudget
  WireCap = 1
SPECIFICATION FairSpec
PROPERTIES EverythingArrives UpstreamCloseEnds
