CONSTANTS
  ReqHeads <- PipelineReqs
  RspHeads <- PipelineRsps
  MaxReq = 4
  MaxInterim = 1
  MaxPieces = 1
  ChanCap = 1
  WireCap = 1
SPECIFICATION Spec
INVARIANTS
  PipelineBound
PROPERTIES
  ClientCloseEnds
  UpstreamCloseEnds
