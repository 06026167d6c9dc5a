CONSTANTS
  ReqHeads <- FramingReqs
  RspHeads <- FramingRsps
  MaxReq = 2
  MaxInterim = 1
  MaxPieces = 1
  ChanCap = 1
  WireCap = 2
SPECIFICATION Spec
INVARIANTS
  TypeOK
  ResponsesInSync
  RequestsInSync
  OkMeansAnswered
