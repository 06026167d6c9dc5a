CONSTANTS
  Configs <- FullConfig
  Offers <- OneOffer
  Origins <- OneOrigin
  MaxBytes = 1
  CapLimit = 1
SPECIFICATION Spec
INVARIANTS WireReportsWithEvidence
CHECK_DEADLOCK FALSE
