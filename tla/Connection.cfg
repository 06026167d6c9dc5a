CONSTANTS
  Configs <- AllConfigs
  Offers <- MixedOffers
  Origins <- MixedOrigins
  MaxBytes = 2
  CapLimit = 1
SPECIFICATION Spec
INVARIANTS TypeOK ForwardsOnlyAgreed EvidenceIsWhole EndsAreDocumented
  EvidenceIsOfABridge
CHECK_DEADLOCK FALSE
