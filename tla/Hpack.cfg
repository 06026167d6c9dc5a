CONSTANTS
  Headers <- AllHeaders
  Static <- StaticTable
  Offered <- OfferedHeaders
  Accepted <- AcceptedHeaders
  MapOf <- Mapping
  SizeOf <- HeaderSizes
  InitialLimit = 3
  Limits = {0, 2, 3, 4}
  Advertised = 3
  MaxBlock = 4
  Response = FALSE
SPECIFICATION Spec
INVARIANTS TypeOK TablesAgree SizesAreTrue HeadersMapped RepresentationKept
