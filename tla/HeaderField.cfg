CONSTANTS
  Chars <- Letters
  Code <- Letter
  Octet = 5
  Buffer = 15
  MaxShift = 12
  Spelled <- Spelling
  public = "B"
  upstream = "A"
  public_host = "B"
  upstream_hosts = {"A", "a"}
  NotUtf8 = {"0xFF"}
  White = {" ", "NBSP"}
  MaxLength = 21
  Secure <- AnyCase
  Reads <- Reading
  Responses <- ManyResponses
SPECIFICATION FieldSpec
INVARIANTS RedirectComesBack CookieIsForBridge
CHECK_DEADLOCK FALSE
