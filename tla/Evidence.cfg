CONSTANTS
  TimestampLen = 3
  Ciphers = {4865, 49195}
  Builds = {TRUE, FALSE}
  Clients <- ManyClients
  Profiles <- OwnProfiles
  Reserved = {2570, 51914}
  Files <- ManyFiles
  Scopes <- SomeScopes
SPECIFICATION Spec
INVARIANTS TypeOK PassIsEquivalence LimitationsAreVisible OwnClientsPass
CHECK_DEADLOCK FALSE
