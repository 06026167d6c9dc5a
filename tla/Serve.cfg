CONSTANTS
  c1 = c1
  c2 = c2
  c3 = c3
  Clients <- ThreeClients
  Limit = 2
SPECIFICATION Spec
INVARIANTS
  TypeOK
  PermitsConserved
PROPERTIES
  KeepsPromise
  QueuedIsAnswered
  CtrlCStops
