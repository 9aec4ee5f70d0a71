SPECIFICATION Spec
CONSTANTS
  Players = {p, q}
  Ports = {5000, 5001, 32767}
  Unusable = {1}
  ClosesFirst = TRUE
  ListensFirst = TRUE
  OwnPorts = TRUE
  MaxHeld = 2
INVARIANTS
  TypeOK
  NothingHalfOpen
  NothingKept
  
