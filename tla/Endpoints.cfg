SPECIFICATION Spec
CONSTANTS
  Clients = {a, b}
  Ports = {1, 2}
  Taken = {}
  OneHost = FALSE
INVARIANTS
  TypeOK
  StaleOnlyAfterMoving
PROPERTIES
  HelloAnswered
  KeepsHearing
