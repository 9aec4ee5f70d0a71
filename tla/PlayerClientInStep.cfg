SPECIFICATION Spec
CONSTANTS
  SinksPreroll = TRUE
  Bases = {1, 2}
  ServerStates = {4}
  MaxInbox = 1
  MaxBus = 2
  UserSets = {}
PROPERTIES
  PlaysInStep
