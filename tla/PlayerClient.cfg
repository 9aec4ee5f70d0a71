SPECIFICATION Spec
CONSTANTS
  SinksPreroll = TRUE
  Bases = {1, 2}
  ServerStates = {1, 2, 4}
  MaxInbox = 1
  MaxBus = 2
  UserSets = {3}
INVARIANTS
  TypeOK
  StateSettles
PROPERTIES
  StateGoesWithBase
  PendingBaseApplied
  FollowsServer
