SPECIFICATION Spec
CONSTANTS
  SinksPreroll = TRUE
  Requests = {0, 1, 2}
  Duration = 2
  Discovered = {2}
  SeekMayFail = FALSE
  MaxBus = 4
INVARIANTS
  PendingHasServer
PROPERTIES
  SeekServed
  StateReported
