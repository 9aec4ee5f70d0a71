SPECIFICATION SafeSpec
CONSTANTS
  SinksPreroll = TRUE
  Requests = {0, 1, 2}
  Duration = 2
  Discovered = {0, 2}
  SeekMayFail = TRUE
  MaxBus = 5
INVARIANTS
  TypeOK
  LockHasReleaser
  StateSettles
PROPERTIES
  ImplementsSeekRequests
