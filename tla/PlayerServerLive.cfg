SPECIFICATION Spec
CONSTANTS
  SinksPreroll = TRUE
  Duration = 1
  HeartbeatFrequency = 0
  WaitsForChanges = FALSE
  WaitsForSeeks = FALSE
  SeeksPaused = TRUE
  PausesStopped = TRUE
  ConversionWraps = FALSE
  MayEnd = TRUE
  MaxBus = 4
INVARIANTS
  StateSettles
PROPERTIES
  SeekApplied
