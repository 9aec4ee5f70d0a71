SPECIFICATION SafeSpec
CONSTANTS
  SinksPreroll = TRUE
  Duration = 1
  HeartbeatFrequency = 0
  WaitsForChanges = TRUE
  WaitsForSeeks = FALSE
  SeeksPaused = FALSE
  PausesStopped = FALSE
  ConversionWraps = TRUE
  MayEnd = FALSE
  MaxBus = 5
INVARIANTS
  StateRestored
