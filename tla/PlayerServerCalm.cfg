SPECIFICATION SafeSpec
CONSTANTS
  SinksPreroll = TRUE
  Duration = 2
  HeartbeatFrequency = 1
  WaitsForChanges = TRUE
  WaitsForSeeks = TRUE
  SeeksPaused = FALSE
  PausesStopped = FALSE
  ConversionWraps = TRUE
  MayEnd = FALSE
  MaxBus = 4
INVARIANTS
  TypeOK
  StateRestored
  PlaysWhereAsked
PROPERTIES
  MovedAtRest
  ImplementsPlayback
