SPECIFICATION Spec
CONSTANTS
  Grain = 2
  Full = 4
  Asked = {1, 5}
  OneProcess = FALSE
  Toggles = TRUE
INVARIANTS
  TypeOK
  MutedIsSilent
PROPERTIES
  UnmuteRestores
  FollowsSound
