\* An FDD part, as this firmware configures it.
SPECIFICATION Spec
CONSTANTS
  Fdd = TRUE
  Modes <- FddModes
  PinStates <- BothStates
  Loops <- OneLoop
  Bandwidths <- Few
  Narrow = {"narrow"}
  InRange <- Lo
  Asked <- LoAndOut
  Wrapped = 9
  Threshold = 1
  Managed = TRUE
  CanFail = TRUE
INVARIANTS
  TypeOK
  ModeKept
  QuietWork
  TrackingKept
  FiltersMatch
  LoPowerKept
  CalibratedWhereTuned
