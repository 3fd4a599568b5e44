\* Frequencies out of range.
SPECIFICATION Spec
CONSTANTS
  Fdd = TRUE
  Modes <- Firmware
  PinStates <- BothStates
  Loops <- OneLoop
  Bandwidths <- Few
  Narrow = {"narrow"}
  InRange <- Lo
  Asked <- LoAndOut
  Wrapped = 9
  Threshold = 1
  Managed = TRUE
  CanFail = FALSE
INVARIANTS
  OkMeansTuned
