\* A TDD part under pin control, the LO power not managed.
SPECIFICATION Spec
CONSTANTS
  Fdd = FALSE
  Modes <- TddAndFdd
  PinStates <- BothStates
  Loops <- OneLoop
  Bandwidths <- Few
  Narrow = {"narrow"}
  InRange <- Lo
  Asked <- Lo
  Wrapped = 9
  Threshold = 1
  Managed = FALSE
  CanFail = TRUE
INVARIANTS
  PinsGivenBack
