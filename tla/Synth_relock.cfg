\* Back from the external to the internal LO.
SPECIFICATION SynthSpec
CONSTANTS
  Parts = {"AD9361"}
  Carriers = {1200, 2400}
  Profiles = {0}
  Alcs = {1}
  LastAlc = 3
  MaxCalls = 1
  StartHz = 2400
CHECK_DEADLOCK FALSE
PROPERTIES
  RelocksWhereItWas
