\* No terminal: the process is meant to stay up.
SPECIFICATION Spec
CONSTANTS
  Client = {a}
  Requests <- FewRequests
  MaxReq = 2
  Parts = 1
  FtwMod = 4
  Configs <- Configured
  HwFails = FALSE
  Interactive = FALSE
  Nobody = Nobody
CHECK_DEADLOCK FALSE
INVARIANTS
  DisconnectIsHarmless
