\* Liveness when a client may stay connected and silent.
SPECIFICATION FairSpec
CONSTANTS
  Client = {a}
  Requests <- FewRequests
  MaxReq = 1
  Parts = 1
  FtwMod = 4
  Configs <- Configured
  HwFails = FALSE
  Interactive = TRUE
  Nobody = Nobody
CHECK_DEADLOCK FALSE
PROPERTIES
  StopReturns
