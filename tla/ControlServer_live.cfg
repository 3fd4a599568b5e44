\* Liveness: two clients that may stay or leave, whole and partial requests.
SPECIFICATION FairSpec
CONSTANTS
  Client = {a, b}
  Requests <- MixedRequests
  MaxReq = 1
  Parts = 2
  FtwMod = 4
  Configs <- Configured
  HwFails = FALSE
  Interactive = TRUE
  Nobody = Nobody
CHECK_DEADLOCK FALSE
PROPERTIES
  StopReturnsOnceAlone
  EveryClientServed
  RequestsAnswered
