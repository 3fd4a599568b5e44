\* Every command, one client, two packets in two pieces, failing hardware.
SPECIFICATION Spec
CONSTANTS
  Client = {a}
  Requests <- AllRequests
  MaxReq = 2
  Parts = 2
  FtwMod = 4
  Configs <- AnyConfig
  HwFails = TRUE
  Interactive = TRUE
  Nobody = Nobody
CHECK_DEADLOCK FALSE
INVARIANTS
  TypeOK
  Answered
  StoppedIsStopped
