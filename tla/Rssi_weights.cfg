\* The RSSI of this firmware at a sample rate of 20.61 MHz.
SPECIFICATION RssiSpec
CONSTANTS
  RssiAsks <- FirmwareAsk
  KiloRates = {20610, 30720}
  RssiLos = {2400}
  Stored <- SomeStored
  Strengths <- SomeStrengths
  RxNumbers = {0, 1, 2}
  MaxRetunes = 3
CHECK_DEADLOCK FALSE
INVARIANTS
  WeightsAddUp
