\* Every part one thread runs, transfers, calibrations and mappings failing.
SPECIFICATION SystemSpec
CONSTANTS
  Scale = 8
  WordSize = 16
  Clk = 12
  Frequencies <- TypedHz
  Nan <- NotANumber
  HalfPeriods <- TypedTimes
  Configured <- Manifests
  MapFails = TRUE
  Archives = {"a", "b"}
  CtrlBases = {TRUE, FALSE}
  StepFails = TRUE
  None = None
  Attens = {250, 1001}
  MaxAtten = 1000
  Quarter = 250
  UseTx = {1, 2}
  BusFails = TRUE
  Tones = {0, 1, 4, 5, 15, 16, 46, 514, 17000}
  SampleClk = 320
  Uint32 = 16384
  Wirings <- SomeWirings
  BistFails = TRUE
  AgcModes = {"manual", "fast", "slow", "hybrid"}
  UseRx = {1, 2}
  AgcFails = TRUE
  GainTables <- FiveTables
  SplitGts = {TRUE, FALSE}
  RxFreqs = {1, 3, 5, 7}
  Gains <- SomeGains
  TableSize = 4
  Parts2 = {1, 2, 3}
  HasReset = {1, 2}
  Rates = {100, 3072, 5000}
  Boards <- SomeBoards
  Decimates = {1, 4}
  TapCounts = {64}
  FiltRates = {3072}
  ClkFails = TRUE
  Parts = {"AD9361", "AD9363A"}
  Carriers = {60, 1200, 2400, 5000, 7000}
  Profiles = {0, 1}
  Alcs = {1, 3}
  LastAlc = 3
  MaxCalls = 3
  StartHz = 2400
  Phases = 32
  Converging <- SomeConverging
  Chains <- SomeChains
  RfBws = {100000, 3999998, 20000000}
  RfBwLimit = 56000000
  BbPlls = {1430000000}
  CalArgs <- SomeCalArgs
  Inverts = {TRUE}
  CalFails = TRUE
  MaxCals = 2
  MaxDelay = 3
  Eyes <- SomeEyes
  Cores = {7, 8}
  SkipModes = {0, 1, 2}
  DigDuplexes = {TRUE, FALSE}
  Retunes = {TRUE, FALSE}
  MaxTunes = 3
  WordBits = 8
  Halves <- EightHalves
  ByteBits = 2
  HalfBits = 3
  FieldVals = {0, 1, 5, 90, 255}
  Numbers = {0, 1, 2, 3, 4, 6, 7, 9, 10, 12, 14, 15}
  Arrays <- SomeArrays
  SpiRegs = 2
  SpiBits = 3
  MaxBytes = 2
  SpiValues = {13}
  VendorReg = 1
  VendorMask = 3
  SpiFails = TRUE
  MaxAccesses = 3
  RssiAsks <- SomeRssi
  KiloRates = {3000, 20610, 30720}
  RssiLos = {1200, 2400, 3300, 5500}
  Stored <- SomeStored
  Strengths <- SomeStrengths
  RxNumbers = {0, 1, 2}
  MaxRetunes = 2
  MaxGpios = 3
  Bands <- SomeBands
  MaxBands = 3
  BandLos = {3, 5}
  RxPorts = {9}
  BandFails = TRUE
  Max = 1
  Bit = {0}
  Errno <- AsErrno
  CanFail = TRUE
CHECK_DEADLOCK FALSE
INVARIANTS
  SystemTypeOK
  SweepAsAsked
  BroughtUp
  BistInForce
  HandlesBalanced
  ClocksInForce
  TypeOK
  ShownIsSet
  OthersKept
  CancelReverts
  RxKept
PROPERTIES
  AttenuationKept
  GainInForce
  SynthInForce
  Calibrated
  DigTuned
  SpiInForce
  RssiInForce
  BandsKept
