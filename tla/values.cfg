\* Values at the limits of every type, written and read back.
SPECIFICATION Spec
CONSTANTS
  Null = Null
  EnumSizes <- Sizes
  IntSamples <- IntegersTried
  DayLimit = 120
  EpochOffset = 20
  MicroSamples <- Micros
  MicroLimit <- Limit64
  Exact = 1024
  TcOffset = 312
  DoubleSamples <- Doubles
  Texts <- TextSamples
  Refs <- RefSamples
  MissingFrom = 2147483647
INVARIANTS ValuesSurvive TimestampsKeepMilliseconds RejectionHasRemedy TextsAreShown
