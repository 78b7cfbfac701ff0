SPECIFICATION PartsSpec
CONSTANTS
  Jobs <- MCJobs
  TRANSFER_SIZE = 2
  Garbage = {0, 1, 7}
  numStages = 2
  count = 2
  Val = {v1, v2}
  K = 16
  L = 2
  Threads = 4
  Modes = {"XXYY", "CRCI", "XXCRCIYY", "I", "IV", "IQUV"}
  Inputs <- MCInputs
  MillisPerDay = 5
  Word = 64
  Days = 3
  MaxDuration = 6
  Padding = 2
  SourceModes = {"DRX", "DRX8", "TBS", "COR", "RAW"}
  TableSizes = {0, 1, 2, 3, 4}
  BandCount = 3
  CorBands = 2
  StandCount = 2
  SourceRate = 2
  Durations = {0, 3}
  MaxSent = 18
  NoFrame = NoFrame
  Run = {"first", "second"}
  CommandLines <- MCCommandLines
  Patience = 1
  MaxLost = 1
  MaxDup = 1
  NoRun = NoRun
  StartDates <- MCDates
  TicksPerDay = 3
  MaxDays = 3
  Radix = 2
  Width <- MCWidth
  STATUS = 2
  MAX_SIZE = 24
  Sendings <- MCSendings
  Replies <- MCReplies
CHECK_DEADLOCK FALSE
INVARIANTS
  TransferSound
  SpectrumSound
  SlotsAreIntervals
  VerdictSound
  ClockSound
  DatagramsUnderstood
PROPERTIES
  RingImplements
  SourceSound
  PartsEnd
