CONSTANTS
  MemSize = 32
  Byte <- AllBytes
  NULL = null
  UNASKED = unasked
  LongBit = 0
  LongLimit = 32
  CharSigned = TRUE
  Programs <- AllPrograms
SPECIFICATION LibFairSpec
INVARIANTS TypeOK WordsAligned SearchesRight TextsFound StringsWritten NumbersReadBack
PROPERTY ImplementsBlockMove
CHECK_DEADLOCK FALSE
