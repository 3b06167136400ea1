SPECIFICATION MCSpec
CONSTANTS
  MemorySizes = {8, 12, 17, 23}
  Iterations = 3
  WordBits = 6
  ItemCount = 7
  ProgressStep = 3
  ThreadCounts = {0, 2, 3, 9}
  Registers = {0, 1, 5}
  RANDOMX_SUPERSCALAR_LATENCY = 7
  SUPERSCALAR_MAX_SIZE = 10
  LOOK_FORWARD_CYCLES = 2
  MAX_THROWAWAY_COUNT = 2
  GroupPars = {0}
  PassLength = 3
  RcpBits = 12
INVARIANTS ReferencesAreTheWindow FillsInOrder DatasetComplete
  MopsScheduledAsPlanned AddressRegisterIsDeepest ReciprocalIsExact
PROPERTY ResultsInOrder
CHECK_DEADLOCK FALSE
