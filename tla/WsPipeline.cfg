SPECIFICATION Spec
CONSTANTS
  XLEN = 4
  BYTE_BITS = 1
  INST_BYTES = 2
  IoAddresses = {}
  RF_CAPACITY = 3
  MAXN = 4
  EXIT_PORT = 15
  A0 = 1
  Programs <- AllPrograms
INVARIANTS TypeOK NothingLost OneWorkerEach OperandsStillToCome RegistersNameYoungest AccessesInProgramOrder
PROPERTIES Sequential Progress
CHECK_DEADLOCK FALSE
