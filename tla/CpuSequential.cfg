SPECIFICATION Spec
CONSTANTS
  XLEN = 2
  BYTE_BITS = 2
  INST_BYTES = 1
  IoAddresses = {3}
  RF_CAPACITY = 3
  ROB_CAPACITY = 5
  LSB_CAPACITY = 4
  RS_CAPACITY = 2
  BP_CAPACITY = 1
  ICACHE_CAPACITY = 2
  IO_PERIOD = 2
  Programs <- MCPrograms
INVARIANTS TypeOK OperandsStillToCome RegistersNameYoungest OneWorkerEach IssueFits CommittedAccessesFirst NoInputTakenBack FetchesAgree AccessesAgree NoInheritedMark
PROPERTY ExecutesSequentially
