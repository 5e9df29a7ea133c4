SPECIFICATION FairSpec
CONSTANTS
  XLEN = 4
  BYTE_BITS = 1
  INST_BYTES = 1
  IoAddresses = {15}
  RF_CAPACITY = 3
  ROB_CAPACITY = 8
  LSB_CAPACITY = 4
  RS_CAPACITY = 4
  BP_CAPACITY = 4
  ICACHE_CAPACITY = 8
  IO_PERIOD = 2
  INST_GOAL = 4
  Programs <- WrongPathInput
PROPERTY Progress
