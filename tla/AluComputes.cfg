SPECIFICATION Spec
CONSTANTS
  XLEN = 4
  BYTE_BITS = 2
  INST_BYTES = 4
  IoAddresses = {}
  RF_CAPACITY = 1
INVARIANT AluComputesIsa
