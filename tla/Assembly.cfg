SPECIFICATION Spec
CONSTANTS
  Registers = {10, 21}
  MAX_BITS = 2
INVARIANTS ProcessorReadsLine SimulatorsReadLine ImmediatesAgree
