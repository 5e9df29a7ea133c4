SPECIFICATION FairSpec
CONSTANTS
  BASE = 12
  RX_DEPTH = 4
  TX_DEPTH = 4
  IO_IN_DEPTH = 8
  DBGREG <- MCDbgreg
  BYTE_TIME = 14
  SEND_TIME = 12
  GREETING <- MCGreeting
  image <- MCImage
  input <- MCInput
  RAM_BLK = 13
  IN_BLK = 2
  PEEK = 6
  Outputs = {0, 3, 8}
  MAX_IO = 5
INVARIANT PeekShowsMemory
PROPERTIES ImplementsSession ReturnsUnlessUnannounced
CHECK_DEADLOCK FALSE
