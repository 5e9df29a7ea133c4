SPECIFICATION FairSpec
CONSTANTS
  BASE = 12
  RX_DEPTH = 4
  TX_DEPTH = 3
  IO_IN_DEPTH = 4
  DBGREG <- MCDbgreg
  BYTE_TIME = 14
  SEND_TIME = 12
  GREETING <- MCGreeting
  image <- MCImage
  input <- MCInput
  RAM_BLK = 13
  IN_BLK = 2
  PEEK = 6
  Outputs = {3}
  MAX_IO = 4
PROPERTIES Returns
CHECK_DEADLOCK FALSE
