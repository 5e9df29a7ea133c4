SPECIFICATION Spec
CONSTANTS
  BASE = 12
  RX_DEPTH = 4
  TX_DEPTH = 4
  IO_IN_DEPTH = 4
  DBGREG <- MCDbgreg
  BYTE_TIME = 4
  SEND_TIME = 2
  Packets <- MCPackets
  MAX_PACKETS = 3
INVARIANTS TypeOK NoOverrun AnswersInOrder PacketsDone
CHECK_DEADLOCK FALSE
