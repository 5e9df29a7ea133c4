SPECIFICATION Spec
CONSTANTS
  DATA_BITS = 3
  PARITY_MODE = 1
  OVERSAMPLE = 8
  CLKS = 2
  MAX_SLIP = 2
  NOISE = TRUE
INVARIANT NoneLost
PROPERTIES ReceivesWhatIsSent NoFalseAlarm
