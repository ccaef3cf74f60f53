SPECIFICATION FairSpec
CONSTANTS
  UART_DATA_RECEPTION_TIMEOUT_SEC = 2
  MAX_ENCODED_SIZE = 2
  MAX_CONSECUTIVE_ERRORS = 2
  Queries = 1
  MaxRequests = 1
  MaxNoise = 1
  MaxLate = 1
  MaxErrors = 2
INVARIANTS
  ReceptionInv
  QuietInConfig
PROPERTIES
  AlarmAfterSilence
  ReceiverProgress
