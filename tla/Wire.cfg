CONSTANTS
  mqttv5 = TRUE
  MAX_SUB_TOPICS_PER_MSG = 2
  MAX_TOPIC_LEN = 12
  Scripts <- MCScripts
  Again <- MCAgain
  Requests <- MCRequests
  AnyCut = FALSE
  MaxCancels = 1
  MaxLosses = 1
SPECIFICATION FairSpec
INVARIANTS RxInOrder InSync RequestsReadBack
PROPERTIES EveryPacketHandled
CHECK_DEADLOCK FALSE
