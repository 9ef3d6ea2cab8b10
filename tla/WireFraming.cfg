CONSTANTS
  mqttv5 = FALSE
  MAX_SUB_TOPICS_PER_MSG = 2
  MAX_TOPIC_LEN = 12
  Scripts <- MCScripts
  Again <- MCAgain
  Requests <- MCRequests
  AnyCut = TRUE
  MaxCancels = 1
  MaxLosses = 1
SPECIFICATION Spec
INVARIANTS InSync
CHECK_DEADLOCK FALSE
