SPECIFICATION Spec
CONSTANTS
  Handles <- MCHandles
  NoHandle = none
  FilterSets <- MCFilterSets
  Topics <- MCTopics
  MAX_TOPIC_LEN = 2
  MAX_SUBSCRIBERS = 2
  MAX_INFLIGHT = 2
  MAX_ATTEMPTS = 2
  TxFrames = 1
  PidMax = 9
  Faults = {"timeout", "cancel", "contention", "refuse", "loss", "connack", "forget"}
  MaxMessages = 3
  MaxFaults = 2
  MaxEvents = 4
CHECK_DEADLOCK FALSE
INVARIANTS
  PlacesAccounted
  AnswerComes
  LiveIsSubscribed
  YieldsMatching
  EndsWithSession
PROPERTY OkMeansUnsubscribed
