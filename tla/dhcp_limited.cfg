SPECIFICATION FairSpec
CONSTANTS
  DefaultDelay = 60
  ShortDelay = 3
  ReconnectThreshold = 3
  RequestKinds <- DhcpKinds
  Answers <- MCAnswersHeartbeat
  GoodAnswer <- MCGoodAnswer
  QueueCap = 2
  MaxLate = 1
  TryTimes = 3
  Eternal = FALSE
  Keepalive1Mod = TRUE
  JluAfter = 2
PROPERTIES ImplementsSession SilenceStops
