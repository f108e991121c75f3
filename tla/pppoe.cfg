SPECIFICATION FairSpec
CONSTANTS
  DefaultDelay = 60
  ShortDelay = 3
  ReconnectThreshold = 6
  RequestKinds <- PppoeKinds
  Answers <- MCAnswers
  GoodAnswer <- MCGoodAnswer
  QueueCap = 3
  MaxLate = 1
  TryTimes = 2
INVARIANTS TypeOK RepliesMatchRequests SeedCurrent
PROPERTIES RecoversByItself SilenceStops
