SPECIFICATION FairSpec
CONSTANTS
  DefaultDelay = 60
  ShortDelay = 3
  ReconnectThreshold = 2
  RequestKinds <- DhcpKinds
  Answers <- MCAnswersLogin
  GoodAnswer <- MCGoodAnswer
  QueueCap = 2
  MaxLate = 1
  TryTimes = 2
  Eternal = TRUE
  Keepalive1Mod = FALSE
  JluAfter = 2
INVARIANTS TypeOK RepliesMatchRequests CredentialsCurrent
PROPERTIES PauseFollowsVerdict TemplateAlternates NothingRealigns SilenceLeadsToRelogin RecoversWhenInSync
