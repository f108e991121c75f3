SPECIFICATION LoginFairSpec
CONSTANTS
  TryTimes = 2
  Timeout = 1
  LinkCap = 2
INVARIANTS LoginTypeOK VerdictIsOfThisLogin
PROPERTIES EndsUnderTraffic
