SPECIFICATION Spec
CONSTANTS
  Pids <- MCPids
  Digits <- MCDigits
  Guard = 1
  Period = 3
  Repeat = 2
  MaxAsk = 3
  MaxLost = 1
INVARIANTS TypeOK OneHeartbeat StrangersSpared
PROPERTIES StaysAuthorized
