SPECIFICATION LoginSpec
CONSTANTS
  TryTimes = 2
  Timeout = 1
  LinkCap = 2
INVARIANTS ResponsesAnswerRequests
