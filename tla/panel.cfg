SPECIFICATION FairSpec
CONSTANTS
  w1 = w1
  w2 = w2
  Workers <- MCWorkers
  Ttl = 1
  Back = 1
  MaxChanges = 1
  MaxFollow = 1
INVARIANTS TypeOK RefreshGoesOn
PROPERTIES PageCatchesUp
