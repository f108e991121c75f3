SPECIFICATION ScanSpec
CONSTANTS
  Digits <- MCDigits
  MaxLen = 5
  ValueCap = 100
  MaxCooldown = 18
  IntMax = 1000
INVARIANTS ScanTypeOK ReturnsFirstSeconds
