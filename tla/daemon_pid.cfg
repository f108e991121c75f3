SPECIFICATION Spec
CONSTANTS
  Pids <- MCPids
  Digits <- MCDigits
  Newline = 10
  NoOne = NoOne
  Files = {f1, f2, f3}
  NoFile = NoFile
SYMMETRY FileSymmetry
INVARIANTS TypeOK OneDaemon FileNamesDaemon
