SPECIFICATION Spec
CONSTANTS
  Lines <- MCLines
  Home <- MCHome
  Paths <- MCPaths
  Addresses <- MCAddresses
  FileSets <- MCFileSets
  IfsMax = 3
  MaxLines = 3
INVARIANTS DocumentedMacAccepted
