CONSTANTS
  r1 = r1
  r2 = r2
  r3 = r3
  Requests <- MCPair
  TTL = 2
  MaxOvertaken = 1
  MaxLost = 0
  MaxCrashes = 0

SPECIFICATION Spec

INVARIANT OneLink
