CONSTANTS
  Reasons <- MCReasons
  Amounts <- MCAmounts
  WindowEnds <- MCWindowEnds
  Policies <- MCPolicies
  PlanTTL = 0
  ActivityTTL = 1
  MaxNow = 3

SPECIFICATION Spec

PROPERTY RefusalWins
