CONSTANTS
  r1 = r1
  r2 = r2
  r3 = r3
  Requests <- MCRequests
  TTL = 1
  MaxOvertaken = 1
  MaxLost = 1
  MaxCrashes = 1

SPECIFICATION FairSpec

INVARIANTS
  TypeOK
  OneHolder
  AttemptPerLink

PROPERTIES
  ImplementsLinkOnce
  CaseGetsItsLink
