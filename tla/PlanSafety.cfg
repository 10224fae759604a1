CONSTANTS
  link = link
  call = call
  stop = stop
  k1 = k1
  k2 = k2
  p1 = p1
  p2 = p2
  p3 = p3
  Cases <- MCCases
  CustomerFacing <- MCCustomerFacing
  Plans <- MCPlans
  Confirms <- MCConfirms
  MaxCrashes = 1

CHECK_DEADLOCK FALSE
SYMMETRY Symmetry

SPECIFICATION Spec

INVARIANTS
  OneOpenPlan
  ExecutedOnce
  ReportedStatusIsTrue

PROPERTY ClosedIsFinal
