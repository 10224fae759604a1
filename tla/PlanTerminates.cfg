CONSTANTS
  link = link
  call = call
  stop = stop
  k1 = k1
  k2 = k2
  p1 = p1
  p2 = p2
  p3 = p3
  Cases <- MCTwoCases
  CustomerFacing <- MCTwoFacing
  Plans <- MCTwoPlans
  Confirms <- MCConfirms
  MaxCrashes = 0

CHECK_DEADLOCK FALSE

SPECIFICATION FairSpec

PROPERTY ConfirmedPlanTerminates
