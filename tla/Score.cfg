CONSTANTS
  Hour = 1
  Delay = 1
  Windows <- MCWindows
  PaidBefore <- MCPaidBefore
  Waits <- MCWaits
  MaxAge = 730
  MaxFailures = 2
  MaxCases = 1
  MaxAttempts = 4

SPECIFICATION ScoreSpec

INVARIANT ScoreBandIsPossible

PROPERTY ScoreOnlyFalls
