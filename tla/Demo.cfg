CONSTANTS
  h1 = h1
  h2 = h2
  d1 = d1
  alice = alice
  s1 = s1
  s2 = s2
  NoEmail = NoEmail
  Handlers <- MCHandlers
  Failures <- MCFailures
  Webhook <- MCWebhook
  EmailOf <- MCEmailOf
  Specs <- MCSpecs
  Planned <- MCPlanned
  OptedOut <- MCPlanned
  MaxRequests = 3
  MaxFaults = 1

SYMMETRY Symmetric

CHECK_DEADLOCK FALSE

SPECIFICATION Spec

INVARIANTS
  AloneMeansPristine
