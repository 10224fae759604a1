CONSTANTS
  h1 = h1
  h2 = h2
  w1 = w1
  d1 = d1
  d2 = d2
  alice = alice
  NoEmail = NoEmail
  Handlers <- MCHandlers
  Failures <- MCFailures
  Webhook <- MCWebhook
  EmailOf <- MCEmailOf
  MaxRequests = 3
  MaxFaults = 1

CHECK_DEADLOCK FALSE

SPECIFICATION IngestSpec

INVARIANTS
  OneCasePerReport
  ProcessedIsPlanned

PROPERTIES
  WebhookKeepsConsent
  ReportIsPlanned
