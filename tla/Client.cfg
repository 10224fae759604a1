CONSTANTS
  Failures = {c1, c2}
  MaxReads = 2
  MaxCalls = 2
  Outcomes = {"COMPLETED"}
  Rows = {c1, c2}
  Batches = {b1}
  VoicePolicies <- MCVoicePolicies
  MaxTurns = 2
  MaxRecognizers = 2
  MaxSpeeches = 2
  EvaluationPolicies <- MCEvaluationPolicies
  MaxRuns = 2
  Tabs = {t1, t2}
  AnswersLost = TRUE
  MaxIssues = 2
SYMMETRY MCSymmetry
SPECIFICATION ClientSpec
INVARIANTS
  AnsweredPlanIsNotOffered
  FinalReportIsTrue
  ReportedOutcomeIsTrue
  OfferedSessionIsAccepted
  NeverStuck
  MetricsAddUp
  KnownDeliveryVerifies
PROPERTIES
  RotatedStaysDead
\* a request may be lost and the merchant may stop
CHECK_DEADLOCK FALSE
