------------------------------ MODULE MCClient ------------------------------
(* Client on a small instance. *)
EXTENDS Client, TLC

\* A second session is allowed, so that callbacks of the first may reach it.
MCVoicePolicies == [maxVoiceAttempts : {2}, voiceEnabled : BOOLEAN]

\* Both sides of each limit: an ordinary amount is 1, ages are in hours.
MCEvaluationPolicies ==
  [maxAutonomousAmount : {0, 1}, maxRecoveryAttempts : {0, 2},
   maxVoiceAttempts : {1}, recoveryWindowHours : {1, 72}]

\* The failed payments of the panel are the rows of the flow.
MCSymmetry == Permutations(Rows)
=============================================================================
