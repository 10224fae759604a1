---------------------------- MODULE MCCaseSaves ----------------------------
(***************************************************************************)
(* Instances of CaseSaves for TLC: handlers that find a case the detector  *)
(* has just created, or one whose attempt has failed.                      *)
(***************************************************************************)
EXTENDS CaseSaves

CONSTANTS h1, h2, h3

MCHandlers == {h1, h2, h3}

MCPolicy == [maxAutonomousAmount |-> 2, maxRecoveryAttempts |-> 3,
             maxVoiceAttempts |-> 1, voiceEnabled |-> TRUE]

Detected ==
  [status |-> "RISK_DETECTED", rootCause |-> None, recoveryProbability |-> None,
   selectedIntervention |-> None, policyDecision |-> None, attempts |-> 0,
   voiceAttempts |-> 0, amount |-> 2, recoveryWindowExpiresAt |-> 1,
   recoveredAmount |-> 0, razorpayPaymentLinkId |-> None, razorpayLinkClaimed |-> FALSE]

Approved ==
  [Detected EXCEPT !.status = "POLICY_APPROVED", !.rootCause = "RETRYABLE_PAYMENT_FAILURE",
                   !.recoveryProbability = "MID", !.policyDecision = "APPROVED",
                   !.selectedIntervention = "CREATE_PAYMENT_LINK"]

\* The outcome of a simulated attempt, which the case remembers.
Failed == [Approved EXCEPT !.status = "FAILED", !.attempts = 1]

MCDraw == {1}

MCIntents == {"PAY_NOW", "CANNOT_PAY", "REFUSE"}

MCBegun == {Detected, Failed}
=============================================================================
