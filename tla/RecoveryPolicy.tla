--------------------------- MODULE RecoveryPolicy ---------------------------
(***************************************************************************)
(* The deterministic decision modules of the server, as operators: the     *)
(* status table, the root-cause lookup, the shared precedence function,    *)
(* the eligibility and policy engines, the intervention selector, the      *)
(* voice-intent lookup, the two pipelines, the action executor and the     *)
(* outcome evaluator.  They compute on an in-memory copy of a recovery     *)
(* case; nothing here is stored.  The state machines that load, decide     *)
(* and save are in the modules that extend this one.                       *)
(*                                                                         *)
(* A case is a record.  Its score is kept as one of three bands, the only  *)
(* thing the selector reads of it: "HIGH" (>= 0.75), "MID" (0.15 up to     *)
(* 0.75) and "LOW" (< 0.15).                                               *)
(*                                                                         *)
(* An environment env is what a handler loads next to the case:            *)
(* [policy, optedOut, now].                                                *)
(***************************************************************************)
EXTENDS Naturals

Terminal == {"RECOVERED", "STOPPED", "ESCALATED", "EXPIRED"}

Statuses == {"RISK_DETECTED", "ANALYZING", "ELIGIBLE", "ACTION_SELECTED",
             "POLICY_APPROVED", "ACTION_EXECUTED", "WAITING_OUTCOME",
             "FAILED"} \cup Terminal

\* The status an in-memory case is left in by a call that throws; such a case is
\* never saved.
Thrown == "THROWN"

AllowedTransitions ==
  [s \in Statuses \cup {Thrown} |->
     CASE s = "RISK_DETECTED"   -> {"ANALYZING"}
       [] s = "ANALYZING"       -> {"ELIGIBLE", "STOPPED", "ESCALATED", "EXPIRED"}
       [] s = "ELIGIBLE"        -> {"ACTION_SELECTED"}
       [] s = "ACTION_SELECTED" -> {"POLICY_APPROVED", "STOPPED", "ESCALATED", "EXPIRED"}
       [] s = "POLICY_APPROVED" -> {"ACTION_EXECUTED", "STOPPED", "ESCALATED", "EXPIRED"}
       [] s = "ACTION_EXECUTED" -> {"WAITING_OUTCOME", "STOPPED", "ESCALATED"}
       [] s = "WAITING_OUTCOME" -> {"RECOVERED", "FAILED"}
       [] s = "FAILED"          -> {"ANALYZING"}
       [] OTHER                 -> {}]

Transition(rc, to) ==
  [rc EXCEPT !.status = IF to \in AllowedTransitions[rc.status] THEN to ELSE Thrown]

None == "NONE"

CustomerFacing == {"CREATE_PAYMENT_LINK", "START_VOICE_RECOVERY"}

ActionAllowlist == CustomerFacing \cup {"RECORD_PROMISE_TO_PAY", "ESCALATE", "STOP"}

RootCauses == {"RETRYABLE_PAYMENT_FAILURE", "CUSTOMER_PAYMENT_METHOD_ISSUE",
               "NON_RETRYABLE_PAYMENT_FAILURE", "CUSTOMER_DECLINED", "UNKNOWN"}

Bands == {"HIGH", "MID", "LOW"}

ReasonCodes == {"INVALID_ACTION", "OPT_OUT_BEHAVIOR", "APPROVED",
                "HIGH_VALUE_REQUIRES_REVIEW", "RECOVERY_WINDOW_EXPIRED",
                "RETRY_LIMIT_REACHED", "MAX_VOICE_ATTEMPTS_REACHED"}

(***************************************************************************)
(* Root cause analyzer: the failure reason the payment carries, after      *)
(* trimming and lower-casing, looked up in a table; UNKNOWN for the rest.  *)
(***************************************************************************)
FailureReasonMap ==
  [RETRYABLE_PAYMENT_FAILURE     |-> {"insufficient_funds", "authentication_failed",
                                      "otp_timeout", "gateway_error", "network_error",
                                      "timeout", "processing_error"},
   NON_RETRYABLE_PAYMENT_FAILURE |-> {"bank_declined", "card_declined", "issuer_declined",
                                      "fraud_suspected", "restricted_card"},
   CUSTOMER_PAYMENT_METHOD_ISSUE |-> {"card_expired", "invalid_card", "invalid_upi_pin",
                                      "expired_upi_mandate"},
   CUSTOMER_DECLINED             |-> {"customer_cancelled", "payment_cancelled"}]

AnalyzeRootCause(reason) ==
  IF \E c \in DOMAIN FailureReasonMap : reason \in FailureReasonMap[c]
  THEN CHOOSE c \in DOMAIN FailureReasonMap : reason \in FailureReasonMap[c]
  ELSE "UNKNOWN"

(***************************************************************************)
(* The bands the weighted score can fall into.  A payment made within the  *)
(* last thirty days is worth 0.15, and a retryable or payment-method cause *)
(* at least 0.12, which with the 0.045 of an inactive customer stays above *)
(* 0.15: only an inactive customer with an unclear or hard-declined cause  *)
(* can be LOW, and that customer tops out near 0.70, short of HIGH.        *)
(* RecoveryScore has the sum itself and the proof.                         *)
(***************************************************************************)
ScoreBands(rootCause, customerActive) ==
  IF customerActive \/ rootCause \in {"RETRYABLE_PAYMENT_FAILURE",
                                      "CUSTOMER_PAYMENT_METHOD_ISSUE"}
  THEN {"HIGH", "MID"}
  ELSE {"MID", "LOW"}

(***************************************************************************)
(* The precedence function shared by both engines.  The order is the       *)
(* policy: opt-out, amount, window, attempts, then the voice sub-limit.    *)
(* The eligibility engine passes None as the candidate action.             *)
(***************************************************************************)
Verdict(outcome, reasonCode) == [outcome |-> outcome, reasonCode |-> reasonCode]

EvaluatePrecedenceWindowFirst(rc, env, action) ==
  IF action # None /\ action \notin ActionAllowlist
    THEN Verdict("REJECT", "INVALID_ACTION")
  ELSE IF env.optedOut /\ action # "STOP"
    THEN Verdict("STOP", "OPT_OUT_BEHAVIOR")
  ELSE IF action = "STOP"
    THEN Verdict("APPROVE", "APPROVED")
  ELSE IF env.now > rc.recoveryWindowExpiresAt
    THEN Verdict("EXPIRE", "RECOVERY_WINDOW_EXPIRED")
  ELSE IF rc.amount > env.policy.maxAutonomousAmount
    THEN Verdict("ESCALATE", "HIGH_VALUE_REQUIRES_REVIEW")
  ELSE IF rc.attempts >= env.policy.maxRecoveryAttempts
    THEN Verdict("STOP", "RETRY_LIMIT_REACHED")
  ELSE Verdict("APPROVE", "APPROVED")

EvaluatePrecedenceLooseLimit(rc, env, action) ==
  IF env.optedOut /\ action # "STOP"
    THEN Verdict("STOP", "OPT_OUT_BEHAVIOR")
  ELSE IF action # "STOP" /\ rc.amount > env.policy.maxAutonomousAmount
    THEN Verdict("ESCALATE", "HIGH_VALUE_REQUIRES_REVIEW")
  ELSE IF action # "STOP" /\ env.now > rc.recoveryWindowExpiresAt
    THEN Verdict("EXPIRE", "RECOVERY_WINDOW_EXPIRED")
  ELSE IF action # "STOP" /\ rc.attempts > env.policy.maxRecoveryAttempts
    THEN Verdict("STOP", "RETRY_LIMIT_REACHED")
  ELSE Verdict("APPROVE", "APPROVED")

EvaluatePrecedence(rc, env, action) ==
  IF action # None /\ action \notin ActionAllowlist
    THEN Verdict("REJECT", "INVALID_ACTION")
  ELSE IF env.optedOut /\ action # "STOP"
    THEN Verdict("STOP", "OPT_OUT_BEHAVIOR")
  ELSE IF action = "STOP"
    THEN Verdict("APPROVE", "APPROVED")
  ELSE IF rc.amount > env.policy.maxAutonomousAmount
    THEN Verdict("ESCALATE", "HIGH_VALUE_REQUIRES_REVIEW")
  ELSE IF env.now > rc.recoveryWindowExpiresAt
    THEN Verdict("EXPIRE", "RECOVERY_WINDOW_EXPIRED")
  ELSE IF rc.attempts >= env.policy.maxRecoveryAttempts
    THEN Verdict("STOP", "RETRY_LIMIT_REACHED")
  ELSE IF action = "START_VOICE_RECOVERY" /\ rc.voiceAttempts >= env.policy.maxVoiceAttempts
    THEN Verdict("BLOCK", "MAX_VOICE_ATTEMPTS_REACHED")
  ELSE Verdict("APPROVE", "APPROVED")

OutcomeToStatus ==
  [STOP |-> "STOPPED", ESCALATE |-> "ESCALATED", EXPIRE |-> "EXPIRED", BLOCK |-> "STOPPED"]

Resolve(rc, verdict, approvedStatus) ==
  LET to == CASE verdict.outcome = "APPROVE" -> approvedStatus
              [] verdict.outcome = "REJECT"  -> Thrown
              [] OTHER                       -> OutcomeToStatus[verdict.outcome]
  IN  [Transition(rc, to) EXCEPT !.policyDecision = verdict.reasonCode]

EvaluateEligibility(rc, env) == Resolve(rc, EvaluatePrecedence(rc, env, None), "ELIGIBLE")

EvaluatePolicy(rc, env, action) ==
  Resolve(rc, EvaluatePrecedence(rc, env, action), "POLICY_APPROVED")

StopRootCauses == {"NON_RETRYABLE_PAYMENT_FAILURE", "CUSTOMER_DECLINED"}

SelectIntervention(rc, voiceEnabled) ==
  CASE rc.rootCause \in StopRootCauses \/ rc.recoveryProbability = "LOW" -> "STOP"
    [] rc.rootCause \notin StopRootCauses /\ rc.recoveryProbability = "HIGH" /\ voiceEnabled
         -> "START_VOICE_RECOVERY"
    [] OTHER -> "CREATE_PAYMENT_LINK"

(***************************************************************************)
(* Orchestrator.  Both pipelines first re-enter ANALYZING and find the     *)
(* root cause once; a case past ANALYZING is returned as it was loaded.    *)
(***************************************************************************)
Evaluable == {"RISK_DETECTED", "ANALYZING", "FAILED"}

Reenter(rc, reason) ==
  LET analyzing == IF rc.status = "ANALYZING" THEN rc ELSE Transition(rc, "ANALYZING")
  IN  [analyzing EXCEPT !.rootCause = IF @ = None THEN AnalyzeRootCause(reason) ELSE @]

RunEvaluationPipelineRetryShortcut(rc, env, reason, band, voiceEnabled) ==
  IF rc.status = "FAILED" THEN [rc EXCEPT !.status = "POLICY_APPROVED"] ELSE rc

RunEvaluationPipeline(rc, env, reason, band, voiceEnabled) ==
  LET eligible == EvaluateEligibility(Reenter(rc, reason), env)
      scored   == [eligible EXCEPT !.recoveryProbability = band]
      action   == SelectIntervention(scored, voiceEnabled)
      selected == [Transition(scored, "ACTION_SELECTED") EXCEPT !.selectedIntervention = action]
  IN  IF rc.status \notin Evaluable THEN rc
      ELSE IF eligible.status # "ELIGIBLE" THEN eligible
      ELSE EvaluatePolicy(selected, env, action)

RunVoiceDecisionPipelineUnchecked(rc, env, reason, action) ==
  LET eligible == IF rc.status \in Evaluable
                  THEN EvaluateEligibility(Reenter(rc, reason), env) ELSE rc
  IN  IF eligible.status = "ELIGIBLE" THEN Transition(eligible, "ACTION_SELECTED")
      ELSE eligible

RunVoiceDecisionPipeline(rc, env, reason, action) ==
  LET eligible == IF rc.status \in Evaluable
                  THEN EvaluateEligibility(Reenter(rc, reason), env) ELSE rc
      selected == IF eligible.status = "ELIGIBLE"
                  THEN Transition([eligible EXCEPT !.selectedIntervention = action],
                                  "ACTION_SELECTED")
                  ELSE eligible
  IN  IF selected.status # "ACTION_SELECTED" THEN selected
      ELSE EvaluatePolicy(selected, env, action)

(***************************************************************************)
(* What a classified utterance proposes; UNCLEAR proposes nothing.         *)
(***************************************************************************)
VoiceIntents == {"PAY_NOW", "PAYMENT_METHOD_PROBLEM", "PAY_LATER", "CANNOT_PAY",
                 "REFUSE", "HUMAN_ESCALATION", "UNCLEAR"}

MapVoiceIntent(intent) ==
  CASE intent \in {"PAY_NOW", "PAYMENT_METHOD_PROBLEM"}               -> "CREATE_PAYMENT_LINK"
    [] intent \in {"PAY_LATER", "CANNOT_PAY", "HUMAN_ESCALATION"}     -> "ESCALATE"
    [] intent = "REFUSE"                                              -> "STOP"
    [] intent = "UNCLEAR"                                             -> None

(***************************************************************************)
(* Action executor.  A live link leaves the outcome open; the simulated    *)
(* path draws it (success) at once.  The two voice actions are not         *)
(* executable and throw.                                                   *)
(***************************************************************************)
SetRecoveredUncredited(rc) == Transition(rc, "RECOVERED")

SetRecovered(rc) == [Transition(rc, "RECOVERED") EXCEPT !.recoveredAmount = rc.amount]

ExecuteAction(rc, action, live, success) ==
  LET executed == Transition(rc, "ACTION_EXECUTED")
      waiting  == [Transition(executed, "WAITING_OUTCOME") EXCEPT !.attempts = @ + 1]
  IN  CASE action = "STOP"     -> Transition(executed, "STOPPED")
        [] action = "ESCALATE" -> Transition(executed, "ESCALATED")
        [] action = "CREATE_PAYMENT_LINK" ->
             IF live THEN waiting
             ELSE IF success THEN SetRecovered(waiting)
             ELSE Transition(waiting, "FAILED")
        [] OTHER               -> [executed EXCEPT !.status = Thrown]

ResolveRecoveryOutcomeCreditsAll(rc, outcome) ==
  IF rc.status # "WAITING_OUTCOME" THEN rc
  ELSE [Transition(rc, outcome) EXCEPT !.recoveredAmount = rc.amount]

ResolveRecoveryOutcome(rc, outcome) ==
  IF rc.status # "WAITING_OUTCOME" THEN rc
  ELSE IF outcome = "RECOVERED" THEN SetRecovered(rc)
  ELSE Transition(rc, outcome)
=============================================================================
