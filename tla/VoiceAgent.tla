----------------------------- MODULE VoiceAgent -----------------------------
(***************************************************************************)
(* The two ends of a voice turn that face the customer: how an utterance   *)
(* becomes an intent, and how the outcome becomes a reply.  Gemini does    *)
(* both when it can; the rules and templates that stand in for it are      *)
(* modelled here.  Of an utterance only the rules with a phrase in it      *)
(* matter, and of a reply only what it tells the customer about the case.  *)
(***************************************************************************)
EXTENDS RecoveryPolicy

(***************************************************************************)
(* Understanding.  Negation, inability and deferral are looked for before  *)
(* the wish to pay, whose words they contain.                              *)
(***************************************************************************)
RULESPayFirst == <<"PAY_NOW", "PAYMENT_METHOD_PROBLEM", "REFUSE", "CANNOT_PAY", "PAY_LATER",
                   "HUMAN_ESCALATION">>

RULES == <<"REFUSE", "CANNOT_PAY", "PAY_LATER", "HUMAN_ESCALATION", "PAYMENT_METHOD_PROBLEM",
           "PAY_NOW">>

\* The rules that have a phrase in the utterance, whatever the utterance.
Utterances == SUBSET (1 .. 6)

ClassifyVoiceIntentByKeyword(matching) ==
  IF matching = {} THEN None ELSE RULES[CHOOSE i \in matching : \A j \in matching : i <= j]

DeterministicVoiceIntent(matching) ==
  LET intent == ClassifyVoiceIntentByKeyword(matching)
  IN  IF intent = None THEN "UNCLEAR" ELSE intent

\* generateStructuredContent throws without a key, on an error and after ten seconds;
\* what it returns otherwise is no JSON, violates the schema, or is one of the intents.
GeminiAnswers == {"thrown", "no_json", "invalid"} \cup VoiceIntents

ClassifyVoiceIntent(answer, matching) ==
  IF answer \in VoiceIntents THEN answer ELSE DeterministicVoiceIntent(matching)

UnderstoodIntents ==
  {ClassifyVoiceIntent(answer, matching) : answer \in GeminiAnswers, matching \in Utterances}

\* Utterances in which the customer declines, cannot pay or wants to pay later, among
\* whatever else they say, and what the rules make of them.
Declining == {matching \in Utterances :
                \E i \in matching : RULES[i] \in {"REFUSE", "CANNOT_PAY", "PAY_LATER"}}

DecliningIntents == {DeterministicVoiceIntent(matching) : matching \in Declining}
-----------------------------------------------------------------------------
(***************************************************************************)
(* Replying.  The reason of the decision is looked at before the status,   *)
(* and the selected intervention last.  A reply is named by the status it  *)
(* speaks of.                                                              *)
(***************************************************************************)
FALLBACKS_BY_REASON ==
  [HIGH_VALUE_REQUIRES_REVIEW |-> "ESCALATED", OPT_OUT_BEHAVIOR |-> "STOPPED",
   RETRY_LIMIT_REACHED |-> "STOPPED", RECOVERY_WINDOW_EXPIRED |-> "EXPIRED"]

FALLBACKS_BY_STATUS ==
  {"RECOVERED", "FAILED", "ESCALATED", "STOPPED", "WAITING_OUTCOME", "POLICY_APPROVED"}

Clarification == "please repeat"

FallbackResponseToAttempt(rc) ==
  CASE rc.selectedIntervention = "CREATE_PAYMENT_LINK" -> "WAITING_OUTCOME"
    [] rc.selectedIntervention = "STOP"                -> "STOPPED"
    [] rc.selectedIntervention = "ESCALATE"            -> "ESCALATED"
    [] OTHER                                           -> Clarification

FallbackResponse(rc) ==
  IF rc.policyDecision \in DOMAIN FALLBACKS_BY_REASON
    THEN FALLBACKS_BY_REASON[rc.policyDecision]
  ELSE IF rc.status \in FALLBACKS_BY_STATUS THEN rc.status
  ELSE IF rc.selectedIntervention = "STOP" THEN "STOPPED"
  ELSE IF rc.selectedIntervention = "ESCALATE" THEN "ESCALATED"
  ELSE Clarification
=============================================================================
