--------------------------- MODULE CaseLifecycle ---------------------------
(***************************************************************************)
(* One recovery case from the failed payment to its outcome, with every    *)
(* handler of the server that reads or writes it, in any order the two     *)
(* users, Razorpay and the clock can produce.  A handler is one step here: *)
(* it loads the case, decides in memory (module RecoveryPolicy) and saves  *)
(* once.  What happens between the awaits of a handler is the subject of   *)
(* PaymentLink, RecoveryPlan and WebhookDelivery.                          *)
(*                                                                         *)
(* The merchant's open plan is followed through the one item that is about *)
(* this case; the item is PENDING exactly while the plan still waits for   *)
(* the merchant.                                                           *)
(***************************************************************************)
EXTENDS VoiceAgent

CONSTANTS
  Reasons,             \* failure reasons the payment may carry
  Amounts,             \* amounts the payment may be for
  WindowEnds,          \* instants at which the recovery window may close
  Policies,            \* the policies the merchant may set
  PlanTTL,             \* how long a plan may wait for its confirmation
  ActivityTTL,         \* how long the failed payment keeps the customer "active"
  MaxNow               \* bound on the clock

Policy == [maxAutonomousAmount : Nat, maxRecoveryAttempts : Nat,
           maxVoiceAttempts : Nat, voiceEnabled : BOOLEAN]

ASSUME CaseAssumption ==
  /\ Amounts \subseteq Nat /\ WindowEnds \subseteq Nat
  /\ Policies \subseteq Policy
  /\ PlanTTL \in Nat /\ ActivityTTL \in Nat /\ MaxNow \in Nat

\* A plan lives for a day, the failed payment it is about counts for thirty.
ASSUME PlanLifetime == PlanTTL <= ActivityTTL

VARIABLES
  rc,          \* the stored recovery case
  item,        \* the item about it on the merchant's open plan
  linkStatus,  \* Razorpay's side: the state of the case's payment link
  seen,        \* payment_link events recorded in webhook_events
  policy,      \* the merchant's policy
  optedOut,    \* the customer's opt-out flag
  now,         \* the clock
  reason,      \* the failure reason of the payment
  configured,  \* isRazorpayConfigured(): live links or simulated ones, for good
  heard        \* the intent heard in the step just taken, None if it was no turn

vars == <<rc, item, linkStatus, seen, policy, optedOut, now, reason, configured, heard>>

environment == <<policy, optedOut, now, reason, configured>>

Env == [policy |-> policy, optedOut |-> optedOut, now |-> now]

LinkId == "plink"

NoItem == [status |-> None, intervention |-> None, expiresAt |-> 0]

\* The document riskDetector creates.
DetectedCase(amount, windowEnd) ==
  [status |-> "RISK_DETECTED", rootCause |-> None, recoveryProbability |-> None,
   selectedIntervention |-> None, policyDecision |-> None, attempts |-> 0,
   voiceAttempts |-> 0, amount |-> amount, recoveryWindowExpiresAt |-> windowEnd,
   recoveredAmount |-> 0, razorpayPaymentLinkId |-> None]

Init ==
  /\ rc \in {DetectedCase(a, w) : a \in Amounts, w \in WindowEnds}
  /\ item = NoItem
  /\ linkStatus = None
  /\ seen = {}
  /\ policy \in Policies
  /\ optedOut \in BOOLEAN
  /\ now = 0
  /\ reason \in Reasons
  /\ configured \in BOOLEAN
  /\ heard = None
-----------------------------------------------------------------------------
\* recoveryCase.save(): a handler that threw has not reached it.
Save(after) == rc' = IF after.status = Thrown THEN rc ELSE after

\* The customer counts as active while some payment of theirs is recent: the
\* failed one, or a later one that is not followed here.
CustomerActivity == IF now <= ActivityTTL THEN {TRUE} ELSE BOOLEAN

\* The case as it enters the scoring engine tells which bands it can be given.
PossibleBands ==
  UNION {ScoreBands(Reenter(rc, reason).rootCause, active) : active \in CustomerActivity}

(***************************************************************************)
(* The plan item is derived from the state the pipeline left the case in.  *)
(***************************************************************************)
BuildPlanItemFields(after) ==
  [status       |-> "PENDING",
   intervention |-> CASE after.status = "POLICY_APPROVED" -> after.selectedIntervention
                      [] after.status = "ESCALATED"       -> "ESCALATE"
                      [] OTHER                            -> "STOP",
   expiresAt    |-> now + PlanTTL]

AutoPlan ==
  /\ rc.status = "RISK_DETECTED" /\ rc.voiceAttempts = 0
  /\ item = NoItem /\ now = 0
  /\ \E band \in PossibleBands :
       LET after == RunEvaluationPipeline(rc, Env, reason, band, policy.voiceEnabled)
       IN  rc' = after /\ item' = BuildPlanItemFields(after)
  /\ heard' = None
  /\ UNCHANGED <<linkStatus, seen, environment>>

\* POST /:id/evaluate never enables voice.
Evaluate ==
  /\ \E band \in PossibleBands : Save(RunEvaluationPipeline(rc, Env, reason, band, FALSE))
  /\ heard' = None
  /\ UNCHANGED <<item, linkStatus, seen, environment>>

\* POST /:id/simulate-action.
SimulateAction ==
  /\ rc.status = "POLICY_APPROVED"
  /\ \E success \in BOOLEAN : Save(ExecuteAction(rc, rc.selectedIntervention, FALSE, success))
  /\ heard' = None
  /\ UNCHANGED <<item, linkStatus, seen, environment>>
-----------------------------------------------------------------------------
(***************************************************************************)
(* createLivePaymentLink on a stored case, followed by the caller's save.  *)
(* The claim needs an approved link that does not exist yet; without it a  *)
(* link that is there is handed out again.                                 *)
(***************************************************************************)
Claimable(stored) ==
  /\ stored.status = "POLICY_APPROVED"
  /\ stored.selectedIntervention = "CREATE_PAYMENT_LINK"
  /\ stored.razorpayPaymentLinkId = None

LinkSavedDrawn(stored) ==
  ExecuteAction([stored EXCEPT !.razorpayPaymentLinkId = LinkId],
                "CREATE_PAYMENT_LINK", FALSE, FALSE)

LinkSaved(stored) ==
  ExecuteAction([stored EXCEPT !.razorpayPaymentLinkId = LinkId],
                "CREATE_PAYMENT_LINK", TRUE, FALSE)

CreateLivePaymentLink(stored, ok) ==
  IF Claimable(stored) /\ ok
  THEN rc' = LinkSaved(stored) /\ linkStatus' = "created"
  ELSE rc' = stored /\ UNCHANGED linkStatus

\* POST /:id/payment-link past its own checklist.
PaymentLinkAllowed ==
  /\ rc.status = "POLICY_APPROVED" /\ rc.selectedIntervention = "CREATE_PAYMENT_LINK"
  /\ rc.razorpayPaymentLinkId = None
  /\ configured
  /\ now <= rc.recoveryWindowExpiresAt
  /\ rc.attempts < policy.maxRecoveryAttempts

PaymentLinkRoute ==
  /\ PaymentLinkAllowed
  /\ \E ok \in BOOLEAN : CreateLivePaymentLink(rc, ok)
  /\ heard' = None
  /\ UNCHANGED <<item, seen, environment>>
-----------------------------------------------------------------------------
VoiceEligibleStatusesAfterStop ==
  {"RISK_DETECTED", "ANALYZING", "FAILED", "ELIGIBLE", "STOPPED"}

VoiceEligibleStatuses == {"RISK_DETECTED", "ANALYZING", "FAILED", "ELIGIBLE"}

\* POST /voice/session.
VoiceSession ==
  /\ policy.voiceEnabled /\ ~optedOut
  /\ rc.status \in VoiceEligibleStatuses
  /\ rc.voiceAttempts < policy.maxVoiceAttempts
  /\ rc' = [rc EXCEPT !.voiceAttempts = @ + 1]
  /\ heard' = None
  /\ UNCHANGED <<item, linkStatus, seen, environment>>

TurnDecision(intent) == RunVoiceDecisionPipeline(rc, Env, reason, MapVoiceIntent(intent))

TakesLivePath(decided) ==
  /\ decided.status = "POLICY_APPROVED"
  /\ decided.selectedIntervention = "CREATE_PAYMENT_LINK"
  /\ configured

\* POST /voice/turn: an utterance the classifier read as intent.  It asks for no
\* session, and what the case was approved for decides what is executed.
VoiceTurn(intent) ==
  /\ rc.status \notin Terminal
  /\ LET decided == TurnDecision(intent)
     IN  \/ /\ intent = "UNCLEAR"
            /\ UNCHANGED <<rc, linkStatus>>
         \/ /\ intent # "UNCLEAR" /\ TakesLivePath(decided)
            /\ \E ok \in BOOLEAN : CreateLivePaymentLink(decided, ok)
         \/ /\ intent # "UNCLEAR" /\ ~TakesLivePath(decided)
            /\ decided.status = "POLICY_APPROVED"
            /\ \E success \in BOOLEAN :
                 Save(ExecuteAction(decided, decided.selectedIntervention, FALSE, success))
            /\ UNCHANGED linkStatus
         \/ /\ intent # "UNCLEAR" /\ decided.status # "POLICY_APPROVED"
            /\ Save(decided)
            /\ UNCHANGED linkStatus
  /\ heard' = intent
  /\ UNCHANGED <<item, seen, environment>>
-----------------------------------------------------------------------------
(***************************************************************************)
(* Confirming the plan.  A plan past its lifetime is cancelled; an item    *)
(* the customer would not notice is closed; the case is looked at again,   *)
(* the policy is applied again, and what is still approved is executed.    *)
(***************************************************************************)
CloseItem(status) == item' = [item EXCEPT !.status = status]

Unserviceable == Terminal \cup {"RISK_DETECTED", "FAILED"}

ItemForResolvedCase == IF rc.status = "ESCALATED" THEN "ESCALATED" ELSE "REMOVED"

RecheckSkipped == Verdict("APPROVE", "APPROVED")

Recheck == EvaluatePrecedence(rc, Env, rc.selectedIntervention)

Revalidate(check) ==
  [Transition(rc, OutcomeToStatus[check.outcome]) EXCEPT !.policyDecision = check.reasonCode]

ExecuteVoiceItem ==
  /\ rc' = [rc EXCEPT !.voiceAttempts = @ + 1]
  /\ CloseItem("EXECUTED")
  /\ UNCHANGED linkStatus

ExecutePaymentLinkItem ==
  \/ /\ configured
     /\ \E ok \in BOOLEAN :
          /\ CreateLivePaymentLink(rc, ok)
          /\ CloseItem(IF Claimable(rc) /\ ~ok THEN "FAILED" ELSE "EXECUTED")
  \/ /\ ~configured
     /\ \E success \in BOOLEAN :
          Save(ExecuteAction(rc, "CREATE_PAYMENT_LINK", FALSE, success))
     /\ CloseItem("EXECUTED")
     /\ UNCHANGED linkStatus

ExecutePlanItem ==
  \/ /\ item.intervention \notin CustomerFacing
     /\ CloseItem(IF item.intervention = "ESCALATE" THEN "ESCALATED" ELSE "SKIPPED")
     /\ UNCHANGED <<rc, linkStatus>>
  \/ /\ item.intervention \in CustomerFacing /\ rc.status \in Unserviceable
     /\ CloseItem(ItemForResolvedCase)
     /\ UNCHANGED <<rc, linkStatus>>
  \/ /\ item.intervention \in CustomerFacing /\ rc.status = "WAITING_OUTCOME"
     /\ CloseItem("EXECUTED")
     /\ UNCHANGED <<rc, linkStatus>>
  \/ /\ item.intervention \in CustomerFacing /\ rc.status = "POLICY_APPROVED"
     /\ Recheck.outcome # "APPROVE"
     /\ Save(Revalidate(Recheck))
     /\ CloseItem("REMOVED")
     /\ UNCHANGED linkStatus
  \/ /\ item.intervention = "CREATE_PAYMENT_LINK" /\ rc.status = "POLICY_APPROVED"
     /\ Recheck.outcome = "APPROVE"
     /\ ExecutePaymentLinkItem
  \/ /\ item.intervention = "START_VOICE_RECOVERY" /\ rc.status = "POLICY_APPROVED"
     /\ Recheck.outcome = "APPROVE"
     /\ ExecuteVoiceItem

ConfirmPlan ==
  /\ item.status = "PENDING"
  /\ \/ /\ now > item.expiresAt
        /\ CloseItem("REMOVED")
        /\ UNCHANGED <<rc, linkStatus>>
     \/ now <= item.expiresAt /\ ExecutePlanItem
  /\ heard' = None
  /\ UNCHANGED <<seen, environment>>
-----------------------------------------------------------------------------
(***************************************************************************)
(* Razorpay: the customer pays, the link runs out, or the merchant cancels *)
(* it in Razorpay's own dashboard; each is announced by an event.          *)
(***************************************************************************)
HandledEvents == [paid |-> "RECOVERED", expired |-> "FAILED", cancelled |-> "FAILED"]

LinkCloses(how) ==
  /\ linkStatus = "created"
  /\ linkStatus' = how
  /\ heard' = None
  /\ UNCHANGED <<rc, item, seen, environment>>

\* A delivery of the event, the first or a repeated one.
Webhook(event) ==
  /\ linkStatus = event
  /\ seen' = seen \cup {event}
  /\ rc' = IF event \in seen \/ rc.razorpayPaymentLinkId # LinkId THEN rc
           ELSE ResolveRecoveryOutcome(rc, HandledEvents[event])
  /\ heard' = None
  /\ UNCHANGED <<item, linkStatus, environment>>
-----------------------------------------------------------------------------
\* PUT /api/policy.
UpdatePolicy ==
  /\ policy' \in Policies
  /\ heard' = None
  /\ UNCHANGED <<rc, item, linkStatus, seen, optedOut, now, reason, configured>>

\* A later payment failure of the same customer carries their consent either way.
OptOutChanges ==
  /\ optedOut' = ~optedOut
  /\ heard' = None
  /\ UNCHANGED <<rc, item, linkStatus, seen, policy, now, reason, configured>>

Tick ==
  /\ now < MaxNow
  /\ now' = now + 1
  /\ heard' = None
  /\ UNCHANGED <<rc, item, linkStatus, seen, policy, optedOut, reason, configured>>

Next ==
  \/ AutoPlan
  \/ Evaluate
  \/ SimulateAction
  \/ PaymentLinkRoute
  \/ VoiceSession
  \/ \E intent \in UnderstoodIntents : VoiceTurn(intent)
  \/ ConfirmPlan
  \/ \E how \in DOMAIN HandledEvents : LinkCloses(how)
  \/ \E event \in DOMAIN HandledEvents : Webhook(event)
  \/ UpdatePolicy
  \/ OptOutChanges
  \/ Tick

Spec == Init /\ [][Next]_vars
-----------------------------------------------------------------------------
StoredStatuses == {"RISK_DETECTED", "POLICY_APPROVED", "WAITING_OUTCOME", "FAILED"}
                    \cup Terminal

Case == [status : StoredStatuses, rootCause : RootCauses \cup {None},
         recoveryProbability : Bands \cup {None},
         selectedIntervention : ActionAllowlist \cup {None},
         policyDecision : ReasonCodes \cup {None},
         attempts : Nat, voiceAttempts : Nat, amount : Nat,
         recoveryWindowExpiresAt : Nat, recoveredAmount : Nat,
         razorpayPaymentLinkId : {None, LinkId}]

ItemStatuses == {"PENDING", "EXECUTED", "ESCALATED", "SKIPPED", "REMOVED", "FAILED"}

\* Every stored case is at rest: the statuses a pipeline only passes through
\* (ANALYZING, ELIGIBLE, ACTION_SELECTED, ACTION_EXECUTED) are never saved, so no
\* handler finds a case it refuses to pick up.
TypeOK ==
  /\ rc \in Case
  /\ item \in [status : ItemStatuses \cup {None},
               intervention : ActionAllowlist \cup {None}, expiresAt : Nat]
  /\ linkStatus \in {None, "created"} \cup DOMAIN HandledEvents
  /\ seen \subseteq DOMAIN HandledEvents
  /\ policy \in Policies
  /\ optedOut \in BOOLEAN
  /\ now \in Nat
  /\ reason \in Reasons
  /\ configured \in BOOLEAN
  /\ heard \in VoiceIntents \cup {None}

\* Revenue and status agree, whichever of the two paths (the simulated draw of
\* executeAction, the verified webhook in resolveRecoveryOutcome) set them: a case
\* shows its amount as recovered if and only if it is RECOVERED.
CreditMatchesStatus ==
  rc.recoveredAmount = IF rc.status = "RECOVERED" THEN rc.amount ELSE 0

\* A link that can still be paid, or whose event is still on its way, belongs to a
\* case that waits for exactly that event (so resolveRecoveryOutcome will apply
\* it), and once the paid event is recorded the case is RECOVERED for good.
LinkMatchesCase ==
  /\ linkStatus \notin seen \cup {None} =>
       rc.status = "WAITING_OUTCOME" /\ rc.razorpayPaymentLinkId = LinkId
  /\ "paid" \in seen => rc.status = "RECOVERED"

\* The retry limit over the whole life of a case: through failures, re-evaluation,
\* voice turns, plan confirmations and policy changes, a case is never attempted
\* more often than the loosest policy its merchant may have set.
RetryBudget ==
  \E p \in Policies : rc.attempts <= p.maxRecoveryAttempts

\* A case in a terminal status is never written again, by any handler or event.
TerminalIsFinal == [][rc.status \in Terminal => rc' = rc]_vars

\* What a confirmation executes is still allowed at that moment: an opt-out, a
\* lower ceiling, a closed window or a used-up limit that came while the plan
\* waited stops the item (executePlanItem, RE-VALIDATE).
ConfirmRevalidates ==
  [][item.status = "PENDING" /\ item'.status = "EXECUTED" /\ rc.status = "POLICY_APPROVED" =>
       /\ ~optedOut
       /\ now <= rc.recoveryWindowExpiresAt
       /\ rc.amount <= policy.maxAutonomousAmount
       /\ rc.attempts < policy.maxRecoveryAttempts]_vars

\* A failed case is only tried again through the whole pipeline: whenever a step
\* adds an attempt to a case that was stored as FAILED, or moves it to
\* POLICY_APPROVED, the policy of that moment allows it.
RetryReenters ==
  [][rc.status = "FAILED" /\ (rc'.status # "FAILED" \/ rc'.attempts # rc.attempts) =>
       \/ /\ ~optedOut
          /\ now <= rc.recoveryWindowExpiresAt
          /\ rc.amount <= policy.maxAutonomousAmount
          /\ rc.attempts < policy.maxRecoveryAttempts
       \/ rc'.status \in {"STOPPED", "ESCALATED", "EXPIRED"} /\ rc'.attempts = rc.attempts]_vars

\* A case above the ceiling is put in front of the merchant whenever a pipeline
\* looks at it, however late and however often it was tried: in evaluatePrecedence
\* neither the window nor the limit hides it, only the customer's opt-out does.  The
\* turn that hears the customer refuse is left out: RECOVERY_POLICY.md lets a refusal
\* outrank the ceiling, and the code does not (RefusalOutranksCeiling below).
HighValueEscalates ==
  [][rc.status \in Evaluable /\ rc'.status # rc.status /\ ~optedOut /\ heard' # "REFUSE"
       /\ rc.amount > policy.maxAutonomousAmount => rc'.status = "ESCALATED"]_vars

\* The reply that stands in for Gemini's names the decision's reason before the
\* outcome: over retries, revalidations and webhooks no stale reason may speak, so that
\* what it tells the customer is what has become of the case, and a link it announces
\* is there.
ReplyIsTrue ==
  /\ FallbackResponse(rc) \in {rc.status, Clarification}
  /\ FallbackResponse(rc) = "WAITING_OUTCOME" => rc.razorpayPaymentLinkId = LinkId

\* A customer who declines, in whatever other words ("payment nahi karna", "baad me
\* karunga"), is not read as willing to pay when Gemini is away: the turn attempts
\* nothing on a case that was not approved before.
DecliningWordsWin ==
  [][heard' \in DecliningIntents /\ rc.status \in Evaluable =>
       rc'.attempts = rc.attempts /\ linkStatus' = linkStatus]_vars
-----------------------------------------------------------------------------
(***************************************************************************)
(* What the documents promise and the code does not keep.                  *)
(***************************************************************************)
\* The customer hears from us: a live link is created or a call is placed.
Contact ==
  \/ linkStatus = None /\ linkStatus' = "created"
  \/ item.status = "PENDING" /\ item'.status = "EXECUTED" /\ rc'.voiceAttempts > rc.voiceAttempts

\* RECOVERY_POLICY.md: an explicit refusal (REFUSE) always wins, so the turn that
\* hears it does not end in a payment link.
RefusalWins == [][heard' = "REFUSE" => ~Contact]_vars

\* RECOVERY_POLICY.md: a case above the ceiling is escalated unless the customer has
\* opted out or refused; then it is stopped.  The eligibility check of the same turn
\* escalates it before the refusal is looked at (tests/voiceRecovery.test.js, 11b).
RefusalOutranksCeiling ==
  [][heard' = "REFUSE" /\ rc.status \in Evaluable /\ rc.amount > policy.maxAutonomousAmount
       => rc'.status # "ESCALATED"]_vars

\* ARCHITECTURE.md: after the plan's call is initiated the case stays
\* POLICY_APPROVED and the conversation runs through routes/voice.js.  So a turn in
\* which the called customer offers to pay is decided, not answered with a 500.
CalledCustomerCanPay ==
  rc.status = "POLICY_APPROVED" /\ rc.selectedIntervention = "START_VOICE_RECOVERY"
    /\ item.status = "EXECUTED"
  => ExecuteAction(TurnDecision("PAY_NOW"), TurnDecision("PAY_NOW").selectedIntervention,
                   FALSE, TRUE).status # Thrown
=============================================================================
