------------------------ MODULE CaseLifecycleProofs ------------------------
(***************************************************************************)
(* Theorems about CaseLifecycle for any reasons, amounts, windows and      *)
(* policies.  First what the decision modules of RecoveryPolicy do to a    *)
(* case, operator by operator, then the inductive invariant.               *)
(***************************************************************************)
EXTENDS CaseLifecycle, TLAPS

\* A case in memory may be in any status, Thrown included.
AnyCase == [status : Statuses \cup {Thrown}, rootCause : RootCauses \cup {None},
            recoveryProbability : Bands \cup {None},
            selectedIntervention : ActionAllowlist \cup {None},
            policyDecision : ReasonCodes \cup {None},
            attempts : Nat, voiceAttempts : Nat, amount : Nat,
            recoveryWindowExpiresAt : Nat, recoveredAmount : Nat,
            razorpayPaymentLinkId : {None, LinkId}]

Environment == [policy : Policy, optedOut : BOOLEAN, now : Nat]

\* What a decision leaves alone.
Kept(x, y) ==
  /\ y.attempts = x.attempts /\ y.voiceAttempts = x.voiceAttempts
  /\ y.amount = x.amount /\ y.recoveryWindowExpiresAt = x.recoveryWindowExpiresAt
  /\ y.recoveredAmount = x.recoveredAmount
  /\ y.razorpayPaymentLinkId = x.razorpayPaymentLinkId

Allowed(x, env) ==
  /\ ~env.optedOut
  /\ x.amount <= env.policy.maxAutonomousAmount
  /\ env.now <= x.recoveryWindowExpiresAt
  /\ x.attempts < env.policy.maxRecoveryAttempts

Verdicts == [outcome : {"APPROVE", "STOP", "ESCALATE", "EXPIRE", "BLOCK"},
             reasonCode : ReasonCodes]

\* A transition sets the status, and throws exactly if the table forbids it.
LEMMA TransitionFields ==
  ASSUME NEW x \in AnyCase, NEW to \in Statuses
  PROVE  /\ Transition(x, to) \in AnyCase
         /\ Kept(x, Transition(x, to))
         /\ Transition(x, to).rootCause = x.rootCause
         /\ Transition(x, to).selectedIntervention = x.selectedIntervention
         /\ Transition(x, to).status =
              IF to \in AllowedTransitions[x.status] THEN to ELSE Thrown
BY DEF Transition, AnyCase, Kept

LEMMA StoredIsAnyCase == Case \subseteq AnyCase
BY DEF Case, AnyCase, StoredStatuses, Statuses, Terminal

\* Where the statuses the pipelines pass through lead.
LEMMA PipelineTransitions ==
  /\ AllowedTransitions["RISK_DETECTED"] = {"ANALYZING"}
  /\ AllowedTransitions["FAILED"] = {"ANALYZING"}
  /\ AllowedTransitions["ANALYZING"] = {"ELIGIBLE", "STOPPED", "ESCALATED", "EXPIRED"}
  /\ AllowedTransitions["ELIGIBLE"] = {"ACTION_SELECTED"}
  /\ AllowedTransitions["ACTION_SELECTED"] = {"POLICY_APPROVED", "STOPPED", "ESCALATED", "EXPIRED"}
  /\ AllowedTransitions["POLICY_APPROVED"] = {"ACTION_EXECUTED", "STOPPED", "ESCALATED", "EXPIRED"}
  /\ AllowedTransitions["ACTION_EXECUTED"] = {"WAITING_OUTCOME", "STOPPED", "ESCALATED"}
  /\ AllowedTransitions["WAITING_OUTCOME"] = {"RECOVERED", "FAILED"}
BY DEF AllowedTransitions, Statuses, Terminal

\* A reason is looked up in the table or is UNKNOWN; nothing else comes out.
LEMMA RootCauseType ==
  ASSUME NEW why
  PROVE  AnalyzeRootCause(why) \in RootCauses
<1>1. DOMAIN FailureReasonMap \subseteq RootCauses
  BY DEF FailureReasonMap, RootCauses
<1>2. "UNKNOWN" \in RootCauses
  BY DEF RootCauses
<1> QED
  BY <1>1, <1>2, Zenon DEF AnalyzeRootCause

\* The precedence function answers with one of its verdicts, never rejects an
\* action of the allowlist, and approves anything but STOP only if neither the
\* opt-out, the ceiling, the window nor the limit speaks against it.
LEMMA PrecedenceVerdict ==
  ASSUME NEW x \in AnyCase, NEW env \in Environment, NEW action \in ActionAllowlist \cup {None}
  PROVE  /\ EvaluatePrecedence(x, env, action) \in Verdicts
         /\ EvaluatePrecedence(x, env, action).outcome = "APPROVE" /\ action # "STOP"
              => Allowed(x, env)
BY DEF EvaluatePrecedence, Verdict, Verdicts, ReasonCodes, AnyCase, Environment, Policy, Allowed,
       ActionAllowlist, CustomerFacing, None
LEMMA OutcomeStatuses ==
  /\ OutcomeToStatus["STOP"] = "STOPPED" /\ OutcomeToStatus["BLOCK"] = "STOPPED"
  /\ OutcomeToStatus["ESCALATE"] = "ESCALATED" /\ OutcomeToStatus["EXPIRE"] = "EXPIRED"
BY DEF OutcomeToStatus

\* A verdict moves the case from one of the two statuses it is taken in to the
\* status it stands for, and writes down the reason.
LEMMA ResolveFields ==
  ASSUME NEW x \in AnyCase, NEW v \in Verdicts, NEW to,
         \/ x.status = "ANALYZING" /\ to = "ELIGIBLE"
         \/ x.status = "ACTION_SELECTED" /\ to = "POLICY_APPROVED"
  PROVE  /\ Resolve(x, v, to) \in AnyCase
         /\ Kept(x, Resolve(x, v, to))
         /\ Resolve(x, v, to).rootCause = x.rootCause
         /\ Resolve(x, v, to).selectedIntervention = x.selectedIntervention
         /\ Resolve(x, v, to).status \in {to, "STOPPED", "ESCALATED", "EXPIRED"}
         /\ Resolve(x, v, to).status = to <=> v.outcome = "APPROVE"
<1> DEFINE st == CASE v.outcome = "APPROVE" -> to
                   [] v.outcome = "REJECT"  -> Thrown
                   [] OTHER                 -> OutcomeToStatus[v.outcome]
<1>1. \/ st = to /\ v.outcome = "APPROVE"
      \/ st \in {"STOPPED", "ESCALATED", "EXPIRED"} /\ v.outcome # "APPROVE"
  <2>1. v.outcome \in {"APPROVE", "STOP", "ESCALATE", "EXPIRE", "BLOCK"}
    BY DEF Verdicts
  <2>2. CASE v.outcome = "APPROVE"
    BY <2>2, Zenon
  <2>3. CASE v.outcome \in {"STOP", "ESCALATE", "EXPIRE", "BLOCK"}
    <3>1. v.outcome # "APPROVE" /\ v.outcome # "REJECT"
      BY <2>3
    <3>2. st = OutcomeToStatus[v.outcome]
      BY <3>1, Zenon
    <3> QED
      BY <2>3, <3>1, <3>2, OutcomeStatuses
  <2> QED
    BY <2>1, <2>2, <2>3
<1>2. st \in Statuses /\ st \in AllowedTransitions[x.status]
  BY <1>1, PipelineTransitions DEF Statuses, Terminal
<1> HIDE DEF st
<1>3. /\ Transition(x, st) \in AnyCase
      /\ Kept(x, Transition(x, st))
      /\ Transition(x, st).rootCause = x.rootCause
      /\ Transition(x, st).selectedIntervention = x.selectedIntervention
      /\ Transition(x, st).status = st
  BY <1>2, TransitionFields
<1>4. Resolve(x, v, to) = [Transition(x, st) EXCEPT !.policyDecision = v.reasonCode]
  BY DEF Resolve, st
<1>5. to \notin {"STOPPED", "ESCALATED", "EXPIRED"} /\ v.reasonCode \in ReasonCodes
  BY DEF Verdicts
<1> DEFINE tr == Transition(x, st)
<1> HIDE DEF tr
<1>6. /\ tr \in AnyCase /\ Kept(x, tr) /\ tr.rootCause = x.rootCause
      /\ tr.selectedIntervention = x.selectedIntervention /\ tr.status = st
      /\ Resolve(x, v, to) = [tr EXCEPT !.policyDecision = v.reasonCode]
  BY <1>3, <1>4 DEF tr
<1> QED
  BY <1>1, <1>5, <1>6 DEF AnyCase, Kept

\* The eligibility engine, on a case that is being analysed.
LEMMA EligibilityFields ==
  ASSUME NEW x \in AnyCase, NEW env \in Environment, x.status = "ANALYZING"
  PROVE  LET y == EvaluateEligibility(x, env)
         IN  /\ y \in AnyCase /\ Kept(x, y) /\ y.rootCause = x.rootCause
             /\ y.selectedIntervention = x.selectedIntervention
             /\ y.status \in {"ELIGIBLE", "STOPPED", "ESCALATED", "EXPIRED"}
             /\ y.status = "ELIGIBLE" => Allowed(x, env)
<1>1. None \in ActionAllowlist \cup {None} /\ None # "STOP"
  BY DEF None
<1> QED
  BY <1>1, PrecedenceVerdict, ResolveFields DEF EvaluateEligibility

\* The policy engine, on a case with an action selected.
LEMMA PolicyFields ==
  ASSUME NEW x \in AnyCase, NEW env \in Environment, x.status = "ACTION_SELECTED",
         NEW action \in ActionAllowlist
  PROVE  LET y == EvaluatePolicy(x, env, action)
         IN  /\ y \in AnyCase /\ Kept(x, y) /\ y.rootCause = x.rootCause
             /\ y.selectedIntervention = x.selectedIntervention
             /\ y.status \in {"POLICY_APPROVED", "STOPPED", "ESCALATED", "EXPIRED"}
BY PrecedenceVerdict, ResolveFields DEF EvaluatePolicy

LEMMA ReenterFields ==
  ASSUME NEW x \in Case, NEW why, x.status \in Evaluable
  PROVE  LET y == Reenter(x, why)
         IN  /\ y \in AnyCase /\ Kept(x, y) /\ y.status = "ANALYZING"
             /\ y.rootCause \in RootCauses
             /\ y.selectedIntervention = x.selectedIntervention
<1>1. x \in AnyCase /\ x.status \in {"RISK_DETECTED", "FAILED"}
  BY StoredIsAnyCase DEF Case, StoredStatuses, Evaluable, Terminal
<1> DEFINE tr == Transition(x, "ANALYZING")
<1>2. "ANALYZING" \in Statuses /\ "ANALYZING" \in AllowedTransitions[x.status]
  BY <1>1, PipelineTransitions DEF Statuses
<1>3. /\ tr \in AnyCase /\ Kept(x, tr) /\ tr.status = "ANALYZING"
      /\ tr.rootCause = x.rootCause /\ tr.selectedIntervention = x.selectedIntervention
  BY <1>1, <1>2, TransitionFields
<1>4. Reenter(x, why) =
        [tr EXCEPT !.rootCause = IF tr.rootCause = None THEN AnalyzeRootCause(why)
                                 ELSE tr.rootCause]
  BY <1>1, Zenon DEF Reenter
<1> DEFINE cause == IF tr.rootCause = None THEN AnalyzeRootCause(why) ELSE tr.rootCause
<1> HIDE DEF tr
<1>5. cause \in RootCauses
  BY <1>3, RootCauseType DEF AnyCase
<1> HIDE DEF cause
<1>6. Reenter(x, why) = [tr EXCEPT !.rootCause = cause]
  BY <1>4 DEF cause
<1> QED
  BY <1>3, <1>5, <1>6 DEF AnyCase, Kept

LEMMA SelectedIsAllowed ==
  ASSUME NEW x, NEW voiceEnabled
  PROVE  SelectIntervention(x, voiceEnabled) \in ActionAllowlist
BY DEF SelectIntervention, ActionAllowlist, CustomerFacing

\* What both pipelines promise of a stored case they take up: it ends approved or
\* closed, the decision spends nothing, and an approval means that the policy of
\* that moment allows a further attempt.
Decided(x, y, env) ==
  /\ y \in Case /\ Kept(x, y)
  /\ y.status \in {"POLICY_APPROVED", "STOPPED", "ESCALATED", "EXPIRED"}
  /\ y.status = "POLICY_APPROVED" => Allowed(x, env)

LEMMA AtRest ==
  ASSUME NEW y \in AnyCase, y.status \in StoredStatuses
  PROVE  y \in Case
BY DEF AnyCase, Case

\* The common tail of the pipelines: an eligible case, an action, the policy engine.
LEMMA SelectAndApply ==
  ASSUME NEW x \in Case, NEW e \in AnyCase, NEW env \in Environment,
         NEW action \in ActionAllowlist,
         Kept(x, e), e.status = "ELIGIBLE", Allowed(x, env)
  PROVE  /\ Decided(x, EvaluatePolicy([Transition(e, "ACTION_SELECTED")
                                        EXCEPT !.selectedIntervention = action], env, action), env)
         /\ Decided(x, EvaluatePolicy(Transition([e EXCEPT !.selectedIntervention = action],
                                                 "ACTION_SELECTED"), env, action), env)
<1>1. "ACTION_SELECTED" \in Statuses /\ "ACTION_SELECTED" \in AllowedTransitions["ELIGIBLE"]
  BY PipelineTransitions DEF Statuses
<1>2. ASSUME NEW s \in AnyCase, Kept(x, s), s.status = "ACTION_SELECTED"
      PROVE  Decided(x, EvaluatePolicy(s, env, action), env)
  <2> DEFINE y == EvaluatePolicy(s, env, action)
  <2>1. /\ y \in AnyCase /\ Kept(s, y)
        /\ y.status \in {"POLICY_APPROVED", "STOPPED", "ESCALATED", "EXPIRED"}
    BY <1>2, PolicyFields
  <2>2. y \in Case
    BY <2>1, AtRest DEF StoredStatuses, Terminal
  <2> HIDE DEF y
  <2> QED
    BY <1>2, <2>1, <2>2 DEF Decided, Kept, y
<1>3. ASSUME NEW t \in AnyCase
      PROVE  /\ [t EXCEPT !.selectedIntervention = action] \in AnyCase
             /\ Kept(t, [t EXCEPT !.selectedIntervention = action])
             /\ [t EXCEPT !.selectedIntervention = action].status = t.status
  BY <1>3 DEF AnyCase, Kept
<1>4. /\ Transition(e, "ACTION_SELECTED") \in AnyCase
      /\ Kept(e, Transition(e, "ACTION_SELECTED"))
      /\ Transition(e, "ACTION_SELECTED").status = "ACTION_SELECTED"
  BY <1>1, TransitionFields
<1>5. LET s == [Transition(e, "ACTION_SELECTED") EXCEPT !.selectedIntervention = action]
      IN  s \in AnyCase /\ Kept(x, s) /\ s.status = "ACTION_SELECTED"
  BY <1>3, <1>4 DEF Kept
<1>6. LET s == Transition([e EXCEPT !.selectedIntervention = action], "ACTION_SELECTED")
      IN  s \in AnyCase /\ Kept(x, s) /\ s.status = "ACTION_SELECTED"
  <2> DEFINE d == [e EXCEPT !.selectedIntervention = action]
  <2>1. d \in AnyCase /\ Kept(e, d) /\ d.status = "ELIGIBLE"
    BY <1>3
  <2> HIDE DEF d
  <2>2. /\ Transition(d, "ACTION_SELECTED") \in AnyCase
        /\ Kept(d, Transition(d, "ACTION_SELECTED"))
        /\ Transition(d, "ACTION_SELECTED").status = "ACTION_SELECTED"
    BY <1>1, <2>1, TransitionFields
  <2> QED
    BY <2>1, <2>2 DEF Kept, d
<1> QED
  BY <1>2, <1>5, <1>6

\* POST /:id/evaluate and the planner.
LEMMA EvaluationDecides ==
  ASSUME NEW x \in Case, NEW env \in Environment, NEW why, NEW band \in Bands,
         NEW voiceEnabled, x.status \in Evaluable
  PROVE  Decided(x, RunEvaluationPipeline(x, env, why, band, voiceEnabled), env)
<1> DEFINE r == Reenter(x, why)
           e == EvaluateEligibility(r, env)
           s == [e EXCEPT !.recoveryProbability = band]
           action == SelectIntervention(s, voiceEnabled)
           y == RunEvaluationPipeline(x, env, why, band, voiceEnabled)
<1>1. r \in AnyCase /\ Kept(x, r) /\ r.status = "ANALYZING"
  BY ReenterFields
<1>2. /\ e \in AnyCase /\ Kept(r, e)
      /\ e.status \in {"ELIGIBLE", "STOPPED", "ESCALATED", "EXPIRED"}
      /\ e.status = "ELIGIBLE" => Allowed(r, env)
  BY <1>1, EligibilityFields
<1>3. action \in ActionAllowlist
  BY SelectedIsAllowed
<1>4. CASE e.status # "ELIGIBLE"
  <2>1. y = e
    BY <1>4 DEF RunEvaluationPipeline
  <2>2. e \in Case
    BY <1>2, <1>4, AtRest DEF StoredStatuses, Terminal
  <2> HIDE DEF e, r, y
  <2> QED
    BY <1>1, <1>2, <1>4, <2>1, <2>2 DEF Decided, Kept, y, r, e
<1>5. CASE e.status = "ELIGIBLE"
  <2>1. y = EvaluatePolicy([Transition(s, "ACTION_SELECTED")
                             EXCEPT !.selectedIntervention = action], env, action)
    BY <1>5 DEF RunEvaluationPipeline
  <2> HIDE DEF y, action, e, r
  <2>2. s \in AnyCase /\ Kept(x, s) /\ s.status = "ELIGIBLE"
    BY <1>1, <1>2, <1>5 DEF AnyCase, Kept
  <2>3. Allowed(x, env)
    BY <1>1, <1>2, <1>5 DEF Allowed, Kept
  <2> HIDE DEF s
  <2>4. Decided(x, y, env)
    BY <1>3, <2>1, <2>2, <2>3, SelectAndApply
  <2> QED
    BY <2>4 DEF y
<1> QED
  BY <1>4, <1>5

\* POST /voice/turn.
LEMMA VoiceTurnDecides ==
  ASSUME NEW x \in Case, NEW env \in Environment, NEW why,
         NEW action \in ActionAllowlist, x.status \in Evaluable
  PROVE  Decided(x, RunVoiceDecisionPipeline(x, env, why, action), env)
<1> DEFINE r == Reenter(x, why)
           e == EvaluateEligibility(r, env)
           y == RunVoiceDecisionPipeline(x, env, why, action)
           s == Transition([e EXCEPT !.selectedIntervention = action], "ACTION_SELECTED")
<1>1. r \in AnyCase /\ Kept(x, r) /\ r.status = "ANALYZING"
  BY ReenterFields
<1>2. /\ e \in AnyCase /\ Kept(r, e)
      /\ e.status \in {"ELIGIBLE", "STOPPED", "ESCALATED", "EXPIRED"}
      /\ e.status = "ELIGIBLE" => Allowed(r, env)
  BY <1>1, EligibilityFields
<1>3. CASE e.status # "ELIGIBLE"
  <2>1. e.status # "ACTION_SELECTED"
    BY <1>2
  <2>2. y = e
    BY <1>3, <2>1 DEF RunVoiceDecisionPipeline
  <2>3. e \in Case
    BY <1>2, <1>3, AtRest DEF StoredStatuses, Terminal
  <2> HIDE DEF e, r, y
  <2> QED
    BY <1>1, <1>2, <1>3, <2>2, <2>3 DEF Decided, Kept, y, r, e
<1>4. CASE e.status = "ELIGIBLE"
  <2>1. /\ "ACTION_SELECTED" \in Statuses
        /\ "ACTION_SELECTED" \in AllowedTransitions["ELIGIBLE"]
    BY PipelineTransitions DEF Statuses
  <2>2. s.status = "ACTION_SELECTED"
    <3> DEFINE d == [e EXCEPT !.selectedIntervention = action]
    <3> HIDE DEF e
    <3>1. d \in AnyCase /\ d.status = "ELIGIBLE"
      BY <1>2, <1>4 DEF AnyCase
    <3> HIDE DEF d
    <3>2. Transition(d, "ACTION_SELECTED").status = "ACTION_SELECTED"
      BY <2>1, <3>1, TransitionFields
    <3> QED
      BY <3>2 DEF d
  <2>3. y = EvaluatePolicy(s, env, action)
    BY <1>4, <2>2 DEF RunVoiceDecisionPipeline
  <2> HIDE DEF y, e, r
  <2>4. Kept(x, e) /\ Allowed(x, env)
    BY <1>1, <1>2, <1>4 DEF Allowed, Kept
  <2>5. Decided(x, y, env)
    BY <1>2, <1>4, <2>3, <2>4, SelectAndApply
  <2> QED
    BY <2>5 DEF y
<1> QED
  BY <1>3, <1>4

\* A case that is past the pipeline is returned as it is.
LEMMA PipelinesLeaveRest ==
  ASSUME NEW x \in Case, NEW env, NEW why, NEW band, NEW voiceEnabled, NEW action,
         x.status \notin Evaluable
  PROVE  /\ RunEvaluationPipeline(x, env, why, band, voiceEnabled) = x
         /\ RunVoiceDecisionPipeline(x, env, why, action) = x
<1>1. x.status # "ELIGIBLE" /\ x.status # "ACTION_SELECTED"
  BY DEF Case, StoredStatuses, Terminal
<1>2. RunEvaluationPipeline(x, env, why, band, voiceEnabled) = x
  BY DEF RunEvaluationPipeline
<1>3. RunVoiceDecisionPipeline(x, env, why, action) = x
  BY <1>1, Zenon DEF RunVoiceDecisionPipeline
<1> QED
  BY <1>2, <1>3
-----------------------------------------------------------------------------
(***************************************************************************)
(* The executor and the outcome evaluator.                                 *)
(***************************************************************************)
\* One attempt is spent, and only a recovery is credited.
Attempted(x, y) ==
  /\ y \in Case
  /\ y.attempts = x.attempts + 1 /\ y.amount = x.amount
  /\ y.razorpayPaymentLinkId = x.razorpayPaymentLinkId
  /\ y.status \in {"WAITING_OUTCOME", "RECOVERED", "FAILED"}
  /\ y.recoveredAmount = IF y.status = "RECOVERED" THEN x.amount ELSE x.recoveredAmount

LEMMA ExecutionFields ==
  ASSUME NEW x \in Case, x.status = "POLICY_APPROVED", NEW action,
         NEW live \in BOOLEAN, NEW success \in BOOLEAN
  PROVE  LET y == ExecuteAction(x, action, live, success)
         IN  \/ y.status = Thrown
             \/ y \in Case /\ Kept(x, y) /\ y.status \in {"STOPPED", "ESCALATED"}
             \/ Attempted(x, y) /\ (live => y.status = "WAITING_OUTCOME")
<1> DEFINE executed == Transition(x, "ACTION_EXECUTED")
           w == Transition(executed, "WAITING_OUTCOME")
           waiting == [w EXCEPT !.attempts = @ + 1]
           y == ExecuteAction(x, action, live, success)
<1>1. x \in AnyCase
  BY StoredIsAnyCase
<1>2. executed \in AnyCase /\ Kept(x, executed) /\ executed.status = "ACTION_EXECUTED"
  <2>1. "ACTION_EXECUTED" \in Statuses /\ "ACTION_EXECUTED" \in AllowedTransitions[x.status]
    BY PipelineTransitions DEF Statuses
  <2> QED
    BY <1>1, <2>1, TransitionFields
<1>3. w \in AnyCase /\ Kept(x, w) /\ w.status = "WAITING_OUTCOME"
  <2>1. /\ "WAITING_OUTCOME" \in Statuses
        /\ "WAITING_OUTCOME" \in AllowedTransitions[executed.status]
    BY <1>2, PipelineTransitions DEF Statuses
  <2> HIDE DEF executed
  <2>2. w \in AnyCase /\ Kept(executed, w) /\ w.status = "WAITING_OUTCOME"
    BY <1>2, <2>1, TransitionFields
  <2> HIDE DEF w
  <2> QED
    BY <1>2, <2>2 DEF Kept
<1>4. /\ waiting \in AnyCase /\ waiting.status = "WAITING_OUTCOME"
      /\ waiting.attempts = x.attempts + 1 /\ waiting.amount = x.amount
      /\ waiting.recoveredAmount = x.recoveredAmount
      /\ waiting.razorpayPaymentLinkId = x.razorpayPaymentLinkId
  <2> HIDE DEF w
  <2> QED
    BY <1>3 DEF AnyCase, Kept
<1>5. CASE action \in {"STOP", "ESCALATE"}
  <2> DEFINE to == IF action = "STOP" THEN "STOPPED" ELSE "ESCALATED"
  <2>1. y = Transition(executed, to)
    BY <1>5 DEF ExecuteAction
  <2>2. to \in Statuses /\ to \in AllowedTransitions["ACTION_EXECUTED"]
    BY PipelineTransitions DEF Statuses, Terminal
  <2> HIDE DEF executed, to
  <2>3. /\ Transition(executed, to) \in AnyCase
        /\ Kept(executed, Transition(executed, to))
        /\ Transition(executed, to).status = to
    BY <1>2, <2>2, TransitionFields
  <2>4. to \in {"STOPPED", "ESCALATED"}
    BY DEF to
  <2> HIDE DEF y
  <2>5. y \in AnyCase /\ Kept(x, y) /\ y.status \in {"STOPPED", "ESCALATED"}
    BY <1>2, <2>1, <2>3, <2>4 DEF Kept
  <2>6. y \in Case
    BY <2>5, AtRest DEF StoredStatuses, Terminal
  <2> QED
    BY <2>5, <2>6 DEF y
<1>6. CASE action = "CREATE_PAYMENT_LINK"
  <2>1. y = IF live THEN waiting
            ELSE IF success THEN SetRecovered(waiting)
            ELSE Transition(waiting, "FAILED")
    BY <1>6 DEF ExecuteAction
  <2> HIDE DEF waiting, w, executed
  <2>2. CASE live
    <3>1. waiting \in Case
      BY <1>4, AtRest DEF StoredStatuses
    <3>2. Attempted(x, waiting) /\ waiting.status = "WAITING_OUTCOME"
      BY <1>4, <3>1 DEF Attempted
    <3> QED
      BY <2>1, <2>2, <3>2
  <2>3. ASSUME NEW to \in {"RECOVERED", "FAILED"}
        PROVE  LET t == Transition(waiting, to)
               IN  /\ t \in AnyCase /\ Kept(waiting, t) /\ t.status = to
    <3>1. to \in Statuses /\ to \in AllowedTransitions["WAITING_OUTCOME"]
      BY <2>3, PipelineTransitions DEF Statuses, Terminal
    <3> QED
      BY <1>4, <3>1, TransitionFields
  <2>4. CASE ~live /\ success
    <3> DEFINE t == Transition(waiting, "RECOVERED")
    <3>1. y = [t EXCEPT !.recoveredAmount = waiting.amount]
      BY <2>1, <2>4 DEF SetRecovered
    <3>2. t \in AnyCase /\ Kept(waiting, t) /\ t.status = "RECOVERED"
      BY <2>3
    <3> HIDE DEF t, y
    <3>3. y \in AnyCase /\ y.status = "RECOVERED" /\ y.recoveredAmount = x.amount
      BY <1>4, <3>1, <3>2 DEF AnyCase
    <3>4. y \in Case
      BY <3>3, AtRest DEF StoredStatuses, Terminal
    <3>5. Attempted(x, y)
      BY <1>4, <3>1, <3>2, <3>3, <3>4 DEF Attempted, Kept, AnyCase
    <3> QED
      BY <2>4, <3>5 DEF y
  <2>5. CASE ~live /\ ~success
    <3>1. y = Transition(waiting, "FAILED")
      BY <2>1, <2>5
    <3> HIDE DEF y
    <3>2. y \in AnyCase /\ Kept(waiting, y) /\ y.status = "FAILED"
      BY <2>3, <3>1
    <3>3. y \in Case
      BY <3>2, AtRest DEF StoredStatuses
    <3>4. Attempted(x, y)
      BY <1>4, <3>2, <3>3 DEF Attempted, Kept
    <3> QED
      BY <2>5, <3>4 DEF y
  <2> QED
    BY <2>2, <2>4, <2>5
<1>7. CASE action \notin {"STOP", "ESCALATE", "CREATE_PAYMENT_LINK"}
  <2>1. y = [executed EXCEPT !.status = Thrown]
    BY <1>7, Zenon DEF ExecuteAction
  <2> HIDE DEF executed
  <2>2. [executed EXCEPT !.status = Thrown].status = Thrown
    BY <1>2 DEF AnyCase
  <2> QED
    BY <2>1, <2>2
<1> QED
  BY <1>5, <1>6, <1>7

\* With a live link the executor always gets as far as waiting for the outcome.
LEMMA LiveLinkWaits ==
  ASSUME NEW x \in Case, x.status = "POLICY_APPROVED"
  PROVE  ExecuteAction(x, "CREATE_PAYMENT_LINK", TRUE, FALSE).status = "WAITING_OUTCOME"
<1> DEFINE executed == Transition(x, "ACTION_EXECUTED")
           w == Transition(executed, "WAITING_OUTCOME")
<1>1. x \in AnyCase /\ "ACTION_EXECUTED" \in Statuses /\ "WAITING_OUTCOME" \in Statuses
  BY StoredIsAnyCase DEF Statuses
<1>2. executed \in AnyCase /\ executed.status = "ACTION_EXECUTED"
  BY <1>1, PipelineTransitions, TransitionFields
<1>3. ExecuteAction(x, "CREATE_PAYMENT_LINK", TRUE, FALSE) = [w EXCEPT !.attempts = @ + 1]
  BY DEF ExecuteAction
<1> HIDE DEF executed
<1>4. w \in AnyCase /\ w.status = "WAITING_OUTCOME"
  BY <1>1, <1>2, PipelineTransitions, TransitionFields
<1> HIDE DEF w
<1> QED
  BY <1>3, <1>4 DEF AnyCase

\* The event of a link that was waited for: the case gets its outcome, and only a
\* recovery is credited.
LEMMA OutcomeFields ==
  ASSUME NEW x \in Case, x.status = "WAITING_OUTCOME", NEW outcome \in {"RECOVERED", "FAILED"}
  PROVE  LET y == ResolveRecoveryOutcome(x, outcome)
         IN  /\ y \in Case /\ y.status = outcome
             /\ y.attempts = x.attempts /\ y.amount = x.amount
             /\ y.razorpayPaymentLinkId = x.razorpayPaymentLinkId
             /\ y.recoveredAmount = IF outcome = "RECOVERED" THEN x.amount ELSE x.recoveredAmount
<1> DEFINE t == Transition(x, outcome)
           y == ResolveRecoveryOutcome(x, outcome)
<1>1. x \in AnyCase /\ outcome \in Statuses /\ outcome \in AllowedTransitions[x.status]
  BY StoredIsAnyCase, PipelineTransitions DEF Statuses, Terminal
<1>2. t \in AnyCase /\ Kept(x, t) /\ t.status = outcome
  BY <1>1, TransitionFields
<1>3. y = IF outcome = "RECOVERED" THEN [t EXCEPT !.recoveredAmount = x.amount] ELSE t
  BY DEF ResolveRecoveryOutcome, SetRecovered
<1> HIDE DEF t, y
<1>4. /\ y \in AnyCase /\ y.status = outcome
      /\ y.attempts = x.attempts /\ y.amount = x.amount
      /\ y.razorpayPaymentLinkId = x.razorpayPaymentLinkId
      /\ y.recoveredAmount = IF outcome = "RECOVERED" THEN x.amount ELSE x.recoveredAmount
  BY <1>1, <1>2, <1>3 DEF AnyCase, Kept
<1>5. y \in Case
  BY <1>4, AtRest DEF StoredStatuses, Terminal
<1> QED
  BY <1>4, <1>5 DEF y
-----------------------------------------------------------------------------
(***************************************************************************)
(* The inductive invariant.  CreditMatchesStatus and RetryBudget are not   *)
(* inductive: an attempt is counted long after the approval that allowed   *)
(* it, under a policy that may have changed since, so what an approval     *)
(* leaves room for has to be remembered, and LinkMatchesCase needs to know *)
(* that the case names the link Razorpay has.                              *)
(***************************************************************************)
WithinBudget(n) == \E p \in Policies : n <= p.maxRecoveryAttempts

LeavesAttempt(n) == \E p \in Policies : n < p.maxRecoveryAttempts

Sound(x) ==
  /\ x \in Case
  /\ x.recoveredAmount = IF x.status = "RECOVERED" THEN x.amount ELSE 0
  /\ WithinBudget(x.attempts)
  /\ x.status = "POLICY_APPROVED" => LeavesAttempt(x.attempts)

LinkTracked ==
  /\ rc.razorpayPaymentLinkId = None <=> linkStatus = None
  /\ seen \subseteq {linkStatus}
  /\ linkStatus \notin seen \cup {None} => rc.status = "WAITING_OUTCOME"
  /\ "paid" \in seen => rc.status = "RECOVERED"

\* The rest of the type invariant: the item, the environment, the intent heard.
Rest ==
  /\ item \in [status : ItemStatuses \cup {None},
               intervention : ActionAllowlist \cup {None}, expiresAt : Nat]
  /\ policy \in Policies /\ optedOut \in BOOLEAN /\ now \in Nat /\ reason \in Reasons
  /\ configured \in BOOLEAN
  /\ heard \in VoiceIntents \cup {None}

LinkType ==
  /\ linkStatus \in {None, "created"} \cup DOMAIN HandledEvents
  /\ seen \subseteq DOMAIN HandledEvents

IInv == Sound(rc) /\ LinkTracked /\ LinkType /\ Rest

LEMMA InvariantGivesType == IInv => TypeOK
BY DEF IInv, TypeOK, Sound, LinkType, Rest

LEMMA EventNames == DOMAIN HandledEvents = {"paid", "expired", "cancelled"}
BY DEF HandledEvents

LEMMA EventOutcomes ==
  /\ HandledEvents["paid"] = "RECOVERED"
  /\ HandledEvents["expired"] = "FAILED"
  /\ HandledEvents["cancelled"] = "FAILED"
BY DEF HandledEvents

LEMMA EnvType == TypeOK => Env \in Environment
BY CaseAssumption DEF TypeOK, Env, Environment

LEMMA InvariantGivesProperties == IInv => CreditMatchesStatus /\ RetryBudget /\ LinkMatchesCase
<1> SUFFICES ASSUME IInv PROVE CreditMatchesStatus /\ RetryBudget /\ LinkMatchesCase
  OBVIOUS
<1>1. CreditMatchesStatus /\ RetryBudget
  BY DEF IInv, Sound, WithinBudget, CreditMatchesStatus, RetryBudget
<1>2. linkStatus # None => rc.razorpayPaymentLinkId = LinkId
  BY DEF IInv, Sound, LinkTracked, Case
<1> QED
  BY <1>1, <1>2 DEF IInv, LinkTracked, LinkMatchesCase

\* A decision keeps a case sound: it credits and spends nothing, and an approval
\* leaves an attempt under the policy of that moment.
LEMMA DecisionIsSound ==
  ASSUME NEW x, Sound(x), TypeOK, NEW y, Decided(x, y, Env), x.status \in Evaluable
  PROVE  Sound(y)
<1>1. x.status # "RECOVERED" /\ y.status # "RECOVERED"
  BY DEF Evaluable, Decided
<1>2. y.status = "POLICY_APPROVED" => y.attempts < policy.maxRecoveryAttempts
  BY DEF Decided, Allowed, Env, Kept
<1> QED
  BY <1>1, <1>2 DEF Sound, Decided, Kept, WithinBudget, LeavesAttempt, TypeOK

\* So does the execution of an approved case, if it does not throw.
LEMMA ExecutionIsSound ==
  ASSUME NEW x, Sound(x), x.status = "POLICY_APPROVED", NEW action,
         NEW live \in BOOLEAN, NEW success \in BOOLEAN,
         ExecuteAction(x, action, live, success).status # Thrown
  PROVE  LET y == ExecuteAction(x, action, live, success)
         IN  Sound(y) /\ y.razorpayPaymentLinkId = x.razorpayPaymentLinkId
<1> DEFINE y == ExecuteAction(x, action, live, success)
<1>1. \/ y \in Case /\ Kept(x, y) /\ y.status \in {"STOPPED", "ESCALATED"}
      \/ Attempted(x, y)
  BY ExecutionFields DEF Sound
<1> HIDE DEF y
<1>2. CASE y \in Case /\ Kept(x, y) /\ y.status \in {"STOPPED", "ESCALATED"}
  BY <1>2 DEF Sound, Kept, y
<1>3. CASE Attempted(x, y)
  <2>1. PICK p \in Policies : x.attempts < p.maxRecoveryAttempts
    BY DEF Sound, LeavesAttempt
  <2>2. p.maxRecoveryAttempts \in Nat /\ x.attempts \in Nat
    BY CaseAssumption DEF Policy, Sound, Case
  <2>3. y.attempts <= p.maxRecoveryAttempts
    BY <1>3, <2>1, <2>2 DEF Attempted
  <2>4. WithinBudget(y.attempts)
    BY <2>3 DEF WithinBudget
  <2> QED
    BY <1>3, <2>4 DEF Sound, Attempted, y
<1> QED
  BY <1>1, <1>2, <1>3

\* A step that leaves the link and its events alone, and the case too if it waits
\* for an outcome or has recovered, keeps the two together.
LEMMA LinkUntouched ==
  ASSUME LinkTracked, UNCHANGED <<linkStatus, seen>>,
         rc'.razorpayPaymentLinkId = rc.razorpayPaymentLinkId,
         rc.status \in {"WAITING_OUTCOME", "RECOVERED"} => rc'.status = rc.status
  PROVE  LinkTracked'
BY DEF LinkTracked

\* createLivePaymentLink and the caller's save, on the case a handler has in hand:
\* the stored one or one it has just decided.
LEMMA LiveLinkStep ==
  ASSUME IInv, NEW x, Sound(x), x.razorpayPaymentLinkId = rc.razorpayPaymentLinkId,
         x.status = "POLICY_APPROVED", rc.status \notin {"WAITING_OUTCOME", "RECOVERED"},
         NEW ok \in BOOLEAN, CreateLivePaymentLink(x, ok), UNCHANGED seen
  PROVE  /\ Sound(rc') /\ LinkTracked'
         /\ linkStatus' \in {None, "created"} \cup DOMAIN HandledEvents
<1>1. CASE Claimable(x) /\ ok
  <2> DEFINE l == [x EXCEPT !.razorpayPaymentLinkId = LinkId]
  <2>1. rc' = ExecuteAction(l, "CREATE_PAYMENT_LINK", TRUE, FALSE) /\ linkStatus' = "created"
    BY <1>1 DEF CreateLivePaymentLink, LinkSaved
  <2>2. Sound(l) /\ l.status = "POLICY_APPROVED" /\ l.razorpayPaymentLinkId = LinkId
    BY DEF Sound, Case
  <2> HIDE DEF l
  <2>3. rc'.status = "WAITING_OUTCOME"
    BY <2>1, <2>2, LiveLinkWaits DEF Sound
  <2>4. Sound(rc') /\ rc'.razorpayPaymentLinkId = LinkId
    BY <2>1, <2>2, <2>3, ExecutionIsSound DEF Thrown
  <2>5. seen' = {}
    BY <1>1, EventNames DEF Claimable, IInv, LinkTracked, LinkType, None
  <2>6. LinkId # None
    BY DEF LinkId, None
  <2> QED
    BY <2>1, <2>3, <2>4, <2>5, <2>6 DEF LinkTracked, None
<1>2. CASE ~(Claimable(x) /\ ok)
  <2>1. rc' = x /\ UNCHANGED linkStatus
    BY <1>2 DEF CreateLivePaymentLink
  <2> QED
    BY <2>1, LinkUntouched DEF IInv, LinkType
<1> QED
  BY <1>1, <1>2

LEMMA InitIsSound == Init => IInv
<1> SUFFICES ASSUME Init PROVE IInv
  OBVIOUS
<1>1. PICK a \in Amounts, w \in WindowEnds : rc = DetectedCase(a, w)
  BY DEF Init
<1>2. a \in Nat /\ w \in Nat
  BY CaseAssumption
<1>3. rc \in Case /\ rc.status = "RISK_DETECTED" /\ rc.recoveredAmount = 0 /\ rc.attempts = 0
  BY <1>1, <1>2 DEF DetectedCase, Case, StoredStatuses
<1>4. WithinBudget(0)
  <2>1. policy \in Policies /\ policy.maxRecoveryAttempts \in Nat
    BY CaseAssumption DEF Init, Policy
  <2>2. 0 <= policy.maxRecoveryAttempts
    BY <2>1
  <2> QED
    BY <2>1, <2>2 DEF WithinBudget
<1>5. Sound(rc)
  BY <1>3, <1>4 DEF Sound
<1>6. rc.razorpayPaymentLinkId = None
  BY <1>1 DEF DetectedCase
<1>7. LinkTracked /\ LinkType
  BY <1>6 DEF Init, LinkTracked, LinkType
<1>8. Rest
  <2>1. optedOut \in BOOLEAN
    BY DEF Init
  <2> QED
    BY <2>1 DEF Init, Rest, NoItem
<1> QED
  BY <1>5, <1>7, <1>8 DEF IInv

\* POST /:id/evaluate and the planner share what they do to the case.
LEMMA PipelineStep ==
  ASSUME IInv, NEW band \in PossibleBands, NEW voiceEnabled
  PROVE  LET y == RunEvaluationPipeline(rc, Env, reason, band, voiceEnabled)
         IN  /\ Sound(y) /\ y.status # Thrown
             /\ y.razorpayPaymentLinkId = rc.razorpayPaymentLinkId
             /\ rc.status \notin Evaluable => y = rc
<1>1. band \in Bands
  BY DEF PossibleBands, ScoreBands, Bands
<1>2. rc \in Case /\ Env \in Environment /\ TypeOK /\ Sound(rc)
  BY EnvType, InvariantGivesType DEF IInv, Sound
<1> DEFINE y == RunEvaluationPipeline(rc, Env, reason, band, voiceEnabled)
<1>3. CASE rc.status \in Evaluable
  <2>1. Decided(rc, y, Env)
    BY <1>1, <1>2, <1>3, EvaluationDecides
  <2> HIDE DEF y
  <2>2. Sound(y)
    BY <1>2, <1>3, <2>1, DecisionIsSound
  <2> QED
    BY <1>3, <2>1, <2>2 DEF Decided, Kept, Thrown, y
<1>4. CASE rc.status \notin Evaluable
  <2>1. y = rc
    BY <1>2, <1>4, PipelinesLeaveRest
  <2> QED
    BY <1>2, <2>1 DEF Case, StoredStatuses, Terminal, Thrown
<1> QED
  BY <1>3, <1>4

\* The case a turn has decided.
LEMMA TurnStep ==
  ASSUME IInv, NEW intent \in VoiceIntents, intent # "UNCLEAR"
  PROVE  LET y == TurnDecision(intent)
         IN  /\ Sound(y) /\ y.status # Thrown
             /\ y.razorpayPaymentLinkId = rc.razorpayPaymentLinkId
             /\ rc.status \notin Evaluable => y = rc
<1> DEFINE action == MapVoiceIntent(intent)
           y == RunVoiceDecisionPipeline(rc, Env, reason, action)
<1>1. action \in ActionAllowlist
  BY DEF MapVoiceIntent, VoiceIntents, ActionAllowlist, CustomerFacing
<1>2. rc \in Case /\ Env \in Environment /\ TypeOK /\ Sound(rc)
  BY EnvType, InvariantGivesType DEF IInv, Sound
<1> HIDE DEF action
<1>3. CASE rc.status \in Evaluable
  <2>1. Decided(rc, y, Env)
    BY <1>1, <1>2, <1>3, VoiceTurnDecides
  <2> HIDE DEF y
  <2>2. Sound(y)
    BY <1>2, <1>3, <2>1, DecisionIsSound
  <2> QED
    BY <1>3, <2>1, <2>2 DEF Decided, Kept, Thrown, TurnDecision, y, action
<1>4. CASE rc.status \notin Evaluable
  <2>1. y = rc
    BY <1>2, <1>4, PipelinesLeaveRest
  <2> QED
    BY <1>2, <2>1 DEF Case, StoredStatuses, Terminal, Thrown, TurnDecision, action
<1> QED
  BY <1>3, <1>4

\* A simulated execution of the stored case or of one just decided, and its save.
LEMMA SaveExecuted ==
  ASSUME IInv, NEW x, Sound(x), x.razorpayPaymentLinkId = rc.razorpayPaymentLinkId,
         x.status = "POLICY_APPROVED", rc.status \notin {"WAITING_OUTCOME", "RECOVERED"},
         NEW action, NEW success \in BOOLEAN,
         Save(ExecuteAction(x, action, FALSE, success)), UNCHANGED <<linkStatus, seen>>
  PROVE  Sound(rc') /\ LinkTracked' /\ LinkType'
<1> DEFINE y == ExecuteAction(x, action, FALSE, success)
<1>1. \/ rc' = rc
      \/ y.status # Thrown /\ rc' = y
  BY DEF Save
<1>2. y.status # Thrown => Sound(y) /\ y.razorpayPaymentLinkId = x.razorpayPaymentLinkId
  BY ExecutionIsSound
<1> HIDE DEF y
<1>3. Sound(rc') /\ rc'.razorpayPaymentLinkId = rc.razorpayPaymentLinkId
  BY <1>1, <1>2 DEF IInv
<1> QED
  BY <1>3, LinkUntouched DEF IInv, LinkType

LEMMA LinkTypeKept ==
  ASSUME LinkType, UNCHANGED <<linkStatus, seen>>
  PROVE  LinkType'
BY DEF LinkType

LEMMA AutoPlanStep == ASSUME IInv, AutoPlan PROVE IInv'
<1>1. PICK band \in PossibleBands :
        LET after == RunEvaluationPipeline(rc, Env, reason, band, policy.voiceEnabled)
        IN  rc' = after /\ item' = BuildPlanItemFields(after)
  BY DEF AutoPlan
<1>2. /\ Sound(rc') /\ rc'.razorpayPaymentLinkId = rc.razorpayPaymentLinkId
      /\ item' = BuildPlanItemFields(rc')
  BY <1>1, PipelineStep
<1>3. rc.status = "RISK_DETECTED" /\ UNCHANGED <<linkStatus, seen, environment>> /\ heard' = None
  BY DEF AutoPlan
<1>4. LinkTracked' /\ LinkType'
  BY <1>2, <1>3, LinkUntouched, LinkTypeKept DEF IInv
<1>5. item' \in [status : ItemStatuses \cup {None},
                 intervention : ActionAllowlist \cup {None}, expiresAt : Nat]
  <2>1. now + PlanTTL \in Nat
    BY CaseAssumption DEF IInv, Rest
  <2>2. rc'.selectedIntervention \in ActionAllowlist \cup {None}
    BY <1>2 DEF Sound, Case
  <2>3. {"ESCALATE", "STOP"} \subseteq ActionAllowlist /\ "PENDING" \in ItemStatuses
    BY DEF ActionAllowlist, ItemStatuses
  <2> QED
    BY <1>2, <2>1, <2>2, <2>3 DEF BuildPlanItemFields
<1>6. Rest'
  BY <1>3, <1>5 DEF IInv, Rest, environment
<1> QED
  BY <1>2, <1>4, <1>6 DEF IInv

\* What steps outside the planner and the confirmation leave of the rest.
LEMMA RestKept ==
  ASSUME IInv, UNCHANGED <<item, environment>>, heard' \in VoiceIntents \cup {None}
  PROVE  Rest'
BY DEF IInv, Rest, environment

LEMMA EvaluateStep == ASSUME IInv, Evaluate PROVE IInv'
<1>1. PICK band \in PossibleBands : Save(RunEvaluationPipeline(rc, Env, reason, band, FALSE))
  BY DEF Evaluate
<1> DEFINE y == RunEvaluationPipeline(rc, Env, reason, band, FALSE)
<1>2. /\ Sound(y) /\ y.status # Thrown /\ y.razorpayPaymentLinkId = rc.razorpayPaymentLinkId
      /\ rc.status \notin Evaluable => y = rc
  BY PipelineStep
<1>3. rc' = y
  BY <1>1, <1>2 DEF Save
<1> HIDE DEF y
<1>4. rc.status \in {"WAITING_OUTCOME", "RECOVERED"} => rc' = rc
  BY <1>2, <1>3 DEF Evaluable
<1>5. LinkTracked' /\ LinkType'
  BY <1>2, <1>3, <1>4, LinkUntouched, LinkTypeKept DEF IInv, Evaluate
<1> QED
  BY <1>2, <1>3, <1>5, RestKept DEF IInv, Evaluate

LEMMA SimulateActionStep == ASSUME IInv, SimulateAction PROVE IInv'
<1>1. PICK success \in BOOLEAN :
        Save(ExecuteAction(rc, rc.selectedIntervention, FALSE, success))
  BY DEF SimulateAction
<1>2. /\ rc.status = "POLICY_APPROVED" /\ UNCHANGED <<item, linkStatus, seen, environment>>
      /\ heard' = None
  BY DEF SimulateAction
<1>3. Sound(rc') /\ LinkTracked' /\ LinkType'
  BY <1>1, <1>2, SaveExecuted DEF IInv
<1> QED
  BY <1>2, <1>3, RestKept DEF IInv

LEMMA PaymentLinkRouteStep == ASSUME IInv, PaymentLinkRoute PROVE IInv'
<1>1. PICK ok \in BOOLEAN : CreateLivePaymentLink(rc, ok)
  BY DEF PaymentLinkRoute
<1>2. rc.status = "POLICY_APPROVED" /\ UNCHANGED <<item, seen, environment>> /\ heard' = None
  BY DEF PaymentLinkRoute, PaymentLinkAllowed
<1>3. /\ Sound(rc') /\ LinkTracked'
      /\ linkStatus' \in {None, "created"} \cup DOMAIN HandledEvents
  BY <1>1, <1>2, LiveLinkStep DEF IInv
<1>4. LinkType'
  BY <1>2, <1>3 DEF IInv, LinkType
<1> QED
  BY <1>2, <1>3, <1>4, RestKept DEF IInv

LEMMA VoiceSessionStep == ASSUME IInv, VoiceSession PROVE IInv'
<1>1. /\ rc.status \in VoiceEligibleStatuses /\ rc' = [rc EXCEPT !.voiceAttempts = @ + 1]
      /\ heard' = None /\ UNCHANGED <<item, linkStatus, seen, environment>>
  BY DEF VoiceSession
<1>2. Sound(rc)
  BY DEF IInv
<1>3. /\ rc' \in Case /\ rc'.status = rc.status /\ rc'.attempts = rc.attempts
      /\ rc'.amount = rc.amount /\ rc'.recoveredAmount = rc.recoveredAmount
      /\ rc'.razorpayPaymentLinkId = rc.razorpayPaymentLinkId
  BY <1>1, <1>2 DEF Sound, Case
<1>4. Sound(rc')
  BY <1>2, <1>3 DEF Sound
<1>5. LinkTracked' /\ LinkType'
  BY <1>1, <1>3, LinkUntouched, LinkTypeKept DEF IInv
<1> QED
  BY <1>1, <1>4, <1>5, RestKept DEF IInv

LEMMA VoiceTurnStep ==
  ASSUME IInv, NEW intent \in VoiceIntents, VoiceTurn(intent)
  PROVE  IInv'
<1> DEFINE d == TurnDecision(intent)
<1>1. rc.status \notin Terminal /\ heard' = intent /\ UNCHANGED <<item, seen, environment>>
  BY DEF VoiceTurn
<1>2. Sound(rc') /\ LinkTracked' /\ LinkType'
  <2>1. CASE intent = "UNCLEAR"
    <3>1. UNCHANGED <<rc, linkStatus>>
      BY <2>1 DEF VoiceTurn
    <3> QED
      BY <1>1, <3>1, LinkUntouched, LinkTypeKept DEF IInv
  <2>2. CASE intent # "UNCLEAR"
    <3>1. /\ Sound(d) /\ d.status # Thrown
          /\ d.razorpayPaymentLinkId = rc.razorpayPaymentLinkId
          /\ rc.status \notin Evaluable => d = rc
      BY <2>2, TurnStep
    <3>2. \/ TakesLivePath(d) /\ \E ok \in BOOLEAN : CreateLivePaymentLink(d, ok)
          \/ /\ d.status = "POLICY_APPROVED" /\ UNCHANGED linkStatus
             /\ \E success \in BOOLEAN :
                  Save(ExecuteAction(d, d.selectedIntervention, FALSE, success))
          \/ d.status # "POLICY_APPROVED" /\ Save(d) /\ UNCHANGED linkStatus
      BY <2>2 DEF VoiceTurn
    <3> HIDE DEF d
    <3>3. d.status = "POLICY_APPROVED" => rc.status \notin {"WAITING_OUTCOME", "RECOVERED"}
      BY <3>1 DEF Evaluable
    <3>4. CASE TakesLivePath(d) /\ \E ok \in BOOLEAN : CreateLivePaymentLink(d, ok)
      <4>1. d.status = "POLICY_APPROVED"
        BY <3>4 DEF TakesLivePath
      <4>2. /\ Sound(rc') /\ LinkTracked'
            /\ linkStatus' \in {None, "created"} \cup DOMAIN HandledEvents
        BY <1>1, <3>1, <3>3, <3>4, <4>1, LiveLinkStep
      <4> QED
        BY <1>1, <4>2 DEF IInv, LinkType
    <3>5. ASSUME NEW success \in BOOLEAN, d.status = "POLICY_APPROVED", UNCHANGED linkStatus,
                 Save(ExecuteAction(d, d.selectedIntervention, FALSE, success))
          PROVE  Sound(rc') /\ LinkTracked' /\ LinkType'
      BY <1>1, <3>1, <3>3, <3>5, SaveExecuted
    <3>6. CASE d.status # "POLICY_APPROVED" /\ Save(d) /\ UNCHANGED linkStatus
      <4>1. rc' = d
        BY <3>1, <3>6 DEF Save
      <4>2. rc.status \in {"WAITING_OUTCOME", "RECOVERED"} => rc' = rc
        BY <3>1, <4>1 DEF Evaluable
      <4> QED
        BY <1>1, <3>1, <3>6, <4>1, <4>2, LinkUntouched, LinkTypeKept DEF IInv
    <3> QED
      BY <3>2, <3>4, <3>5, <3>6
  <2> QED
    BY <2>1, <2>2
<1> QED
  BY <1>1, <1>2, RestKept DEF IInv

LEMMA ConfirmPlanStep == ASSUME IInv, ConfirmPlan PROVE IInv'
<1>1. heard' = None /\ UNCHANGED <<seen, environment>>
  BY DEF ConfirmPlan
<1>2. ASSUME NEW s \in ItemStatuses, CloseItem(s) PROVE Rest'
  BY <1>1, <1>2 DEF IInv, Rest, CloseItem, environment
<1>3. ASSUME UNCHANGED <<rc, linkStatus>> PROVE Sound(rc') /\ LinkTracked' /\ LinkType'
  BY <1>1, <1>3, LinkUntouched, LinkTypeKept DEF IInv
<1>4. CASE now > item.expiresAt /\ CloseItem("REMOVED") /\ UNCHANGED <<rc, linkStatus>>
  BY <1>2, <1>3, <1>4 DEF IInv, ItemStatuses
<1>5. CASE ExecutePlanItem
  <2>1. CASE item.intervention \notin CustomerFacing /\ UNCHANGED <<rc, linkStatus>>
             /\ CloseItem(IF item.intervention = "ESCALATE" THEN "ESCALATED" ELSE "SKIPPED")
    BY <1>2, <1>3, <2>1 DEF IInv, ItemStatuses
  <2>2. CASE CloseItem(ItemForResolvedCase) /\ UNCHANGED <<rc, linkStatus>>
    BY <1>2, <1>3, <2>2 DEF IInv, ItemStatuses, ItemForResolvedCase
  <2>3. CASE CloseItem("EXECUTED") /\ UNCHANGED <<rc, linkStatus>>
    BY <1>2, <1>3, <2>3 DEF IInv, ItemStatuses
  <2>4. CASE /\ rc.status = "POLICY_APPROVED" /\ Recheck.outcome # "APPROVE"
             /\ Save(Revalidate(Recheck)) /\ CloseItem("REMOVED") /\ UNCHANGED linkStatus
    <3> DEFINE t == Transition(rc, OutcomeToStatus[Recheck.outcome])
    <3>1. rc \in AnyCase /\ Env \in Environment /\ Sound(rc)
      BY StoredIsAnyCase, EnvType, InvariantGivesType DEF IInv, Sound
    <3>2. Recheck \in Verdicts
      <4>1. rc.selectedIntervention \in ActionAllowlist \cup {None}
        BY <3>1 DEF AnyCase
      <4> QED
        BY <3>1, <4>1, PrecedenceVerdict DEF Recheck
    <3>3. OutcomeToStatus[Recheck.outcome] \in {"STOPPED", "ESCALATED", "EXPIRED"}
      <4>1. Recheck.outcome \in {"STOP", "ESCALATE", "EXPIRE", "BLOCK"}
        BY <2>4, <3>2 DEF Verdicts
      <4> QED
        BY <4>1, OutcomeStatuses
    <3>4. /\ OutcomeToStatus[Recheck.outcome] \in Statuses
          /\ OutcomeToStatus[Recheck.outcome] \in AllowedTransitions[rc.status]
      BY <2>4, <3>3, PipelineTransitions DEF Statuses, Terminal
    <3>5. t \in AnyCase /\ Kept(rc, t) /\ t.status \in {"STOPPED", "ESCALATED", "EXPIRED"}
      BY <3>1, <3>3, <3>4, TransitionFields
    <3>6. Revalidate(Recheck) = [t EXCEPT !.policyDecision = Recheck.reasonCode]
      BY DEF Revalidate
    <3>7. Recheck.reasonCode \in ReasonCodes
      BY <3>2 DEF Verdicts
    <3> DEFINE y == Revalidate(Recheck)
    <3> HIDE DEF t
    <3>8. y \in AnyCase /\ Kept(rc, y) /\ y.status \in {"STOPPED", "ESCALATED", "EXPIRED"}
      BY <3>5, <3>6, <3>7 DEF AnyCase, Kept
    <3>9. y \in Case
      BY <3>8, AtRest DEF StoredStatuses, Terminal
    <3>10. rc' = y
      BY <2>4, <3>8 DEF Save, Thrown
    <3> HIDE DEF y
    <3>11. Sound(rc') /\ rc'.razorpayPaymentLinkId = rc.razorpayPaymentLinkId
      BY <2>4, <3>1, <3>8, <3>9, <3>10 DEF Sound, Kept
    <3>12. LinkTracked' /\ LinkType'
      BY <1>1, <2>4, <3>11, LinkUntouched, LinkTypeKept DEF IInv
    <3> QED
      BY <1>2, <2>4, <3>11, <3>12 DEF IInv, ItemStatuses
  <2>5. CASE rc.status = "POLICY_APPROVED" /\ ExecutePaymentLinkItem
    <3>1. ASSUME NEW ok \in BOOLEAN, CreateLivePaymentLink(rc, ok),
                 CloseItem(IF Claimable(rc) /\ ~ok THEN "FAILED" ELSE "EXECUTED")
          PROVE  IInv'
      <4>1. /\ Sound(rc') /\ LinkTracked'
            /\ linkStatus' \in {None, "created"} \cup DOMAIN HandledEvents
        BY <1>1, <2>5, <3>1, LiveLinkStep DEF IInv
      <4>2. LinkType'
        BY <1>1, <4>1 DEF IInv, LinkType
      <4> QED
        BY <1>2, <3>1, <4>1, <4>2 DEF IInv, ItemStatuses
    <3>2. ASSUME NEW success \in BOOLEAN, UNCHANGED linkStatus, CloseItem("EXECUTED"),
                 Save(ExecuteAction(rc, "CREATE_PAYMENT_LINK", FALSE, success))
          PROVE  IInv'
      <4>1. Sound(rc') /\ LinkTracked' /\ LinkType'
        BY <1>1, <2>5, <3>2, SaveExecuted DEF IInv
      <4> QED
        BY <1>2, <3>2, <4>1 DEF IInv, ItemStatuses
    <3> QED
      BY <2>5, <3>1, <3>2 DEF ExecutePaymentLinkItem
  <2>6. CASE rc.status = "POLICY_APPROVED" /\ ExecuteVoiceItem
    <3>1. /\ rc' = [rc EXCEPT !.voiceAttempts = @ + 1]
          /\ CloseItem("EXECUTED") /\ UNCHANGED linkStatus
      BY <2>6 DEF ExecuteVoiceItem
    <3>2. /\ rc' \in Case /\ rc'.status = rc.status /\ rc'.attempts = rc.attempts
          /\ rc'.amount = rc.amount /\ rc'.recoveredAmount = rc.recoveredAmount
          /\ rc'.razorpayPaymentLinkId = rc.razorpayPaymentLinkId
      BY <3>1 DEF IInv, Sound, Case
    <3>3. Sound(rc')
      BY <3>2 DEF IInv, Sound
    <3>4. LinkTracked' /\ LinkType'
      BY <1>1, <3>1, <3>2, LinkUntouched, LinkTypeKept DEF IInv
    <3> QED
      BY <1>2, <3>1, <3>3, <3>4 DEF IInv, ItemStatuses
  <2> QED
    BY <1>5, <2>1, <2>2, <2>3, <2>4, <2>5, <2>6 DEF ExecutePlanItem
<1> QED
  BY <1>4, <1>5 DEF ConfirmPlan

LEMMA LinkClosesStep ==
  ASSUME IInv, NEW how \in DOMAIN HandledEvents, LinkCloses(how)
  PROVE  IInv'
<1>1. /\ linkStatus = "created" /\ linkStatus' = how /\ heard' = None
      /\ UNCHANGED <<rc, item, seen, environment>>
  BY DEF LinkCloses
<1>2. seen = {} /\ rc.status = "WAITING_OUTCOME" /\ rc.razorpayPaymentLinkId # None
  BY <1>1, EventNames DEF IInv, LinkTracked, LinkType, None
<1>3. LinkTracked' /\ LinkType'
  BY <1>1, <1>2, EventNames DEF LinkTracked, LinkType, None
<1> QED
  BY <1>1, <1>3, RestKept DEF IInv

LEMMA WebhookStep ==
  ASSUME IInv, NEW event \in DOMAIN HandledEvents, Webhook(event)
  PROVE  IInv'
<1>1. /\ linkStatus = event /\ seen' = seen \cup {event} /\ heard' = None
      /\ UNCHANGED <<item, linkStatus, environment>>
  BY DEF Webhook
<1>2. event # None /\ rc.razorpayPaymentLinkId = LinkId
  BY <1>1, EventNames DEF IInv, LinkTracked, None, Sound, Case
<1>3. LinkType' /\ Rest'
  BY <1>1, RestKept DEF IInv, LinkType
<1>4. CASE event \in seen
  <2>1. rc' = rc /\ seen' = seen
    BY <1>1, <1>4 DEF Webhook
  <2> QED
    BY <1>1, <1>3, <2>1, LinkUntouched DEF IInv
<1>5. CASE event \notin seen
  <2> DEFINE y == ResolveRecoveryOutcome(rc, HandledEvents[event])
  <2>1. rc' = y
    BY <1>2, <1>5 DEF Webhook
  <2>2. rc.status = "WAITING_OUTCOME" /\ Sound(rc) /\ seen = {}
    BY <1>1, <1>2, <1>5 DEF IInv, LinkTracked
  <2>3. /\ HandledEvents[event] \in {"RECOVERED", "FAILED"}
        /\ event = "paid" => HandledEvents[event] = "RECOVERED"
    BY EventOutcomes, EventNames
  <2>4. /\ y \in Case /\ y.status = HandledEvents[event]
        /\ y.attempts = rc.attempts /\ y.amount = rc.amount
        /\ y.razorpayPaymentLinkId = rc.razorpayPaymentLinkId
        /\ y.recoveredAmount = IF y.status = "RECOVERED" THEN rc.amount ELSE rc.recoveredAmount
    BY <2>2, <2>3, OutcomeFields DEF Sound
  <2> HIDE DEF y
  <2>5. Sound(rc')
    BY <2>1, <2>2, <2>3, <2>4 DEF Sound
  <2>6. LinkTracked'
    BY <1>1, <1>2, <2>1, <2>2, <2>3, <2>4 DEF LinkTracked, LinkId, None
  <2> QED
    BY <1>3, <2>5, <2>6 DEF IInv
<1> QED
  BY <1>4, <1>5

LEMMA EnvironmentStep ==
  ASSUME IInv, UpdatePolicy \/ OptOutChanges \/ Tick
  PROVE  IInv'
<1>1. UNCHANGED <<rc, item, linkStatus, seen, reason, configured>> /\ heard' = None
  BY DEF UpdatePolicy, OptOutChanges, Tick
<1>2. Sound(rc') /\ LinkTracked' /\ LinkType'
  BY <1>1, LinkUntouched, LinkTypeKept DEF IInv
<1>3. policy' \in Policies /\ optedOut' \in BOOLEAN /\ now' \in Nat
  <2>1. CASE UpdatePolicy
    BY <2>1 DEF UpdatePolicy, IInv, Rest
  <2>2. CASE OptOutChanges
    BY <2>2 DEF OptOutChanges, IInv, Rest
  <2>3. CASE Tick
    BY <2>3 DEF Tick, IInv, Rest
  <2> QED
    BY <2>1, <2>2, <2>3
<1>4. Rest'
  BY <1>1, <1>3 DEF IInv, Rest
<1> QED
  BY <1>2, <1>4 DEF IInv

\* The first rule that has a phrase in the utterance.
LEMMA FirstRule ==
  ASSUME NEW matching \in Utterances, matching # {}
  PROVE  LET first == CHOOSE i \in matching : \A j \in matching : i <= j
         IN  first \in matching /\ first \in 1 .. 6 /\ \A j \in matching : first <= j
<1>1. matching \subseteq 1 .. 6
  BY DEF Utterances
<1>2. \E i \in matching : \A j \in matching : i <= j
  <2>1. CASE 1 \in matching
    BY <1>1, <2>1
  <2>2. CASE 1 \notin matching /\ 2 \in matching
    BY <1>1, <2>2
  <2>3. CASE 1 \notin matching /\ 2 \notin matching /\ 3 \in matching
    BY <1>1, <2>3
  <2>4. CASE 1 \notin matching /\ 2 \notin matching /\ 3 \notin matching /\ 4 \in matching
    BY <1>1, <2>4
  <2>5. CASE /\ 1 \notin matching /\ 2 \notin matching /\ 3 \notin matching /\ 4 \notin matching
             /\ 5 \in matching
    BY <1>1, <2>5
  <2>6. CASE /\ 1 \notin matching /\ 2 \notin matching /\ 3 \notin matching /\ 4 \notin matching
             /\ 5 \notin matching
    <3>1. \A j \in matching : j = 6
      BY <1>1, <2>6
    <3> QED
      BY <3>1
  <2> QED
    BY <2>1, <2>2, <2>3, <2>4, <2>5, <2>6
<1> QED
  BY <1>1, <1>2

\* Whatever Gemini answers and the rules find, it is read as one of the intents.
LEMMA UnderstoodType == UnderstoodIntents \subseteq VoiceIntents
<1> SUFFICES ASSUME NEW answer \in GeminiAnswers, NEW matching \in Utterances
             PROVE  ClassifyVoiceIntent(answer, matching) \in VoiceIntents
  BY DEF UnderstoodIntents
<1>1. CASE answer \in VoiceIntents
  BY <1>1 DEF ClassifyVoiceIntent
<1>2. CASE answer \notin VoiceIntents /\ matching = {}
  BY <1>2 DEF ClassifyVoiceIntent, DeterministicVoiceIntent, ClassifyVoiceIntentByKeyword,
              None, VoiceIntents
<1>3. CASE answer \notin VoiceIntents /\ matching # {}
  <2> DEFINE first == CHOOSE i \in matching : \A j \in matching : i <= j
  <2>1. first \in 1 .. 6
    BY <1>3, FirstRule
  <2> HIDE DEF first
  <2>2. RULES[first] \in VoiceIntents /\ RULES[first] # None
    BY <2>1 DEF RULES, VoiceIntents, None
  <2> QED
    BY <1>3, <2>2, Zenon DEF ClassifyVoiceIntent, DeterministicVoiceIntent,
                             ClassifyVoiceIntentByKeyword, first
<1> QED
  BY <1>1, <1>2, <1>3

\* With a rule of refusal, inability or deferral among those that match, one of them
\* comes first.
LEMMA DecliningType == DecliningIntents \subseteq {"REFUSE", "CANNOT_PAY", "PAY_LATER"}
<1> SUFFICES ASSUME NEW matching \in Declining
             PROVE  DeterministicVoiceIntent(matching) \in {"REFUSE", "CANNOT_PAY", "PAY_LATER"}
  BY DEF DecliningIntents
<1> DEFINE first == CHOOSE i \in matching : \A j \in matching : i <= j
<1>1. matching \in Utterances
  BY DEF Declining
<1>2. PICK i \in matching : RULES[i] \in {"REFUSE", "CANNOT_PAY", "PAY_LATER"}
  BY DEF Declining
<1>3. i \in 1 .. 6
  BY <1>1 DEF Utterances
<1>4. i <= 3
  BY <1>2, <1>3 DEF RULES
<1>5. first \in 1 .. 6 /\ first <= i
  BY <1>1, FirstRule
<1> HIDE DEF first
<1>6. first \in 1 .. 3
  BY <1>3, <1>4, <1>5
<1>7. RULES[first] \in {"REFUSE", "CANNOT_PAY", "PAY_LATER"} /\ RULES[first] # None
  BY <1>6 DEF RULES, None
<1> QED
  BY <1>7, Zenon DEF DeterministicVoiceIntent, ClassifyVoiceIntentByKeyword, first

LEMMA InvariantStep == IInv /\ [Next]_vars => IInv'
<1> SUFFICES ASSUME IInv, [Next]_vars PROVE IInv'
  OBVIOUS
<1>1. CASE UNCHANGED vars
  BY <1>1 DEF vars, IInv, Sound, WithinBudget, LeavesAttempt, LinkTracked, LinkType, Rest
<1> QED
  BY <1>1, AutoPlanStep, EvaluateStep, SimulateActionStep, PaymentLinkRouteStep,
     VoiceSessionStep, VoiceTurnStep, ConfirmPlanStep, LinkClosesStep, WebhookStep,
     EnvironmentStep, UnderstoodType DEF Next

LEMMA InvariantHolds == Spec => []IInv
BY InitIsSound, InvariantStep, PTL DEF Spec

\* Every stored case is of the declared type and at rest: no handler ever saves a
\* case in one of the statuses the pipelines pass through.
THEOREM TypeCorrect == Spec => []TypeOK
BY InvariantHolds, InvariantGivesType, PTL

\* Recovered revenue and status agree in every reachable state, whatever policies
\* the merchant sets and however simulated outcomes and webhooks interleave.
THEOREM CreditIsSound == Spec => []CreditMatchesStatus
BY InvariantHolds, InvariantGivesProperties, PTL

\* Attempts stay within the loosest policy the merchant may have set, over any number
\* of failures, re-evaluations, turns, confirmations and policy changes.
THEOREM RetriesAreBounded == Spec => []RetryBudget
BY InvariantHolds, InvariantGivesProperties, PTL

\* A link that can be paid, or whose event is on its way, belongs to a case that
\* waits for it, and a recorded payment is a recovered case.
THEOREM LinkAgreesWithCase == Spec => []LinkMatchesCase
BY InvariantHolds, InvariantGivesProperties, PTL
-----------------------------------------------------------------------------
(***************************************************************************)
(* What no step may do.                                                    *)
(***************************************************************************)
LEMMA TerminalStep ==
  ASSUME IInv, [Next]_vars, rc.status \in Terminal
  PROVE  rc' = rc
<1>1. /\ rc.status \notin Evaluable /\ rc.status \notin VoiceEligibleStatuses
      /\ rc.status \notin {"RISK_DETECTED", "POLICY_APPROVED", "WAITING_OUTCOME"}
  BY DEF Terminal, Evaluable, VoiceEligibleStatuses
<1>2. CASE Evaluate
  <2>1. PICK band \in PossibleBands : Save(RunEvaluationPipeline(rc, Env, reason, band, FALSE))
    BY <1>2 DEF Evaluate
  <2>2. RunEvaluationPipeline(rc, Env, reason, band, FALSE) = rc
    BY <1>1, PipelineStep
  <2> QED
    BY <2>1, <2>2 DEF Save
<1>3. CASE AutoPlan \/ SimulateAction \/ PaymentLinkRoute \/ VoiceSession
  BY <1>1, <1>3 DEF AutoPlan, SimulateAction, PaymentLinkRoute, PaymentLinkAllowed, VoiceSession
<1>4. ASSUME NEW intent \in VoiceIntents, VoiceTurn(intent) PROVE rc' = rc
  BY <1>4 DEF VoiceTurn
<1>5. CASE ConfirmPlan
  BY <1>1, <1>5 DEF ConfirmPlan, ExecutePlanItem
<1>6. ASSUME NEW how \in DOMAIN HandledEvents, LinkCloses(how) PROVE rc' = rc
  BY <1>6 DEF LinkCloses
<1>7. ASSUME NEW event \in DOMAIN HandledEvents, Webhook(event) PROVE rc' = rc
  BY <1>1, <1>7 DEF Webhook, ResolveRecoveryOutcome
<1>8. CASE UpdatePolicy \/ OptOutChanges \/ Tick \/ UNCHANGED vars
  BY <1>8 DEF UpdatePolicy, OptOutChanges, Tick, vars
<1> QED
  BY <1>2, <1>3, <1>4, <1>5, <1>6, <1>7, <1>8, UnderstoodType DEF Next

\* A case in a terminal status is never written again, by any handler or event.
THEOREM TerminalCasesAreFinal == Spec => TerminalIsFinal
<1>1. IInv /\ [Next]_vars => [rc.status \in Terminal => rc' = rc]_vars
  BY TerminalStep
<1> QED
  BY <1>1, InvariantHolds, PTL DEF Spec, TerminalIsFinal

\* Only the two pipelines move a new or failed case; a voice session counts itself.
LEMMA OnlyPipelinesMove ==
  ASSUME IInv, [Next]_vars, rc.status \in Evaluable,
         ~AutoPlan, ~Evaluate, ~\E intent \in VoiceIntents : VoiceTurn(intent)
  PROVE  rc'.status = rc.status /\ rc'.attempts = rc.attempts
<1>1. rc.status \in Unserviceable /\ rc.status \notin {"POLICY_APPROVED", "WAITING_OUTCOME"}
  BY DEF IInv, Sound, Case, StoredStatuses, Terminal, Evaluable, Unserviceable
<1>2. CASE SimulateAction \/ PaymentLinkRoute
  BY <1>1, <1>2 DEF SimulateAction, PaymentLinkRoute, PaymentLinkAllowed
<1>3. CASE VoiceSession
  BY <1>3 DEF VoiceSession, IInv, Sound, Case
<1>4. CASE ConfirmPlan
  BY <1>1, <1>4 DEF ConfirmPlan, ExecutePlanItem
<1>5. ASSUME NEW how \in DOMAIN HandledEvents, LinkCloses(how) \/ Webhook(how)
      PROVE  rc' = rc
  BY <1>1, <1>5 DEF LinkCloses, Webhook, ResolveRecoveryOutcome
<1>6. CASE UpdatePolicy \/ OptOutChanges \/ Tick \/ UNCHANGED vars
  BY <1>6 DEF UpdatePolicy, OptOutChanges, Tick, vars
<1> QED
  BY <1>2, <1>3, <1>4, <1>5, <1>6, UnderstoodType DEF Next

\* And what the pipelines move it to has been decided under the policy of the moment:
\* a turn may go on and execute what it has just approved.
LEMMA MovesAreDecided ==
  ASSUME IInv, [Next]_vars, rc.status \in Evaluable
  PROVE  \/ rc'.status = rc.status /\ rc'.attempts = rc.attempts
         \/ Decided(rc, rc', Env)
         \/ Allowed(rc, Env)
<1>1. rc \in Case /\ Env \in Environment
  BY EnvType, InvariantGivesType DEF IInv, Sound
<1>2. \A band \in PossibleBands : band \in Bands
  BY DEF PossibleBands, ScoreBands, Bands
<1>3. ASSUME NEW band \in PossibleBands, NEW voiceEnabled,
             LET y == RunEvaluationPipeline(rc, Env, reason, band, voiceEnabled)
             IN  rc' = y \/ Save(y)
      PROVE  rc' = rc \/ Decided(rc, rc', Env)
  BY <1>1, <1>2, <1>3, EvaluationDecides DEF Save
<1>4. CASE AutoPlan
  BY <1>3, <1>4 DEF AutoPlan
<1>5. CASE Evaluate
  BY <1>3, <1>5 DEF Evaluate
<1>6. ASSUME NEW intent \in VoiceIntents, VoiceTurn(intent)
      PROVE  rc' = rc \/ Decided(rc, rc', Env) \/ Allowed(rc, Env)
  <2> DEFINE d == TurnDecision(intent)
  <2>1. CASE intent = "UNCLEAR"
    BY <1>6, <2>1 DEF VoiceTurn
  <2>2. CASE intent # "UNCLEAR"
    <3>1. MapVoiceIntent(intent) \in ActionAllowlist
      BY <2>2 DEF MapVoiceIntent, VoiceIntents, ActionAllowlist, CustomerFacing
    <3>2. Decided(rc, d, Env)
      BY <1>1, <3>1, VoiceTurnDecides DEF TurnDecision
    <3>3. d.status = "POLICY_APPROVED" \/ Save(d)
      BY <1>6, <2>2 DEF VoiceTurn, TakesLivePath
    <3> HIDE DEF d
    <3> QED
      BY <3>2, <3>3 DEF Save, Decided
  <2> QED
    BY <2>1, <2>2
<1> QED
  BY <1>4, <1>5, <1>6, OnlyPipelinesMove

\* A failed case is only tried again through the pipeline: whatever adds an attempt
\* to it or moves it on found it allowed by the policy of that moment, or closed it.
THEOREM FailedCasesReenter == Spec => RetryReenters
<1>1. IInv /\ [Next]_vars =>
        [rc.status = "FAILED" /\ (rc'.status # "FAILED" \/ rc'.attempts # rc.attempts) =>
           \/ /\ ~optedOut
              /\ now <= rc.recoveryWindowExpiresAt
              /\ rc.amount <= policy.maxAutonomousAmount
              /\ rc.attempts < policy.maxRecoveryAttempts
           \/ /\ rc'.status \in {"STOPPED", "ESCALATED", "EXPIRED"}
              /\ rc'.attempts = rc.attempts]_vars
  <2> SUFFICES ASSUME IInv, [Next]_vars, rc.status = "FAILED",
                      rc'.status # "FAILED" \/ rc'.attempts # rc.attempts
               PROVE  \/ Allowed(rc, Env)
                      \/ /\ rc'.status \in {"STOPPED", "ESCALATED", "EXPIRED"}
                         /\ rc'.attempts = rc.attempts
    BY DEF Allowed, Env
  <2>1. rc.status \in Evaluable
    BY DEF Evaluable
  <2> QED
    BY <2>1, MovesAreDecided DEF Decided, Kept
<1> QED
  BY <1>1, InvariantHolds, PTL DEF Spec, RetryReenters

\* The eligibility engine escalates an amount above the ceiling, whatever the window
\* and the attempts say.
LEMMA HighValueEligibility ==
  ASSUME NEW x \in AnyCase, x.status = "ANALYZING", NEW env \in Environment,
         ~env.optedOut, x.amount > env.policy.maxAutonomousAmount
  PROVE  EvaluateEligibility(x, env).status = "ESCALATED"
<1>1. EvaluatePrecedence(x, env, None) = Verdict("ESCALATE", "HIGH_VALUE_REQUIRES_REVIEW")
  BY DEF EvaluatePrecedence, None
<1> DEFINE v == Verdict("ESCALATE", "HIGH_VALUE_REQUIRES_REVIEW")
           t == Transition(x, "ESCALATED")
<1>2. v.outcome = "ESCALATE" /\ v.reasonCode \in ReasonCodes
  BY DEF Verdict, ReasonCodes
<1> HIDE DEF v
<1>3. Resolve(x, v, "ELIGIBLE") = [t EXCEPT !.policyDecision = v.reasonCode]
  BY <1>2, OutcomeStatuses, Zenon DEF Resolve
<1>4. t \in AnyCase /\ t.status = "ESCALATED"
  <2>1. "ESCALATED" \in Statuses /\ "ESCALATED" \in AllowedTransitions[x.status]
    BY PipelineTransitions DEF Statuses, Terminal
  <2> QED
    BY <2>1, TransitionFields
<1> HIDE DEF t
<1>5. [t EXCEPT !.policyDecision = v.reasonCode].status = "ESCALATED"
  BY <1>4 DEF AnyCase
<1> QED
  BY <1>1, <1>3, <1>5 DEF EvaluateEligibility, v

LEMMA HighValueMoves ==
  ASSUME IInv, rc.status \in Evaluable, ~optedOut, rc.amount > policy.maxAutonomousAmount
  PROVE  /\ \A band, voiceEnabled :
              RunEvaluationPipeline(rc, Env, reason, band, voiceEnabled).status = "ESCALATED"
         /\ \A action : RunVoiceDecisionPipeline(rc, Env, reason, action).status = "ESCALATED"
<1> DEFINE r == Reenter(rc, reason)
           e == EvaluateEligibility(r, Env)
<1>1. rc \in Case /\ Env \in Environment
  BY EnvType, InvariantGivesType DEF IInv, Sound
<1>2. r \in AnyCase /\ r.status = "ANALYZING" /\ r.amount = rc.amount
  BY <1>1, ReenterFields DEF Kept
<1>3. Env.optedOut = optedOut /\ Env.policy = policy
  BY DEF Env
<1> HIDE DEF r
<1>4. e.status = "ESCALATED"
  BY <1>1, <1>2, <1>3, HighValueEligibility
<1>5. ASSUME NEW band, NEW voiceEnabled
      PROVE  RunEvaluationPipeline(rc, Env, reason, band, voiceEnabled) = e
  BY <1>4, Zenon DEF RunEvaluationPipeline, r
<1>6. ASSUME NEW action PROVE RunVoiceDecisionPipeline(rc, Env, reason, action) = e
  <2>1. e.status # "ELIGIBLE" /\ e.status # "ACTION_SELECTED"
    BY <1>4
  <2> QED
    BY <2>1, Zenon DEF RunVoiceDecisionPipeline, r
<1> QED
  BY <1>4, <1>5, <1>6

\* A pipeline that moves a case above the ceiling puts it in front of the merchant,
\* unless the customer has opted out; no window, limit or score hides it, and no intent
\* but a refusal could.
THEOREM HighValueIsEscalated == Spec => HighValueEscalates
<1>1. IInv /\ [Next]_vars =>
        [rc.status \in Evaluable /\ rc'.status # rc.status /\ ~optedOut /\ heard' # "REFUSE"
           /\ rc.amount > policy.maxAutonomousAmount => rc'.status = "ESCALATED"]_vars
  <2> SUFFICES ASSUME IInv, [Next]_vars, rc.status \in Evaluable, rc'.status # rc.status,
                      ~optedOut, rc.amount > policy.maxAutonomousAmount
               PROVE  rc'.status = "ESCALATED"
    OBVIOUS
  <2>1. CASE AutoPlan \/ Evaluate
    BY <2>1, HighValueMoves DEF AutoPlan, Evaluate, Save
  <2>2. ASSUME NEW intent \in VoiceIntents, VoiceTurn(intent) PROVE rc'.status = "ESCALATED"
    <3> DEFINE d == TurnDecision(intent)
    <3>1. d.status = "ESCALATED"
      BY HighValueMoves DEF TurnDecision
    <3>2. UNCHANGED rc \/ d.status = "POLICY_APPROVED" \/ Save(d)
      BY <2>2 DEF VoiceTurn, TakesLivePath
    <3> HIDE DEF d
    <3> QED
      BY <3>1, <3>2 DEF Save
  <2> QED
    BY <2>1, <2>2, OnlyPipelinesMove
<1> QED
  BY <1>1, InvariantHolds, PTL DEF Spec, HighValueEscalates
\* What a turn approves is the action the intent stands for.
LEMMA TurnApprovesIntent ==
  ASSUME NEW x \in Case, NEW env \in Environment, NEW why,
         NEW action \in ActionAllowlist, x.status \in Evaluable
  PROVE  LET y == RunVoiceDecisionPipeline(x, env, why, action)
         IN  y.status = "POLICY_APPROVED" => y.selectedIntervention = action
<1> DEFINE r == Reenter(x, why)
           e == EvaluateEligibility(r, env)
           s == Transition([e EXCEPT !.selectedIntervention = action], "ACTION_SELECTED")
           y == RunVoiceDecisionPipeline(x, env, why, action)
<1>1. r \in AnyCase /\ r.status = "ANALYZING"
  BY ReenterFields
<1>2. e \in AnyCase /\ e.status \in {"ELIGIBLE", "STOPPED", "ESCALATED", "EXPIRED"}
  BY <1>1, EligibilityFields
<1>3. CASE e.status # "ELIGIBLE"
  <2>1. e.status # "ACTION_SELECTED"
    BY <1>2
  <2>2. y = e
    BY <1>3, <2>1 DEF RunVoiceDecisionPipeline
  <2> QED
    BY <1>2, <2>2
<1>4. CASE e.status = "ELIGIBLE"
  <2>1. /\ "ACTION_SELECTED" \in Statuses
        /\ "ACTION_SELECTED" \in AllowedTransitions["ELIGIBLE"]
    BY PipelineTransitions DEF Statuses
  <2>2. s \in AnyCase /\ s.status = "ACTION_SELECTED" /\ s.selectedIntervention = action
    <3> DEFINE d == [e EXCEPT !.selectedIntervention = action]
    <3> HIDE DEF e
    <3>1. d \in AnyCase /\ d.status = "ELIGIBLE" /\ d.selectedIntervention = action
      BY <1>2, <1>4 DEF AnyCase
    <3> HIDE DEF d
    <3>2. LET t == Transition(d, "ACTION_SELECTED")
          IN  t \in AnyCase /\ t.status = "ACTION_SELECTED" /\ t.selectedIntervention = action
      BY <2>1, <3>1, TransitionFields
    <3> QED
      BY <3>2 DEF d
  <2>3. y = EvaluatePolicy(s, env, action)
    BY <1>4, <2>2 DEF RunVoiceDecisionPipeline
  <2> HIDE DEF y, s
  <2>4. y.selectedIntervention = s.selectedIntervention
    BY <2>2, <2>3, PolicyFields
  <2> QED
    BY <2>2, <2>4 DEF y
<1> QED
  BY <1>3, <1>4

\* Stopping and escalating spend no attempt.
LEMMA ClosingSpendsNothing ==
  ASSUME NEW x \in Case, NEW action \in {"STOP", "ESCALATE"},
         NEW live \in BOOLEAN, NEW success \in BOOLEAN
  PROVE  ExecuteAction(x, action, live, success).attempts = x.attempts
<1> DEFINE executed == Transition(x, "ACTION_EXECUTED")
           to == IF action = "STOP" THEN "STOPPED" ELSE "ESCALATED"
<1>1. "ACTION_EXECUTED" \in Statuses /\ to \in Statuses
  BY DEF Statuses, Terminal
<1>2. executed \in AnyCase /\ executed.attempts = x.attempts
  BY <1>1, StoredIsAnyCase, TransitionFields DEF Kept
<1>3. ExecuteAction(x, action, live, success) = Transition(executed, to)
  BY DEF ExecuteAction
<1> HIDE DEF executed, to
<1>4. Transition(executed, to).attempts = executed.attempts
  BY <1>1, <1>2, TransitionFields DEF Kept
<1> QED
  BY <1>2, <1>3, <1>4

\* A customer who declines is not read as willing to pay by the rules, and the turn
\* that hears it neither creates a link nor spends an attempt on a case that was not
\* approved before.
THEOREM DecliningCustomersAreHeard == Spec => DecliningWordsWin
<1>1. IInv /\ [Next]_vars =>
        [heard' \in DecliningIntents /\ rc.status \in Evaluable =>
           rc'.attempts = rc.attempts /\ linkStatus' = linkStatus]_vars
  <2> SUFFICES ASSUME IInv, Next, heard' \in DecliningIntents, rc.status \in Evaluable
               PROVE  rc'.attempts = rc.attempts /\ linkStatus' = linkStatus
    BY DEF vars
  <2>1. heard' \in {"REFUSE", "CANNOT_PAY", "PAY_LATER"} /\ heard' # None
    BY DecliningType DEF None
  <2>2. PICK intent \in UnderstoodIntents : VoiceTurn(intent)
    BY <2>1 DEF Next, AutoPlan, Evaluate, SimulateAction, PaymentLinkRoute, VoiceSession,
                ConfirmPlan, LinkCloses, Webhook, UpdatePolicy, OptOutChanges, Tick
  <2>3. intent \in {"REFUSE", "CANNOT_PAY", "PAY_LATER"}
    BY <2>1, <2>2 DEF VoiceTurn
  <2> DEFINE action == MapVoiceIntent(intent)
             d == TurnDecision(intent)
  <2>4. action \in {"STOP", "ESCALATE"} /\ action \in ActionAllowlist
    BY <2>3 DEF MapVoiceIntent, ActionAllowlist
  <2>5. rc \in Case /\ Env \in Environment
    BY EnvType, InvariantGivesType DEF IInv, Sound
  <2> HIDE DEF action
  <2>6. /\ d \in Case /\ d.attempts = rc.attempts /\ d.status # Thrown
        /\ d.status = "POLICY_APPROVED" => d.selectedIntervention = action
    BY <2>4, <2>5, VoiceTurnDecides, TurnApprovesIntent
    DEF TurnDecision, Decided, Kept, Thrown, action
  <2> HIDE DEF d
  <2>7. ~TakesLivePath(d)
    BY <2>4, <2>6 DEF TakesLivePath
  <2>8. linkStatus' = linkStatus
    BY <2>2, <2>3, <2>7 DEF VoiceTurn, d
  <2>9. \/ d.status = "POLICY_APPROVED"
           /\ \E success \in BOOLEAN :
                Save(ExecuteAction(d, d.selectedIntervention, FALSE, success))
        \/ Save(d)
    BY <2>2, <2>3, <2>7 DEF VoiceTurn, d
  <2>10. ASSUME NEW success \in BOOLEAN, d.status = "POLICY_APPROVED"
         PROVE  ExecuteAction(d, d.selectedIntervention, FALSE, success).attempts = rc.attempts
    <3>1. d \in Case /\ d.selectedIntervention \in {"STOP", "ESCALATE"}
      BY <2>4, <2>6, <2>10
    <3>2. \A a \in {"STOP", "ESCALATE"} : ExecuteAction(d, a, FALSE, success).attempts = d.attempts
      BY <3>1, ClosingSpendsNothing
    <3>3. ExecuteAction(d, d.selectedIntervention, FALSE, success).attempts = d.attempts
      BY <3>1, <3>2
    <3> QED
      BY <2>6, <3>3
  <2>11. rc'.attempts = rc.attempts
    BY <2>6, <2>9, <2>10 DEF Save
  <2> QED
    BY <2>8, <2>11
<1> QED
  BY <1>1, InvariantHolds, PTL DEF Spec, DecliningWordsWin

-----------------------------------------------------------------------------
(***************************************************************************)
(* What a case says about itself.  ReplyIsTrue and ConfirmRevalidates turn *)
(* on fields that are written in one step and read in another: the reason  *)
(* of the last decision, the root cause, the selected intervention.        *)
(***************************************************************************)
\* The reason on a stored case is one its status can have.
Explained(x) ==
  /\ x.status = "RISK_DETECTED" => x.policyDecision = None /\ x.selectedIntervention = None
  /\ x.status \in {"POLICY_APPROVED", "WAITING_OUTCOME", "RECOVERED", "FAILED"} =>
       x.policyDecision = "APPROVED"
  /\ x.status = "STOPPED" =>
       x.policyDecision \in {"APPROVED", "OPT_OUT_BEHAVIOR", "RETRY_LIMIT_REACHED",
                             "MAX_VOICE_ATTEMPTS_REACHED"}
  /\ x.status = "ESCALATED" => x.policyDecision \in {"APPROVED", "HIGH_VALUE_REQUIRES_REVIEW"}
  /\ x.status = "EXPIRED" => x.policyDecision = "RECOVERY_WINDOW_EXPIRED"
  /\ x.status = "WAITING_OUTCOME" => x.razorpayPaymentLinkId = LinkId

\* A case is approved to be closed for a cause that stays, or for a score that only
\* a customer who has been away for longer than any plan lives can have.
ClosingIsExplained ==
  rc.status = "POLICY_APPROVED" /\ rc.selectedIntervention = "STOP" =>
    rc.rootCause \in StopRootCauses \/ now > ActivityTTL

\* The plan waits to contact the customer only about a case with another cause.
ItemIsServiceable ==
  item.status = "PENDING" /\ item.intervention \in CustomerFacing =>
    item.expiresAt = PlanTTL /\ rc.rootCause \in RootCauses \ StopRootCauses

Account == Explained(rc) /\ ClosingIsExplained /\ ItemIsServiceable

\* A verdict and the status it leads to, each with its reasons.
GivesReason(v) ==
  \/ v.outcome = "APPROVE" /\ v.reasonCode = "APPROVED"
  \/ v.outcome = "STOP" /\ v.reasonCode \in {"OPT_OUT_BEHAVIOR", "RETRY_LIMIT_REACHED"}
  \/ v.outcome = "BLOCK" /\ v.reasonCode = "MAX_VOICE_ATTEMPTS_REACHED"
  \/ v.outcome = "ESCALATE" /\ v.reasonCode = "HIGH_VALUE_REQUIRES_REVIEW"
  \/ v.outcome = "EXPIRE" /\ v.reasonCode = "RECOVERY_WINDOW_EXPIRED"

Reasoned(y) ==
  \/ y.status \in {"ELIGIBLE", "POLICY_APPROVED"} /\ y.policyDecision = "APPROVED"
  \/ y.status = "STOPPED"
       /\ y.policyDecision \in {"OPT_OUT_BEHAVIOR", "RETRY_LIMIT_REACHED",
                                "MAX_VOICE_ATTEMPTS_REACHED"}
  \/ y.status = "ESCALATED" /\ y.policyDecision = "HIGH_VALUE_REQUIRES_REVIEW"
  \/ y.status = "EXPIRED" /\ y.policyDecision = "RECOVERY_WINDOW_EXPIRED"

LEMMA ReasonedIsExplained ==
  ASSUME NEW y, Reasoned(y)
  PROVE  Explained(y)
BY DEF Reasoned, Explained

LEMMA PrecedenceReasons ==
  ASSUME NEW x \in AnyCase, NEW env \in Environment, NEW action \in ActionAllowlist \cup {None}
  PROVE  GivesReason(EvaluatePrecedence(x, env, action))
BY DEF EvaluatePrecedence, Verdict, GivesReason

LEMMA TransitionKeepsReason ==
  ASSUME NEW x \in AnyCase, NEW to
  PROVE  Transition(x, to).policyDecision = x.policyDecision
BY DEF Transition, AnyCase

LEMMA ResolveReasons ==
  ASSUME NEW x \in AnyCase, NEW v \in Verdicts, GivesReason(v), NEW to,
         \/ x.status = "ANALYZING" /\ to = "ELIGIBLE"
         \/ x.status = "ACTION_SELECTED" /\ to = "POLICY_APPROVED"
  PROVE  Reasoned(Resolve(x, v, to))
<1> DEFINE st == CASE v.outcome = "APPROVE" -> to
                   [] v.outcome = "REJECT"  -> Thrown
                   [] OTHER                 -> OutcomeToStatus[v.outcome]
           tr == Transition(x, st)
<1>1. v.outcome \in {"APPROVE", "STOP", "ESCALATE", "EXPIRE", "BLOCK"}
  BY DEF Verdicts
<1>2. \/ st = to /\ v.outcome = "APPROVE"
      \/ st = OutcomeToStatus[v.outcome] /\ v.outcome \in {"STOP", "ESCALATE", "EXPIRE", "BLOCK"}
  <2>1. CASE v.outcome = "APPROVE"
    BY <2>1, Zenon
  <2>2. CASE v.outcome \in {"STOP", "ESCALATE", "EXPIRE", "BLOCK"}
    <3>1. v.outcome # "APPROVE" /\ v.outcome # "REJECT"
      BY <2>2
    <3> QED
      BY <2>2, <3>1, Zenon
  <2> QED
    BY <1>1, <2>1, <2>2
<1>3. Resolve(x, v, to) = [tr EXCEPT !.policyDecision = v.reasonCode]
  BY DEF Resolve
<1> HIDE DEF st
<1>4. \/ st = to /\ v.outcome = "APPROVE"
      \/ st = "STOPPED" /\ v.outcome \in {"STOP", "BLOCK"}
      \/ st = "ESCALATED" /\ v.outcome = "ESCALATE"
      \/ st = "EXPIRED" /\ v.outcome = "EXPIRE"
  BY <1>2, OutcomeStatuses
<1>5. st \in Statuses /\ st \in AllowedTransitions[x.status]
  BY <1>4, PipelineTransitions DEF Statuses, Terminal
<1>6. tr \in AnyCase /\ tr.status = st
  BY <1>5, TransitionFields
<1> HIDE DEF tr
<1> DEFINE y == Resolve(x, v, to)
<1>7. y.status = st /\ y.policyDecision = v.reasonCode
  BY <1>3, <1>6 DEF AnyCase
<1> HIDE DEF y
<1> QED
  BY <1>4, <1>7 DEF GivesReason, Reasoned, y

LEMMA EnginesReason ==
  ASSUME NEW x \in AnyCase, NEW env \in Environment
  PROVE  /\ x.status = "ANALYZING" => Reasoned(EvaluateEligibility(x, env))
         /\ \A action \in ActionAllowlist :
              x.status = "ACTION_SELECTED" => Reasoned(EvaluatePolicy(x, env, action))
<1>1. None \in ActionAllowlist \cup {None}
  OBVIOUS
<1>2. ASSUME x.status = "ANALYZING" PROVE Reasoned(EvaluateEligibility(x, env))
  <2>1. /\ EvaluatePrecedence(x, env, None) \in Verdicts
        /\ GivesReason(EvaluatePrecedence(x, env, None))
    BY <1>1, PrecedenceVerdict, PrecedenceReasons
  <2> QED
    BY <1>2, <2>1, ResolveReasons DEF EvaluateEligibility
<1>3. ASSUME NEW action \in ActionAllowlist, x.status = "ACTION_SELECTED"
      PROVE  Reasoned(EvaluatePolicy(x, env, action))
  <2>1. /\ EvaluatePrecedence(x, env, action) \in Verdicts
        /\ GivesReason(EvaluatePrecedence(x, env, action))
    BY PrecedenceVerdict, PrecedenceReasons
  <2> QED
    BY <1>3, <2>1, ResolveReasons DEF EvaluatePolicy
<1> QED
  BY <1>2, <1>3

\* A root cause is found once.
LEMMA CauseStays ==
  ASSUME NEW x \in Case, NEW why, x.status \in Evaluable, x.rootCause # None
  PROVE  Reenter(x, why).rootCause = x.rootCause
<1> DEFINE tr == Transition(x, "ANALYZING")
<1>1. x \in AnyCase /\ "ANALYZING" \in Statuses /\ x.status # "ANALYZING"
  BY StoredIsAnyCase DEF Case, StoredStatuses, Terminal, Statuses
<1>2. tr \in AnyCase /\ tr.rootCause = x.rootCause
  BY <1>1, TransitionFields
<1>3. Reenter(x, why) =
        [tr EXCEPT !.rootCause = IF tr.rootCause = None THEN AnalyzeRootCause(why)
                                 ELSE tr.rootCause]
  BY <1>1, Zenon DEF Reenter
<1> HIDE DEF tr
<1> QED
  BY <1>2, <1>3 DEF AnyCase

\* Why the selector stops, and what it never offers to the customer.
LEMMA SelectionIsExplained ==
  ASSUME NEW s, NEW voiceEnabled \in BOOLEAN
  PROVE  LET action == SelectIntervention(s, voiceEnabled)
         IN  /\ action = "STOP" => s.rootCause \in StopRootCauses \/ s.recoveryProbability = "LOW"
             /\ action \in CustomerFacing => s.rootCause \notin StopRootCauses
<1>1. CASE s.rootCause \in StopRootCauses \/ s.recoveryProbability = "LOW"
  BY <1>1 DEF SelectIntervention, CustomerFacing
<1>2. CASE ~(s.rootCause \in StopRootCauses \/ s.recoveryProbability = "LOW")
  BY <1>2 DEF SelectIntervention
<1> QED
  BY <1>1, <1>2

LEMMA EvaluationIsExplained ==
  ASSUME NEW x \in Case, NEW env \in Environment, NEW why, NEW band \in Bands,
         NEW voiceEnabled \in BOOLEAN, x.status \in Evaluable
  PROVE  LET y == RunEvaluationPipeline(x, env, why, band, voiceEnabled)
         IN  /\ Reasoned(y) /\ y.rootCause = Reenter(x, why).rootCause
             /\ y.status = "POLICY_APPROVED" =>
                  /\ y.selectedIntervention = "STOP" =>
                       y.rootCause \in StopRootCauses \/ band = "LOW"
                  /\ y.selectedIntervention \in CustomerFacing =>
                       y.rootCause \notin StopRootCauses
<1> DEFINE r == Reenter(x, why)
           e == EvaluateEligibility(r, env)
           s == [e EXCEPT !.recoveryProbability = band]
           action == SelectIntervention(s, voiceEnabled)
           y == RunEvaluationPipeline(x, env, why, band, voiceEnabled)
<1>1. r \in AnyCase /\ r.status = "ANALYZING"
  BY ReenterFields
<1>2. /\ e \in AnyCase /\ e.rootCause = r.rootCause /\ Reasoned(e)
      /\ e.status \in {"ELIGIBLE", "STOPPED", "ESCALATED", "EXPIRED"}
  BY <1>1, EligibilityFields, EnginesReason
<1>3. CASE e.status # "ELIGIBLE"
  <2>1. y = e
    BY <1>3 DEF RunEvaluationPipeline
  <2> QED
    BY <1>2, <1>3, <2>1
<1>4. CASE e.status = "ELIGIBLE"
  <2>1. action \in ActionAllowlist
    BY SelectedIsAllowed
  <2>2. /\ action = "STOP" => s.rootCause \in StopRootCauses \/ s.recoveryProbability = "LOW"
        /\ action \in CustomerFacing => s.rootCause \notin StopRootCauses
    BY SelectionIsExplained
  <2> DEFINE t == Transition(s, "ACTION_SELECTED")
             a == [t EXCEPT !.selectedIntervention = action]
  <2>3. y = EvaluatePolicy(a, env, action)
    BY <1>4 DEF RunEvaluationPipeline
  <2> HIDE DEF y, action, e, r
  <2>4. /\ s \in AnyCase /\ s.status = "ELIGIBLE" /\ s.rootCause = r.rootCause
        /\ s.recoveryProbability = band
    BY <1>2, <1>4 DEF AnyCase
  <2> HIDE DEF s
  <2>5. t \in AnyCase /\ t.status = "ACTION_SELECTED" /\ t.rootCause = r.rootCause
    BY <2>4, PipelineTransitions, TransitionFields DEF Statuses
  <2> HIDE DEF t
  <2>6. /\ a \in AnyCase /\ a.status = "ACTION_SELECTED" /\ a.rootCause = r.rootCause
        /\ a.selectedIntervention = action
    BY <2>1, <2>5 DEF AnyCase
  <2> HIDE DEF a
  <2>7. Reasoned(y) /\ y.rootCause = a.rootCause /\ y.selectedIntervention = action
    BY <2>1, <2>3, <2>6, PolicyFields, EnginesReason
  <2>8. y.rootCause = r.rootCause /\ s.rootCause = r.rootCause
    BY <2>4, <2>6, <2>7
  <2> QED
    BY <2>2, <2>4, <2>7, <2>8 DEF y, r
<1> QED
  BY <1>3, <1>4

LEMMA TurnIsExplained ==
  ASSUME NEW x \in Case, NEW env \in Environment, NEW why,
         NEW action \in ActionAllowlist, x.status \in Evaluable
  PROVE  LET y == RunVoiceDecisionPipeline(x, env, why, action)
         IN  Reasoned(y) /\ y.rootCause = Reenter(x, why).rootCause
<1> DEFINE r == Reenter(x, why)
           e == EvaluateEligibility(r, env)
           d == [e EXCEPT !.selectedIntervention = action]
           s == Transition(d, "ACTION_SELECTED")
           y == RunVoiceDecisionPipeline(x, env, why, action)
<1>1. r \in AnyCase /\ r.status = "ANALYZING"
  BY ReenterFields
<1>2. /\ e \in AnyCase /\ e.rootCause = r.rootCause /\ Reasoned(e)
      /\ e.status \in {"ELIGIBLE", "STOPPED", "ESCALATED", "EXPIRED"}
  BY <1>1, EligibilityFields, EnginesReason
<1>3. CASE e.status # "ELIGIBLE"
  <2>1. e.status # "ACTION_SELECTED"
    BY <1>2
  <2>2. y = e
    BY <1>3, <2>1 DEF RunVoiceDecisionPipeline
  <2> QED
    BY <1>2, <2>2
<1>4. CASE e.status = "ELIGIBLE"
  <2>1. y = IF s.status # "ACTION_SELECTED" THEN s ELSE EvaluatePolicy(s, env, action)
    BY <1>4 DEF RunVoiceDecisionPipeline
  <2> HIDE DEF y, e, r
  <2>2. d \in AnyCase /\ d.status = "ELIGIBLE" /\ d.rootCause = r.rootCause
    BY <1>2, <1>4 DEF AnyCase
  <2> HIDE DEF d
  <2>3. s \in AnyCase /\ s.status = "ACTION_SELECTED" /\ s.rootCause = r.rootCause
    BY <2>2, PipelineTransitions, TransitionFields DEF Statuses
  <2> HIDE DEF s
  <2>4. Reasoned(y) /\ y.rootCause = s.rootCause
    BY <2>1, <2>3, PolicyFields, EnginesReason
  <2> QED
    BY <2>3, <2>4 DEF y, r
<1> QED
  BY <1>3, <1>4

\* The executor keeps the reason it was approved for; without a live link it does not
\* leave the case waiting.
LEMMA ExecutionIsExplained ==
  ASSUME NEW x \in Case, x.status = "POLICY_APPROVED", x.policyDecision = "APPROVED",
         NEW action, NEW live \in BOOLEAN, NEW success \in BOOLEAN,
         ExecuteAction(x, action, live, success).status # Thrown
  PROVE  LET y == ExecuteAction(x, action, live, success)
         IN  /\ y.policyDecision = "APPROVED" /\ y.rootCause = x.rootCause
             /\ y.status \in {"STOPPED", "ESCALATED", "WAITING_OUTCOME", "RECOVERED", "FAILED"}
             /\ y.status = "WAITING_OUTCOME" => live
<1> DEFINE Goes(a, b, to) == /\ b \in AnyCase /\ b.status = to
                             /\ b.policyDecision = a.policyDecision /\ b.rootCause = a.rootCause
           executed == Transition(x, "ACTION_EXECUTED")
           w == Transition(executed, "WAITING_OUTCOME")
           waiting == [w EXCEPT !.attempts = @ + 1]
           y == ExecuteAction(x, action, live, success)
<1>1. ASSUME NEW a \in AnyCase, NEW to \in Statuses, to \in AllowedTransitions[a.status]
      PROVE  Goes(a, Transition(a, to), to)
  BY <1>1, TransitionFields, TransitionKeepsReason
<1>2. Goes(x, executed, "ACTION_EXECUTED")
  BY <1>1, StoredIsAnyCase, PipelineTransitions DEF Statuses
<1> HIDE DEF executed
<1>3. Goes(executed, w, "WAITING_OUTCOME")
  BY <1>1, <1>2, PipelineTransitions DEF Statuses
<1> HIDE DEF w
<1>4. Goes(x, waiting, "WAITING_OUTCOME")
  BY <1>2, <1>3 DEF AnyCase
<1>5. \/ y.status = Thrown
      \/ \E to \in {"STOPPED", "ESCALATED"} : y = Transition(executed, to)
      \/ y = waiting /\ live
      \/ y = SetRecovered(waiting)
      \/ y = Transition(waiting, "FAILED")
  <2>1. CASE action \in {"STOP", "ESCALATE"}
    BY <2>1 DEF ExecuteAction, executed
  <2>2. CASE action = "CREATE_PAYMENT_LINK"
    BY <2>2 DEF ExecuteAction, executed, w
  <2>3. CASE action \notin {"STOP", "ESCALATE", "CREATE_PAYMENT_LINK"}
    <3>1. y = [executed EXCEPT !.status = Thrown]
      BY <2>3, Zenon DEF ExecuteAction, executed
    <3> QED
      BY <1>2, <3>1 DEF AnyCase
  <2> QED
    BY <2>1, <2>2, <2>3
<1> HIDE DEF waiting, y
<1>6. ASSUME NEW to \in {"STOPPED", "ESCALATED"}, y = Transition(executed, to)
      PROVE  Goes(executed, y, to)
  BY <1>1, <1>2, <1>6, PipelineTransitions DEF Statuses, Terminal
<1>7. ASSUME NEW to \in {"RECOVERED", "FAILED"}
      PROVE  Goes(waiting, Transition(waiting, to), to)
  BY <1>1, <1>4, PipelineTransitions DEF Statuses, Terminal
<1>8. CASE y = SetRecovered(waiting)
  <2> DEFINE t == Transition(waiting, "RECOVERED")
  <2>1. Goes(waiting, t, "RECOVERED") /\ y = [t EXCEPT !.recoveredAmount = waiting.amount]
    BY <1>7, <1>8 DEF SetRecovered
  <2> HIDE DEF t
  <2>2. /\ y.status = "RECOVERED" /\ y.policyDecision = t.policyDecision
        /\ y.rootCause = t.rootCause
    BY <2>1 DEF AnyCase
  <2> QED
    BY <1>4, <2>1, <2>2 DEF y
<1>9. y.status # Thrown
  BY DEF y
<1> QED
  BY <1>2, <1>4, <1>5, <1>6, <1>7, <1>8, <1>9 DEF y

\* So does the webhook's resolution.
LEMMA OutcomeIsExplained ==
  ASSUME NEW x \in Case, x.status = "WAITING_OUTCOME", NEW outcome \in {"RECOVERED", "FAILED"}
  PROVE  LET y == ResolveRecoveryOutcome(x, outcome)
         IN  /\ y.policyDecision = x.policyDecision /\ y.rootCause = x.rootCause
             /\ y.status = outcome
<1> DEFINE t == Transition(x, outcome)
           y == ResolveRecoveryOutcome(x, outcome)
<1>1. x \in AnyCase /\ outcome \in Statuses /\ outcome \in AllowedTransitions[x.status]
  BY StoredIsAnyCase, PipelineTransitions DEF Statuses, Terminal
<1>2. /\ t \in AnyCase /\ t.status = outcome /\ t.rootCause = x.rootCause
      /\ t.policyDecision = x.policyDecision
  BY <1>1, TransitionFields, TransitionKeepsReason
<1>3. y = IF outcome = "RECOVERED" THEN [t EXCEPT !.recoveredAmount = x.amount] ELSE t
  BY DEF ResolveRecoveryOutcome, SetRecovered
<1> HIDE DEF t, y
<1> QED
  BY <1>2, <1>3 DEF AnyCase, y

\* What a step makes of the case: it stays explained, keeps the cause it had, and is
\* approved to be closed only as it was before or for one of the two reasons.
Tells(x, y) ==
  /\ Explained(y)
  /\ x.rootCause # None => y.rootCause = x.rootCause
  /\ y.status = "POLICY_APPROVED" /\ y.selectedIntervention = "STOP" =>
       \/ x.status = "POLICY_APPROVED" /\ x.selectedIntervention = "STOP"
       \/ y.rootCause \in StopRootCauses
       \/ now > ActivityTTL

\* A case whose told fields are the same tells the same.
LEMMA SameTells ==
  ASSUME NEW x, NEW y, Explained(x),
         y.status = x.status, y.policyDecision = x.policyDecision,
         y.selectedIntervention = x.selectedIntervention, y.rootCause = x.rootCause,
         y.razorpayPaymentLinkId = x.razorpayPaymentLinkId
  PROVE  Tells(x, y)
BY DEF Tells, Explained

LEMMA CallTells ==
  ASSUME IInv, Account, rc' = [rc EXCEPT !.voiceAttempts = @ + 1]
  PROVE  Tells(rc, rc')
<1>1. /\ rc'.status = rc.status /\ rc'.policyDecision = rc.policyDecision
      /\ rc'.selectedIntervention = rc.selectedIntervention /\ rc'.rootCause = rc.rootCause
      /\ rc'.razorpayPaymentLinkId = rc.razorpayPaymentLinkId
  BY DEF IInv, Sound, Case
<1> QED
  BY <1>1, SameTells DEF Account

\* The lowest band is only open to a customer who is no longer active.
LEMMA LowIsInactive ==
  ASSUME IInv, "LOW" \in PossibleBands
  PROVE  now > ActivityTTL
<1>1. now \in Nat /\ ActivityTTL \in Nat
  BY CaseAssumption DEF IInv, Rest
<1>2. \A cause : "LOW" \notin ScoreBands(cause, TRUE)
  BY DEF ScoreBands
<1>3. FALSE \in CustomerActivity
  BY <1>2 DEF PossibleBands, CustomerActivity
<1>4. ASSUME now <= ActivityTTL PROVE FALSE
  <2>1. CustomerActivity = {TRUE}
    BY <1>4, Zenon DEF CustomerActivity
  <2> QED
    BY <1>3, <2>1, Zenon
<1> QED
  BY <1>1, <1>4

LEMMA PipelineTells ==
  ASSUME IInv, Account, NEW band \in PossibleBands, NEW voiceEnabled \in BOOLEAN
  PROVE  LET y == RunEvaluationPipeline(rc, Env, reason, band, voiceEnabled)
         IN  /\ Tells(rc, y)
             /\ rc.status \in Evaluable =>
                  /\ y.rootCause \in RootCauses
                  /\ y.status = "POLICY_APPROVED" /\ y.selectedIntervention \in CustomerFacing =>
                       y.rootCause \notin StopRootCauses
<1> DEFINE y == RunEvaluationPipeline(rc, Env, reason, band, voiceEnabled)
<1>1. rc \in Case /\ Env \in Environment
  BY EnvType, InvariantGivesType DEF IInv, Sound
<1>2. CASE rc.status \in Evaluable
  <2>1. band \in Bands
    BY DEF PossibleBands, ScoreBands, Bands
  <2>2. /\ Reasoned(y) /\ y.rootCause = Reenter(rc, reason).rootCause
        /\ y.status = "POLICY_APPROVED" =>
             /\ y.selectedIntervention = "STOP" => y.rootCause \in StopRootCauses \/ band = "LOW"
             /\ y.selectedIntervention \in CustomerFacing => y.rootCause \notin StopRootCauses
    BY <1>1, <1>2, <2>1, EvaluationIsExplained
  <2>3. /\ Reenter(rc, reason).rootCause \in RootCauses
        /\ rc.rootCause # None => Reenter(rc, reason).rootCause = rc.rootCause
    BY <1>1, <1>2, ReenterFields, CauseStays
  <2>4. band = "LOW" => now > ActivityTTL
    BY LowIsInactive
  <2> HIDE DEF y
  <2>5. Tells(rc, y)
    BY <2>2, <2>3, <2>4, ReasonedIsExplained DEF Tells
  <2> QED
    BY <2>2, <2>3, <2>5 DEF y
<1>3. CASE rc.status \notin Evaluable
  <2>1. y = rc
    BY <1>1, <1>3, PipelinesLeaveRest
  <2> QED
    BY <1>3, <2>1, SameTells DEF Account
<1> QED
  BY <1>2, <1>3

\* A simulated execution and its save, of the stored case or of one just decided.
LEMMA ExecutedTells ==
  ASSUME IInv, Account, NEW d \in Case, d.status = "POLICY_APPROVED",
         d.policyDecision = "APPROVED", rc.rootCause # None => d.rootCause = rc.rootCause,
         NEW action, NEW success \in BOOLEAN,
         Save(ExecuteAction(d, action, FALSE, success))
  PROVE  Tells(rc, rc')
<1> DEFINE y == ExecuteAction(d, action, FALSE, success)
<1>1. CASE y.status = Thrown
  <2>1. rc' = rc
    BY <1>1 DEF Save
  <2> QED
    BY <2>1, SameTells DEF Account
<1>2. CASE y.status # Thrown
  <2>1. rc' = y
    BY <1>2 DEF Save
  <2>2. /\ y.policyDecision = "APPROVED" /\ y.rootCause = d.rootCause
        /\ y.status \in {"STOPPED", "ESCALATED", "RECOVERED", "FAILED"}
    <3>1. FALSE \in BOOLEAN
      OBVIOUS
    <3>2. /\ y.policyDecision = "APPROVED" /\ y.rootCause = d.rootCause
          /\ y.status \in {"STOPPED", "ESCALATED", "WAITING_OUTCOME", "RECOVERED", "FAILED"}
          /\ y.status = "WAITING_OUTCOME" => FALSE
      <4> HIDE DEF y
      <4>1. y.status # Thrown
        BY <1>2
      <4> QED
        BY <3>1, <4>1, ExecutionIsExplained DEF y
    <3> QED
      BY <3>2
  <2> HIDE DEF y
  <2> QED
    BY <2>1, <2>2 DEF Tells, Explained
<1> QED
  BY <1>1, <1>2

\* createLivePaymentLink and the caller's save.
LEMMA LinkTells ==
  ASSUME IInv, Account, NEW d, Sound(d), d.status = "POLICY_APPROVED", Tells(rc, d),
         NEW ok \in BOOLEAN, CreateLivePaymentLink(d, ok)
  PROVE  Tells(rc, rc')
<1>1. CASE Claimable(d) /\ ok
  <2> DEFINE l == [d EXCEPT !.razorpayPaymentLinkId = LinkId]
             y == ExecuteAction(l, "CREATE_PAYMENT_LINK", TRUE, FALSE)
  <2>1. rc' = y
    BY <1>1 DEF CreateLivePaymentLink, LinkSaved
  <2>2. /\ l \in Case /\ l.status = "POLICY_APPROVED" /\ l.policyDecision = d.policyDecision
        /\ l.rootCause = d.rootCause /\ l.razorpayPaymentLinkId = LinkId /\ Sound(l)
    BY DEF Sound, Case
  <2>3. d.policyDecision = "APPROVED"
    BY DEF Tells, Explained
  <2> HIDE DEF l
  <2>4. y.status = "WAITING_OUTCOME"
    BY <2>2, LiveLinkWaits
  <2>5. y.status # Thrown
    BY <2>4 DEF Thrown
  <2>6. y.policyDecision = "APPROVED" /\ y.rootCause = l.rootCause
    BY <2>2, <2>3, <2>5, ExecutionIsExplained
  <2>7. y.razorpayPaymentLinkId = LinkId
    BY <2>2, <2>5, ExecutionIsSound
  <2> HIDE DEF y
  <2> QED
    BY <2>1, <2>2, <2>4, <2>6, <2>7 DEF Tells, Explained
<1>2. CASE ~(Claimable(d) /\ ok)
  BY <1>2 DEF CreateLivePaymentLink
<1> QED
  BY <1>1, <1>2

\* A case that is re-validated and not approved is closed for the reason found.
LEMMA RevalidationTells ==
  ASSUME IInv, Account, rc.status = "POLICY_APPROVED", Recheck.outcome # "APPROVE",
         Save(Revalidate(Recheck))
  PROVE  Tells(rc, rc')
<1> DEFINE to == OutcomeToStatus[Recheck.outcome]
           t == Transition(rc, to)
           y == Revalidate(Recheck)
<1>1. rc \in AnyCase /\ Env \in Environment
  BY StoredIsAnyCase, EnvType, InvariantGivesType DEF IInv, Sound
<1>2. Recheck \in Verdicts /\ GivesReason(Recheck)
  <2>1. rc.selectedIntervention \in ActionAllowlist \cup {None}
    BY <1>1 DEF AnyCase
  <2> QED
    BY <1>1, <2>1, PrecedenceVerdict, PrecedenceReasons DEF Recheck
<1>3. \/ to = "STOPPED" /\ Recheck.outcome \in {"STOP", "BLOCK"}
      \/ to = "ESCALATED" /\ Recheck.outcome = "ESCALATE"
      \/ to = "EXPIRED" /\ Recheck.outcome = "EXPIRE"
  BY <1>2, OutcomeStatuses DEF Verdicts
<1>4. y = [t EXCEPT !.policyDecision = Recheck.reasonCode]
  BY DEF Revalidate
<1> HIDE DEF to
<1>5. to \in Statuses /\ to \in AllowedTransitions[rc.status]
  BY <1>3, PipelineTransitions DEF Statuses, Terminal
<1>6. t \in AnyCase /\ t.status = to /\ t.rootCause = rc.rootCause
  BY <1>1, <1>5, TransitionFields
<1> HIDE DEF t, y
<1>7. y.status = to /\ y.policyDecision = Recheck.reasonCode /\ y.rootCause = rc.rootCause
  BY <1>4, <1>6 DEF AnyCase
<1>8. rc' = y
  BY <1>3, <1>7 DEF Save, Thrown, y
<1> QED
  BY <1>2, <1>3, <1>7, <1>8 DEF GivesReason, Tells, Explained

LEMMA TurnTells ==
  ASSUME IInv, Account, NEW intent \in VoiceIntents, VoiceTurn(intent)
  PROVE  Tells(rc, rc')
<1> DEFINE d == TurnDecision(intent)
<1>1. CASE intent = "UNCLEAR"
  <2>1. rc' = rc
    BY <1>1 DEF VoiceTurn
  <2> QED
    BY <2>1, SameTells DEF Account
<1>2. CASE intent # "UNCLEAR"
  <2>1. Sound(d) /\ d.status # Thrown /\ (rc.status \notin Evaluable => d = rc)
    BY <1>2, TurnStep
  <2>2. \/ TakesLivePath(d) /\ \E ok \in BOOLEAN : CreateLivePaymentLink(d, ok)
        \/ /\ d.status = "POLICY_APPROVED"
           /\ \E success \in BOOLEAN :
                Save(ExecuteAction(d, d.selectedIntervention, FALSE, success))
        \/ d.status # "POLICY_APPROVED" /\ Save(d)
    BY <1>2 DEF VoiceTurn
  <2>3. /\ Explained(d)
        /\ rc.rootCause # None => d.rootCause = rc.rootCause
        /\ d.status = "POLICY_APPROVED" =>
             \/ d = rc
             \/ d.selectedIntervention = MapVoiceIntent(intent)
    <3>1. CASE rc.status \in Evaluable
      <4>1. MapVoiceIntent(intent) \in ActionAllowlist
        BY <1>2 DEF MapVoiceIntent, VoiceIntents, ActionAllowlist, CustomerFacing
      <4>2. rc \in Case /\ Env \in Environment
        BY EnvType, InvariantGivesType DEF IInv, Sound
      <4>3. /\ Reasoned(d) /\ d.rootCause = Reenter(rc, reason).rootCause
            /\ d.status = "POLICY_APPROVED" => d.selectedIntervention = MapVoiceIntent(intent)
        BY <3>1, <4>1, <4>2, TurnIsExplained, TurnApprovesIntent DEF TurnDecision
      <4>4. rc.rootCause # None => Reenter(rc, reason).rootCause = rc.rootCause
        BY <3>1, <4>2, CauseStays
      <4> HIDE DEF d
      <4> QED
        BY <4>3, <4>4, ReasonedIsExplained
    <3>2. CASE rc.status \notin Evaluable
      BY <2>1, <3>2 DEF Account
    <3> QED
      BY <3>1, <3>2
  <2> HIDE DEF d
  <2>4. CASE TakesLivePath(d) /\ \E ok \in BOOLEAN : CreateLivePaymentLink(d, ok)
    <3>1. d.status = "POLICY_APPROVED" /\ d.selectedIntervention = "CREATE_PAYMENT_LINK"
      BY <2>4 DEF TakesLivePath
    <3>2. Tells(rc, d)
      BY <2>3, <3>1 DEF Tells
    <3> QED
      BY <2>1, <2>4, <3>1, <3>2, LinkTells
  <2>5. ASSUME NEW success \in BOOLEAN, d.status = "POLICY_APPROVED",
               Save(ExecuteAction(d, d.selectedIntervention, FALSE, success))
        PROVE  Tells(rc, rc')
    <3>1. d \in Case /\ d.policyDecision = "APPROVED"
      BY <2>1, <2>3, <2>5 DEF Sound, Explained
    <3> QED
      BY <2>3, <2>5, <3>1, ExecutedTells
  <2>6. CASE d.status # "POLICY_APPROVED" /\ Save(d)
    BY <2>1, <2>3, <2>6 DEF Save, Tells
  <2> QED
    BY <2>2, <2>4, <2>5, <2>6
<1> QED
  BY <1>1, <1>2

LEMMA ConfirmationTells ==
  ASSUME IInv, Account, ConfirmPlan
  PROVE  Tells(rc, rc')
<1>1. rc \in Case /\ Sound(rc) /\ Tells(rc, rc)
  BY SameTells DEF IInv, Sound, Account
<1>2. CASE rc' = rc
  BY <1>1, <1>2
<1>3. CASE rc.status = "POLICY_APPROVED" /\ Recheck.outcome # "APPROVE" /\ Save(Revalidate(Recheck))
  BY <1>3, RevalidationTells
<1>4. CASE rc.status = "POLICY_APPROVED" /\ ExecutePaymentLinkItem
  <2>1. ASSUME NEW ok \in BOOLEAN, CreateLivePaymentLink(rc, ok)
        PROVE  Tells(rc, rc')
    BY <1>1, <1>4, <2>1, LinkTells
  <2>2. ASSUME NEW success \in BOOLEAN,
               Save(ExecuteAction(rc, "CREATE_PAYMENT_LINK", FALSE, success))
        PROVE  Tells(rc, rc')
    <3>1. rc.policyDecision = "APPROVED"
      BY <1>4 DEF Account, Explained
    <3> QED
      BY <1>1, <1>4, <2>2, <3>1, ExecutedTells
  <2> QED
    BY <1>4, <2>1, <2>2 DEF ExecutePaymentLinkItem
<1>5. CASE ExecuteVoiceItem
  BY <1>5, CallTells DEF ExecuteVoiceItem
<1> QED
  BY <1>2, <1>3, <1>4, <1>5 DEF ConfirmPlan, ExecutePlanItem

LEMMA WebhookTells ==
  ASSUME IInv, Account, NEW event \in DOMAIN HandledEvents, Webhook(event)
  PROVE  Tells(rc, rc')
<1> DEFINE y == ResolveRecoveryOutcome(rc, HandledEvents[event])
<1>1. Tells(rc, rc)
  BY SameTells DEF Account
<1>2. rc' = rc \/ rc' = y
  BY DEF Webhook
<1>3. CASE rc.status # "WAITING_OUTCOME"
  <2>1. y = rc
    BY <1>3 DEF ResolveRecoveryOutcome
  <2> QED
    BY <1>1, <1>2, <2>1
<1>4. CASE rc.status = "WAITING_OUTCOME"
  <2>1. HandledEvents[event] \in {"RECOVERED", "FAILED"}
    BY EventOutcomes, EventNames
  <2>2. /\ y.policyDecision = rc.policyDecision /\ y.rootCause = rc.rootCause
        /\ y.status \in {"RECOVERED", "FAILED"}
    BY <1>4, <2>1, OutcomeIsExplained DEF IInv, Sound
  <2>3. rc.policyDecision = "APPROVED"
    BY <1>4 DEF Account, Explained
  <2> HIDE DEF y
  <2>4. Tells(rc, y)
    BY <2>2, <2>3 DEF Tells, Explained
  <2> QED
    BY <1>1, <1>2, <2>4
<1> QED
  BY <1>3, <1>4

LEMMA StepTells ==
  ASSUME IInv, Account, [Next]_vars
  PROVE  Tells(rc, rc')
<1>1. Tells(rc, rc) /\ rc \in Case /\ (rc.status = "POLICY_APPROVED" => rc.policyDecision = "APPROVED")
  BY SameTells DEF IInv, Sound, Account, Explained
<1>2. policy.voiceEnabled \in BOOLEAN /\ FALSE \in BOOLEAN
  <2>1. policy \in Policy
    BY CaseAssumption DEF IInv, Rest
  <2>2. FALSE \in BOOLEAN
    OBVIOUS
  <2> QED
    BY <2>1, <2>2 DEF Policy
<1>3. CASE AutoPlan
  <2>1. PICK band \in PossibleBands :
          rc' = RunEvaluationPipeline(rc, Env, reason, band, policy.voiceEnabled)
    BY <1>3 DEF AutoPlan
  <2> QED
    BY <1>2, <2>1, PipelineTells
<1>4. CASE Evaluate
  <2>1. PICK band \in PossibleBands : Save(RunEvaluationPipeline(rc, Env, reason, band, FALSE))
    BY <1>4 DEF Evaluate
  <2>2. Tells(rc, RunEvaluationPipeline(rc, Env, reason, band, FALSE))
    BY <1>2, PipelineTells
  <2> QED
    BY <1>1, <2>1, <2>2 DEF Save
<1>5. CASE SimulateAction
  BY <1>1, <1>5, ExecutedTells DEF SimulateAction
<1>6. CASE PaymentLinkRoute
  BY <1>1, <1>6, LinkTells DEF PaymentLinkRoute, PaymentLinkAllowed, IInv
<1>7. CASE VoiceSession
  BY <1>7, CallTells DEF VoiceSession
<1>8. ASSUME NEW how \in DOMAIN HandledEvents, LinkCloses(how)
      PROVE  Tells(rc, rc')
  BY <1>1, <1>8 DEF LinkCloses
<1>9. CASE UpdatePolicy \/ OptOutChanges \/ Tick \/ UNCHANGED vars
  BY <1>1, <1>9 DEF UpdatePolicy, OptOutChanges, Tick, vars
<1> QED
  BY <1>3, <1>4, <1>5, <1>6, <1>7, <1>8, <1>9, TurnTells, ConfirmationTells, WebhookTells,
     UnderstoodType DEF Next

\* A new item is about the case as the planner left it.
LEMMA AutoPlanAccount ==
  ASSUME IInv, Account, AutoPlan
  PROVE  ItemIsServiceable'
<1>1. PICK band \in PossibleBands :
        LET after == RunEvaluationPipeline(rc, Env, reason, band, policy.voiceEnabled)
        IN  rc' = after /\ item' = BuildPlanItemFields(after)
  BY DEF AutoPlan
<1>2. rc.status \in Evaluable /\ now = 0 /\ policy.voiceEnabled \in BOOLEAN
  BY CaseAssumption DEF AutoPlan, Evaluable, IInv, Rest, Policy
<1>3. /\ rc'.rootCause \in RootCauses
      /\ rc'.status = "POLICY_APPROVED" /\ rc'.selectedIntervention \in CustomerFacing =>
           rc'.rootCause \notin StopRootCauses
  BY <1>1, <1>2, PipelineTells
<1>4. item' = BuildPlanItemFields(rc')
  BY <1>1
<1>5. item'.intervention \in CustomerFacing =>
        rc'.status = "POLICY_APPROVED" /\ item'.intervention = rc'.selectedIntervention
  <2>1. CASE rc'.status = "POLICY_APPROVED"
    BY <1>4, <2>1 DEF BuildPlanItemFields
  <2>2. CASE rc'.status # "POLICY_APPROVED"
    BY <1>4, <2>2 DEF BuildPlanItemFields, CustomerFacing
  <2> QED
    BY <2>1, <2>2
<1>6. item'.expiresAt = PlanTTL
  BY <1>2, <1>4, CaseAssumption DEF BuildPlanItemFields
<1> QED
  BY <1>3, <1>5, <1>6 DEF ItemIsServiceable

\* Nothing but the planner writes an item that waits, and a confirmation ends its wait.
LEMMA WaitingItems ==
  ASSUME IInv, [Next]_vars, ~AutoPlan, item'.status = "PENDING"
  PROVE  item' = item
<1>1. CASE ConfirmPlan
  <2>1. PICK s \in ItemStatuses \ {"PENDING"} : CloseItem(s)
    BY <1>1 DEF ConfirmPlan, ExecutePlanItem, ExecutePaymentLinkItem, ExecuteVoiceItem,
       ItemForResolvedCase, ItemStatuses
  <2>2. item'.status = s
    BY <2>1 DEF CloseItem, IInv, Rest
  <2> QED
    BY <2>1, <2>2
<1>2. CASE UNCHANGED vars
  BY <1>2 DEF vars
<1> QED
  BY <1>1, <1>2 DEF Next, Evaluate, SimulateAction, PaymentLinkRoute, VoiceSession, VoiceTurn,
     LinkCloses, Webhook, UpdatePolicy, OptOutChanges, Tick

LEMMA TimePasses ==
  ASSUME IInv, [Next]_vars
  PROVE  now' \in Nat /\ now <= now'
<1>1. now \in Nat
  BY DEF IInv, Rest
<1>2. now' = now \/ now' = now + 1
  BY DEF Next, vars, AutoPlan, Evaluate, SimulateAction, PaymentLinkRoute, VoiceSession,
     VoiceTurn, ConfirmPlan, LinkCloses, Webhook, UpdatePolicy, OptOutChanges, Tick, environment
<1> QED
  BY <1>1, <1>2

LEMMA AccountStep == IInv /\ Account /\ [Next]_vars => Account'
<1> SUFFICES ASSUME IInv, Account, [Next]_vars PROVE Account'
  OBVIOUS
<1>1. Tells(rc, rc')
  BY StepTells
<1>2. Explained(rc)'
  BY <1>1 DEF Tells, Explained
<1>3. ClosingIsExplained'
  <2> SUFFICES ASSUME rc'.status = "POLICY_APPROVED", rc'.selectedIntervention = "STOP"
               PROVE  rc'.rootCause \in StopRootCauses \/ now' > ActivityTTL
    BY DEF ClosingIsExplained
  <2>1. now > ActivityTTL => now' > ActivityTTL
    BY TimePasses, CaseAssumption DEF IInv, Rest
  <2>2. CASE rc.status = "POLICY_APPROVED" /\ rc.selectedIntervention = "STOP"
    <3>1. rc.rootCause \in StopRootCauses => rc'.rootCause = rc.rootCause
      BY <1>1 DEF Tells, StopRootCauses, None
    <3> QED
      BY <2>1, <2>2, <3>1 DEF Account, ClosingIsExplained
  <2> QED
    BY <1>1, <2>1, <2>2 DEF Tells
<1>4. ItemIsServiceable'
  <2>1. CASE AutoPlan
    BY <2>1, AutoPlanAccount
  <2>2. CASE ~AutoPlan
    <3> SUFFICES ASSUME item'.status = "PENDING", item'.intervention \in CustomerFacing
                 PROVE  item'.expiresAt = PlanTTL /\ rc'.rootCause \in RootCauses \ StopRootCauses
      BY DEF ItemIsServiceable
    <3>1. item' = item
      BY <2>2, WaitingItems
    <3>2. item.expiresAt = PlanTTL /\ rc.rootCause \in RootCauses \ StopRootCauses
      BY <3>1 DEF Account, ItemIsServiceable
    <3>3. rc'.rootCause = rc.rootCause
      BY <1>1, <3>2 DEF Tells, RootCauses, None
    <3> QED
      BY <3>1, <3>2, <3>3
  <2> QED
    BY <2>1, <2>2
<1> QED
  BY <1>2, <1>3, <1>4 DEF Account

LEMMA AccountHolds == Spec => [](IInv /\ Account)
<1>1. Init => Account
  <2> SUFFICES ASSUME Init PROVE Account
    OBVIOUS
  <2>1. PICK a \in Amounts, w \in WindowEnds : rc = DetectedCase(a, w)
    BY DEF Init
  <2>2. Explained(rc) /\ rc.status # "POLICY_APPROVED"
    BY <2>1 DEF DetectedCase, Explained
  <2>3. item.status # "PENDING"
    BY DEF Init, NoItem, None
  <2> QED
    BY <2>2, <2>3 DEF Account, ClosingIsExplained, ItemIsServiceable
<1> QED
  BY <1>1, InvariantHolds, AccountStep, PTL DEF Spec

\* What the reply tells the customer is what has become of the case, over any number of
\* retries, revalidations, policy changes and webhooks, and a link it announces is there.
THEOREM RepliesAreTrue == Spec => []ReplyIsTrue
<1>1. IInv /\ Account => ReplyIsTrue
  <2> SUFFICES ASSUME IInv, Account PROVE ReplyIsTrue
    OBVIOUS
  <2>1. Explained(rc) /\ rc.status \in StoredStatuses
    BY DEF IInv, Sound, Case, Account
  <2>2. DOMAIN FALLBACKS_BY_REASON = {"HIGH_VALUE_REQUIRES_REVIEW", "OPT_OUT_BEHAVIOR",
                                      "RETRY_LIMIT_REACHED", "RECOVERY_WINDOW_EXPIRED"}
    BY DEF FALLBACKS_BY_REASON
  <2>3. CASE rc.policyDecision \in DOMAIN FALLBACKS_BY_REASON
    <3>1. FALLBACKS_BY_REASON[rc.policyDecision] = rc.status /\ rc.status # "WAITING_OUTCOME"
      BY <2>1, <2>2, <2>3 DEF Explained, StoredStatuses, Terminal, FALLBACKS_BY_REASON, None
    <3> QED
      BY <2>3, <3>1 DEF ReplyIsTrue, FallbackResponse
  <2>4. CASE rc.policyDecision \notin DOMAIN FALLBACKS_BY_REASON
    <3>1. rc.status # "EXPIRED"
      BY <2>1, <2>2, <2>4 DEF Explained
    <3>2. CASE rc.status \in FALLBACKS_BY_STATUS
      BY <2>1, <2>4, <3>2 DEF ReplyIsTrue, FallbackResponse, Explained
    <3>3. CASE rc.status \notin FALLBACKS_BY_STATUS
      <4>1. rc.selectedIntervention = None
        BY <2>1, <3>1, <3>3 DEF Explained, StoredStatuses, Terminal, FALLBACKS_BY_STATUS
      <4>2. FallbackResponse(rc) = Clarification
        BY <2>4, <3>3, <4>1 DEF FallbackResponse, None
      <4> QED
        BY <4>2 DEF ReplyIsTrue, Clarification
    <3> QED
      BY <3>2, <3>3
  <2> QED
    BY <2>3, <2>4
<1> QED
  BY <1>1, AccountHolds, PTL

\* A confirmation executes only what the policy, the customer and the window of that
\* moment still allow.  The re-check approves a case that was selected to be closed
\* without looking at any of them; that such a case waits on a plan to be acted on is
\* what the lifetime of a plan excludes.
THEOREM ConfirmationsRevalidate == Spec => ConfirmRevalidates
<1>1. IInv /\ Account /\ [Next]_vars =>
        [item.status = "PENDING" /\ item'.status = "EXECUTED" /\ rc.status = "POLICY_APPROVED" =>
           /\ ~optedOut
           /\ now <= rc.recoveryWindowExpiresAt
           /\ rc.amount <= policy.maxAutonomousAmount
           /\ rc.attempts < policy.maxRecoveryAttempts]_vars
  <2> SUFFICES ASSUME IInv, Account, [Next]_vars, item.status = "PENDING",
                      item'.status = "EXECUTED", rc.status = "POLICY_APPROVED"
               PROVE  Allowed(rc, Env)
    BY DEF Allowed, Env
  <2>1. ConfirmPlan
    <3>1. item' # item
      OBVIOUS
    <3>2. item # NoItem
      BY DEF NoItem, None
    <3> QED
      BY <3>1, <3>2 DEF Next, vars, AutoPlan, Evaluate, SimulateAction, PaymentLinkRoute,
         VoiceSession, VoiceTurn, LinkCloses, Webhook, UpdatePolicy, OptOutChanges, Tick
  <2>2. now <= item.expiresAt /\ item.intervention \in CustomerFacing /\ Recheck.outcome = "APPROVE"
    <3>1. ASSUME NEW s, s # "EXECUTED" PROVE ~CloseItem(s)
      BY <3>1 DEF CloseItem, IInv, Rest
    <3>2. ~CloseItem("REMOVED") /\ ~CloseItem("ESCALATED") /\ ~CloseItem("SKIPPED")
      BY <3>1
    <3> QED
      BY <2>1, <3>2 DEF ConfirmPlan, ExecutePlanItem, CustomerFacing, ItemForResolvedCase
  <2>3. rc.selectedIntervention # "STOP"
    <3>1. item.expiresAt = PlanTTL /\ rc.rootCause \notin StopRootCauses
      BY <2>2 DEF Account, ItemIsServiceable
    <3>2. ~(now > ActivityTTL)
      BY <2>2, <3>1, CaseAssumption, PlanLifetime DEF IInv, Rest
    <3> QED
      BY <3>1, <3>2 DEF Account, ClosingIsExplained
  <2>4. /\ rc \in AnyCase /\ Env \in Environment
        /\ rc.selectedIntervention \in ActionAllowlist \cup {None}
    BY StoredIsAnyCase, EnvType, InvariantGivesType DEF IInv, Sound, Case
  <2> QED
    BY <2>2, <2>3, <2>4, PrecedenceVerdict DEF Recheck
<1> QED
  BY <1>1, AccountHolds, PTL DEF Spec, ConfirmRevalidates
=============================================================================
