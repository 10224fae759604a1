-------------------------- MODULE BatchEvaluation --------------------------
(***************************************************************************)
(* The batch evaluation: a synthetic case of every archetype is built      *)
(* under the merchant's policy, run through the production pipeline and    *)
(* the simulated executor (module RecoveryPolicy), and counted.  What the  *)
(* seeded generator draws is a choice.  An ordinary amount is 1, ages are  *)
(* in hours, the score is one of the bands the pipeline may find.  The     *)
(* cases that a larger batch adds are drawn from the same archetypes.      *)
(*                                                                         *)
(* The page that starts a batch shows the latest stored run when it is     *)
(* opened, and its own run when that is answered.                          *)
(***************************************************************************)
EXTENDS RecoveryPolicy, Sequences

CONSTANTS
  EvaluationPolicies,   \* the policies the merchant may have
  MaxRuns               \* bound on the stored runs

ASSUME EvaluationAssumption ==
  /\ EvaluationPolicies \subseteq
       [maxAutonomousAmount : Nat, maxRecoveryAttempts : Nat,
        maxVoiceAttempts : Nat, recoveryWindowHours : Nat]
  /\ EvaluationPolicies # {} /\ MaxRuns \in Nat \ {0}

VARIABLES
  evaluationPolicy,  \* merchant.policy
  runs,              \* how many runs are stored
  nextCase,          \* the index of the batch's next case, 0 when no batch runs
  metrics,           \* what the batch has counted so far
  running,           \* whether the page waits for a run
  loading,           \* the page's read of the latest run
  shownRun           \* the run the page shows, 0 for none

evaluationVars ==
  <<evaluationPolicy, runs, nextCase, metrics, running, loading, shownRun>>

evaluationPage == <<running, loading, shownRun>>

Ends == {"RECOVERED", "FAILED", "STOPPED", "ESCALATED", "EXPIRED"}

(***************************************************************************)
(* The dataset: the cases an archetype may produce, of any age between 0   *)
(* and oldest, where only the ends matter.                                 *)
(***************************************************************************)
Synthetic(rootCause, reasons, oldest, active) ==
  [amount : {1}, rootCause : {rootCause}, reason : reasons, optedOut : {FALSE},
   attempts : {0}, age : {0, oldest}, active : active]

RETRYABLE_REASONS == {"insufficient_funds", "gateway_error"}

ARCHETYPES(policy) ==
  LET retryable(oldest) == Synthetic(None, RETRYABLE_REASONS, oldest, {FALSE})
  IN  <<retryable(4),
        Synthetic(None, RETRYABLE_REASONS, 6, {TRUE}),
        Synthetic(None, {"card_declined"}, 8, {FALSE}),
        Synthetic(None, {"customer_cancelled"}, 5, {FALSE}),
        Synthetic(None, {"card_expired"}, 6, {TRUE}),
        Synthetic("CHECKOUT_ABANDONMENT", {None}, 10, {TRUE}),
        {[s EXCEPT !.amount = policy.maxAutonomousAmount + 1] : s \in retryable(4)},
        {[s EXCEPT !.optedOut = TRUE] : s \in retryable(4)},
        {[s EXCEPT !.age = policy.recoveryWindowHours + 1] : s \in retryable(0)},
        {[s EXCEPT !.attempts = policy.maxRecoveryAttempts] : s \in retryable(6)},
        {s \in Synthetic(None, {None}, 40, {FALSE}) : s.age = 40}>>

BuildRecoveryCaseInput(s, policy) ==
  [status |-> "RISK_DETECTED", rootCause |-> s.rootCause, recoveryProbability |-> None,
   selectedIntervention |-> None, policyDecision |-> None, attempts |-> s.attempts,
   voiceAttempts |-> 0, amount |-> s.amount, recoveredAmount |-> 0,
   recoveryWindowExpiresAt |-> policy.recoveryWindowHours]

EvaluateSynthetic(rc, env, reason, band) == RunEvaluationPipeline(rc, env, reason, band, FALSE)

Fare(s, policy, band, success) ==
  LET env     == [policy |-> policy, optedOut |-> s.optedOut, now |-> s.age]
      decided == EvaluateSynthetic(BuildRecoveryCaseInput(s, policy), env, s.reason, band)
  IN  IF decided.status = "POLICY_APPROVED"
      THEN ExecuteAction(decided, decided.selectedIntervention, FALSE, success)
      ELSE decided

NoMetrics == [ends |-> [e \in Ends |-> 0], eligibleRevenue |-> 0, recoveredRevenue |-> 0,
              policyViolations |-> 0]

CountsAsEligibleUndecided(rc) == rc.status = "ELIGIBLE"

\* A case that was scored.
CountsAsEligible(rc) == rc.recoveryProbability # None

AggregateMetrics(m, rc) ==
  [m EXCEPT !.ends = [e \in Ends |-> IF rc.status = e THEN @[e] + 1 ELSE @[e]],
            !.eligibleRevenue = IF CountsAsEligible(rc) THEN @ + rc.amount ELSE @,
            !.recoveredRevenue = IF rc.status = "RECOVERED" THEN @ + rc.recoveredAmount ELSE @,
            !.policyViolations = IF rc.status = "ACTION_EXECUTED" THEN @ + 1 ELSE @]

\* The page has asked for the stored runs, knows the latest, or has shown it.
Loading(stage, latest) == [stage |-> stage, latest |-> latest]

EvaluationTypeOK ==
  /\ evaluationPolicy \in EvaluationPolicies
  /\ runs \in 0 .. MaxRuns /\ nextCase \in 0 .. 12
  /\ metrics.ends \in [Ends -> Nat]
  /\ metrics.eligibleRevenue \in Nat /\ metrics.recoveredRevenue \in Nat
  /\ running \in BOOLEAN
  /\ loading \in [stage : {"asked", "listed", "done"}, latest : 0 .. MaxRuns]
  /\ shownRun \in 0 .. MaxRuns

EvaluationInit ==
  /\ evaluationPolicy \in EvaluationPolicies
  /\ runs \in {0, 1}
  /\ nextCase = 0 /\ metrics = NoMetrics
  /\ running = FALSE /\ loading = Loading("asked", 0) /\ shownRun = 0
-----------------------------------------------------------------------------
HandleRun ==
  /\ ~running /\ nextCase = 0 /\ runs < MaxRuns
  /\ running' = TRUE
  /\ nextCase' = 1 /\ metrics' = NoMetrics
  /\ UNCHANGED <<evaluationPolicy, runs, loading, shownRun>>

PossibleBandsOf(s) ==
  ScoreBands(IF s.rootCause = None THEN AnalyzeRootCause(s.reason) ELSE s.rootCause, s.active)

EvaluateNextCase ==
  /\ nextCase \in 1 .. 11
  /\ \E s \in ARCHETYPES(evaluationPolicy)[nextCase], success \in BOOLEAN :
       \E band \in PossibleBandsOf(s) :
         metrics' = AggregateMetrics(metrics, Fare(s, evaluationPolicy, band, success))
  /\ nextCase' = nextCase + 1
  /\ UNCHANGED <<evaluationPolicy, runs, evaluationPage>>

\* The run is stored; its metrics are read no more.
StoreRun ==
  /\ nextCase = 12
  /\ nextCase' = 0 /\ runs' = runs + 1
  /\ metrics' = NoMetrics
  /\ UNCHANGED <<evaluationPolicy, evaluationPage>>

\* The answer, or an error: the page was not told, or the batch had failed.
RunAnswered ==
  /\ running /\ nextCase = 0
  /\ running' = FALSE
  /\ shownRun' \in {shownRun, runs}
  /\ UNCHANGED <<evaluationPolicy, runs, nextCase, metrics, loading>>

\* listEvaluationRuns, then getEvaluationRun of the latest.
ListRuns ==
  /\ loading.stage = "asked"
  /\ loading' = IF runs = 0 THEN Loading("done", 0) ELSE Loading("listed", runs)
  /\ UNCHANGED <<evaluationPolicy, runs, nextCase, metrics, running, shownRun>>

ShowLatest ==
  /\ loading.stage = "listed"
  /\ shownRun' = loading.latest /\ loading' = Loading("done", 0)
  /\ UNCHANGED <<evaluationPolicy, runs, nextCase, metrics, running>>

LoadFailed ==
  /\ loading.stage # "done" /\ loading' = Loading("done", 0)
  /\ UNCHANGED <<evaluationPolicy, runs, nextCase, metrics, running, shownRun>>

EvaluationNext ==
  \/ HandleRun \/ EvaluateNextCase \/ StoreRun \/ RunAnswered
  \/ ListRuns \/ ShowLatest \/ LoadFailed
-----------------------------------------------------------------------------
\* The numbers of a run add up: every case ended in exactly one of the five ends that
\* are counted, none was executed without approval, and no more revenue was recovered
\* than was eligible, so that the recovery rate is one.
MetricsAddUp ==
  /\ nextCase > 0 =>
       metrics.ends["RECOVERED"] + metrics.ends["FAILED"] + metrics.ends["STOPPED"]
         + metrics.ends["ESCALATED"] + metrics.ends["EXPIRED"] = nextCase - 1
  /\ metrics.policyViolations = 0
  /\ metrics.recoveredRevenue <= metrics.eligibleRevenue
=============================================================================
