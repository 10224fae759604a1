--------------------------- MODULE RecoveryScore ---------------------------
(***************************************************************************)
(* The recovery score (pipeline/scoringEngine.js) over the life of a case. *)
(* It is computed anew whenever the case is evaluated or retried, from     *)
(* what has become of its customer by then: here the case grows old, is    *)
(* attempted, the customer fails to pay again, and the score follows.      *)
(* In which status that happens is for CaseLifecycle to say: here they     *)
(* come in any order, which only adds scores.                              *)
(*                                                                         *)
(* The score is a sum of six weighted factors, three of them fractions.    *)
(* It is kept exact, in parts of 2000 over their common denominator; the   *)
(* program adds doubles, so a sum that is exactly a threshold may come out *)
(* on either side of it.                                                   *)
(***************************************************************************)
EXTENDS RecoveryPolicy, Integers

CONSTANTS
  Hour,          \* what the clock counts in an hour
  Delay,         \* how old its payment may be when the case is created
  Windows,       \* the recovery windows the merchant may set, in hours
  PaidBefore,    \* how many payments the customer may have made (only the seed stores paid ones)
  Waits,         \* how long nothing may happen
  MaxAge,        \* bounds on the age of the case,
  MaxFailures,   \* on the customer's failed payments,
  MaxCases,      \* on the customer's other cases that are resolved
  MaxAttempts    \* and on the attempts

ASSUME ScoreAssumption ==
  /\ Hour \in Nat \ {0}
  \* a failed payment becomes a case in the request that reports it
  /\ Delay \in Nat /\ Delay <= 24 * Hour
  \* the bounds of policyUpdateSchema
  /\ Windows \subseteq 1 .. 2160
  /\ PaidBefore \subseteq Nat /\ Waits \subseteq Nat

VARIABLES
  rootCause, attempts, age,  \* the case
  payments,                  \* the customer's, and how long ago the last one was created
  priorCases,                \* the customer's cases in a status of RESOLVED_CASE_STATUSES
  recoveryWindowHours        \* the merchant's policy

scoreVars == <<rootCause, attempts, age, payments, priorCases, recoveryWindowHours>>

ScoreInit ==
  /\ rootCause \in RootCauses /\ attempts = 0 /\ age = 0
  /\ \E n \in PaidBefore, d \in 0 .. Delay :
       payments = [paid |-> n, failed |-> 1, quiet |-> d]
  /\ priorCases = [resolved |-> 0, recovered |-> 0]
  /\ recoveryWindowHours \in Windows

Wait(d) ==
  /\ age + d <= MaxAge
  /\ age' = age + d /\ payments' = [payments EXCEPT !.quiet = @ + d]
  /\ UNCHANGED <<rootCause, attempts, priorCases, recoveryWindowHours>>

\* The executor carries out the intervention once more.
Attempt ==
  /\ attempts < MaxAttempts
  /\ attempts' = attempts + 1
  /\ UNCHANGED <<rootCause, age, payments, priorCases, recoveryWindowHours>>

\* Another payment of the customer is reported as failed.
FailToPay ==
  /\ payments.failed < MaxFailures
  /\ payments' = [payments EXCEPT !.failed = @ + 1, !.quiet = 0]
  /\ UNCHANGED <<rootCause, attempts, age, priorCases, recoveryWindowHours>>

\* Another case of the customer comes to its end.
ResolveOther(status) ==
  /\ priorCases.resolved < MaxCases
  /\ priorCases' = [resolved  |-> priorCases.resolved + 1,
                    recovered |-> priorCases.recovered + (IF status = "RECOVERED" THEN 1 ELSE 0)]
  /\ UNCHANGED <<rootCause, attempts, age, payments, recoveryWindowHours>>

\* The merchant changes the policy.
SetWindow ==
  /\ recoveryWindowHours' \in Windows
  /\ UNCHANGED <<rootCause, attempts, age, payments, priorCases>>

ScoreNext ==
  \/ \E d \in Waits : Wait(d)
  \/ Attempt \/ FailToPay
  \/ \E status \in Terminal : ResolveOther(status)
  \/ SetWindow

ScoreSpec == ScoreInit /\ [][ScoreNext]_scoreVars
-----------------------------------------------------------------------------
(***************************************************************************)
(* The factors.                                                            *)
(***************************************************************************)
Fraction(num, den) == [num |-> num, den |-> den]

NonNegative(n) == IF n < 0 THEN 0 ELSE n

\* In tenths.
ROOT_CAUSE_FACTOR ==
  [RETRYABLE_PAYMENT_FAILURE |-> 10, CUSTOMER_PAYMENT_METHOD_ISSUE |-> 6,
   NON_RETRYABLE_PAYMENT_FAILURE |-> 1, CUSTOMER_DECLINED |-> 1, UNKNOWN |-> 3]

SuccessRatio == Fraction(payments.paid, payments.paid + payments.failed + 1)

RecencySpan == Hour * (IF recoveryWindowHours > 7 THEN recoveryWindowHours - 6 ELSE 1)

RecencyLeft == RecencySpan - NonNegative(age - 6 * Hour)

RecencyFactorUnbounded == Fraction(RecencyLeft, RecencySpan)

RecencyFactorInverted == Fraction(RecencySpan - NonNegative(RecencyLeft), RecencySpan)

RecencyFactor == Fraction(NonNegative(RecencyLeft), RecencySpan)

ActiveCustomer == payments.quiet <= 30 * 24 * Hour

PriorRecoveryFactor ==
  IF priorCases.resolved = 0 THEN Fraction(1, 2)
  ELSE Fraction(priorCases.recovered, priorCases.resolved)

\* The three terms that are no fractions: cause, activity and the penalty of attempts.
WholeTerms ==
  40 * ROOT_CAUSE_FACTOR[rootCause] + (IF ActiveCustomer THEN 300 ELSE 90)
    + NonNegative(200 - 60 * attempts)

Denominator == SuccessRatio.den * RecencyFactor.den * PriorRecoveryFactor.den

RecoveryScore ==
    600 * SuccessRatio.num * (RecencyFactor.den * PriorRecoveryFactor.den)
  + 300 * RecencyFactor.num * (SuccessRatio.den * PriorRecoveryFactor.den)
  + 200 * PriorRecoveryFactor.num * (SuccessRatio.den * RecencyFactor.den)
  + WholeTerms * Denominator

\* The thresholds of interventionSelector.js, 0.75 and 0.15.
ScoredBands ==
       (IF RecoveryScore >= 1500 * Denominator THEN {"HIGH"} ELSE {})
  \cup (IF RecoveryScore <= 300 * Denominator THEN {"LOW"} ELSE {})
  \cup (IF RecoveryScore \in 300 * Denominator .. 1500 * Denominator THEN {"MID"} ELSE {})
-----------------------------------------------------------------------------
ScoreTypeOK ==
  /\ rootCause \in RootCauses /\ attempts \in Nat /\ age \in Nat
  /\ payments \in [paid : Nat, failed : Nat \ {0}, quiet : Nat]
  /\ priorCases \in [resolved : Nat, recovered : Nat]
  /\ priorCases.recovered <= priorCases.resolved
  /\ recoveryWindowHours \in 1 .. 2160

\* scoringEngine.js with interventionSelector.js: whatever became of the customer, the
\* windows and the case, an active customer or a promising cause is never given up as
\* LOW, and without either the case is never HIGH.  The margin is narrow: it is there
\* because a customer whose payment became the case cannot have been inactive for
\* longer than the case is old, which costs the case its recency.
ScoreBandIsPossible == ScoredBands \subseteq ScoreBands(rootCause, ActiveCustomer)

\* Waiting and failed attempts never make a case more promising: while the customer's
\* failed payments and other cases and the merchant's window stay, the score only falls.
ScoreOnlyFalls ==
  [][UNCHANGED <<payments.failed, priorCases, recoveryWindowHours>>
       => RecoveryScore' <= RecoveryScore]_scoreVars
=============================================================================
