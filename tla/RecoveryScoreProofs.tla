------------------------ MODULE RecoveryScoreProofs ------------------------
(***************************************************************************)
(* The bands that RecoveryPolicy allows a cause and an activity are the    *)
(* ones the weights allow, for any customer, window, attempts and clock.   *)
(***************************************************************************)
EXTENDS RecoveryScore, TLAPS

\* The payment of the case is one of the customer's, so that the customer cannot have
\* been quiet for longer than the case is old, and the little by which it is older.
QuietSinceTheCase == payments.quiet <= age + Delay

ScoreInv == ScoreTypeOK /\ QuietSinceTheCase

LEMMA ScoreInitHolds == ScoreInit => ScoreInv
BY ScoreAssumption DEF ScoreInit, ScoreInv, ScoreTypeOK, QuietSinceTheCase

Payments == [paid : Nat, failed : Nat \ {0}, quiet : Nat]

LEMMA PaymentsGrow ==
  ASSUME NEW p \in Payments, NEW n \in Nat \ {0}
  PROVE  /\ [p EXCEPT !.failed = n, !.quiet = 0] \in Payments
         /\ [p EXCEPT !.failed = n, !.quiet = 0].quiet = 0
BY DEF Payments

\* A payment ends the quiet, also one that fails.
LEMMA FailureEndsTheQuiet ==
  ASSUME ScoreInv, FailToPay
  PROVE  payments' \in Payments /\ payments'.quiet = 0
<1>1. payments \in Payments
  BY DEF ScoreInv, ScoreTypeOK, Payments
<1> DEFINE n == payments.failed + 1
<1>2. n \in Nat \ {0} /\ payments' = [payments EXCEPT !.failed = n, !.quiet = 0]
  BY <1>1 DEF FailToPay, Payments
<1> HIDE DEF n
<1> QED BY <1>1, <1>2, PaymentsGrow

LEMMA ScoreNextKeeps == ScoreInv /\ [ScoreNext]_scoreVars => ScoreInv'
<1> SUFFICES ASSUME ScoreInv, [ScoreNext]_scoreVars PROVE ScoreInv'
  OBVIOUS
<1>1. ASSUME NEW d \in Waits, Wait(d) PROVE ScoreInv'
  BY <1>1, ScoreAssumption DEF Wait, ScoreInv, ScoreTypeOK, QuietSinceTheCase
<1>2. CASE Attempt
  BY <1>2 DEF Attempt, ScoreInv, ScoreTypeOK, QuietSinceTheCase
<1>3. CASE FailToPay
  <2>1. payments' \in Payments /\ payments'.quiet = 0
    BY <1>3, FailureEndsTheQuiet
  <2>2. UNCHANGED <<rootCause, attempts, age, priorCases, recoveryWindowHours>>
    BY <1>3 DEF FailToPay
  <2> QED BY <2>1, <2>2, ScoreAssumption DEF Payments, ScoreInv, ScoreTypeOK, QuietSinceTheCase
<1>4. ASSUME NEW status \in Terminal, ResolveOther(status) PROVE ScoreInv'
  BY <1>4 DEF ResolveOther, ScoreInv, ScoreTypeOK, QuietSinceTheCase
<1>5. CASE SetWindow
  BY <1>5, ScoreAssumption DEF SetWindow, ScoreInv, ScoreTypeOK, QuietSinceTheCase
<1>6. CASE UNCHANGED scoreVars
  BY <1>6 DEF scoreVars, ScoreInv, ScoreTypeOK, QuietSinceTheCase
<1> QED BY <1>1, <1>2, <1>3, <1>4, <1>5, <1>6 DEF ScoreNext

LEMMA AlwaysScoreInv == ScoreSpec => []ScoreInv
BY ScoreInitHolds, ScoreNextKeeps, PTL DEF ScoreSpec
\* Type correctness, for any windows, waits, clock and bounds.
THEOREM ScoreTypeCorrect == ScoreSpec => []ScoreTypeOK
BY AlwaysScoreInv, PTL DEF ScoreInv
-----------------------------------------------------------------------------
(***************************************************************************)
(* Fractions.                                                              *)
(***************************************************************************)
\* A proper fraction, over a common denominator.
LEMMA Product == ASSUME NEW a \in Nat, NEW b \in Nat PROVE a * b \in Nat
OBVIOUS

LEMMA PositiveProduct ==
  ASSUME NEW a \in Nat \ {0}, NEW b \in Nat \ {0} PROVE a * b \in Nat \ {0}
OBVIOUS

LEMMA LargerProduct ==
  ASSUME NEW a \in Nat, NEW b \in Nat, NEW k \in Nat, a <= b PROVE a * k <= b * k
OBVIOUS

LEMMA FactorsAreFractions ==
  ASSUME ScoreInv
  PROVE  /\ SuccessRatio.num \in Nat /\ SuccessRatio.den \in Nat \ {0}
         /\ SuccessRatio.num <= SuccessRatio.den
         /\ RecencyFactor.num \in Nat /\ RecencyFactor.den \in Nat \ {0}
         /\ RecencyFactor.num <= RecencyFactor.den
         /\ PriorRecoveryFactor.num \in Nat /\ PriorRecoveryFactor.den \in Nat \ {0}
         /\ PriorRecoveryFactor.num <= PriorRecoveryFactor.den
<1> USE ScoreAssumption DEF ScoreInv, ScoreTypeOK, Fraction
<1>1. /\ SuccessRatio.num \in Nat /\ SuccessRatio.den \in Nat \ {0}
      /\ SuccessRatio.num <= SuccessRatio.den
  BY DEF SuccessRatio
<1>2. RecencySpan \in Nat \ {0}
  BY PositiveProduct DEF RecencySpan
<1>3. RecencyLeft \in Int /\ RecencyLeft <= RecencySpan
  BY <1>2 DEF RecencyLeft, NonNegative
<1>4. /\ RecencyFactor.num \in Nat /\ RecencyFactor.den \in Nat \ {0}
      /\ RecencyFactor.num <= RecencyFactor.den
  BY <1>2, <1>3 DEF RecencyFactor, NonNegative
<1>5. /\ PriorRecoveryFactor.num \in Nat /\ PriorRecoveryFactor.den \in Nat \ {0}
      /\ PriorRecoveryFactor.num <= PriorRecoveryFactor.den
  BY DEF PriorRecoveryFactor
<1> QED BY <1>1, <1>4, <1>5

LEMMA WholeTermsAreWhole ==
  ASSUME ScoreInv
  PROVE  /\ WholeTerms \in Nat
         /\ WholeTerms <= 40 * ROOT_CAUSE_FACTOR[rootCause] + (IF ActiveCustomer THEN 300 ELSE 90) + 200
         /\ WholeTerms >= 40 * ROOT_CAUSE_FACTOR[rootCause] + (IF ActiveCustomer THEN 300 ELSE 90)
<1>1. ROOT_CAUSE_FACTOR[rootCause] \in Nat
  BY DEF ScoreInv, ScoreTypeOK, RootCauses, ROOT_CAUSE_FACTOR
<1>2. NonNegative(200 - 60 * attempts) \in 0 .. 200
  BY DEF ScoreInv, ScoreTypeOK, NonNegative
<1> QED BY <1>1, <1>2 DEF WholeTerms
-----------------------------------------------------------------------------
(***************************************************************************)
(* The two ends of the scale.                                              *)
(***************************************************************************)
\* Over the common denominator a fraction is worth its weight at most.
LEMMA WeightedSum ==
  ASSUME NEW s \in Nat, NEW S \in Nat \ {0}, s < S,
         NEW r \in Nat, NEW R \in Nat \ {0}, NEW w \in Nat, 300 * r <= w * R,
         NEW p \in Nat, NEW P \in Nat \ {0}, p <= P,
         NEW k \in Nat
  PROVE  LET D   == S * R * P
             sum == 600 * s * (R * P) + 300 * r * (S * P) + 200 * p * (S * R) + k * D
         IN  /\ D \in Nat \ {0} /\ sum \in Nat
             /\ sum >= k * D
             /\ sum < (600 + w + 200 + k) * D
<1> DEFINE D == S * R * P
           x == s * (R * P)
           y == (300 * r) * (S * P)
           z == p * (S * R)
<1>1. /\ R * P \in Nat \ {0} /\ S * P \in Nat \ {0} /\ S * R \in Nat \ {0}
  BY PositiveProduct
<1>2. D \in Nat \ {0} /\ D = S * (R * P)
  BY <1>1, PositiveProduct
<1>3. x \in Nat /\ x < D
  <2>1. \A q \in Nat \ {0} : s * q \in Nat /\ s * q < S * q
    OBVIOUS
  <2> QED BY <1>1, <1>2, <2>1
<1>4. y \in Nat /\ y <= w * D
  <2>1. w * R \in Nat /\ 300 * r \in Nat
    BY Product
  <2>2. y <= (w * R) * (S * P) /\ y \in Nat
    BY <1>1, <2>1, LargerProduct, Product
  <2>3. (w * R) * (S * P) = w * D
    OBVIOUS
  <2> QED BY <2>2, <2>3
<1>5. z \in Nat /\ z <= D
  <2>1. z <= P * (S * R) /\ z \in Nat
    BY <1>1, LargerProduct, Product
  <2>2. P * (S * R) = D
    OBVIOUS
  <2> QED BY <2>1, <2>2
<1>6. /\ 600 * s * (R * P) = 600 * x
      /\ 300 * r * (S * P) = y
      /\ 200 * p * (S * R) = 200 * z
  OBVIOUS
<1>7. k * D \in Nat /\ w * D \in Nat /\ (600 + w + 200 + k) * D = 600 * D + w * D + 200 * D + k * D
  <2>1. \A q \in Nat : k * q \in Nat /\ w * q \in Nat
                       /\ (600 + w + 200 + k) * q = 600 * q + w * q + 200 * q + k * q
    OBVIOUS
  <2> QED BY <1>2, <2>1
<1> HIDE DEF D, x, y, z
<1>8. LET sum == 600 * x + y + 200 * z + k * D
      IN  sum \in Nat /\ sum >= k * D /\ sum < 600 * D + w * D + 200 * D + k * D
  BY <1>2, <1>3, <1>4, <1>5, <1>7
<1> QED BY <1>2, <1>6, <1>7, <1>8 DEF D

LEMMA ScoreIsBounded ==
  ASSUME ScoreInv, NEW w \in Nat, 300 * RecencyFactor.num <= w * RecencyFactor.den
  PROVE  /\ Denominator \in Nat \ {0} /\ RecoveryScore \in Nat
         /\ RecoveryScore >= WholeTerms * Denominator
         /\ RecoveryScore < (600 + w + 200 + WholeTerms) * Denominator
<1>1. SuccessRatio.num < SuccessRatio.den
  BY DEF SuccessRatio, Fraction, ScoreInv, ScoreTypeOK
<1> DEFINE s == SuccessRatio.num
           S == SuccessRatio.den
           r == RecencyFactor.num
           R == RecencyFactor.den
           p == PriorRecoveryFactor.num
           P == PriorRecoveryFactor.den
           k == WholeTerms
<1>2. /\ s \in Nat /\ S \in Nat \ {0} /\ s < S
      /\ r \in Nat /\ R \in Nat \ {0} /\ 300 * r <= w * R
      /\ p \in Nat /\ P \in Nat \ {0} /\ p <= P /\ k \in Nat
  BY <1>1, FactorsAreFractions, WholeTermsAreWhole
<1>3. /\ Denominator = S * R * P
      /\ RecoveryScore = 600 * s * (R * P) + 300 * r * (S * P) + 200 * p * (S * R) + k * (S * R * P)
  BY DEF Denominator, RecoveryScore
<1> HIDE DEF s, S, r, R, p, P, k
<1>4. LET D   == S * R * P
          sum == 600 * s * (R * P) + 300 * r * (S * P) + 200 * p * (S * R) + k * D
      IN  /\ D \in Nat \ {0} /\ sum \in Nat
          /\ sum >= k * D
          /\ sum < (600 + w + 200 + k) * D
  BY <1>2, WeightedSum
<1> QED BY <1>3, <1>4 DEF k

LEMMA FullRecency == ScoreInv => 300 * RecencyFactor.num <= 300 * RecencyFactor.den
BY FactorsAreFractions

\* A case that is 29 days old has lost a third of its recency, in the longest window.
LEMMA LateRecency ==
  ASSUME ScoreInv, ~ActiveCustomer
  PROVE  300 * RecencyFactor.num <= 204 * RecencyFactor.den
<1>1. age >= 696 * Hour
  BY ScoreAssumption DEF ActiveCustomer, ScoreInv, ScoreTypeOK, QuietSinceTheCase
<1> DEFINE m == IF recoveryWindowHours > 7 THEN recoveryWindowHours - 6 ELSE 1
<1>2. m \in 1 .. 2154
  BY DEF ScoreInv, ScoreTypeOK
<1>3. RecencySpan = Hour * m
  BY DEF RecencySpan
<1> HIDE DEF m
<1>4. RecencySpan \in Nat \ {0} /\ RecencySpan <= 2154 * Hour
  <2>1. m * Hour <= 2154 * Hour
    BY <1>2, ScoreAssumption, LargerProduct
  <2>2. m * Hour = Hour * m /\ Hour * m \in Nat \ {0}
    BY <1>2, ScoreAssumption, PositiveProduct
  <2> QED BY <1>3, <2>1, <2>2
<1>5. RecencyLeft \in Int /\ RecencyLeft <= RecencySpan - 690 * Hour
  BY <1>1, <1>4, ScoreAssumption DEF RecencyLeft, NonNegative, ScoreInv, ScoreTypeOK
<1> QED BY <1>4, <1>5, ScoreAssumption DEF RecencyFactor, Fraction, NonNegative
-----------------------------------------------------------------------------
LEMMA LostCausesAreNotHigh ==
  ASSUME ScoreInv, ~ActiveCustomer,
         rootCause \notin {"RETRYABLE_PAYMENT_FAILURE", "CUSTOMER_PAYMENT_METHOD_ISSUE"}
  PROVE  Denominator \in Nat \ {0} /\ RecoveryScore \in Nat /\ RecoveryScore < 1500 * Denominator
<1>1. WholeTerms \in Nat /\ WholeTerms <= 410
  BY WholeTermsAreWhole DEF ScoreInv, ScoreTypeOK, RootCauses, ROOT_CAUSE_FACTOR
<1>2. /\ Denominator \in Nat \ {0} /\ RecoveryScore \in Nat
      /\ RecoveryScore < (1004 + WholeTerms) * Denominator
  BY ScoreIsBounded, LateRecency, <1>1
<1>3. (1004 + WholeTerms) * Denominator <= 1500 * Denominator
  BY <1>1, <1>2, LargerProduct
<1> QED BY <1>1, <1>2, <1>3, Product

LEMMA GoodCausesAreNotLow ==
  ASSUME ScoreInv,
         \/ ActiveCustomer
         \/ rootCause \in {"RETRYABLE_PAYMENT_FAILURE", "CUSTOMER_PAYMENT_METHOD_ISSUE"}
  PROVE  Denominator \in Nat \ {0} /\ RecoveryScore \in Nat /\ RecoveryScore > 300 * Denominator
<1>1. WholeTerms \in Nat /\ WholeTerms >= 301
  BY WholeTermsAreWhole DEF ScoreInv, ScoreTypeOK, RootCauses, ROOT_CAUSE_FACTOR
<1>2. /\ Denominator \in Nat \ {0} /\ RecoveryScore \in Nat
      /\ RecoveryScore >= WholeTerms * Denominator
  BY ScoreIsBounded, FullRecency
<1>3. 301 * Denominator <= WholeTerms * Denominator
  BY <1>1, <1>2, LargerProduct
<1> QED BY <1>1, <1>2, <1>3, Product

\* The abstraction that every other module works with: the score of a case is in one of
\* the bands that ScoreBands allows its cause and its customer.
THEOREM BandsArePossible == ScoreSpec => []ScoreBandIsPossible
<1>1. ScoreInv => ScoreBandIsPossible
  BY LostCausesAreNotHigh, GoodCausesAreNotLow DEF ScoreBandIsPossible, ScoredBands, ScoreBands
<1> QED BY <1>1, AlwaysScoreInv, PTL
-----------------------------------------------------------------------------
(***************************************************************************)
(* The score falls with time.                                              *)
(***************************************************************************)
KeepsTheRecord ==
  UNCHANGED <<payments.failed, priorCases, recoveryWindowHours>>

\* A step that leaves the record alone makes everything the score has left to depend on older.
LEMMA StepsGrowOlder ==
  ASSUME ScoreInv, [ScoreNext]_scoreVars, KeepsTheRecord
  PROVE  /\ rootCause' = rootCause /\ age' >= age /\ attempts' >= attempts
         /\ payments'.paid = payments.paid /\ payments'.quiet >= payments.quiet
<1> USE ScoreAssumption DEF ScoreInv, ScoreTypeOK
<1>1. ASSUME NEW d \in Waits, Wait(d)
      PROVE  rootCause' = rootCause /\ age' >= age /\ attempts' >= attempts
             /\ payments'.paid = payments.paid /\ payments'.quiet >= payments.quiet
  BY <1>1 DEF Wait
<1>2. CASE Attempt
  BY <1>2 DEF Attempt
<1>3. ~ FailToPay
  <2>1. SUFFICES ASSUME FailToPay PROVE payments'.failed # payments.failed
    BY DEF KeepsTheRecord
  <2> QED BY <2>1 DEF FailToPay
<1>4. ASSUME NEW status \in Terminal, ResolveOther(status)
      PROVE  rootCause' = rootCause /\ age' >= age /\ attempts' >= attempts
             /\ payments'.paid = payments.paid /\ payments'.quiet >= payments.quiet
  BY <1>4 DEF ResolveOther
<1>5. CASE SetWindow \/ UNCHANGED scoreVars
  BY <1>5 DEF SetWindow, scoreVars
<1> QED BY <1>1, <1>2, <1>3, <1>4, <1>5 DEF ScoreNext

LEMMA NonNegativeGrows ==
  ASSUME NEW a \in Int, NEW b \in Int, a <= b
  PROVE  NonNegative(a) \in Nat /\ NonNegative(b) \in Nat /\ NonNegative(a) <= NonNegative(b)
BY DEF NonNegative

LEMMA OlderTermsAreSmaller ==
  ASSUME ScoreInv, ScoreInv', [ScoreNext]_scoreVars, KeepsTheRecord
  PROVE  /\ UNCHANGED <<SuccessRatio, PriorRecoveryFactor, RecencyFactor.den>>
         /\ RecencyFactor'.num <= RecencyFactor.num
         /\ WholeTerms' <= WholeTerms
<1>1. /\ rootCause' = rootCause /\ age' >= age /\ attempts' >= attempts
      /\ payments'.paid = payments.paid /\ payments'.quiet >= payments.quiet
  BY StepsGrowOlder
<1>2. UNCHANGED <<SuccessRatio, PriorRecoveryFactor, RecencySpan>>
  BY <1>1 DEF KeepsTheRecord, SuccessRatio, PriorRecoveryFactor, RecencySpan
<1>3. /\ RecencySpan \in Nat \ {0}
      /\ age \in Nat /\ age' \in Nat /\ attempts \in Nat /\ attempts' \in Nat
      /\ payments.quiet \in Nat /\ payments'.quiet \in Nat
  BY PositiveProduct, ScoreAssumption DEF RecencySpan, ScoreInv, ScoreTypeOK
<1>4. RecencyLeft \in Int /\ RecencyLeft' \in Int /\ RecencyLeft' <= RecencyLeft
  <2> DEFINE a == age - 6 * Hour
             a2 == age' - 6 * Hour
  <2>1. a \in Int /\ a2 \in Int /\ a <= a2
    <3>1. \A n, n2 \in Nat : n2 >= n => n - 6 * Hour <= n2 - 6 * Hour
      BY ScoreAssumption
    <3>2. 6 * Hour \in Nat
      BY ScoreAssumption
    <3> QED BY <1>1, <1>3, <3>1, <3>2
  <2>2. RecencyLeft = RecencySpan - NonNegative(a)
        /\ RecencyLeft' = RecencySpan - NonNegative(a2)
    BY <1>2 DEF RecencyLeft
  <2> HIDE DEF a, a2
  <2>3. NonNegative(a) \in Nat /\ NonNegative(a2) \in Nat /\ NonNegative(a) <= NonNegative(a2)
    BY <2>1, NonNegativeGrows
  <2> QED BY <1>3, <2>2, <2>3
<1>5. RecencyFactor'.num <= RecencyFactor.num /\ UNCHANGED RecencyFactor.den
  BY <1>2, <1>4 DEF RecencyFactor, Fraction, NonNegative
<1>6. ROOT_CAUSE_FACTOR[rootCause] \in Nat
  BY DEF ScoreInv, ScoreTypeOK, RootCauses, ROOT_CAUSE_FACTOR
<1>7. ActiveCustomer' => ActiveCustomer
  BY <1>1, <1>3, ScoreAssumption DEF ActiveCustomer
<1>8. /\ NonNegative(200 - 60 * attempts) \in Nat
      /\ NonNegative(200 - 60 * attempts') \in Nat
      /\ NonNegative(200 - 60 * attempts') <= NonNegative(200 - 60 * attempts)
  <2> DEFINE a == 200 - 60 * attempts
             a2 == 200 - 60 * attempts'
  <2>1. a \in Int /\ a2 \in Int /\ a2 <= a
    <3>1. \A n, n2 \in Nat : 200 - 60 * n \in Int /\ (n2 >= n => 200 - 60 * n2 <= 200 - 60 * n)
      OBVIOUS
    <3> QED BY <1>1, <1>3, <3>1
  <2> HIDE DEF a, a2
  <2>2. NonNegative(a) \in Nat /\ NonNegative(a2) \in Nat /\ NonNegative(a2) <= NonNegative(a)
    BY <2>1, NonNegativeGrows
  <2> QED BY <2>2 DEF a, a2
<1>9. WholeTerms' <= WholeTerms
  BY <1>1, <1>6, <1>7, <1>8 DEF WholeTerms
<1> QED BY <1>2, <1>5, <1>9

LEMMA SmallerSum ==
  ASSUME NEW a \in Nat, NEW b \in Nat, NEW d \in Nat, NEW m \in Nat,
         NEW r \in Nat, NEW r2 \in Nat, r2 <= r,
         NEW k \in Nat, NEW k2 \in Nat, k2 <= k
  PROVE  a + 300 * r2 * m + b + k2 * d <= a + 300 * r * m + b + k * d
<1>1. k2 * d <= k * d /\ k2 * d \in Nat /\ k * d \in Nat
  BY LargerProduct, Product
<1>2. /\ 300 * r2 * m <= 300 * r * m
      /\ 300 * r2 * m \in Nat /\ 300 * r * m \in Nat
  <2>1. r2 * m <= r * m /\ r2 * m \in Nat /\ r * m \in Nat
    BY LargerProduct, Product
  <2>2. 300 * r2 * m = 300 * (r2 * m) /\ 300 * r * m = 300 * (r * m)
    OBVIOUS
  <2> QED BY <2>1, <2>2
<1> QED BY <1>1, <1>2

LEMMA TermsAreWhole == ScoreInv => RecencyFactor.num \in Nat /\ WholeTerms \in Nat
BY FactorsAreFractions, WholeTermsAreWhole

LEMMA TermsStayWhole == ScoreInv' => (RecencyFactor.num \in Nat /\ WholeTerms \in Nat)'
BY TermsAreWhole, PTL

\* scoringEngine.js over the life of a case: waiting and failed attempts never make it
\* more promising, for any customer, window and clock.
THEOREM ScoreFallsWithTime == ScoreSpec => ScoreOnlyFalls
<1>1. ASSUME ScoreInv, ScoreInv', [ScoreNext]_scoreVars, KeepsTheRecord
      PROVE  RecoveryScore' <= RecoveryScore
  <2> DEFINE S == SuccessRatio.den
             R == RecencyFactor.den
             P == PriorRecoveryFactor.den
             a == 600 * SuccessRatio.num * (R * P)
             b == 200 * PriorRecoveryFactor.num * (S * R)
             r == RecencyFactor.num
             r2 == RecencyFactor'.num
             k == WholeTerms
             k2 == WholeTerms'
             m == S * P
             d == S * R * P
  <2>1. /\ S \in Nat /\ R \in Nat /\ P \in Nat /\ r \in Nat /\ k \in Nat
        /\ SuccessRatio.num \in Nat /\ PriorRecoveryFactor.num \in Nat
    BY <1>1, FactorsAreFractions, WholeTermsAreWhole
  <2>2. ScoreInv' => r2 \in Nat /\ k2 \in Nat
    BY TermsStayWhole
  <2>3. /\ UNCHANGED <<SuccessRatio, PriorRecoveryFactor, RecencyFactor.den>>
        /\ r2 <= r /\ k2 <= k
    BY <1>1, OlderTermsAreSmaller
  <2>4. a \in Nat /\ b \in Nat /\ m \in Nat /\ d \in Nat
    <3>1. /\ 600 * SuccessRatio.num \in Nat /\ R * P \in Nat
          /\ 200 * PriorRecoveryFactor.num \in Nat /\ S * R \in Nat /\ S * P \in Nat
      BY <2>1, Product
    <3> QED BY <2>1, <3>1, Product
  <2>5. /\ RecoveryScore = a + 300 * r * m + b + k * d
        /\ RecoveryScore' = a + 300 * r2 * m + b + k2 * d
    BY <2>3 DEF RecoveryScore, Denominator
  <2> HIDE DEF S, R, P, a, b, r, r2, k, k2, m, d
  <2>6. a + 300 * r2 * m + b + k2 * d <= a + 300 * r * m + b + k * d
    BY <1>1, <2>1, <2>2, <2>3, <2>4, SmallerSum
  <2> QED BY <2>5, <2>6
<1>2. ScoreInv /\ ScoreInv' /\ [ScoreNext]_scoreVars
        => [KeepsTheRecord => RecoveryScore' <= RecoveryScore]_scoreVars
  BY <1>1
<1> QED BY <1>2, AlwaysScoreInv, PTL DEF ScoreSpec, ScoreOnlyFalls, KeepsTheRecord
=============================================================================
