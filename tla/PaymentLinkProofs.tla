------------------------- MODULE PaymentLinkProofs -------------------------
(***************************************************************************)
(* Theorems about PaymentLink for any set of requests, any TTL and any     *)
(* bounds.                                                                 *)
(***************************************************************************)
EXTENDS PaymentLink, FiniteSetTheorems, TLAPS

\* Every stored value, every request and every age stays in its type, and the ages
\* stay cut off just past the TTL.
THEOREM TypeCorrect == Spec => []TypeOK
<1>1. Init => TypeOK
  <2> SUFFICES ASSUME Init PROVE TypeOK
    OBVIOUS
  <2>1. claimAge \in 0 .. TTL + 1 /\ held \in [Requests -> 0 .. TTL + 1]
    BY PaymentLinkAssumption DEF Init
  <2>2. /\ attempts \in Nat /\ linkId \in Nat /\ issued \in Nat /\ crashes \in Nat
        /\ overtaken \in Nat /\ wasted \in Nat
    BY DEF Init
  <2>3. /\ doc \in [Requests -> Nat] /\ got \in [Requests -> Nat]
        /\ pc \in [Requests -> {"idle", "loaded", "refused", "calling", "answered",
                               "failed", "done"}]
    BY DEF Init
  <2>4. claimed \in BOOLEAN /\ status \in {"POLICY_APPROVED", "WAITING_OUTCOME"}
    BY Zenon DEF Init
  <2> QED
    BY <2>1, <2>2, <2>3, <2>4 DEF TypeOK
<1>2. TypeOK /\ [Next]_vars => TypeOK'
  <2> SUFFICES ASSUME TypeOK, [Next]_vars PROVE TypeOK'
    OBVIOUS
  <2> USE PaymentLinkAssumption DEF TypeOK
  <2>1. CASE Tick
    <3>1. claimAge' \in 0 .. TTL + 1
      BY <2>1 DEF Tick, Older
    <3>2. held' \in [Requests -> 0 .. TTL + 1]
      BY <2>1 DEF Tick, Older
    <3> QED
      BY <2>1, <3>1, <3>2 DEF Tick, mishaps
  <2>2. ASSUME NEW r \in Requests, Step(r) PROVE TypeOK'
    <3>1. CASE Load(r)
      BY <3>1 DEF Load, Goto, stored, mishaps
    <3>2. CASE Claim(r)
      <4>1. claimed' \in BOOLEAN
        BY <3>2, Zenon DEF Claim
      <4> QED
        BY <3>2, <4>1 DEF Claim, Goto
    <3>3. CASE ClaimRefused(r) \/ Refetch(r)
      BY <3>3 DEF ClaimRefused, Refetch, Goto, stored, mishaps
    <3>4. CASE RazorpayAnswers(r)
      BY <3>4 DEF RazorpayAnswers, Goto, stored, mishaps
    <3>5. CASE RazorpayFails(r) \/ AnswerIsLost(r)
      BY <3>5 DEF RazorpayFails, AnswerIsLost, Goto, stored, mishaps
    <3>6. CASE Release(r)
      <4>1. claimed' \in BOOLEAN
        BY <3>6, Zenon DEF Release
      <4> QED
        BY <3>6, <4>1 DEF Release, Goto, mishaps
    <3>7. CASE Save(r)
      BY <3>7 DEF Save, Goto, mishaps
    <3> QED
      BY <2>2, <3>1, <3>2, <3>3, <3>4, <3>5, <3>6, <3>7 DEF Step
  <2>3. ASSUME NEW r \in Requests, Crash(r) \/ Retry(r) PROVE TypeOK'
    BY <2>3 DEF Crash, Retry, Goto, stored, mishaps
  <2>4. CASE UNCHANGED vars
    BY <2>4 DEF vars, stored, request, mishaps
  <2> QED
    BY <2>1, <2>2, <2>3, <2>4 DEF Next
<1> QED
  BY <1>1, <1>2, PTL DEF Spec
-----------------------------------------------------------------------------
(***************************************************************************)
(* Counting.  The requests at some places of the protocol are a finite set *)
(* although Requests need not be, since all of them start idle.            *)
(***************************************************************************)
Past == {"calling", "answered", "failed"}

Owed == {"calling", "failed"}

Told == {"answered"}

At(places) == {r \in Requests : pc[r] \in places}

LEMMA Moves ==
  ASSUME TypeOK, NEW places, IsFiniteSet(At(places)),
         NEW r \in Requests, NEW place, Goto(r, place)
  PROVE  /\ IsFiniteSet(At(places)')
         /\ pc[r] \in places /\ place \notin places =>
              Cardinality(At(places)') = Cardinality(At(places)) - 1
         /\ pc[r] \notin places /\ place \in places =>
              Cardinality(At(places)') = Cardinality(At(places)) + 1
         /\ (pc[r] \in places <=> place \in places) => At(places)' = At(places)
<1>1. \A q \in Requests : pc'[q] = IF q = r THEN place ELSE pc[q]
  BY DEF Goto, TypeOK
<1>2. CASE pc[r] \in places /\ place \notin places
  <2>1. At(places)' = At(places) \ {r} /\ r \in At(places)
    BY <1>1, <1>2 DEF At
  <2> QED
    BY <1>2, <2>1, FS_RemoveElement
<1>3. CASE pc[r] \notin places /\ place \in places
  <2>1. At(places)' = At(places) \cup {r} /\ r \notin At(places)
    BY <1>1, <1>3 DEF At
  <2> QED
    BY <1>3, <2>1, FS_AddElement
<1>4. CASE pc[r] \in places <=> place \in places
  <2>1. At(places)' = At(places)
    BY <1>1, <1>4 DEF At
  <2> QED
    BY <1>4, <2>1
<1> QED
  BY <1>2, <1>3, <1>4

(***************************************************************************)
(* The inductive invariant.  A free claim leaves room for one more request *)
(* past it; a claim on the case is no older than any request past it, so   *)
(* that one which takes over a stale claim either overtakes a request or   *)
(* finds nobody past the claim, and then every link issued so far was      *)
(* wasted.                                                                 *)
(***************************************************************************)
ClaimIsYoungest ==
  claimed => \A r \in Requests : Holds(r) => held[r] >= claimAge

Exclusion ==
  /\ IsFiniteSet(At(Past))
  /\ Cardinality(At(Past)) <= 1 + overtaken
  /\ linkId = 0 /\ ~claimed => Cardinality(At(Past)) <= overtaken

Billing ==
  /\ issued + Cardinality(At(Owed)) <= 1 + overtaken + wasted
  /\ linkId = 0 /\ ~claimed => issued + Cardinality(At(Owed)) <= overtaken + wasted
  /\ linkId = 0 => issued = Cardinality(At(Told)) + wasted

AnswersAreIssued == \A r \in Requests : pc[r] = "answered" => got[r] \in 1 .. issued

Accounts == ClaimIsYoungest /\ Exclusion /\ Billing /\ AnswersAreIssued

LEMMA CountsAreNat ==
  ASSUME Exclusion
  PROVE  /\ IsFiniteSet(At(Owed)) /\ IsFiniteSet(At(Told))
         /\ Cardinality(At(Past)) \in Nat /\ Cardinality(At(Owed)) \in Nat
         /\ Cardinality(At(Told)) \in Nat
<1>1. At(Owed) \subseteq At(Past) /\ At(Told) \subseteq At(Past)
  BY DEF At, Owed, Told, Past
<1> QED
  BY <1>1, FS_Subset, FS_CardinalityType DEF Exclusion

LEMMA InitAccounts == Init => Accounts
<1> SUFFICES ASSUME Init PROVE Accounts
  OBVIOUS
<1>1. At(Past) = {} /\ At(Owed) = {} /\ At(Told) = {}
  BY DEF Init, At, Past, Owed, Told
<1>2. IsFiniteSet({}) /\ Cardinality({}) = 0
  BY FS_EmptySet
<1> QED
  BY <1>1, <1>2 DEF Init, Accounts, ClaimIsYoungest, Exclusion, Billing, AnswersAreIssued, Holds

\* A step that leaves the places of all requests, or moves one between places that
\* hold nothing, and touches neither the claim nor the links.
LEMMA QuietStep ==
  ASSUME Accounts, UNCHANGED <<claimed, claimAge, held, linkId, issued, got, mishaps>>,
         \A r \in Requests : pc'[r] = pc[r] \/ {pc[r], pc'[r]} \cap Past = {}
  PROVE  Accounts'
<1>1. At(Past)' = At(Past) /\ At(Owed)' = At(Owed) /\ At(Told)' = At(Told)
  BY DEF At, Past, Owed, Told
<1>2. \A r \in Requests : /\ Holds(r)' <=> Holds(r)
                          /\ pc'[r] = "answered" <=> pc[r] = "answered"
  BY DEF Holds, Past
<1>3. ClaimIsYoungest' /\ AnswersAreIssued'
  BY <1>2 DEF Accounts, ClaimIsYoungest, AnswersAreIssued
<1>4. Exclusion' /\ Billing'
  BY <1>1 DEF Accounts, Exclusion, Billing, mishaps
<1> QED
  BY <1>3, <1>4 DEF Accounts

LEMMA ClaimStep ==
  ASSUME TypeOK, Accounts, NEW r \in Requests, Claim(r)
  PROVE  /\ Accounts'
         /\ linkId' = linkId /\ issued' = issued /\ wasted' = wasted
         /\ overtaken' \in {overtaken, overtaken + 1}
<1>1. /\ pc[r] = "loaded" /\ linkId = 0 /\ linkId' = 0 /\ claimed'
      /\ issued' = issued /\ wasted' = wasted /\ got' = got
      /\ Goto(r, "calling")
  BY DEF Claim, Claimable
<1>2. /\ issued \in Nat /\ overtaken \in Nat /\ wasted \in Nat
  BY DEF TypeOK
<1>3. /\ Cardinality(At(Past)) \in Nat /\ Cardinality(At(Owed)) \in Nat
      /\ Cardinality(At(Told)) \in Nat /\ IsFiniteSet(At(Past))
      /\ IsFiniteSet(At(Owed)) /\ IsFiniteSet(At(Told))
  BY CountsAreNat DEF Accounts, Exclusion
<1>4. /\ Cardinality(At(Past)') = Cardinality(At(Past)) + 1 /\ IsFiniteSet(At(Past)')
      /\ Cardinality(At(Owed)') = Cardinality(At(Owed)) + 1
  BY <1>1, <1>3, Moves DEF Past, Owed
<1>5. At(Told)' = At(Told)
  BY <1>1, <1>3, Moves DEF Told
<1>6. overtaken' \in {overtaken, overtaken + 1}
  BY DEF Claim
<1>7. ClaimIsYoungest' /\ AnswersAreIssued'
  <2>1. claimAge' = 0 /\ held' \in [Requests -> Nat]
    BY PaymentLinkAssumption DEF Claim, TypeOK
  <2>2. \A q \in Requests : pc'[q] = "answered" => pc[q] = "answered"
    BY <1>1 DEF Goto, TypeOK
  <2> QED
    BY <1>1, <2>1, <2>2 DEF ClaimIsYoungest, Accounts, AnswersAreIssued
<1>8. \/ Cardinality(At(Past)) <= overtaken' /\ issued + Cardinality(At(Owed)) <= overtaken' + wasted
  <2>1. CASE ~claimed
    BY <1>1, <1>2, <1>3, <1>6, <2>1 DEF Accounts, Exclusion, Billing
  <2>2. CASE claimed /\ Overtakes
    <3>1. overtaken' = overtaken + 1
      BY <2>2 DEF Claim
    <3> QED
      BY <1>2, <1>3, <3>1 DEF Accounts, Exclusion, Billing
  <2>3. CASE claimed /\ ~Overtakes
    <3>1. overtaken' = overtaken
      BY <2>3 DEF Claim
    <3>2. claimAge > TTL
      BY <2>3 DEF Claim, Claimable, StaleClaim
    <3>3. \A q \in Requests : ~Holds(q)
      <4> SUFFICES ASSUME NEW q \in Requests, Holds(q) PROVE FALSE
        OBVIOUS
      <4>1. held[q] >= claimAge /\ ~(held[q] > TTL)
        BY <2>3 DEF Accounts, ClaimIsYoungest, Overtakes
      <4>2. held[q] \in Nat /\ claimAge \in Nat
        BY PaymentLinkAssumption DEF TypeOK
      <4> QED
        BY <3>2, <4>1, <4>2, PaymentLinkAssumption
    <3>4. At(Past) = {} /\ At(Owed) = {} /\ At(Told) = {}
      BY <3>3 DEF Holds, At, Past, Owed, Told
    <3>5. Cardinality({}) = 0
      BY FS_EmptySet
    <3>6. issued = wasted
      BY <1>1, <1>2, <3>4, <3>5 DEF Accounts, Billing
    <3> QED
      BY <1>2, <3>1, <3>4, <3>5, <3>6
  <2> QED
    BY <2>1, <2>2, <2>3 DEF TypeOK
<1>9. Exclusion' /\ Billing'
  <2>1. overtaken' \in Nat
    BY <1>2, <1>6
  <2>2. Exclusion'
    BY <1>1, <1>3, <1>4, <1>8, <2>1 DEF Exclusion
  <2>3. issued = Cardinality(At(Told)) + wasted
    BY <1>1 DEF Accounts, Billing
  <2> QED
    BY <1>1, <1>2, <1>3, <1>4, <1>5, <1>8, <2>1, <2>2, <2>3 DEF Billing
<1> QED
  BY <1>1, <1>6, <1>7, <1>9 DEF Accounts

\* The call ends, one way or the other; an answer that is lost wastes its link.
LEMMA CallEndsStep ==
  ASSUME TypeOK, Accounts, NEW r \in Requests,
         RazorpayAnswers(r) \/ RazorpayFails(r) \/ AnswerIsLost(r)
  PROVE  Accounts' /\ issued <= overtaken + wasted
<1>1. /\ pc[r] = "calling"
      /\ UNCHANGED <<status, attempts, linkId, claimed, claimAge, held, overtaken>>
  BY DEF RazorpayAnswers, RazorpayFails, AnswerIsLost, stored, mishaps
<1>2. issued \in Nat /\ overtaken \in Nat /\ wasted \in Nat
  BY DEF TypeOK
<1>3. /\ Cardinality(At(Past)) \in Nat /\ Cardinality(At(Owed)) \in Nat
      /\ Cardinality(At(Told)) \in Nat /\ IsFiniteSet(At(Past))
      /\ IsFiniteSet(At(Owed)) /\ IsFiniteSet(At(Told))
  BY CountsAreNat DEF Accounts, Exclusion
<1>4. Cardinality(At(Owed)) >= 1
  <2>1. r \in At(Owed)
    BY <1>1 DEF At, Owed
  <2> QED
    BY <1>3, <2>1, FS_EmptySet
<1>5. issued <= overtaken + wasted
  BY <1>2, <1>3, <1>4 DEF Accounts, Billing
<1>6. CASE RazorpayAnswers(r)
  <2>1. /\ Goto(r, "answered") /\ issued' = issued + 1 /\ wasted' = wasted
        /\ got' = [got EXCEPT ![r] = issued + 1]
    BY <1>6 DEF RazorpayAnswers, mishaps
  <2>2. /\ At(Past)' = At(Past)
        /\ Cardinality(At(Owed)') = Cardinality(At(Owed)) - 1
        /\ Cardinality(At(Told)') = Cardinality(At(Told)) + 1
    BY <1>1, <1>3, <2>1, Moves DEF Past, Owed, Told
  <2>3. ClaimIsYoungest' /\ AnswersAreIssued'
    BY <1>1, <1>2, <2>1 DEF TypeOK, Goto, Accounts, ClaimIsYoungest, AnswersAreIssued, Holds
  <2>4. Exclusion'
    BY <1>1, <2>2 DEF Accounts, Exclusion
  <2>5. Billing'
    BY <1>1, <1>2, <1>3, <2>1, <2>2 DEF Accounts, Billing
  <2> QED
    BY <1>5, <2>3, <2>4, <2>5 DEF Accounts
<1>7. CASE RazorpayFails(r) \/ AnswerIsLost(r)
  <2>1. /\ Goto(r, "failed") /\ got' = got
        /\ \/ issued' = issued /\ wasted' = wasted
           \/ issued' = issued + 1 /\ wasted' = wasted + 1
    BY <1>7 DEF RazorpayFails, AnswerIsLost, mishaps
  <2>2. At(Past)' = At(Past) /\ At(Owed)' = At(Owed) /\ At(Told)' = At(Told)
    BY <1>1, <1>3, <2>1, Moves DEF Past, Owed, Told
  <2>3. ClaimIsYoungest' /\ AnswersAreIssued'
    BY <1>1, <1>2, <2>1 DEF TypeOK, Goto, Accounts, ClaimIsYoungest, AnswersAreIssued, Holds
  <2>4. Exclusion'
    BY <1>1, <2>2 DEF Accounts, Exclusion
  <2>5. Billing'
    BY <1>1, <1>2, <1>3, <2>1, <2>2 DEF Accounts, Billing
  <2> QED
    BY <1>5, <2>3, <2>4, <2>5 DEF Accounts
<1> QED
  BY <1>6, <1>7

\* A request that was past the claim is done: it saves its link, gives the claim up, or
\* dies, and then the link it was answered with is wasted.
LEMMA HolderEndsStep ==
  ASSUME TypeOK, Accounts, NEW r \in Requests, Holds(r), Release(r) \/ Save(r) \/ Crash(r)
  PROVE  Accounts'
<1>1. /\ Goto(r, "done") /\ pc[r] \in Past
      /\ UNCHANGED <<held, issued, got, overtaken>>
  BY DEF Release, Save, Crash, mishaps, Holds, Past
<1>2. issued \in Nat /\ overtaken \in Nat /\ wasted \in Nat
  BY DEF TypeOK
<1>3. /\ Cardinality(At(Past)) \in Nat /\ Cardinality(At(Owed)) \in Nat
      /\ Cardinality(At(Told)) \in Nat /\ IsFiniteSet(At(Past))
      /\ IsFiniteSet(At(Owed)) /\ IsFiniteSet(At(Told))
  BY CountsAreNat DEF Accounts, Exclusion
<1>4. Cardinality(At(Past)') = Cardinality(At(Past)) - 1 /\ IsFiniteSet(At(Past)')
  BY <1>1, <1>3, Moves DEF Past
<1>5. /\ pc[r] \in Owed => Cardinality(At(Owed)') = Cardinality(At(Owed)) - 1
      /\ pc[r] \notin Owed => At(Owed)' = At(Owed)
      /\ pc[r] = "answered" => Cardinality(At(Told)') = Cardinality(At(Told)) - 1
      /\ pc[r] # "answered" => At(Told)' = At(Told)
  BY <1>1, <1>3, Moves DEF Owed, Told
<1>6. AnswersAreIssued'
  BY <1>1 DEF TypeOK, Goto, Accounts, AnswersAreIssued
<1>7. ~claimed' \/ (claimed' = claimed /\ claimAge' = claimAge)
  BY DEF Release, Save, Crash, stored
<1>8. ClaimIsYoungest'
  BY <1>1, <1>7 DEF TypeOK, Goto, Accounts, ClaimIsYoungest, Holds
<1>9. CASE Release(r)
  <2>1. pc[r] \in Owed /\ pc[r] # "answered" /\ linkId' = linkId /\ wasted' = wasted
    BY <1>9 DEF Release, Owed, mishaps
  <2>2. Exclusion'
    BY <1>1, <1>2, <1>3, <1>4 DEF Accounts, Exclusion
  <2>3. Billing'
    BY <1>1, <1>2, <1>3, <1>5, <2>1 DEF Accounts, Billing
  <2> QED
    BY <1>6, <1>8, <2>2, <2>3 DEF Accounts
<1>10. CASE Save(r)
  <2>1. /\ pc[r] = "answered" /\ pc[r] \notin Owed /\ linkId' = got[r] /\ wasted' = wasted
    BY <1>10 DEF Save, Owed, mishaps
  <2>2. linkId' # 0
    BY <1>2, <2>1 DEF Accounts, AnswersAreIssued
  <2>3. Exclusion'
    BY <1>1, <1>2, <1>3, <1>4, <2>2 DEF Accounts, Exclusion
  <2>4. Billing'
    BY <1>1, <1>2, <1>3, <1>5, <2>1, <2>2 DEF Accounts, Billing
  <2> QED
    BY <1>6, <1>8, <2>3, <2>4 DEF Accounts
<1>11. CASE Crash(r)
  <2>1. linkId' = linkId /\ claimed' = claimed
    BY <1>11 DEF Crash, stored
  <2>2. Exclusion'
    BY <1>1, <1>2, <1>3, <1>4, <2>1 DEF Accounts, Exclusion
  <2>3. Billing'
    <3>1. CASE pc[r] = "answered"
      <4>1. wasted' = wasted + 1 /\ pc[r] \notin Owed
        BY <1>11, <3>1 DEF Crash, Owed
      <4> QED
        BY <1>1, <1>2, <1>3, <1>5, <2>1, <3>1, <4>1 DEF Accounts, Billing
    <3>2. CASE pc[r] # "answered"
      <4>1. wasted' = wasted /\ pc[r] \in Owed
        BY <1>1, <1>11, <3>2 DEF Crash, Owed, Past
      <4> QED
        BY <1>1, <1>2, <1>3, <1>5, <2>1, <3>2, <4>1 DEF Accounts, Billing
    <3> QED
      BY <3>1, <3>2
  <2> QED
    BY <1>6, <1>8, <2>2, <2>3 DEF Accounts
<1> QED
  BY <1>9, <1>10, <1>11

\* What a step does to the links issued, to the one the case names and to the mishaps.
Bill == <<issued, linkId, overtaken + wasted>>

LEMMA AccountsStep ==
  ASSUME TypeOK, Accounts, [Next]_vars
  PROVE  Accounts' /\ [Once!Next]_Bill
<1> DEFINE Goal == Accounts' /\ [Once!Next]_Bill
<1>1. issued \in Nat /\ overtaken \in Nat /\ wasted \in Nat
  BY DEF TypeOK
<1>2. CASE Tick
  <2>1. /\ UNCHANGED <<claimed, linkId, issued, got, pc, mishaps>>
        /\ claimAge' = IF claimed THEN Older(claimAge) ELSE claimAge
        /\ held' = [q \in Requests |-> IF Holds(q) THEN Older(held[q]) ELSE held[q]]
    BY <1>2 DEF Tick
  <2>2. ClaimIsYoungest'
    <3> SUFFICES ASSUME claimed, NEW q \in Requests, Holds(q)
                 PROVE  held'[q] >= claimAge'
      BY <2>1 DEF ClaimIsYoungest, Holds
    <3>1. held[q] >= claimAge /\ held[q] \in 0 .. TTL + 1 /\ claimAge \in 0 .. TTL + 1
      BY DEF Accounts, ClaimIsYoungest, TypeOK
    <3> QED
      BY <2>1, <3>1, PaymentLinkAssumption DEF Older
  <2>3. Exclusion' /\ Billing' /\ AnswersAreIssued'
    BY <2>1 DEF Accounts, Exclusion, Billing, AnswersAreIssued, At, mishaps
  <2> QED
    BY <2>1, <2>2, <2>3 DEF Accounts, Bill, mishaps
<1>3. ASSUME NEW r \in Requests, Step(r) \/ Crash(r) \/ Retry(r) PROVE Goal
  <2>1. CASE \/ Load(r) \/ ClaimRefused(r) \/ Refetch(r) \/ Retry(r)
             \/ Crash(r) /\ ~Holds(r)
    <3>1. /\ UNCHANGED <<claimed, claimAge, held, linkId, issued, got, mishaps>>
          /\ \A q \in Requests : pc'[q] = pc[q] \/ {pc[q], pc'[q]} \cap Past = {}
      BY <2>1 DEF Load, ClaimRefused, Refetch, Retry, Crash, Holds, Past, Goto, TypeOK,
                  stored, mishaps
    <3> QED
      BY <3>1, QuietStep DEF Bill, mishaps
  <2>2. CASE Claim(r)
    <3>1. /\ Accounts' /\ linkId' = linkId /\ issued' = issued /\ wasted' = wasted
          /\ overtaken' \in {overtaken, overtaken + 1}
      BY <2>2, ClaimStep
    <3>2. CASE overtaken' = overtaken
      BY <3>1, <3>2 DEF Bill
    <3>3. CASE overtaken' = overtaken + 1
      <4>1. overtaken' + wasted' = overtaken + wasted + 1
        BY <1>1, <3>1, <3>3
      <4>2. Once!Mishap
        BY <3>1, <4>1 DEF Once!Mishap
      <4> QED
        BY <3>1, <4>2 DEF Once!Next
    <3> QED
      BY <3>1, <3>2, <3>3
  <2>3. CASE RazorpayAnswers(r) \/ RazorpayFails(r) \/ AnswerIsLost(r)
    <3>1. Accounts' /\ issued <= overtaken + wasted
      BY <2>3, CallEndsStep
    <3>2. linkId' = linkId /\ overtaken' = overtaken
      BY <2>3 DEF RazorpayAnswers, RazorpayFails, AnswerIsLost, stored, mishaps
    <3>3. \/ issued' = issued /\ wasted' = wasted
          \/ issued' = issued + 1 /\ wasted' = wasted
          \/ issued' = issued + 1 /\ wasted' = wasted + 1
      BY <2>3 DEF RazorpayAnswers, RazorpayFails, AnswerIsLost, mishaps
    <3> QED
      BY <1>1, <3>1, <3>2, <3>3 DEF Bill, Once!Next, Once!Issue, Once!Mishap, Once!Issues
  <2>4. CASE Holds(r) /\ (Release(r) \/ Save(r) \/ Crash(r))
    <3>1. Accounts'
      BY <2>4, HolderEndsStep
    <3>2. CASE Release(r)
      BY <3>1, <3>2 DEF Release, Bill, mishaps
    <3>3. CASE Save(r)
      <4>1. linkId' \in 1 .. issued /\ issued' = issued /\ UNCHANGED mishaps
        BY <3>3 DEF Save, Accounts, AnswersAreIssued
      <4> QED
        BY <3>1, <4>1 DEF Bill, Once!Next, Once!Name, mishaps
    <3>4. CASE Crash(r)
      <4>1. /\ issued' = issued /\ linkId' = linkId /\ overtaken' = overtaken
            /\ wasted' \in {wasted, wasted + 1}
        BY <3>4 DEF Crash, stored
      <4>2. CASE wasted' = wasted
        BY <3>1, <4>1, <4>2 DEF Bill
      <4>3. CASE wasted' = wasted + 1
        <5>1. overtaken' + wasted' = overtaken + wasted + 1
          BY <1>1, <4>1, <4>3
        <5>2. Once!Mishap
          BY <4>1, <5>1 DEF Once!Mishap
        <5> QED
          BY <3>1, <5>2 DEF Once!Next
      <4> QED
        BY <4>1, <4>2, <4>3
    <3> QED
      BY <2>4, <3>2, <3>3, <3>4
  <2>5. Release(r) \/ Save(r) => Holds(r)
    BY DEF Release, Save, Holds
  <2> QED
    BY <1>3, <2>1, <2>2, <2>3, <2>4, <2>5 DEF Step
<1>4. CASE UNCHANGED vars
  <2>1. UNCHANGED <<claimed, claimAge, held, linkId, issued, got, mishaps, pc>>
    BY <1>4 DEF vars, stored, request
  <2> QED
    BY <2>1, QuietStep DEF Bill, mishaps
<1> QED
  BY <1>2, <1>3, <1>4 DEF Next

THEOREM AccountsHold == Spec => []Accounts
<1>1. TypeOK /\ Accounts /\ [Next]_vars => Accounts'
  BY AccountsStep
<1> QED
  BY <1>1, InitAccounts, TypeCorrect, PTL DEF Spec

\* claimPaymentLinkCreation excludes: for any number of requests, of crashes and of
\* failed calls, and however long the calls take, the requests past the claim are at
\* most one more than the claims that were overtaken after their TTL.
THEOREM ClaimExcludes == Spec => []OneHolder
<1>1. TypeOK /\ Accounts => OneHolder
  <2>1. {r \in Requests : Holds(r)} = At(Past)
    BY DEF At, Past, Holds
  <2> QED
    BY <2>1 DEF Accounts, Exclusion, OneHolder
<1> QED
  BY <1>1, AccountsHold, TypeCorrect, PTL

\* The links Razorpay was made to issue: one, one for each overtaken claim and one for
\* each answer nobody kept.  With neither, the case has one link (OneLink).
THEOREM LinksAreAccountedFor ==
  Spec => [](/\ issued <= 1 + overtaken + wasted
             /\ overtaken = 0 /\ wasted = 0 => OneLink)
<1>1. TypeOK /\ Accounts =>
        /\ issued <= 1 + overtaken + wasted
        /\ overtaken = 0 /\ wasted = 0 => OneLink
  <2> SUFFICES ASSUME TypeOK, Accounts
               PROVE  /\ issued <= 1 + overtaken + wasted
                      /\ overtaken = 0 /\ wasted = 0 => OneLink
    OBVIOUS
  <2>1. issued \in Nat /\ overtaken \in Nat /\ wasted \in Nat
    BY DEF TypeOK
  <2>2. Cardinality(At(Owed)) \in Nat
    BY CountsAreNat DEF Accounts
  <2>3. issued <= 1 + overtaken + wasted
    BY <2>1, <2>2 DEF Accounts, Billing
  <2> QED
    BY <2>1, <2>3 DEF OneLink
<1> QED
  BY <1>1, AccountsHold, TypeCorrect, PTL

\* The claim protocol implements LinkOnce: every other step of every request leaves
\* alone the links issued, the link the case names and the mishaps.
THEOREM ClaimImplementsLinkOnce == Spec => ImplementsLinkOnce
<1>1. Init => Once!Init
  BY DEF Init, Once!Init
<1>2. TypeOK /\ Accounts /\ [Next]_vars => [Once!Next]_Bill
  BY AccountsStep
<1> QED
  BY <1>1, <1>2, AccountsHold, TypeCorrect, PTL DEF Spec, ImplementsLinkOnce, Once!Spec, Bill
-----------------------------------------------------------------------------
(***************************************************************************)
(* The attempt count.  A request writes the count of the document its      *)
(* claim returned plus one.  Any number of requests may be past the claim, *)
(* but each of them read the count of a case without a link.               *)
(***************************************************************************)
Counted ==
  /\ AttemptPerLink
  /\ \A r \in Requests : Holds(r) => doc[r] = 0

LEMMA CountedStep ==
  ASSUME TypeOK, Accounts, Counted, [Next]_vars
  PROVE  Counted'
<1>1. CASE Tick
  BY <1>1 DEF Tick, Counted, AttemptPerLink, Holds
<1>2. ASSUME NEW r \in Requests, Step(r) PROVE Counted'
  <2>1. CASE Load(r) \/ ClaimRefused(r) \/ Refetch(r)
    BY <2>1 DEF Load, ClaimRefused, Refetch, Goto, stored, Counted, AttemptPerLink, Holds, TypeOK
  <2>2. CASE Claim(r)
    <3>1. attempts = 0 /\ linkId' = linkId /\ attempts' = attempts
      BY <2>2 DEF Claim, Claimable, Counted, AttemptPerLink
    <3> QED
      BY <2>2, <3>1 DEF Claim, Goto, Counted, AttemptPerLink, Holds, TypeOK
  <2>3. CASE RazorpayAnswers(r) \/ RazorpayFails(r) \/ AnswerIsLost(r)
    BY <2>3 DEF RazorpayAnswers, RazorpayFails, AnswerIsLost, Goto, stored, Counted,
                AttemptPerLink, Holds, TypeOK
  <2>4. CASE Release(r)
    BY <2>4 DEF Release, Goto, Counted, AttemptPerLink, Holds, TypeOK
  <2>5. CASE Save(r)
    <3>1. doc[r] = 0 /\ got[r] # 0
      BY <2>5 DEF Save, Counted, Holds, Accounts, AnswersAreIssued, TypeOK
    <3>2. attempts' = 1 /\ linkId' # 0
      BY <2>5, <3>1 DEF Save
    <3> QED
      BY <2>5, <3>2 DEF Save, Goto, Counted, AttemptPerLink, Holds, TypeOK
  <2> QED
    BY <1>2, <2>1, <2>2, <2>3, <2>4, <2>5 DEF Step
<1>3. ASSUME NEW r \in Requests, Crash(r) \/ Retry(r) PROVE Counted'
  BY <1>3 DEF Crash, Retry, Goto, stored, Counted, AttemptPerLink, Holds, TypeOK
<1>4. CASE UNCHANGED vars
  BY <1>4 DEF vars, stored, request, Counted, AttemptPerLink, Holds
<1> QED
  BY <1>1, <1>2, <1>3, <1>4 DEF Next

\* The attempt count is one exactly when the case has a link: neither a failed call,
\* nor a lost answer, nor a request that died is counted, and requests that overtook
\* each other and both save a link count one attempt between them.
THEOREM AttemptsCountLinks == Spec => []AttemptPerLink
<1>1. Init => Counted
  BY DEF Init, Holds, Counted, AttemptPerLink
<1>2. TypeOK /\ Accounts /\ Counted /\ [Next]_vars => Counted'
  BY CountedStep
<1>3. Counted => AttemptPerLink
  BY DEF Counted
<1> QED
  BY <1>1, <1>2, <1>3, AccountsHold, TypeCorrect, PTL DEF Spec
=============================================================================
