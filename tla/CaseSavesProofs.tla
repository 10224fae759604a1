--------------------------- MODULE CaseSavesProofs ---------------------------
(***************************************************************************)
(* Any number of handlers of any kind, each with a copy of the case as old *)
(* as it may be: their saves leave the link, its claim and the credit of a *)
(* recovered case alone, and a second link takes a claim that was taken    *)
(* over after its TTL.                                                     *)
(***************************************************************************)
EXTENDS CaseSaves, FiniteSetTheorems, TLAPS

USE DEF None

\* What a decision leaves of a document: its fields, the link, the claim, the amount.
Keeps(x, y) ==
  /\ DOMAIN y = DOMAIN x
  /\ y.razorpayPaymentLinkId = x.razorpayPaymentLinkId
  /\ y.razorpayLinkClaimed = x.razorpayLinkClaimed
  /\ y.amount = x.amount

\* It credits nothing, and recovers nothing.
Uncredited(x, y) ==
  /\ Keeps(x, y)
  /\ y.recoveredAmount = x.recoveredAmount
  /\ y.status = "RECOVERED" => x.status = "RECOVERED"

\* It credits what it recovers, and credits nothing but the amount.
Credited(x, y) ==
  /\ Keeps(x, y)
  /\ y.recoveredAmount \in {x.recoveredAmount, x.amount}
  /\ y.status = "RECOVERED" => x.status = "RECOVERED" \/ y.recoveredAmount = x.amount

LEMMA TransitionKeeps ==
  ASSUME NEW x, StoredFields \subseteq DOMAIN x, NEW to
  PROVE  /\ Keeps(x, Transition(x, to))
         /\ Transition(x, to).recoveredAmount = x.recoveredAmount
         /\ Transition(x, to).status \in {to, Thrown}
BY DEF Transition, Keeps, StoredFields

LEMMA VerdictOutcome ==
  ASSUME NEW x, NEW env, NEW action
  PROVE  EvaluatePrecedence(x, env, action).outcome \in
           {"REJECT", "STOP", "APPROVE", "ESCALATE", "EXPIRE", "BLOCK"}
BY DEF EvaluatePrecedence, Verdict

LEMMA ResolveKeeps ==
  ASSUME NEW x, StoredFields \subseteq DOMAIN x, NEW v,
         v.outcome \in {"REJECT", "STOP", "APPROVE", "ESCALATE", "EXPIRE", "BLOCK"},
         NEW to \in {"ELIGIBLE", "POLICY_APPROVED"}
  PROVE  Uncredited(x, Resolve(x, v, to))
<1> DEFINE st == CASE v.outcome = "APPROVE" -> to
                   [] v.outcome = "REJECT"  -> Thrown
                   [] OTHER                 -> OutcomeToStatus[v.outcome]
           tr == Transition(x, st)
<1>1. st # "RECOVERED"
  <2>1. CASE v.outcome = "APPROVE"
    <3>1. st = to
      BY <2>1, Zenon
    <3> QED BY <3>1
  <2>2. CASE v.outcome = "REJECT"
    <3>1. v.outcome # "APPROVE"
      BY <2>2
    <3>2. st = Thrown
      BY <2>2, <3>1, Zenon
    <3> QED BY <3>2 DEF Thrown
  <2>3. CASE v.outcome \in {"STOP", "ESCALATE", "EXPIRE", "BLOCK"}
    <3>1. v.outcome # "APPROVE" /\ v.outcome # "REJECT"
      BY <2>3
    <3>2. st = OutcomeToStatus[v.outcome]
      BY <3>1, Zenon
    <3> QED BY <2>3, <3>2 DEF OutcomeToStatus
  <2> QED BY <2>1, <2>2, <2>3
<1>2. Resolve(x, v, to) = [tr EXCEPT !.policyDecision = v.reasonCode]
  BY DEF Resolve
<1> HIDE DEF st
<1>3. Keeps(x, tr) /\ tr.recoveredAmount = x.recoveredAmount /\ tr.status \in {st, Thrown}
  BY TransitionKeeps
<1> HIDE DEF tr
<1> QED BY <1>1, <1>2, <1>3 DEF Uncredited, Keeps, StoredFields, Thrown

LEMMA EligibilityKeeps ==
  ASSUME NEW x, StoredFields \subseteq DOMAIN x, NEW env
  PROVE  Uncredited(x, EvaluateEligibility(x, env))
BY VerdictOutcome, ResolveKeeps DEF EvaluateEligibility

LEMMA PolicyKeeps ==
  ASSUME NEW x, StoredFields \subseteq DOMAIN x, NEW env, NEW action
  PROVE  Uncredited(x, EvaluatePolicy(x, env, action))
BY VerdictOutcome, ResolveKeeps DEF EvaluatePolicy

LEMMA ReenterKeeps ==
  ASSUME NEW x, StoredFields \subseteq DOMAIN x, NEW why
  PROVE  Uncredited(x, Reenter(x, why))
<1> DEFINE t == IF x.status = "ANALYZING" THEN x ELSE Transition(x, "ANALYZING")
           cause == IF t.rootCause = None THEN AnalyzeRootCause(why) ELSE t.rootCause
<1>1. Uncredited(x, t)
  BY TransitionKeeps DEF Uncredited, Keeps, Thrown
<1>2. Reenter(x, why) = [t EXCEPT !.rootCause = cause]
  BY Zenon DEF Reenter
<1> HIDE DEF t, cause
<1> QED BY <1>1, <1>2 DEF Uncredited, Keeps, StoredFields

LEMMA UncreditedChain ==
  ASSUME NEW x, NEW y, NEW z, Uncredited(x, y), Uncredited(y, z)
  PROVE  Uncredited(x, z)
BY DEF Uncredited, Keeps

\* The fields that a pipeline sets of its own are none of those.
LEMMA NotesKeep ==
  ASSUME NEW x, StoredFields \subseteq DOMAIN x, NEW v
  PROVE  /\ Uncredited(x, [x EXCEPT !.recoveryProbability = v])
         /\ Uncredited(x, [x EXCEPT !.selectedIntervention = v])
         /\ Uncredited(x, [x EXCEPT !.voiceAttempts = v])
BY DEF Uncredited, Keeps, StoredFields

LEMMA SelectionKeeps ==
  ASSUME NEW x, StoredFields \subseteq DOMAIN x
  PROVE  Uncredited(x, Transition(x, "ACTION_SELECTED"))
BY TransitionKeeps DEF Uncredited, Thrown

LEMMA EvaluationKeeps ==
  ASSUME NEW x, StoredFields \subseteq DOMAIN x, NEW env, NEW why, NEW band,
         NEW voice \in BOOLEAN
  PROVE  Uncredited(x, RunEvaluationPipeline(x, env, why, band, voice))
<1> DEFINE r == Reenter(x, why)
           e == EvaluateEligibility(r, env)
           s == [e EXCEPT !.recoveryProbability = band]
           action == SelectIntervention(s, voice)
           t == Transition(s, "ACTION_SELECTED")
           n == [t EXCEPT !.selectedIntervention = action]
           y == EvaluatePolicy(n, env, action)
<1>1. Uncredited(x, r) /\ StoredFields \subseteq DOMAIN r
  BY ReenterKeeps DEF Uncredited, Keeps
<1>2. Uncredited(r, e) /\ StoredFields \subseteq DOMAIN e
  BY <1>1, EligibilityKeeps DEF Uncredited, Keeps
<1>3. Uncredited(e, s) /\ StoredFields \subseteq DOMAIN s
  BY <1>2, NotesKeep DEF Uncredited, Keeps
<1>4. Uncredited(s, t) /\ StoredFields \subseteq DOMAIN t
  BY <1>3, SelectionKeeps DEF Uncredited, Keeps
<1>5. Uncredited(t, n) /\ StoredFields \subseteq DOMAIN n
  BY <1>4, NotesKeep DEF Uncredited, Keeps
<1>6. Uncredited(n, y)
  BY <1>5, PolicyKeeps
<1>7. RunEvaluationPipeline(x, env, why, band, voice) \in {x, e, y}
  BY DEF RunEvaluationPipeline
<1>8. Uncredited(x, x)
  BY DEF Uncredited, Keeps
<1> HIDE DEF r, e, s, t, n, y
<1>9. Uncredited(x, e)
  BY <1>1, <1>2, UncreditedChain
<1>10. Uncredited(x, y)
  BY <1>3, <1>4, <1>5, <1>6, <1>9, UncreditedChain
<1> QED BY <1>7, <1>8, <1>9, <1>10

LEMMA VoiceDecisionKeeps ==
  ASSUME NEW x, StoredFields \subseteq DOMAIN x, NEW env, NEW why, NEW action
  PROVE  Uncredited(x, RunVoiceDecisionPipeline(x, env, why, action))
<1> DEFINE r == Reenter(x, why)
           e == IF x.status \in Evaluable THEN EvaluateEligibility(r, env) ELSE x
           n == [e EXCEPT !.selectedIntervention = action]
           t == Transition(n, "ACTION_SELECTED")
           s == IF e.status = "ELIGIBLE" THEN t ELSE e
           y == EvaluatePolicy(s, env, action)
<1>1. Uncredited(x, r) /\ StoredFields \subseteq DOMAIN r
  BY ReenterKeeps DEF Uncredited, Keeps
<1>2. Uncredited(r, EvaluateEligibility(r, env))
  BY <1>1, EligibilityKeeps
<1>3. Uncredited(x, e) /\ StoredFields \subseteq DOMAIN e
  BY <1>1, <1>2, UncreditedChain DEF Uncredited, Keeps
<1>4. Uncredited(e, n) /\ StoredFields \subseteq DOMAIN n
  BY <1>3, NotesKeep DEF Uncredited, Keeps
<1>5. Uncredited(n, t)
  BY <1>4, SelectionKeeps
<1>6. RunVoiceDecisionPipeline(x, env, why, action) \in {s, y}
  BY DEF RunVoiceDecisionPipeline
<1> HIDE DEF r, e, n, t
<1>7. Uncredited(x, s) /\ StoredFields \subseteq DOMAIN s
  BY <1>3, <1>4, <1>5, UncreditedChain DEF Uncredited, Keeps
<1> HIDE DEF s
<1>8. Uncredited(s, y)
  BY <1>7, PolicyKeeps
<1> HIDE DEF y
<1>9. Uncredited(x, y)
  BY <1>7, <1>8, UncreditedChain
<1> QED BY <1>6, <1>7, <1>9

\* The executor recovers only together with the amount.
LEMMA SetRecoveredCredits ==
  ASSUME NEW x, StoredFields \subseteq DOMAIN x
  PROVE  Credited(x, SetRecovered(x))
<1> DEFINE t == Transition(x, "RECOVERED")
<1>1. Keeps(x, t) /\ t.recoveredAmount = x.recoveredAmount
  BY TransitionKeeps
<1>2. SetRecovered(x) = [t EXCEPT !.recoveredAmount = x.amount]
  BY DEF SetRecovered
<1> HIDE DEF t
<1> QED BY <1>1, <1>2 DEF Credited, Keeps, StoredFields

LEMMA ExecutionCredits ==
  ASSUME NEW x, StoredFields \subseteq DOMAIN x, NEW action, NEW live \in BOOLEAN,
         NEW success \in BOOLEAN
  PROVE  /\ Credited(x, ExecuteAction(x, action, live, success))
         /\ live => Uncredited(x, ExecuteAction(x, action, live, success))
<1> DEFINE e == Transition(x, "ACTION_EXECUTED")
           w == Transition(e, "WAITING_OUTCOME")
           n == w.attempts + 1
           waiting == [w EXCEPT !.attempts = n]
           y == ExecuteAction(x, action, live, success)
<1>1. Uncredited(x, e) /\ StoredFields \subseteq DOMAIN e
  BY TransitionKeeps DEF Uncredited, Keeps, Thrown
<1>2. Uncredited(e, w) /\ StoredFields \subseteq DOMAIN w
  BY <1>1, TransitionKeeps DEF Uncredited, Keeps, Thrown
<1>3. \/ y = Transition(e, "STOPPED") \/ y = Transition(e, "ESCALATED")
      \/ y = waiting \/ (~live /\ y = SetRecovered(waiting)) \/ y = Transition(waiting, "FAILED")
      \/ y = [e EXCEPT !.status = Thrown]
  <2>1. CASE action = "STOP"
    BY <2>1, Zenon DEF ExecuteAction
  <2>2. CASE action = "ESCALATE"
    <3>1. action # "STOP"
      BY <2>2
    <3> QED BY <2>2, <3>1, Zenon DEF ExecuteAction
  <2>3. CASE action = "CREATE_PAYMENT_LINK"
    <3>1. action # "STOP" /\ action # "ESCALATE"
      BY <2>3
    <3>2. y = IF live THEN waiting
              ELSE IF success THEN SetRecovered(waiting) ELSE Transition(waiting, "FAILED")
      BY <2>3, <3>1, Zenon DEF ExecuteAction
    <3> QED BY <3>2, Zenon
  <2>4. CASE action \notin {"STOP", "ESCALATE", "CREATE_PAYMENT_LINK"}
    <3>1. action # "STOP" /\ action # "ESCALATE" /\ action # "CREATE_PAYMENT_LINK"
      BY <2>4
    <3> QED BY <3>1, Zenon DEF ExecuteAction
  <2> QED BY <2>1, <2>2, <2>3, <2>4
<1>4. \A s \in {"STOPPED", "ESCALATED"} : Uncredited(e, Transition(e, s))
  BY <1>1, TransitionKeeps DEF Uncredited, Keeps, Thrown
<1>5. Uncredited(e, [e EXCEPT !.status = Thrown])
  BY <1>1 DEF Uncredited, Keeps, StoredFields, Thrown
<1> HIDE DEF y, e, w, n
<1>6. Uncredited(w, waiting) /\ StoredFields \subseteq DOMAIN waiting
  BY <1>2 DEF Uncredited, Keeps, StoredFields
<1> HIDE DEF waiting
<1>7. Uncredited(waiting, Transition(waiting, "FAILED")) /\ Credited(waiting, SetRecovered(waiting))
  BY <1>6, TransitionKeeps, SetRecoveredCredits DEF Uncredited, Keeps, Thrown
<1>8. Uncredited(x, waiting)
  BY <1>1, <1>2, <1>6, UncreditedChain
<1>9. Credited(x, SetRecovered(waiting))
  BY <1>7, <1>8 DEF Uncredited, Credited, Keeps
<1>10. /\ Uncredited(x, Transition(e, "STOPPED"))
       /\ Uncredited(x, Transition(e, "ESCALATED"))
       /\ Uncredited(x, [e EXCEPT !.status = Thrown])
       /\ Uncredited(x, Transition(waiting, "FAILED"))
  BY <1>1, <1>4, <1>5, <1>7, <1>8, UncreditedChain
<1>11. Uncredited(x, y) \/ (~live /\ Credited(x, y))
  BY <1>3, <1>8, <1>9, <1>10, Zenon
<1>12. Uncredited(x, y) => Credited(x, y)
  BY DEF Uncredited, Credited
<1> QED BY <1>11, <1>12 DEF y

\* The webhook's resolution does too.
LEMMA ResolutionCredits ==
  ASSUME NEW x, StoredFields \subseteq DOMAIN x, NEW outcome
  PROVE  Credited(x, ResolveRecoveryOutcome(x, outcome))
<1>1. Credited(x, x)
  BY DEF Credited, Keeps
<1>2. CASE outcome = "RECOVERED"
  BY <1>1, <1>2, SetRecoveredCredits DEF ResolveRecoveryOutcome
<1>3. CASE outcome # "RECOVERED"
  <2>1. Credited(x, Transition(x, outcome))
    BY <1>3, TransitionKeeps DEF Credited, Thrown
  <2> QED BY <1>1, <1>3, <2>1 DEF ResolveRecoveryOutcome
<1> QED BY <1>2, <1>3
-----------------------------------------------------------------------------
Holds(h) == pc[h] \in {"claimed", "answered"}

Calling == {h \in Handlers : pc[h] = "claimed"}

\* Every copy is of this case, and what it knows to be credited is credited.
CopiesAreOfTheCase ==
  /\ StoredFields \subseteq DOMAIN stored /\ DOMAIN read = Handlers
  /\ \A h \in Handlers :
       /\ DOMAIN read[h] = DOMAIN stored /\ read[h].amount = stored.amount
       /\ read[h].recoveredAmount = stored.amount => stored.recoveredAmount = stored.amount

\* A handler past the claim works on a copy without a link.
HoldersSawNoLink ==
  /\ pc \in [Handlers -> {"idle", "loaded", "claiming", "claimed", "answered", "done"}]
  /\ stored.razorpayLinkClaimed \in BOOLEAN
  /\ \A h \in Handlers : Holds(h) => read[h].razorpayPaymentLinkId = None

\* The links issued, and those about to be: one, and one for each overtaken claim; a
\* claim that is free leaves room for one more.  What the case names, and what a handler
\* was answered with, was issued.
LinksAreBilled ==
  /\ links \in Nat /\ overtaken \in Nat /\ IsFiniteSet(Calling)
  /\ links + Cardinality(Calling) <= 1 + overtaken
  /\ ~stored.razorpayLinkClaimed /\ stored.razorpayPaymentLinkId = None
       => links + Cardinality(Calling) <= overtaken
  /\ stored.razorpayPaymentLinkId # None => links >= 1
  /\ \A h \in Handlers : pc[h] = "answered" => links >= 1

IInv == CopiesAreOfTheCase /\ HoldersSawNoLink /\ LinksAreBilled /\ RecoveredIsCredited

LEMMA InitHolds == Init => IInv
<1> SUFFICES ASSUME Init PROVE IInv
  OBVIOUS
<1>1. /\ StoredFields \subseteq DOMAIN stored /\ stored.razorpayPaymentLinkId = None
      /\ stored.razorpayLinkClaimed = FALSE /\ stored.status # "RECOVERED"
  BY SavesAssumption DEF Init
<1>2. /\ read = [h \in Handlers |-> stored] /\ pc = [h \in Handlers |-> "idle"]
      /\ links = 0 /\ overtaken = 0
  BY DEF Init
<1>3. CopiesAreOfTheCase /\ RecoveredIsCredited
  BY <1>1, <1>2 DEF CopiesAreOfTheCase, RecoveredIsCredited
<1>4. stored.razorpayLinkClaimed \in BOOLEAN
  BY <1>1, Zenon
<1>5. HoldersSawNoLink
  BY <1>2, <1>4 DEF HoldersSawNoLink, Holds
<1>6. Calling = {} /\ IsFiniteSet({}) /\ Cardinality({}) = 0
  BY <1>2, FS_EmptySet DEF Calling
<1>7. LinksAreBilled
  BY <1>1, <1>2, <1>6 DEF LinksAreBilled
<1> QED BY <1>3, <1>5, <1>7 DEF IInv

\* One handler moves.
LEMMA CallingMoves ==
  ASSUME IInv, NEW h \in Handlers, NEW place, Goto(h, place)
  PROVE  /\ IsFiniteSet(Calling') /\ Cardinality(Calling) \in Nat
         /\ pc[h] = "claimed" /\ place # "claimed" =>
              /\ Cardinality(Calling') = Cardinality(Calling) - 1
              /\ Cardinality(Calling) >= 1
         /\ pc[h] # "claimed" /\ place = "claimed" =>
              Cardinality(Calling') = Cardinality(Calling) + 1
         /\ pc[h] # "claimed" /\ place # "claimed" => Calling' = Calling
<1>1. IsFiniteSet(Calling) /\ Cardinality(Calling) \in Nat
  BY FS_CardinalityType DEF IInv, LinksAreBilled
<1>2. \A g \in Handlers : pc'[g] = IF g = h THEN place ELSE pc[g]
  BY DEF Goto, IInv, HoldersSawNoLink
<1>3. CASE pc[h] = "claimed" /\ place # "claimed"
  <2>1. Calling' = Calling \ {h} /\ h \in Calling
    BY <1>2, <1>3 DEF Calling
  <2>2. Cardinality(Calling) # 0
    BY <1>1, <2>1, FS_EmptySet
  <2> QED BY <1>1, <1>3, <2>1, <2>2, FS_RemoveElement
<1>4. CASE pc[h] # "claimed" /\ place = "claimed"
  <2>1. Calling' = Calling \cup {h} /\ h \notin Calling
    BY <1>2, <1>4 DEF Calling
  <2> QED BY <1>1, <1>4, <2>1, FS_AddElement
<1>5. CASE pc[h] = "claimed" <=> place = "claimed"
  <2>1. Calling' = Calling
    BY <1>2, <1>5 DEF Calling
  <2> QED BY <1>1, <1>5, <2>1
<1> QED BY <1>3, <1>4, <1>5

\* The credit of the case never moves back.
CreditStays ==
  /\ DOMAIN stored' = DOMAIN stored /\ stored'.amount = stored.amount
  /\ stored.recoveredAmount = stored.amount => stored'.recoveredAmount = stored.amount
  /\ stored'.status = "RECOVERED" => stored'.recoveredAmount = stored.amount

LinkStays ==
  /\ stored'.razorpayPaymentLinkId = stored.razorpayPaymentLinkId
  /\ stored'.razorpayLinkClaimed = stored.razorpayLinkClaimed

\* save() writes the modified paths only: a stale copy takes back neither the link
\* nor the credit, and brings no uncredited recovery.
LEMMA SaveKeepsLink ==
  ASSUME IInv, NEW h \in Handlers, NEW after, Credited(read[h], after), Save(h, after)
  PROVE  CreditStays /\ LinkStays
<1> DEFINE r == read[h]
           Modified(f) == f \in ModifiedPaths(r, after)
<1>1. /\ DOMAIN r = DOMAIN stored /\ DOMAIN after = DOMAIN stored /\ r.amount = stored.amount
      /\ StoredFields \subseteq DOMAIN stored
      /\ r.recoveredAmount = stored.amount => stored.recoveredAmount = stored.amount
  BY DEF IInv, CopiesAreOfTheCase, Credited, Keeps
<1>2. \A f \in DOMAIN stored : Modified(f) <=> after[f] # r[f]
  BY <1>1 DEF ModifiedPaths
<1>3. stored' = [f \in DOMAIN stored |-> IF Modified(f) THEN after[f] ELSE stored[f]]
  BY DEF Save
<1> HIDE DEF Modified
<1>4. \A f \in DOMAIN stored : stored'[f] = IF after[f] # r[f] THEN after[f] ELSE stored[f]
  BY <1>2, <1>3
<1>5. /\ {"status", "amount", "recoveredAmount", "razorpayPaymentLinkId", "razorpayLinkClaimed"}
           \subseteq DOMAIN stored
      /\ DOMAIN stored' = DOMAIN stored
  BY <1>1, <1>3 DEF StoredFields
<1>6. /\ after["razorpayPaymentLinkId"] = r["razorpayPaymentLinkId"]
      /\ after["razorpayLinkClaimed"] = r["razorpayLinkClaimed"]
      /\ after["amount"] = r["amount"]
      /\ after["recoveredAmount"] \in {r["recoveredAmount"], r["amount"]}
      /\ after["status"] = "RECOVERED" =>
           r["status"] = "RECOVERED" \/ after["recoveredAmount"] = r["amount"]
  BY DEF Credited, Keeps
<1>7. LinkStays
  BY <1>4, <1>5, <1>6 DEF LinkStays
<1>8. stored'["amount"] = stored["amount"]
  BY <1>4, <1>5, <1>6
<1>9. /\ stored'["recoveredAmount"] =
           IF after["recoveredAmount"] # r["recoveredAmount"] THEN after["recoveredAmount"]
           ELSE stored["recoveredAmount"]
      /\ stored'["status"] =
           IF after["status"] # r["status"] THEN after["status"] ELSE stored["status"]
  BY <1>4, <1>5
<1>10. stored["status"] = "RECOVERED" => stored["recoveredAmount"] = stored["amount"]
  BY DEF IInv, RecoveredIsCredited
<1> HIDE DEF r
<1>11. CreditStays
  BY <1>1, <1>5, <1>6, <1>8, <1>9, <1>10 DEF CreditStays
<1> QED BY <1>7, <1>11

\* A step that leaves link, claim and handlers' copies alone and no credit behind
\* keeps the invariant, if it only moves a handler that is not past the claim.
LEMMA SavingKeepsIInv ==
  ASSUME IInv, NEW h \in Handlers, CreditStays, LinkStays, ~Holds(h),
         NEW place \in {"claiming", "loaded", "done"}, Goto(h, place),
         UNCHANGED <<read, links, overtaken>>
  PROVE  IInv'
<1>1. \A g \in Handlers : /\ pc'[g] = IF g = h THEN place ELSE pc[g]
                          /\ Holds(g)' <=> Holds(g)
  BY DEF IInv, HoldersSawNoLink, Holds, Goto
<1>2. CopiesAreOfTheCase'
  BY DEF IInv, CopiesAreOfTheCase, CreditStays
<1>3. HoldersSawNoLink'
  <2>1. pc' \in [Handlers -> {"idle", "loaded", "claiming", "claimed", "answered", "done"}]
    BY DEF IInv, HoldersSawNoLink, Goto
  <2> QED BY <1>1, <2>1 DEF IInv, HoldersSawNoLink, LinkStays
<1>4. LinksAreBilled'
  <2>1. Calling' = Calling
    BY CallingMoves DEF Holds
  <2> QED BY <1>1, <2>1 DEF IInv, LinksAreBilled, LinkStays, Holds
<1>5. RecoveredIsCredited'
  BY DEF CreditStays, RecoveredIsCredited
<1> QED BY <1>2, <1>3, <1>4, <1>5 DEF IInv

LEMMA UnchangedStays == IInv /\ UNCHANGED stored => CreditStays /\ LinkStays
BY DEF IInv, CreditStays, LinkStays, RecoveredIsCredited

\* What the handlers do to the case.
LEMMA LoadKeepsIInv ==
  ASSUME IInv, NEW h \in Handlers, NEW kind \in Jobs, Load(h, kind)
  PROVE  IInv'
<1>1. /\ pc[h] = "idle" /\ read' = [read EXCEPT ![h] = stored]
      /\ \E place \in {"claiming", "loaded"} : Goto(h, place)
      /\ UNCHANGED <<stored, links, overtaken>>
  BY DEF Load, claims
<1>2. \A g \in Handlers : /\ Holds(g)' <=> Holds(g) /\ (Holds(g) => g # h)
                          /\ pc'[g] = "answered" <=> pc[g] = "answered"
  BY <1>1 DEF IInv, HoldersSawNoLink, Holds, Goto
<1>3. \A g \in Handlers : read'[g] = IF g = h THEN stored ELSE read[g]
  BY <1>1 DEF IInv, CopiesAreOfTheCase
<1>4. CopiesAreOfTheCase' /\ RecoveredIsCredited'
  BY <1>1, <1>3 DEF IInv, CopiesAreOfTheCase, RecoveredIsCredited
<1>5. HoldersSawNoLink'
  <2>1. pc' \in [Handlers -> {"idle", "loaded", "claiming", "claimed", "answered", "done"}]
    BY <1>1 DEF IInv, HoldersSawNoLink, Goto
  <2> QED BY <1>1, <1>2, <1>3, <2>1 DEF IInv, HoldersSawNoLink
<1>6. Calling' = Calling
  BY <1>1, CallingMoves
<1>7. LinksAreBilled'
  BY <1>1, <1>2, <1>6 DEF IInv, LinksAreBilled
<1> QED BY <1>4, <1>5, <1>7 DEF IInv

LEMMA EvaluateStays ==
  ASSUME IInv, NEW h \in Handlers, Evaluate(h)
  PROVE  CreditStays /\ LinkStays
<1>1. PICK band \in {"HIGH", "MID"} :
        SaveUnlessThrown(h, RunEvaluationPipeline(read[h], Env, Reason, band, FALSE))
  BY DEF Evaluate
<1> DEFINE after == RunEvaluationPipeline(read[h], Env, Reason, band, FALSE)
<1>2. StoredFields \subseteq DOMAIN read[h] /\ FALSE \in BOOLEAN
  BY DEF IInv, CopiesAreOfTheCase
<1>3. Uncredited(read[h], after)
  BY <1>2, EvaluationKeeps
<1> HIDE DEF after
<1>4. Credited(read[h], after)
  BY <1>3 DEF Uncredited, Credited
<1> QED BY <1>1, <1>4, SaveKeepsLink, UnchangedStays DEF SaveUnlessThrown, after

LEMMA SimulateStays ==
  ASSUME IInv, NEW h \in Handlers, SimulateAction(h)
  PROVE  CreditStays /\ LinkStays
<1> DEFINE ok == read[h].attempts \in Draw
           after == ExecuteAction(read[h], read[h].selectedIntervention, FALSE, ok)
<1>1. SaveUnlessThrown(h, after)
  BY DEF SimulateAction
<1>2. StoredFields \subseteq DOMAIN read[h] /\ ok \in BOOLEAN /\ FALSE \in BOOLEAN
  BY DEF IInv, CopiesAreOfTheCase
<1> HIDE DEF ok
<1>3. Credited(read[h], after)
  BY <1>2, ExecutionCredits
<1> HIDE DEF after
<1> QED BY <1>1, <1>3, SaveKeepsLink, UnchangedStays DEF SaveUnlessThrown

LEMMA SessionStays ==
  ASSUME IInv, NEW h \in Handlers, VoiceSession(h)
  PROVE  CreditStays /\ LinkStays
<1> DEFINE n == read[h].voiceAttempts + 1
           after == [read[h] EXCEPT !.voiceAttempts = n]
<1>1. Save(h, after)
  BY DEF VoiceSession
<1>2. Credited(read[h], after)
  BY NotesKeep DEF Uncredited, Credited, IInv, CopiesAreOfTheCase
<1> HIDE DEF after
<1> QED BY <1>1, <1>2, SaveKeepsLink

LEMMA TurnStays ==
  ASSUME IInv, NEW h \in Handlers, NEW intent \in Intents, VoiceTurn(h, intent)
  PROVE  CreditStays /\ LinkStays
<1> DEFINE decided == RunVoiceDecisionPipeline(read[h], Env, Reason, MapVoiceIntent(intent))
           after == ExecuteAction(decided, decided.selectedIntervention, FALSE, TRUE)
<1>1. Save(h, decided) \/ SaveUnlessThrown(h, after) \/ SaveUnlessThrown(h, decided)
  BY DEF VoiceTurn
<1>2. StoredFields \subseteq DOMAIN read[h]
  BY DEF IInv, CopiesAreOfTheCase
<1>3. Uncredited(read[h], decided) /\ StoredFields \subseteq DOMAIN decided
  BY <1>2, VoiceDecisionKeeps DEF Uncredited, Keeps
<1> HIDE DEF decided
<1>4. Credited(decided, after)
  BY <1>3, ExecutionCredits
<1> HIDE DEF after
<1>5. Credited(read[h], decided) /\ Credited(read[h], after)
  BY <1>3, <1>4 DEF Uncredited, Credited, Keeps
<1> QED BY <1>1, <1>5, SaveKeepsLink, UnchangedStays DEF SaveUnlessThrown

LEMMA OutcomeStays ==
  ASSUME IInv, NEW h \in Handlers, Outcome(h)
  PROVE  CreditStays /\ LinkStays
<1> DEFINE after == ResolveRecoveryOutcome(read[h], job[h])
<1>1. Save(h, after)
  BY DEF Outcome
<1>2. Credited(read[h], after)
  BY ResolutionCredits DEF IInv, CopiesAreOfTheCase
<1> HIDE DEF after
<1> QED BY <1>1, <1>2, SaveKeepsLink

\* One save per decision, and the handler is done or goes on to the claim.
LEMMA DecidingKeepsIInv ==
  ASSUME IInv, NEW h \in Handlers,
         \/ Evaluate(h) \/ SimulateAction(h) \/ VoiceSession(h) \/ Outcome(h)
         \/ \E intent \in Intents : VoiceTurn(h, intent)
  PROVE  IInv'
<1>1. CreditStays /\ LinkStays
  BY EvaluateStays, SimulateStays, SessionStays, OutcomeStays, TurnStays
<1>2. /\ pc[h] = "loaded" /\ UNCHANGED <<read, links, overtaken>>
      /\ \E place \in {"claiming", "done"} : Goto(h, place)
  BY DEF Evaluate, SimulateAction, VoiceSession, Outcome, VoiceTurn, claims
<1> QED BY <1>1, <1>2, SavingKeepsIInv DEF Holds

LEMMA RefusedKeepsIInv ==
  ASSUME IInv, NEW h \in Handlers, ClaimRefused(h)
  PROVE  IInv'
BY UnchangedStays, SavingKeepsIInv DEF ClaimRefused, Holds, claims

\* A claim that is free, and one that is taken over, leave room for one more link.
LEMMA ClaimKeepsIInv ==
  ASSUME IInv, NEW h \in Handlers, Claim(h)
  PROVE  IInv'
<1>1. /\ pc[h] = "claiming" /\ stored.razorpayPaymentLinkId = None
      /\ stored' = [stored EXCEPT !.razorpayLinkClaimed = TRUE]
      /\ read' = [read EXCEPT ![h] = stored'] /\ Goto(h, "claimed")
      /\ links' = links
  BY DEF Claim, Claimable
<1>2. /\ DOMAIN stored' = DOMAIN stored /\ stored'.razorpayLinkClaimed = TRUE
      /\ stored'.razorpayPaymentLinkId = None /\ stored'.amount = stored.amount
      /\ stored'.recoveredAmount = stored.recoveredAmount /\ stored'.status = stored.status
  BY <1>1 DEF IInv, CopiesAreOfTheCase, StoredFields
<1>3. \A g \in Handlers : /\ read'[g] = IF g = h THEN stored' ELSE read[g]
                          /\ pc'[g] = IF g = h THEN "claimed" ELSE pc[g]
  BY <1>1 DEF IInv, CopiesAreOfTheCase, HoldersSawNoLink, Goto
<1>4. CopiesAreOfTheCase' /\ RecoveredIsCredited'
  BY <1>1, <1>2, <1>3 DEF IInv, CopiesAreOfTheCase, RecoveredIsCredited
<1>5. HoldersSawNoLink'
  <2>1. pc' \in [Handlers -> {"idle", "loaded", "claiming", "claimed", "answered", "done"}]
    BY <1>1 DEF IInv, HoldersSawNoLink, Goto
  <2>2. stored'.razorpayLinkClaimed \in BOOLEAN
    BY <1>2, Zenon
  <2> QED BY <1>2, <1>3, <2>1, <2>2 DEF IInv, HoldersSawNoLink, Holds
<1>6. /\ Cardinality(Calling') = Cardinality(Calling) + 1 /\ IsFiniteSet(Calling')
      /\ Cardinality(Calling) \in Nat
  BY <1>1, CallingMoves
<1>7. /\ links \in Nat /\ overtaken \in Nat /\ overtaken' \in {overtaken, overtaken + 1}
      /\ links + Cardinality(Calling) <= overtaken'
  <2>1. links \in Nat /\ overtaken \in Nat
    BY DEF IInv, LinksAreBilled
  <2>2. CASE stored.razorpayLinkClaimed
    <3>1. overtaken' = overtaken + 1
      BY <2>2 DEF Claim
    <3> QED BY <1>6, <2>1, <3>1 DEF IInv, LinksAreBilled
  <2>3. CASE ~stored.razorpayLinkClaimed
    <3>1. overtaken' = overtaken
      BY <2>3 DEF Claim
    <3> QED BY <1>1, <2>1, <2>3, <3>1 DEF IInv, LinksAreBilled
  <2> QED BY <2>2, <2>3
<1>8. LinksAreBilled'
  <2>1. \A g \in Handlers : pc'[g] = "answered" => links' >= 1
    BY <1>1, <1>3 DEF IInv, LinksAreBilled
  <2>2. overtaken' \in Nat /\ links' + Cardinality(Calling') <= 1 + overtaken'
    BY <1>1, <1>6, <1>7
  <2> QED BY <1>1, <1>2, <1>6, <1>7, <2>1, <2>2 DEF LinksAreBilled
<1> QED BY <1>4, <1>5, <1>8 DEF IInv

\* The call that failed makes room for the next one.
LEMMA FailureKeepsIInv ==
  ASSUME IInv, NEW h \in Handlers, RazorpayFails(h)
  PROVE  IInv'
<1>1. /\ pc[h] = "claimed"
      /\ stored' = [stored EXCEPT !.razorpayLinkClaimed = FALSE]
      /\ Goto(h, "done") /\ UNCHANGED <<read, links, overtaken>>
  BY DEF RazorpayFails
<1>2. \A g \in Handlers : pc'[g] = IF g = h THEN "done" ELSE pc[g]
  BY <1>1 DEF IInv, HoldersSawNoLink, Goto
<1>3. /\ DOMAIN stored' = DOMAIN stored /\ stored'.razorpayLinkClaimed = FALSE
      /\ stored'.amount = stored.amount
      /\ stored'.recoveredAmount = stored.recoveredAmount /\ stored'.status = stored.status
      /\ stored'.razorpayPaymentLinkId = stored.razorpayPaymentLinkId
  BY <1>1 DEF IInv, CopiesAreOfTheCase, StoredFields
<1>4. CopiesAreOfTheCase' /\ RecoveredIsCredited'
  BY <1>1, <1>3 DEF IInv, CopiesAreOfTheCase, RecoveredIsCredited
<1>5. HoldersSawNoLink'
  <2>1. pc' \in [Handlers -> {"idle", "loaded", "claiming", "claimed", "answered", "done"}]
    BY <1>1 DEF IInv, HoldersSawNoLink, Goto
  <2>2. stored'.razorpayLinkClaimed \in BOOLEAN
    BY <1>3, Zenon
  <2> QED BY <1>1, <1>2, <2>1, <2>2 DEF IInv, HoldersSawNoLink, Holds
<1>6. /\ Cardinality(Calling') = Cardinality(Calling) - 1 /\ IsFiniteSet(Calling')
      /\ Cardinality(Calling) \in Nat
  BY <1>1, CallingMoves
<1>7. LinksAreBilled'
  <2>1. links \in Nat /\ overtaken \in Nat
    BY DEF IInv, LinksAreBilled
  <2>2. links' + Cardinality(Calling') <= overtaken'
    BY <1>1, <1>6, <2>1 DEF IInv, LinksAreBilled
  <2> QED BY <1>1, <1>2, <1>3, <1>6, <2>1, <2>2 DEF IInv, LinksAreBilled
<1> QED BY <1>4, <1>5, <1>7 DEF IInv

LEMMA AnswerKeepsIInv ==
  ASSUME IInv, NEW h \in Handlers, RazorpayAnswers(h)
  PROVE  /\ IInv'
         /\ links \in Nat /\ links <= overtaken
<1>1. /\ pc[h] = "claimed" /\ links' = links + 1
      /\ Goto(h, "answered") /\ UNCHANGED <<stored, read, overtaken>>
  BY DEF RazorpayAnswers
<1>2. \A g \in Handlers : /\ pc'[g] = IF g = h THEN "answered" ELSE pc[g]
                          /\ Holds(g)' <=> Holds(g)
  BY <1>1 DEF IInv, HoldersSawNoLink, Holds, Goto
<1>3. CopiesAreOfTheCase' /\ RecoveredIsCredited'
  BY <1>1 DEF IInv, CopiesAreOfTheCase, RecoveredIsCredited
<1>4. HoldersSawNoLink'
  <2>1. pc' \in [Handlers -> {"idle", "loaded", "claiming", "claimed", "answered", "done"}]
    BY <1>1 DEF IInv, HoldersSawNoLink, Goto
  <2> QED BY <1>1, <1>2, <2>1 DEF IInv, HoldersSawNoLink
<1>5. /\ Cardinality(Calling') = Cardinality(Calling) - 1 /\ IsFiniteSet(Calling')
      /\ Cardinality(Calling) \in Nat /\ Cardinality(Calling) >= 1
  BY <1>1, CallingMoves
<1>6. links \in Nat /\ overtaken \in Nat /\ links <= overtaken
  BY <1>5 DEF IInv, LinksAreBilled
<1>7. links' + Cardinality(Calling') = links + Cardinality(Calling) /\ links' >= 1
  BY <1>1, <1>5, <1>6
<1>8. LinksAreBilled'
  BY <1>1, <1>5, <1>6, <1>7 DEF IInv, LinksAreBilled
<1> QED BY <1>3, <1>4, <1>6, <1>8 DEF IInv

\* The holder's save puts the link on the case for good.
LEMMA SaveLinkKeepsIInv ==
  ASSUME IInv, NEW h \in Handlers, SaveLink(h)
  PROVE  IInv' /\ stored'.razorpayPaymentLinkId # None
<1> DEFINE named == [read[h] EXCEPT !.razorpayPaymentLinkId = LinkId]
           after == ExecuteAction(named, "CREATE_PAYMENT_LINK", TRUE, FALSE)
<1>1. /\ pc[h] = "answered" /\ Save(h, after)
      /\ Goto(h, "done") /\ UNCHANGED <<read, links, overtaken>>
  BY DEF SaveLink, claims
<1>2. /\ StoredFields \subseteq DOMAIN stored /\ DOMAIN read[h] = DOMAIN stored
      /\ read[h].amount = stored.amount /\ read[h].razorpayPaymentLinkId = None
  BY <1>1 DEF IInv, CopiesAreOfTheCase, HoldersSawNoLink, Holds
<1>3. /\ DOMAIN named = DOMAIN stored /\ named.razorpayPaymentLinkId = LinkId
      /\ named.amount = read[h].amount /\ named.recoveredAmount = read[h].recoveredAmount
      /\ named.razorpayLinkClaimed = read[h].razorpayLinkClaimed
      /\ named.status = read[h].status
  BY <1>2 DEF StoredFields
<1> HIDE DEF named
<1>4. Uncredited(named, after)
  BY <1>2, <1>3, ExecutionCredits
<1> HIDE DEF after
<1>5. /\ DOMAIN after = DOMAIN stored
      /\ after["razorpayPaymentLinkId"] = LinkId /\ read[h]["razorpayPaymentLinkId"] # LinkId
      /\ after["razorpayLinkClaimed"] = read[h]["razorpayLinkClaimed"]
      /\ after["amount"] = read[h]["amount"]
      /\ after["recoveredAmount"] = read[h]["recoveredAmount"]
      /\ after["status"] = "RECOVERED" => read[h]["status"] = "RECOVERED"
  BY <1>2, <1>3, <1>4 DEF Uncredited, Keeps, LinkId
<1> DEFINE Modified(f) == f \in ModifiedPaths(read[h], after)
<1>6. \A f \in DOMAIN stored : Modified(f) <=> after[f] # read[h][f]
  BY <1>5 DEF ModifiedPaths
<1>7. stored' = [f \in DOMAIN stored |-> IF Modified(f) THEN after[f] ELSE stored[f]]
  BY <1>1 DEF Save
<1> HIDE DEF Modified
<1>8. /\ DOMAIN stored' = DOMAIN stored
      /\ \A f \in DOMAIN stored :
           stored'[f] = IF after[f] # read[h][f] THEN after[f] ELSE stored[f]
  BY <1>6, <1>7
<1>9. {"status", "amount", "recoveredAmount", "razorpayPaymentLinkId", "razorpayLinkClaimed"}
        \subseteq DOMAIN stored
  BY <1>2 DEF StoredFields
<1>10. /\ stored'["razorpayPaymentLinkId"] = LinkId
       /\ stored'["razorpayLinkClaimed"] = stored["razorpayLinkClaimed"]
       /\ stored'["amount"] = stored["amount"]
       /\ stored'["recoveredAmount"] = stored["recoveredAmount"]
       /\ stored'["status"] = "RECOVERED" => stored["status"] = "RECOVERED"
  BY <1>5, <1>8, <1>9
<1>11. \A g \in Handlers : pc'[g] = IF g = h THEN "done" ELSE pc[g]
  BY <1>1 DEF IInv, HoldersSawNoLink, Goto
<1>12. CopiesAreOfTheCase' /\ RecoveredIsCredited'
  BY <1>1, <1>8, <1>10 DEF IInv, CopiesAreOfTheCase, RecoveredIsCredited
<1>13. HoldersSawNoLink'
  <2>1. pc' \in [Handlers -> {"idle", "loaded", "claiming", "claimed", "answered", "done"}]
    BY <1>1 DEF IInv, HoldersSawNoLink, Goto
  <2> QED BY <1>1, <1>10, <1>11, <2>1 DEF IInv, HoldersSawNoLink, Holds
<1>14. stored'.razorpayPaymentLinkId # None
  BY <1>10 DEF LinkId
<1>15. LinksAreBilled'
  <2>1. Calling' = Calling
    BY <1>1, CallingMoves
  <2>2. links >= 1
    BY <1>1 DEF IInv, LinksAreBilled
  <2> QED BY <1>1, <1>11, <1>14, <2>1, <2>2 DEF IInv, LinksAreBilled
<1> QED BY <1>12, <1>13, <1>14, <1>15 DEF IInv

\* The claim gets old, the link ends.
LEMMA TimeKeepsIInv ==
  ASSUME IInv, UNCHANGED <<stored, pc, read, links, overtaken>>
  PROVE  IInv'
BY DEF IInv, CopiesAreOfTheCase, HoldersSawNoLink, Holds, LinksAreBilled, Calling,
       RecoveredIsCredited

LEMMA NextKeepsIInv == IInv /\ [Next]_vars => IInv'
<1> SUFFICES ASSUME IInv, [Next]_vars PROVE IInv'
  OBVIOUS
<1>1. CASE Next
  <2>1. ClaimExpires \/ (\E how \in {"RECOVERED", "FAILED"} : LinkCloses(how)) => IInv'
    BY TimeKeepsIInv DEF ClaimExpires, LinkCloses, claims
  <2> QED BY <1>1, <2>1, LoadKeepsIInv, DecidingKeepsIInv, RefusedKeepsIInv, ClaimKeepsIInv,
             FailureKeepsIInv, AnswerKeepsIInv, SaveLinkKeepsIInv DEF Next
<1>2. CASE UNCHANGED vars
  BY <1>2, TimeKeepsIInv DEF vars, claims
<1> QED BY <1>1, <1>2

LEMMA AlwaysIInv == Spec => []IInv
BY InitHolds, NextKeepsIInv, PTL DEF Spec
-----------------------------------------------------------------------------
\* pipeline/tools.js, the atomic claim: for any number and kind of handlers, each with
\* a copy of any age, the links issued for the case are at most one more than the claims
\* that were taken over after their TTL.
THEOREM LinksCountedWhateverInterleaves == Spec => []LinksAreCounted
<1>1. IInv => LinksAreCounted
  <2>1. IInv => Cardinality(Calling) \in Nat
    BY FS_CardinalityType DEF IInv, LinksAreBilled
  <2> QED BY <2>1 DEF IInv, LinksAreBilled, LinksAreCounted
<1> QED BY <1>1, AlwaysIInv, PTL

\* Fields of several handlers mix in the stored case, but a recovered one has its amount.
THEOREM RecoveredCasesAreCredited == Spec => []RecoveredIsCredited
<1>1. IInv => RecoveredIsCredited
  BY DEF IInv
<1> QED BY <1>1, AlwaysIInv, PTL

\* LinkOnce sees the answer of Razorpay, the save that follows it and the claims that
\* are taken over, and nothing else.
Seen == <<links, IF stored.razorpayPaymentLinkId = None THEN 0 ELSE 1, overtaken>>

LEMMA HandlersImplementLinkOnce == IInv /\ [Next]_vars => [Once!Next]_Seen
<1> SUFFICES ASSUME IInv, [Next]_vars PROVE [Once!Next]_Seen
  OBVIOUS
<1>1. ASSUME UNCHANGED <<links, overtaken>>,
             stored'.razorpayPaymentLinkId = stored.razorpayPaymentLinkId
      PROVE  UNCHANGED Seen
  BY <1>1 DEF Seen
<1>2. ASSUME NEW h \in Handlers,
             \/ Evaluate(h) \/ SimulateAction(h) \/ VoiceSession(h) \/ Outcome(h)
             \/ \E intent \in Intents : VoiceTurn(h, intent)
      PROVE  UNCHANGED Seen
  <2>1. LinkStays
    BY <1>2, EvaluateStays, SimulateStays, SessionStays, OutcomeStays, TurnStays
  <2>2. UNCHANGED <<links, overtaken>>
    BY <1>2 DEF Evaluate, SimulateAction, VoiceSession, Outcome, VoiceTurn, claims
  <2> QED BY <1>1, <2>1, <2>2 DEF LinkStays
<1>3. ASSUME NEW h \in Handlers, Claim(h) PROVE [Once!Next]_Seen
  <2>1. links' = links /\ stored'.razorpayPaymentLinkId = stored.razorpayPaymentLinkId
    BY <1>3 DEF Claim, IInv, CopiesAreOfTheCase, StoredFields
  <2>2. CASE overtaken' = overtaken
    BY <1>1, <2>1, <2>2
  <2>3. CASE overtaken' = overtaken + 1
    BY <2>1, <2>3 DEF Once!Next, Once!Mishap
  <2> QED BY <1>3, <2>2, <2>3 DEF Claim
<1>4. ASSUME NEW h \in Handlers, RazorpayFails(h) PROVE UNCHANGED Seen
  BY <1>1, <1>4 DEF RazorpayFails, IInv, CopiesAreOfTheCase, StoredFields
<1>5. ASSUME NEW h \in Handlers, RazorpayAnswers(h) PROVE Once!Issue
  <2>1. links <= overtaken /\ links' = links + 1 /\ UNCHANGED <<stored, overtaken>>
    BY <1>5, AnswerKeepsIInv DEF RazorpayAnswers
  <2> QED BY <2>1 DEF Once!Issue, Once!Issues
<1>6. ASSUME NEW h \in Handlers, SaveLink(h) PROVE Once!Name
  <2>1. links \in Nat /\ links >= 1 /\ UNCHANGED <<links, overtaken>>
    BY <1>6 DEF SaveLink, claims, IInv, LinksAreBilled
  <2>2. stored'.razorpayPaymentLinkId # None
    BY <1>6, SaveLinkKeepsIInv
  <2> QED BY <2>1, <2>2 DEF Once!Name
<1>7. ASSUME NEW h \in Handlers, (\E kind \in Jobs : Load(h, kind)) \/ ClaimRefused(h)
      PROVE  UNCHANGED Seen
  BY <1>7 DEF Load, ClaimRefused, claims, Seen
<1>8. ClaimExpires \/ (\E how \in {"RECOVERED", "FAILED"} : LinkCloses(how)) \/ UNCHANGED vars
        => UNCHANGED Seen
  BY DEF ClaimExpires, LinkCloses, vars, claims, Seen
<1>9. Once!Issue \/ Once!Name => Once!Next
  BY DEF Once!Next
<1> QED BY <1>2, <1>3, <1>4, <1>5, <1>6, <1>7, <1>8, <1>9 DEF Next

\* CaseSaves implements LinkOnce: for any number and kind of handlers, with copies of any
\* age, a link more than the first is issued only after a claim was taken over, and the
\* case names links that were issued and never none again.
THEOREM SavesImplementLinkOnce == Spec => ImplementsLinkOnce
<1>1. Init => Once!Init
  BY SavesAssumption DEF Init, Once!Init
<1> QED BY <1>1, HandlersImplementLinkOnce, AlwaysIInv, PTL
       DEF Spec, ImplementsLinkOnce, Once!Spec, Seen

\* No stale save takes a saved link away.
THEOREM LinksStaySaved == Spec => SavedLinkStays
<1>1. IInv /\ [Next]_vars
        => [stored.razorpayPaymentLinkId # None => stored'.razorpayPaymentLinkId # None]_vars
  <2> SUFFICES ASSUME IInv, [Next]_vars, stored.razorpayPaymentLinkId # None
               PROVE  stored'.razorpayPaymentLinkId # None
    OBVIOUS
  <2> DEFINE before == IF stored.razorpayPaymentLinkId = None THEN 0 ELSE 1
             after == IF stored'.razorpayPaymentLinkId = None THEN 0 ELSE 1
  <2>1. before = 1
    OBVIOUS
  <2>2. after = before \/ after \in 1 .. links
    BY HandlersImplementLinkOnce DEF Once!Next, Once!Issue, Once!Mishap, Once!Name, Seen
  <2>3. after # 0
    BY <2>1, <2>2
  <2> QED BY <2>3
<1> QED BY <1>1, AlwaysIInv, PTL DEF Spec, SavedLinkStays
=============================================================================
