----------------------- MODULE WebhookDeliveryProofs -----------------------
(***************************************************************************)
(* For any links, events, deliveries, crashes and failing saves: what a    *)
(* case says of its outcome is what became of the link it names, it stays, *)
(* and its amount is credited once.                                        *)
(***************************************************************************)
EXTENDS WebhookDelivery, TLAPS

USE DEF None

\* A case is out of POLICY_APPROVED exactly when it names its link.
LinkIsAwaited ==
  /\ linkId \in {None, Named}
  /\ status = "POLICY_APPROVED" <=> linkId = None

\* The status, the amount and what became of the named link agree.
OutcomeAgrees ==
  /\ recovered = IF status = "RECOVERED" THEN 1 ELSE 0
  /\ status = "RECOVERED" => closed[Named] = "paid"
  /\ status = "FAILED" => closed[Named] \in {"expired", "cancelled"}

\* A delivery is of an event of a closed link, and past the cross-check that link is
\* the one the case names, which it will be for good: so whatever copy of the case a
\* delivery holds, it can only write the outcome another one has written.
DeliveriesAreGenuine ==
  \A h \in Handlers :
    /\ pc[h] # "idle" => event[h] \in Events /\ closed[About[event[h]]] \in Outcomes
    /\ pc[h] = "verified" => linkId = Named /\ About[event[h]] = Named

IInv == TypeOK /\ LinkIsAwaited /\ OutcomeAgrees /\ DeliveriesAreGenuine

LEMMA InitHolds == Init => IInv
BY WebhookAssumption
DEF Init, IInv, TypeOK, CaseStatuses, LinkIsAwaited, OutcomeAgrees, DeliveriesAreGenuine

\* The creating request saves the link once.
LEMMA SaveLinkKeepsIInv == IInv /\ SaveLink => IInv'
<1> SUFFICES ASSUME IInv, SaveLink PROVE IInv'
  OBVIOUS
<1> USE WebhookAssumption DEF IInv, SaveLink, razorpay, delivery
<1>1. TypeOK'
  BY DEF TypeOK, CaseStatuses
<1>2. LinkIsAwaited' /\ OutcomeAgrees' /\ DeliveriesAreGenuine'
  BY DEF LinkIsAwaited, OutcomeAgrees, DeliveriesAreGenuine
<1> QED BY <1>1, <1>2

\* A link closes once.
LEMMA CloseLinkKeepsIInv ==
  ASSUME IInv, NEW l \in Links, NEW how \in Outcomes, CloseLink(l, how)
  PROVE  IInv'
<1>1. /\ closed[l] = None /\ closed' = [closed EXCEPT ![l] = how]
      /\ UNCHANGED <<status, amount, linkId, recovered, acked, events, pc, event, doc, crashes>>
  BY DEF CloseLink, case, delivery
<1>2. TypeOK'
  BY <1>1 DEF IInv, TypeOK
<1>3. \A m \in Links : closed[m] # None => closed'[m] = closed[m]
  BY <1>1 DEF IInv, TypeOK
<1>4. LinkIsAwaited' /\ OutcomeAgrees'
  BY <1>1, <1>3, WebhookAssumption DEF IInv, LinkIsAwaited, OutcomeAgrees
<1>5. DeliveriesAreGenuine'
  BY <1>1, <1>3, WebhookAssumption DEF IInv, DeliveriesAreGenuine, Outcomes
<1> QED BY <1>2, <1>4, <1>5 DEF IInv

LEMMA DuplicateKeepsIInv ==
  ASSUME IInv, NEW e \in Events, Duplicate(e)
  PROVE  IInv'
BY DEF IInv, TypeOK, LinkIsAwaited, OutcomeAgrees, DeliveriesAreGenuine, Duplicate, case, delivery

\* Resolve writes the outcome of the named link, whatever the delivery had read.
LEMMA ResolveWritesOutcome ==
  ASSUME IInv, NEW h \in Handlers, Resolve(h)
  PROVE  /\ event[h] \in Events /\ linkId = Named /\ closed[Named] \in Outcomes
         /\ status' = HandledEvents[closed[Named]]
         /\ recovered' = IF status' = "RECOVERED" THEN 1 ELSE 0
         /\ status \in {"RECOVERED", "FAILED"} => status' = status
<1>1. event[h] \in Events /\ linkId = Named /\ closed[Named] \in Outcomes
      /\ About[event[h]] = Named
  BY DEF IInv, DeliveriesAreGenuine, Resolve
<1>2. status' = HandledEvents[closed[Named]]
      /\ recovered' = IF status' = "RECOVERED" THEN 1 ELSE recovered
  BY <1>1 DEF Resolve
<1>3. HandledEvents["paid"] = "RECOVERED" /\ HandledEvents["expired"] = "FAILED"
      /\ HandledEvents["cancelled"] = "FAILED"
  BY DEF HandledEvents
<1>4. status \in {"RECOVERED", "FAILED"} => status' = status
  BY <1>1, <1>2, <1>3 DEF IInv, OutcomeAgrees
<1>5. recovered' = IF status' = "RECOVERED" THEN 1 ELSE 0
  BY <1>2, <1>4 DEF IInv, OutcomeAgrees
<1> QED BY <1>1, <1>2, <1>4, <1>5

LEMMA HandleKeepsIInv ==
  ASSUME IInv, NEW h \in Handlers, Handle(h)
  PROVE  IInv'
<1>1. /\ pc[h] # "idle" /\ event[h] \in Events
      /\ UNCHANGED <<amount, linkId, closed, event, crashes>>
  BY DEF IInv, DeliveriesAreGenuine, Handle, RejectMismatch, Verify, Resolve, AlreadyResolved,
         ResolveFails, case, razorpay
<1>2. CASE Resolve(h)
  <2>1. /\ closed[Named] \in Outcomes
        /\ status' = HandledEvents[closed[Named]]
        /\ recovered' = IF status' = "RECOVERED" THEN 1 ELSE 0
    BY <1>2, ResolveWritesOutcome
  <2>2. /\ status' \in {"RECOVERED", "FAILED"}
        /\ status' = "RECOVERED" <=> closed[Named] = "paid"
    BY <2>1 DEF HandledEvents, Outcomes
  <2>3. /\ pc' = [pc EXCEPT ![h] = "idle"] /\ acked' = acked \cup {event[h]}
        /\ events' = [events EXCEPT ![event[h]] = "PROCESSED"] /\ doc' = doc
        /\ linkId = Named
    BY <1>2, ResolveWritesOutcome DEF Resolve, Answer, Goto
  <2>4. TypeOK'
    BY <1>1, <2>1, <2>2, <2>3 DEF IInv, TypeOK, CaseStatuses
  <2>5. LinkIsAwaited' /\ OutcomeAgrees'
    BY <1>1, <2>1, <2>2, <2>3, WebhookAssumption DEF LinkIsAwaited, OutcomeAgrees, Outcomes
  <2>6. DeliveriesAreGenuine'
    BY <1>1, <2>3 DEF IInv, TypeOK, DeliveriesAreGenuine
  <2> QED BY <2>4, <2>5, <2>6 DEF IInv
<1>3. CASE Verify(h)
  <2>1. /\ pc' = [pc EXCEPT ![h] = "verified"] /\ doc' = [doc EXCEPT ![h] = status]
        /\ linkId = About[event[h]]
        /\ UNCHANGED <<status, amount, recovered, acked, events>>
    BY <1>3 DEF Verify, Goto, CrossCheck, case, razorpay
  <2>2. linkId = Named
    BY <1>1, <2>1, WebhookAssumption DEF IInv, LinkIsAwaited
  <2>3. TypeOK'
    BY <1>1, <2>1 DEF IInv, TypeOK
  <2>4. LinkIsAwaited' /\ OutcomeAgrees'
    BY <1>1, <2>1 DEF IInv, LinkIsAwaited, OutcomeAgrees
  <2>5. DeliveriesAreGenuine'
    BY <1>1, <2>1, <2>2 DEF IInv, TypeOK, DeliveriesAreGenuine
  <2> QED BY <2>3, <2>4, <2>5 DEF IInv
<1>4. CASE RejectMismatch(h) \/ AlreadyResolved(h) \/ ResolveFails(h)
  <2>1. /\ pc' = [pc EXCEPT ![h] = "idle"] /\ acked' = acked \cup {event[h]}
        /\ \E s \in {"PROCESSED", "FAILED"} : events' = [events EXCEPT ![event[h]] = s]
        /\ UNCHANGED <<status, amount, recovered, doc>>
    BY <1>4 DEF RejectMismatch, AlreadyResolved, ResolveFails, Answer, Goto, case
  <2>2. TypeOK'
    BY <1>1, <2>1 DEF IInv, TypeOK
  <2>3. LinkIsAwaited' /\ OutcomeAgrees'
    BY <1>1, <2>1 DEF IInv, LinkIsAwaited, OutcomeAgrees
  <2>4. DeliveriesAreGenuine'
    BY <1>1, <2>1 DEF IInv, TypeOK, DeliveriesAreGenuine
  <2> QED BY <2>2, <2>3, <2>4 DEF IInv
<1> QED BY <1>2, <1>3, <1>4 DEF Handle

LEMMA ReceiveKeepsIInv ==
  ASSUME IInv, NEW h \in Handlers, NEW e \in Events, Receive(h, e)
  PROVE  IInv'
<1>1. /\ closed[About[e]] # None
      /\ events' = [events EXCEPT ![e] = "RECEIVED"] /\ event' = [event EXCEPT ![h] = e]
      /\ pc' = [pc EXCEPT ![h] = "recorded"]
      /\ UNCHANGED <<status, amount, linkId, recovered, closed, acked, doc, crashes>>
  BY DEF Receive, Delivered, Goto, case, razorpay
<1>2. closed[About[e]] \in Outcomes
  BY <1>1, WebhookAssumption DEF IInv, TypeOK
<1>3. TypeOK'
  BY <1>1 DEF IInv, TypeOK
<1>4. LinkIsAwaited' /\ OutcomeAgrees'
  BY <1>1 DEF IInv, LinkIsAwaited, OutcomeAgrees
<1>5. DeliveriesAreGenuine'
  BY <1>1, <1>2 DEF IInv, TypeOK, DeliveriesAreGenuine
<1> QED BY <1>3, <1>4, <1>5 DEF IInv

LEMMA CrashKeepsIInv ==
  ASSUME IInv, NEW h \in Handlers, Crash(h)
  PROVE  IInv'
<1>1. /\ pc' = [pc EXCEPT ![h] = "idle"] /\ crashes' = crashes + 1
      /\ UNCHANGED <<status, amount, linkId, recovered, closed, acked, events, event, doc>>
  BY DEF Crash, Goto, case, razorpay
<1> QED BY <1>1
  DEF IInv, TypeOK, LinkIsAwaited, OutcomeAgrees, DeliveriesAreGenuine

LEMMA NextKeepsIInv == IInv /\ [Next]_vars => IInv'
<1> SUFFICES ASSUME IInv, [Next]_vars PROVE IInv'
  OBVIOUS
<1>1. CASE UNCHANGED vars
  BY <1>1 DEF IInv, TypeOK, LinkIsAwaited, OutcomeAgrees, DeliveriesAreGenuine, vars, case,
              razorpay, delivery
<1>2. CASE Next
  BY <1>2, SaveLinkKeepsIInv, CloseLinkKeepsIInv, DuplicateKeepsIInv, HandleKeepsIInv,
     CrashKeepsIInv, ReceiveKeepsIInv
  DEF Next
<1> QED BY <1>1, <1>2

LEMMA AlwaysIInv == Spec => []IInv
BY InitHolds, NextKeepsIInv, PTL DEF Spec

\* Only Resolve and SaveLink write the case.
LEMMA CaseWriters ==
  ASSUME [Next]_vars
  PROVE  UNCHANGED case \/ SaveLink \/ \E h \in Handlers : Resolve(h)
BY DEF Next, vars, CloseLink, Duplicate, Handle, RejectMismatch, Verify, AlreadyResolved,
       ResolveFails, Crash, Receive
-----------------------------------------------------------------------------
\* routes/webhooks.js, the cross-check: revenue is never fabricated, whichever of the
\* case's links its events are about.
THEOREM OutcomesAreTrue == Spec => []OutcomeIsTrue
<1>1. IInv => OutcomeIsTrue
  BY WebhookAssumption DEF IInv, LinkIsAwaited, OutcomeAgrees, OutcomeIsTrue
<1> QED BY <1>1, AlwaysIInv, PTL

\* No delivery still in progress rewrites an outcome.
THEOREM OutcomesAreFinal == Spec => OutcomeIsFinal
<1>1. ASSUME IInv, [Next]_vars, status \in {"RECOVERED", "FAILED"}
      PROVE  status' = status
  <2>1. CASE UNCHANGED case
    BY <2>1 DEF case
  <2>2. CASE SaveLink
    BY <1>1, <2>2 DEF SaveLink, IInv, LinkIsAwaited
  <2>3. CASE \E h \in Handlers : Resolve(h)
    BY <1>1, <2>3, ResolveWritesOutcome
  <2> QED BY <1>1, <2>1, <2>2, <2>3, CaseWriters
<1>2. IInv /\ [Next]_vars => [(status \in {"RECOVERED", "FAILED"}) => status' = status]_vars
  BY <1>1
<1> QED BY <1>2, AlwaysIInv, PTL DEF Spec, OutcomeIsFinal

\* routes/webhooks.js refines RevenueLedger: out-of-order, overlapping and repeated
\* deliveries credit the amount at most once, after a payment, for good.
THEOREM WebhookImplementsLedger == Spec => ImplementsRevenueLedger
<1> DEFINE Paid == \E l \in Links : closed[l] = "paid"
<1>1. Init => Ledger!Init
  BY WebhookAssumption DEF Init, Ledger!Init
<1>2. ASSUME IInv, IInv', [Next]_vars
      PROVE  [Ledger!Next]_<<Paid, recovered>>
  <2>1. CASE \E h \in Handlers : Resolve(h)
    <3>1. PICK h \in Handlers : Resolve(h)
      BY <2>1
    <3>2. closed' = closed
      BY <3>1 DEF Resolve
    <3>3. recovered = IF status = "RECOVERED" THEN 1 ELSE 0
      BY <1>2 DEF IInv, OutcomeAgrees
    <3>4. /\ recovered' = IF status' = "RECOVERED" THEN 1 ELSE 0
          /\ status = "RECOVERED" => status' = status
      BY <1>2, <3>1, ResolveWritesOutcome
    <3>5. status' = "RECOVERED" => Paid
      BY <1>2, <3>2, WebhookAssumption DEF IInv, OutcomeAgrees
    <3>6. CASE recovered' = recovered
      BY <3>2, <3>6
    <3>7. CASE recovered = 0 /\ recovered' = 1
      BY <3>2, <3>4, <3>5, <3>7 DEF Ledger!Next, Ledger!Credit
    <3> QED BY <3>3, <3>4, <3>6, <3>7
  <2>2. CASE recovered' = recovered
    <3>1. Paid \in BOOLEAN /\ Paid' \in BOOLEAN
      OBVIOUS
    <3>2. Paid => Paid'
      <4> SUFFICES ASSUME NEW l \in Links, closed[l] = "paid" PROVE closed'[l] = "paid"
        OBVIOUS
      <4>1. CASE closed' = closed
        BY <4>1
      <4>2. CASE \E m \in Links, how \in Outcomes : CloseLink(m, how)
        BY <1>2, <4>2 DEF IInv, TypeOK, CloseLink
      <4> QED BY <1>2, <4>1, <4>2
        DEF Next, vars, razorpay, SaveLink, Duplicate, Handle, RejectMismatch, Verify, Resolve,
            AlreadyResolved, ResolveFails, Crash, Receive
    <3>3. CASE Paid' = Paid
      BY <2>2, <3>3
    <3>4. CASE Paid'
      BY <2>2, <3>4, Zenon DEF Ledger!Next, Ledger!Pay
    <3> QED BY <3>1, <3>2, <3>3, <3>4
  <2>3. recovered' = recovered \/ \E h \in Handlers : Resolve(h)
    BY <1>2, CaseWriters DEF case, SaveLink
  <2> QED BY <2>1, <2>2, <2>3
<1>3. IInv /\ IInv' /\ [Next]_vars => [Ledger!Next]_<<Paid, recovered>>
  BY <1>2
<1> QED BY <1>1, <1>3, AlwaysIInv, PTL DEF Spec, Ledger!Spec, ImplementsRevenueLedger

\* The stored case, the events and the deliveries stay of their types.
THEOREM TypeCorrect == Spec => []TypeOK
<1>1. IInv => TypeOK
  BY DEF IInv
<1> QED BY <1>1, AlwaysIInv, PTL
=============================================================================
