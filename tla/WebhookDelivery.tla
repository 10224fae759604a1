-------------------------- MODULE WebhookDelivery --------------------------
(***************************************************************************)
(* The outcome of a payment link on its way into the case: Razorpay closes *)
(* a link and delivers the event at least once, perhaps as two events with *)
(* ids of their own, the platform webhook handles deliveries concurrently  *)
(* (POST /api/webhooks/razorpay, await by await), and the request that     *)
(* created the link may still have to save it.  A case can have a second   *)
(* link at Razorpay, left behind by a request that died before it saved    *)
(* (module PaymentLink).                                                   *)
(***************************************************************************)
EXTENDS Naturals, FiniteSets

CONSTANTS
  Links,         \* links Razorpay has issued for the case
  Amounts,       \* what the case may be about, in paise
  Named,         \* the one whose id the creating request saves on the case
  Events,        \* the ids of the events that may report how a link ended
  About,         \* the link each of them is about
  Handlers,      \* deliveries in progress at a time
  PaysAfterSave, \* whether a link can only close once the case names it
  SavesFail,     \* whether the save of a case may fail (database error)
  MaxCrashes     \* bound on the deliveries that die half-way

None == "NONE"

ASSUME WebhookAssumption ==
  /\ Named \in Links /\ None \notin Links
  /\ Amounts \subseteq Nat
  /\ About \in [Events -> Links]
  /\ PaysAfterSave \in BOOLEAN /\ SavesFail \in BOOLEAN /\ MaxCrashes \in Nat

Outcomes == {"paid", "expired", "cancelled"}

HandledEvents == [paid |-> "RECOVERED", expired |-> "FAILED", cancelled |-> "FAILED"]

VARIABLES
  status,    \* the stored case: status
  amount,    \* the stored case: amount, in paise; its links are over this amount
  linkId,    \* the stored case: razorpayPaymentLinkId
  recovered, \* the stored case: recoveredAmount, in multiples of its amount
  closed,    \* Razorpay: how each link ended, None while it is open
  acked,     \* Razorpay: the events answered with a 200
  events,    \* webhook_events: the status of each event, None if it is not there
  pc,        \* where each delivery is
  event,     \* the event it handles
  doc,       \* the case status it has read
  crashes

case == <<status, amount, linkId, recovered>>
razorpay == <<closed, acked>>
delivery == <<pc, event, doc>>
vars == <<case, razorpay, events, delivery, crashes>>

CaseStatuses == {"POLICY_APPROVED", "WAITING_OUTCOME", "RECOVERED", "FAILED"}

TypeOK ==
  /\ status \in CaseStatuses
  /\ amount \in Amounts
  /\ linkId \in Links \cup {None}
  /\ recovered \in Nat
  /\ closed \in [Links -> Outcomes \cup {None}]
  /\ acked \subseteq Events
  /\ events \in [Events -> {None, "RECEIVED", "PROCESSED", "FAILED"}]
  /\ pc \in [Handlers -> {"idle", "recorded", "verified"}]
  /\ event \in [Handlers -> Events \cup {None}]
  /\ doc \in [Handlers -> CaseStatuses]
  /\ crashes \in Nat

Init ==
  /\ status = "POLICY_APPROVED"
  /\ amount \in Amounts
  /\ linkId = None
  /\ recovered = 0
  /\ closed = [l \in Links |-> None]
  /\ acked = {}
  /\ events = [e \in Events |-> None]
  /\ pc = [h \in Handlers |-> "idle"]
  /\ event = [h \in Handlers |-> None]
  /\ doc = [h \in Handlers |-> "POLICY_APPROVED"]
  /\ crashes = 0

\* The request that holds the claim saves the link and WAITING_OUTCOME.
SaveLink ==
  /\ linkId = None
  /\ linkId' = Named /\ status' = "WAITING_OUTCOME"
  /\ UNCHANGED <<amount, recovered, razorpay, events, delivery, crashes>>

\* Razorpay: the customer pays a link, or it ends without payment.
CloseLink(l, how) ==
  /\ closed[l] = None
  /\ PaysAfterSave => linkId # None
  /\ closed' = [closed EXCEPT ![l] = how]
  /\ UNCHANGED <<case, acked, events, delivery, crashes>>
-----------------------------------------------------------------------------
Goto(h, place) == pc' = [pc EXCEPT ![h] = place]

\* The response: Razorpay stops delivering an event it got a 200 for.
Answer(h) == acked' = acked \cup {event[h]} /\ Goto(h, "idle")

\* A delivery of an event, which may overlap another delivery of the same one.
Delivered(e) == closed[About[e]] # None /\ e \notin acked

\* The insert into webhook_events is refused for an event that is there already.
AlreadyRecorded(e) == events[e] # None

Receive(h, e) ==
  /\ pc[h] = "idle" /\ Delivered(e) /\ ~AlreadyRecorded(e)
  /\ events' = [events EXCEPT ![e] = "RECEIVED"]
  /\ event' = [event EXCEPT ![h] = e]
  /\ Goto(h, "recorded")
  /\ UNCHANGED <<case, razorpay, doc, crashes>>

Duplicate(e) ==
  /\ Delivered(e) /\ AlreadyRecorded(e)
  /\ acked' = acked \cup {e}
  /\ UNCHANGED <<case, closed, events, delivery, crashes>>

\* The amount of the event, converted back, is a whole number of rupees, and has to be
\* that of the case; the currency is the one the link was created with.
Rupees(paise) == (paise + 50) \div 100

AmountMatches == amount = 100 * Rupees(amount)

\* The case is found by reference_id, whichever of its links the event is about;
\* the link id has to be the one on the case.
CrossCheckReferenceOnly(e) == AmountMatches

CrossCheck(e) == linkId = About[e] /\ AmountMatches

RejectMismatch(h) ==
  /\ pc[h] = "recorded" /\ ~CrossCheck(event[h])
  /\ events' = [events EXCEPT ![event[h]] = "FAILED"]
  /\ Answer(h)
  /\ UNCHANGED <<case, closed, event, doc, crashes>>

Verify(h) ==
  /\ pc[h] = "recorded" /\ CrossCheck(event[h])
  /\ doc' = [doc EXCEPT ![h] = status]
  /\ Goto(h, "verified")
  /\ UNCHANGED <<case, razorpay, events, event, crashes>>

ResolveUnsaved(h) ==
  /\ pc[h] = "verified" /\ doc[h] = "WAITING_OUTCOME"
  /\ events' = [events EXCEPT ![event[h]] = "PROCESSED"]
  /\ Answer(h)
  /\ UNCHANGED <<case, closed, event, doc, crashes>>

ResolveAdds(h) ==
  /\ pc[h] = "verified" /\ doc[h] = "WAITING_OUTCOME"
  /\ status' = HandledEvents[closed[About[event[h]]]]
  /\ recovered' = IF status' = "RECOVERED" THEN recovered + 1 ELSE recovered
  /\ events' = [events EXCEPT ![event[h]] = "PROCESSED"]
  /\ Answer(h)
  /\ UNCHANGED <<amount, linkId, closed, event, doc, crashes>>

\* resolveRecoveryOutcome on the document read before, and its save: the amount is
\* set, so the save of a second delivery that read the same document adds nothing.
Resolve(h) ==
  /\ pc[h] = "verified" /\ doc[h] = "WAITING_OUTCOME"
  /\ status' = HandledEvents[closed[About[event[h]]]]
  /\ recovered' = IF status' = "RECOVERED" THEN 1 ELSE recovered
  /\ events' = [events EXCEPT ![event[h]] = "PROCESSED"]
  /\ Answer(h)
  /\ UNCHANGED <<amount, linkId, closed, event, doc, crashes>>

\* resolveRecoveryOutcome applies nothing: another event has resolved the case.
AlreadyResolved(h) ==
  /\ pc[h] = "verified" /\ doc[h] # "WAITING_OUTCOME"
  /\ events' = [events EXCEPT ![event[h]] = "PROCESSED"]
  /\ Answer(h)
  /\ UNCHANGED <<case, closed, event, doc, crashes>>

\* The save throws: the event is marked FAILED and acknowledged all the same.
ResolveFails(h) ==
  /\ SavesFail
  /\ pc[h] = "verified" /\ doc[h] = "WAITING_OUTCOME"
  /\ events' = [events EXCEPT ![event[h]] = "FAILED"]
  /\ Answer(h)
  /\ UNCHANGED <<case, closed, event, doc, crashes>>

\* The process dies before it answers; Razorpay will deliver again.
Crash(h) ==
  /\ pc[h] # "idle" /\ crashes < MaxCrashes
  /\ crashes' = crashes + 1
  /\ Goto(h, "idle")
  /\ UNCHANGED <<case, razorpay, events, event, doc>>

Handle(h) ==
  \/ RejectMismatch(h) \/ Verify(h) \/ Resolve(h) \/ AlreadyResolved(h) \/ ResolveFails(h)

Next ==
  \/ SaveLink
  \/ \E l \in Links, how \in Outcomes : CloseLink(l, how)
  \/ \E e \in Events : Duplicate(e)
  \/ \E h \in Handlers : \/ Handle(h) \/ Crash(h)
                         \/ \E e \in Events : Receive(h, e)

Spec == Init /\ [][Next]_vars

\* The link is saved, a delivery that was begun goes on, and Razorpay delivers an
\* event until it is acknowledged.
FairSpec ==
  /\ Spec
  /\ WF_vars(SaveLink)
  /\ \A h \in Handlers : WF_vars(Handle(h))
  /\ \A e \in Events : WF_vars(\E h \in Handlers : Receive(h, e)) /\ WF_vars(Duplicate(e))
-----------------------------------------------------------------------------
\* Revenue is never fabricated: a case counts as recovered only if the very link
\* it names was paid, however many links it has at Razorpay and however their
\* events are delivered, and a case that shows FAILED was not paid through it.
OutcomeIsTrue ==
  /\ recovered > 0 => linkId # None /\ closed[linkId] = "paid"
  /\ status = "FAILED" => closed[linkId] \in {"expired", "cancelled"}

\* An outcome is final: whatever deliveries are still in progress with an older
\* copy of the case, a case that was resolved keeps its status.
OutcomeIsFinal == [][(status \in {"RECOVERED", "FAILED"}) => status' = status]_vars

Ledger == INSTANCE RevenueLedger
            WITH paid <- \E l \in Links : closed[l] = "paid", revenue <- recovered

\* ARCHITECTURE.md: out-of-order or duplicate delivery can never credit revenue
\* twice: the amount of the case appears once, after a payment, and stays.
ImplementsRevenueLedger == Ledger!Spec

\* ARCHITECTURE.md: payment_link.paid resolves the case to RECOVERED.  A paid link
\* that the case names ends in a recovered case.
PaidIsCredited ==
  (linkId # None /\ closed[Named] = "paid") ~> recovered = 1

\* And where it does not, something is left to see it by: a delivery died, or an
\* event about the link is stored as FAILED (it came before the link was saved, the
\* amount is not a whole number of rupees, or the save of the case failed).
PaidIsCreditedOrRecorded ==
  (linkId # None /\ closed[Named] = "paid") ~>
    \/ recovered = 1
    \/ crashes > 0
    \/ \E e \in Events : About[e] = Named /\ events[e] = "FAILED"
=============================================================================
