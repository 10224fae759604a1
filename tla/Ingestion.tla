----------------------------- MODULE Ingestion -----------------------------
(***************************************************************************)
(* One failed payment becomes a customer, a payment, a case and an item of *)
(* the recovery plan: ingestPaymentFailure, await by await, for the        *)
(* requests that run it together - the signed merchant webhook             *)
(* (POST /api/webhooks/razorpay/inbound/:webhookId, once the delivery is   *)
(* accepted) and the demo trigger (POST /api/demo/payment-failure).  Any   *)
(* database call may fail, and the process may die between two of them.    *)
(*                                                                         *)
(* Every document carries "by", the number of the request that created it, *)
(* in the place of its id.                                                 *)
(***************************************************************************)
EXTENDS Naturals, FiniteSets

CONSTANTS
  Handlers,       \* the requests in flight together
  Failures,       \* the failed payments of one merchant
  Webhook,        \* those that Razorpay reports; the others are demo simulations
  EmailOf,        \* the customer's email in each, or NoEmail
  NoEmail,
  MaxRequests,    \* bound on the requests
  MaxFaults       \* bound on the database errors, crashes and deletions

ASSUME IngestionAssumption ==
  /\ Webhook \subseteq Failures
  /\ MaxRequests \in Nat /\ MaxFaults \in Nat

VARIABLES
  customers,  \* the stored Customer documents
  payments,   \* the stored Payment documents
  cases,      \* the stored RecoveryCase documents
  plan,       \* the merchant's open RecoveryPlan, or NoPlan
  events,     \* the stored WebhookEvent of each reported failure
  handler,    \* the requests in flight
  requests,   \* how many there have been
  faults      \* how many errors, crashes and deletions there have been

db == <<customers, payments, cases, plan, events>>
ingestVars == <<db, handler, requests, faults>>

NoPlan == [by |-> 0, items |-> {}]

Idle == [at |-> "idle", no |-> 0, failure |-> {}, told |-> {}, customer |-> 0,
         optedOut |-> FALSE, plan |-> 0]

Numbers == 0..MaxRequests

\* Every variable is of its type, and no two requests in flight share a number.
TypeOK ==
  /\ customers \subseteq [by : Numbers, email : {EmailOf[f] : f \in Failures}, optedOut : BOOLEAN]
  /\ payments \subseteq [by : Numbers, of : Failures, status : {"failed"}]
  /\ cases \subseteq [by : Numbers, of : Failures]
  /\ plan \in [by : Numbers, items : SUBSET [by : Numbers, of : Failures]]
  /\ events \in [Webhook -> {"none", "RECEIVED", "PROCESSED", "FAILED"}]
  /\ requests \in Numbers /\ faults \in 0..MaxFaults
  /\ \A h, g \in Handlers :
       handler[h].no \in 0..requests /\ (h # g /\ handler[h].no = handler[g].no => handler[h].no = 0)

IngestInit ==
  /\ customers = {} /\ payments = {} /\ cases = {}
  /\ plan = NoPlan
  /\ events = [f \in Webhook |-> "none"]
  /\ handler = [h \in Handlers |-> Idle]
  /\ requests = 0 /\ faults = 0
-----------------------------------------------------------------------------
At(h, place) == handler[h].at = place

Goto(h, place) == handler' = [handler EXCEPT ![h].at = place]

\* A request starts: "told" is the opt-out the report gives, {} when it gives none.
Begin(h, f, told) ==
  /\ requests < MaxRequests /\ requests' = requests + 1
  /\ handler' = [handler EXCEPT ![h] =
       [Idle EXCEPT !.at = IF EmailOf[f] = NoEmail THEN "create" ELSE "find",
                    !.no = requests', !.failure = {f}, !.told = told]]

FailureOf(h) == CHOOSE f \in Failures : handler[h].failure = {f}

Reported(h) == handler[h].failure # {} /\ FailureOf(h) \in Webhook

\* POST /api/demo/payment-failure; customer.optedOut is optional in its schema.
Simulate(h, f) ==
  /\ At(h, "idle") /\ f \notin Webhook
  /\ \E told \in {{}, {TRUE}, {FALSE}} : Begin(h, f, told)
  /\ UNCHANGED <<db, faults>>

\* An accepted delivery of payment.failed; Razorpay delivers again what it likes.  The
\* unique index on eventId turns the second one away.
RecordEventAgain(h, f) ==
  /\ events' = [events EXCEPT ![f] = "RECEIVED"]
  /\ Begin(h, f, {})

RecordEvent(h, f) ==
  IF events[f] = "none"
    THEN /\ events' = [events EXCEPT ![f] = "RECEIVED"]
         /\ Begin(h, f, {})
    ELSE UNCHANGED <<events, handler, requests>>

Deliver(h, f) ==
  /\ At(h, "idle") /\ f \in Webhook
  /\ RecordEvent(h, f)
  /\ UNCHANGED <<customers, payments, cases, plan, faults>>

(***************************************************************************)
(* ingestPaymentFailure.                                                   *)
(***************************************************************************)
\* The customer is settled: from here on the request only needs to know its failure.
Settled(h) == [Idle EXCEPT !.at = "pay", !.no = handler[h].no, !.failure = handler[h].failure]

Customer(n) == {c \in customers : c.by = n}

\* Customer.findOneAndUpdate with upsert: the email has no unique index, so two upserts
\* that find nobody both insert.
FindCustomer(h) ==
  /\ At(h, "find")
  /\ LET found == {c \in customers : c.email = EmailOf[FailureOf(h)]}
     IN IF found = {} THEN Goto(h, "insert")
        ELSE \E c \in found :
               handler' = [handler EXCEPT ![h].at = "consent", ![h].customer = c.by,
                                          ![h].optedOut = c.optedOut]
  /\ UNCHANGED <<db, requests, faults>>

\* The insert of the upsert leaves the opt-out at its default; without an email the
\* customer is created with what the report says.
InsertCustomer(h) ==
  /\ handler[h].at \in {"insert", "create"}
  /\ customers' = customers \cup
       {[by |-> handler[h].no, email |-> EmailOf[FailureOf(h)],
         optedOut |-> At(h, "create") /\ TRUE \in handler[h].told]}
  /\ handler' = [handler EXCEPT ![h] =
       IF At(h, "create") THEN Settled(h)
       ELSE [@ EXCEPT !.at = "consent", !.customer = handler[h].no, !.optedOut = FALSE]]
  /\ UNCHANGED <<payments, cases, plan, events, requests, faults>>

\* The opt-out is written if the report gives one and it differs from the one that was
\* read; the save of a customer that is gone throws.
ToldCoerced(h) == IF handler[h].told = {} THEN {FALSE} ELSE handler[h].told

Told(h) == handler[h].told

SaveConsent(h) ==
  /\ At(h, "consent")
  /\ LET changes == Told(h) # {} /\ handler[h].optedOut \notin Told(h)
         told == CHOOSE b \in BOOLEAN : b \in Told(h)
     IN IF ~changes THEN handler' = [handler EXCEPT ![h] = Settled(h)] /\ UNCHANGED customers
        ELSE IF Customer(handler[h].customer) = {} THEN Goto(h, "throw") /\ UNCHANGED customers
        ELSE /\ customers' = {IF c.by = handler[h].customer THEN [c EXCEPT !.optedOut = told]
                                                            ELSE c : c \in customers}
             /\ handler' = [handler EXCEPT ![h] = Settled(h)]
  /\ UNCHANGED <<payments, cases, plan, events, requests, faults>>

CreatePayment(h) ==
  /\ At(h, "pay")
  /\ payments' = payments \cup {[by |-> handler[h].no, of |-> FailureOf(h), status |-> "failed"]}
  /\ Goto(h, "detect")
  /\ UNCHANGED <<customers, cases, plan, events, requests, faults>>

DetectPaymentFailureRisk(h) ==
  /\ At(h, "detect")
  /\ cases' = cases \cup {[by |-> handler[h].no, of |-> FailureOf(h)]}
  /\ Goto(h, "prepare")
  /\ UNCHANGED <<customers, payments, plan, events, requests, faults>>

\* preparePlanItem saves the evaluated case.  When the case is gone, the save of one that
\* was scored writes an array and so fails on the version, which is caught: CASE_GONE, and
\* the ingestion returns without a plan.  The save of one that was not scored throws.
PreparePlanItem(h) ==
  /\ At(h, "prepare")
  /\ IF \E c \in cases : c.by = handler[h].no
       THEN Goto(h, "plan")
       ELSE Goto(h, "return") \/ Goto(h, "throw")
  /\ UNCHANGED <<db, requests, faults>>

GetOrCreateActivePlan(h) ==
  /\ At(h, "plan")
  /\ plan' = IF plan = NoPlan THEN [NoPlan EXCEPT !.by = handler[h].no] ELSE plan
  /\ handler' = [handler EXCEPT ![h].at = "commit", ![h].plan = plan'.by]
  /\ UNCHANGED <<customers, payments, cases, events, requests, faults>>

CommitItem(h) ==
  /\ At(h, "commit")
  /\ IF plan.by = handler[h].plan
       THEN /\ plan' = [plan EXCEPT !.items = @ \cup {[by |-> handler[h].no, of |-> FailureOf(h)]}]
            /\ Goto(h, "return")
       ELSE Goto(h, "throw") /\ UNCHANGED plan
  /\ UNCHANGED <<customers, payments, cases, events, requests, faults>>

\* The webhook stamps its event and acknowledges, whatever happened; a stamp that fails
\* is swallowed.
ReturnEarly(h) ==
  /\ handler[h].at \in {"prepare", "return", "throw"}
  /\ events' = IF Reported(h) THEN [events EXCEPT ![FailureOf(h)] = "PROCESSED"] ELSE events
  /\ handler' = [handler EXCEPT ![h] = Idle]
  /\ UNCHANGED <<customers, payments, cases, plan, requests, faults>>

Return(h) ==
  /\ handler[h].at \in {"return", "throw"} /\ handler[h].failure # {}
  /\ events' = IF Reported(h)
                 THEN [events EXCEPT ![FailureOf(h)] =
                        IF At(h, "return") THEN "PROCESSED" ELSE "FAILED"]
                 ELSE events
  /\ handler' = [handler EXCEPT ![h] = Idle]
  /\ UNCHANGED <<customers, payments, cases, plan, requests, faults>>

\* A database call fails, or the process dies (or cannot even stamp the event).
Throw(h) ==
  /\ handler[h].failure # {} /\ handler[h].at \notin {"return", "throw"}
  /\ faults < MaxFaults /\ faults' = faults + 1
  /\ Goto(h, "throw")
  /\ UNCHANGED <<db, requests>>

Crash(h) ==
  /\ handler[h].failure # {}
  /\ faults < MaxFaults /\ faults' = faults + 1
  /\ handler' = [handler EXCEPT ![h] = Idle]
  /\ UNCHANGED <<db, requests>>

IngestStep(h) ==
  \/ FindCustomer(h) \/ InsertCustomer(h) \/ SaveConsent(h) \/ CreatePayment(h)
  \/ DetectPaymentFailureRisk(h) \/ PreparePlanItem(h) \/ GetOrCreateActivePlan(h)
  \/ CommitItem(h) \/ Return(h)

IngestNext(h) ==
  \/ \E f \in Failures : Simulate(h, f) \/ Deliver(h, f)
  \/ IngestStep(h) \/ Throw(h) \/ Crash(h)

\* A reset of the demo merchant deletes the cases under the requests; the whole of what
\* it does is in DemoReset.
DeleteCases ==
  /\ cases # {} /\ cases' = {}
  /\ faults < MaxFaults /\ faults' = faults + 1
  /\ UNCHANGED <<customers, payments, plan, events, handler, requests>>

\* The server carries on with what it has accepted.
IngestSpec ==
  /\ IngestInit /\ [][(\E h \in Handlers : IngestNext(h)) \/ DeleteCases]_ingestVars
  /\ \A h \in Handlers : WF_ingestVars(IngestStep(h))
-----------------------------------------------------------------------------
\* Razorpay's redeliveries never become a second case, however they overlap: the unique
\* event id stands before everything the webhook does.
OneCasePerReport ==
  \A f \in Webhook : Cardinality({c \in cases : c.of = f}) <= 1

\* An event that is PROCESSED left a case, and that case is offered to the merchant: after
\* a failure half way the case is on no plan, and the event has to say FAILED (or stay
\* RECEIVED), since nobody will deliver it again.  Only a case that was deleted leaves its
\* event PROCESSED alone (CASE_GONE); that the plan is deleted as well is not looked at.
ProcessedIsPlanned ==
  \A f \in Webhook : events[f] = "PROCESSED" =>
    /\ \A c \in cases : c.of = f => [by |-> c.by, of |-> f] \in plan.items
    /\ (\A c \in cases : c.of # f) => faults > 0

\* What Razorpay reports never changes the opt-out of a customer: it only changes to what
\* a request in flight was told.
WebhookKeepsConsent ==
  [][\A c \in customers, d \in customers' :
       c.by = d.by /\ c.email = d.email /\ c.optedOut # d.optedOut =>
         \E h \in Handlers : handler[h].told = {d.optedOut}]_ingestVars

\* ARCHITECTURE.md, inbound payment-failure webhook: every failed payment flows into the
\* pipeline.  An accepted report ends on the plan unless a fault met it, however many
\* requests of its customer overlap it.
ReportIsPlanned ==
  \A f \in Webhook :
    events[f] = "RECEIVED" ~> (\E i \in plan.items : i.of = f) \/ faults > 0
=============================================================================
