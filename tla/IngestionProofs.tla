-------------------------- MODULE IngestionProofs --------------------------
(***************************************************************************)
(* What Ingestion promises for any number of requests, failures, faults    *)
(* and crashes: a report that is delivered again is ingested once, an      *)
(* event that is PROCESSED has its case on the plan, and what Razorpay     *)
(* reports leaves the consent alone.  Then what DemoReset promises of a    *)
(* reset that met nobody.                                                  *)
(*                                                                         *)
(* The three invariants speak of stored documents only.  The strengthening *)
(* ties the documents to the request that wrote them: a request owns what  *)
(* carries its number, and the event is recorded before the request that   *)
(* serves it has a number at all.                                          *)
(***************************************************************************)
EXTENDS DemoReset, FiniteSetTheorems, TLAPS

Ingesting == (\E h \in Handlers : IngestNext(h)) \/ DeleteCases

\* Where a request may be: before its customer, before its case, and after it.
NoCustomerYet == {"find", "insert", "create"}
NoCaseYet == NoCustomerYet \cup {"consent", "pay", "detect"}
Places == NoCaseYet \cup {"prepare", "plan", "commit", "return", "throw"}

RequestType ==
  [at : Places \cup {"idle"}, no : Numbers, failure : SUBSET Failures,
   told : {{}, {TRUE}, {FALSE}}, customer : Numbers, optedOut : BOOLEAN, plan : Numbers]

InFlight(r) ==
  /\ r.at \in Places /\ r.no \in Numbers \ {0}
  /\ \E f \in Failures : r.failure = {f}

\* The request of h goes on as r.
GoesOn(h, r) ==
  /\ handler' = [handler EXCEPT ![h] = r]
  /\ InFlight(r) /\ r \in RequestType
  /\ r.no = handler[h].no /\ r.failure = handler[h].failure

RequestsAreFormed ==
  /\ handler \in [Handlers -> RequestType]
  /\ \A h \in Handlers : handler[h] = Idle \/ InFlight(handler[h])

\* Numbers are given out in order, so a new request finds no document of its number.
NumbersAreInOrder ==
  /\ \A c \in customers : c.by <= requests
  /\ \A c \in cases : c.by <= requests

CustomersAreOwned ==
  /\ \A c, d \in customers : c.by = d.by => c = d
  /\ \A h \in Handlers : handler[h].at \in NoCustomerYet =>
       \A c \in customers : c.by # handler[h].no

CasesAreOwned ==
  \A h \in Handlers : InFlight(handler[h]) =>
    /\ \A c \in cases : c.by = handler[h].no =>
         handler[h].failure = {c.of} /\ handler[h].at \notin NoCaseYet
    /\ handler[h].at \in {"prepare", "plan", "commit", "return"} /\ faults = 0 =>
         \E c \in cases : c.by = handler[h].no
    /\ handler[h].at = "return" =>
         \A c \in cases : c.by = handler[h].no => [by |-> c.by, of |-> c.of] \in plan.items

\* The unique event id: one request serves a report, and it made the only case of it.
ReportsAreServedOnce ==
  \A f \in Webhook :
    /\ events[f] \in {"none", "PROCESSED"} => \A h \in Handlers : handler[h].failure # {f}
    /\ events[f] = "none" => \A c \in cases : c.of # f
    /\ \A h, g \in Handlers : handler[h].failure = {f} /\ handler[g].failure = {f} => h = g
    /\ \A h \in Handlers, c \in cases :
         handler[h].failure = {f} /\ c.of = f => c.by = handler[h].no
    /\ \A c, d \in cases : c.of = f /\ d.of = f => c = d

IInv ==
  /\ TypeOK /\ RequestsAreFormed /\ NumbersAreInOrder
  /\ CustomersAreOwned /\ CasesAreOwned
  /\ ReportsAreServedOnce /\ ProcessedIsPlanned
-----------------------------------------------------------------------------
LEMMA NumbersAreNat == Numbers \subseteq Nat /\ 0 \in Numbers
BY IngestionAssumption DEF Numbers

LEMMA FailureOfRequest ==
  ASSUME NEW h \in Handlers, NEW f \in Failures, handler[h].failure = {f}
  PROVE  FailureOf(h) = f /\ (Reported(h) <=> f \in Webhook)
BY DEF FailureOf, Reported

LEMMA IdleIsARequest == Idle \in RequestType /\ Idle.failure = {} /\ Idle.at = "idle" /\ Idle.no = 0
<1>1. FALSE \in BOOLEAN
  OBVIOUS
<1> QED BY <1>1, NumbersAreNat DEF Idle, RequestType

LEMMA InitHolds == IngestInit => IInv
<1> SUFFICES ASSUME IngestInit PROVE IInv
  OBVIOUS
<1> USE NumbersAreNat, IngestionAssumption DEF IngestInit
<1>2. RequestsAreFormed
  BY IdleIsARequest DEF RequestsAreFormed
<1>3. TypeOK
  BY DEF TypeOK, NoPlan, Idle, Numbers
<1>4. CasesAreOwned
  BY DEF CasesAreOwned, InFlight, Idle, Places, NoCaseYet, NoCustomerYet
<1>5. ReportsAreServedOnce
  BY DEF ReportsAreServedOnce, Idle
<1> QED BY <1>2, <1>3, <1>4, <1>5
        DEF IInv, NumbersAreInOrder, CustomersAreOwned, Idle, NoCustomerYet, ProcessedIsPlanned
-----------------------------------------------------------------------------
(***************************************************************************)
(* The invariant in three parts: what a step must say of the request it    *)
(* moves, of the customers, and of the cases.                              *)
(***************************************************************************)
\* A step that moves one request and leaves cases, plan and events alone.
LEMMA MoveKeepsCases ==
  ASSUME IInv, NEW h \in Handlers, NEW r,
         InFlight(handler[h]), r = Idle \/ InFlight(r),
         handler' = [handler EXCEPT ![h] = r],
         r # Idle => /\ r.no = handler[h].no /\ r.failure = handler[h].failure
                     /\ r.at \in NoCaseYet => handler[h].at \in NoCaseYet
                     /\ r.at \in {"plan", "commit"} => handler[h].at \in {"prepare", "plan"}
                     /\ r.at # "prepare"
                     /\ r.at = "return" => /\ handler[h].at = "prepare"
                                          /\ \A c \in cases : c.by # r.no,
         cases' = cases, plan' = plan, events' = events,
         faults \in Nat, faults' \in {faults, faults + 1}
  PROVE  CasesAreOwned' /\ ReportsAreServedOnce' /\ ProcessedIsPlanned'
<1> USE DEF IInv
<1>1. /\ \A g \in Handlers : handler'[g] = IF g = h THEN r ELSE handler[g]
      /\ Idle.failure = {} /\ Idle.at = "idle"
  BY DEF RequestsAreFormed, Idle
<1>a. faults' = 0 => faults = 0
  OBVIOUS
<1>2. CasesAreOwned'
  BY <1>1, <1>a DEF CasesAreOwned, InFlight, Places, NoCaseYet, NoCustomerYet
<1>3. ReportsAreServedOnce'
  BY <1>1 DEF ReportsAreServedOnce
<1>4. ProcessedIsPlanned'
  BY DEF ProcessedIsPlanned
<1> QED BY <1>2, <1>3, <1>4

LEMMA FaultsAreNat == ASSUME IInv PROVE faults \in Nat
BY IngestionAssumption DEF IInv, TypeOK

\* A step that moves one request, under its number, and leaves the customers alone.
LEMMA MoveKeepsRequests ==
  ASSUME IInv, NEW h \in Handlers, NEW r,
         InFlight(handler[h]),
         r = Idle \/ (InFlight(r) /\ r \in RequestType /\ r.no = handler[h].no),
         handler' = [handler EXCEPT ![h] = r], requests' = requests
  PROVE  /\ RequestsAreFormed'
         /\ \A g, k \in Handlers :
              handler'[g].no \in 0..requests' /\ (g # k /\ handler'[g].no = handler'[k].no => handler'[g].no = 0)
<1> USE DEF IInv
<1>2. \A g \in Handlers : handler'[g] = IF g = h THEN r ELSE handler[g]
  BY DEF RequestsAreFormed
<1>3. RequestsAreFormed'
  BY IdleIsARequest, <1>2 DEF RequestsAreFormed
<1>4. requests \in Nat /\ Idle.no = 0
  BY NumbersAreNat DEF TypeOK, Idle
<1>5. \A g, k \in Handlers :
        handler'[g].no \in 0..requests' /\ (g # k /\ handler'[g].no = handler'[k].no => handler'[g].no = 0)
  BY <1>2, <1>4 DEF TypeOK
<1> QED BY <1>3, <1>5

LEMMA MoveKeepsCustomers ==
  ASSUME IInv, NEW h \in Handlers, NEW r,
         r = Idle \/ (r.no = handler[h].no /\ (r.at \in NoCustomerYet => handler[h].at \in NoCustomerYet)),
         handler' = [handler EXCEPT ![h] = r],
         customers' = customers
  PROVE  CustomersAreOwned'
<1>1. \A g \in Handlers : handler'[g] = IF g = h THEN r ELSE handler[g]
  BY DEF IInv, RequestsAreFormed
<1> QED BY <1>1 DEF IInv, CustomersAreOwned, Idle, NoCustomerYet
-----------------------------------------------------------------------------
LEMMA GoesOnAt ==
  ASSUME IInv, NEW h \in Handlers, NEW place \in Places, handler[h] # Idle, Goto(h, place)
  PROVE  \E r : GoesOn(h, r) /\ r.at = place
<1> DEFINE r == [handler[h] EXCEPT !.at = place]
<1> WITNESS r
<1> QED BY DEF GoesOn, Goto, IInv, RequestsAreFormed, RequestType, InFlight

LEMMA RequestIs ==
  ASSUME IInv, NEW h \in Handlers, handler[h].at \in Places \/ handler[h].failure # {}
  PROVE  /\ handler[h] # Idle /\ InFlight(handler[h]) /\ handler[h] \in RequestType
         /\ \E f \in Failures : /\ handler[h].failure = {f} /\ FailureOf(h) = f
                                /\ Reported(h) <=> f \in Webhook
<1>1. handler[h] # Idle
  BY DEF Idle, Places, NoCaseYet, NoCustomerYet
<1> QED BY <1>1, FailureOfRequest DEF IInv, RequestsAreFormed, InFlight

\* A step that only moves one request.
LEMMA MoveKeepsIInv ==
  ASSUME IInv, NEW h \in Handlers, NEW r, InFlight(handler[h]),
         GoesOn(h, r) \/ (r = Idle /\ handler' = [handler EXCEPT ![h] = r]),
         r.at \in NoCustomerYet => handler[h].at \in NoCustomerYet,
         r.at \in NoCaseYet => handler[h].at \in NoCaseYet,
         r.at \in {"plan", "commit"} => handler[h].at \in {"prepare", "plan"},
         r.at # "prepare",
         r.at = "return" => handler[h].at = "prepare" /\ \A c \in cases : c.by # handler[h].no,
         UNCHANGED <<db, requests>>,
         UNCHANGED faults \/ (faults < MaxFaults /\ faults' = faults + 1)
  PROVE  IInv'
<1>1. UNCHANGED <<customers, payments, cases, plan, events, requests>>
  BY DEF db
<1>2. r = Idle \/ (GoesOn(h, r) /\ r # Idle)
  BY IdleIsARequest DEF GoesOn, InFlight, Places, NoCaseYet, NoCustomerYet
<1>3. CasesAreOwned' /\ ReportsAreServedOnce' /\ ProcessedIsPlanned'
  BY <1>1, <1>2, MoveKeepsCases, FaultsAreNat DEF GoesOn
<1>a. faults' \in 0..MaxFaults
  BY IngestionAssumption DEF IInv, TypeOK
<1>4. RequestsAreFormed' /\ TypeOK'
  BY <1>1, <1>2, <1>a, MoveKeepsRequests DEF GoesOn, IInv, TypeOK
<1>5. CustomersAreOwned'
  BY <1>1, <1>2, MoveKeepsCustomers DEF GoesOn
<1> QED BY <1>1, <1>3, <1>4, <1>5 DEF IInv, NumbersAreInOrder

LEMMA FindCustomerKeepsIInv ==
  ASSUME IInv, NEW h \in Handlers, FindCustomer(h) PROVE IInv'
<1>1. InFlight(handler[h]) /\ handler[h].at = "find" /\ handler[h] # Idle /\ handler[h] \in RequestType
  BY RequestIs DEF FindCustomer, At, Places, NoCaseYet, NoCustomerYet
<1>2. \E r : GoesOn(h, r) /\ r.at \in {"insert", "consent"}
  <2>1. CASE Goto(h, "insert")
    BY <1>1, <2>1, GoesOnAt DEF Places, NoCaseYet, NoCustomerYet
  <2>2. ASSUME NEW c \in customers,
               handler' = [handler EXCEPT ![h].at = "consent", ![h].customer = c.by,
                                          ![h].optedOut = c.optedOut]
        PROVE  \E r : GoesOn(h, r) /\ r.at \in {"insert", "consent"}
    <3> DEFINE r == [handler[h] EXCEPT !.at = "consent", !.customer = c.by, !.optedOut = c.optedOut]
    <3>1. c.by \in Numbers /\ c.optedOut \in BOOLEAN
      BY DEF IInv, TypeOK
    <3>2. r \in RequestType
      BY <1>1, <3>1 DEF RequestType, Places, NoCaseYet, NoCustomerYet
    <3>3. handler' = [handler EXCEPT ![h] = r]
      BY <2>2 DEF IInv, RequestsAreFormed, RequestType
    <3>4. InFlight(r) /\ r.at = "consent" /\ r.no = handler[h].no
          /\ r.failure = handler[h].failure
      BY <1>1 DEF RequestType, InFlight, Places, NoCaseYet, NoCustomerYet
    <3> HIDE DEF r
    <3> QED BY <3>2, <3>3, <3>4 DEF GoesOn
  <2> QED BY <2>1, <2>2 DEF FindCustomer
<1> QED BY <1>1, <1>2, MoveKeepsIInv DEF FindCustomer, NoCaseYet, NoCustomerYet, IInv, TypeOK

LEMMA SettledGoesOn ==
  ASSUME IInv, NEW h \in Handlers, InFlight(handler[h]),
         handler' = [handler EXCEPT ![h] = Settled(h)]
  PROVE  GoesOn(h, Settled(h)) /\ Settled(h).at = "pay"
<1>1. FALSE \in BOOLEAN /\ handler[h] \in RequestType
  BY DEF IInv, RequestsAreFormed
<1>2. /\ Settled(h).at = "pay" /\ Settled(h).no = handler[h].no
      /\ Settled(h).failure = handler[h].failure
  BY DEF Settled, Idle
<1>3. Settled(h) \in RequestType
  BY <1>1, NumbersAreNat DEF Settled, Idle, RequestType, Places, NoCaseYet, NoCustomerYet
<1> QED BY <1>2, <1>3 DEF GoesOn, InFlight, Places, NoCaseYet, NoCustomerYet

LEMMA InsertCustomerKeepsIInv ==
  ASSUME IInv, NEW h \in Handlers, InsertCustomer(h) PROVE IInv'
<1> DEFINE out == At(h, "create") /\ TRUE \in handler[h].told
           waits == [handler[h] EXCEPT !.at = "consent", !.customer = handler[h].no, !.optedOut = FALSE]
           new == [by |-> handler[h].no, email |-> EmailOf[FailureOf(h)], optedOut |-> out]
           r == IF At(h, "create") THEN Settled(h) ELSE waits
<1>1. InFlight(handler[h]) /\ handler[h].at \in {"insert", "create"} /\ handler[h] \in RequestType
      /\ FailureOf(h) \in Failures /\ handler[h] # Idle
  BY RequestIs DEF InsertCustomer, Places, NoCaseYet, NoCustomerYet
<1>2. out \in BOOLEAN
  BY Zenon
<1>3. handler' = [handler EXCEPT ![h] = r]
  BY DEF InsertCustomer, IInv, RequestsAreFormed
<1>4. customers' = customers \cup {new}
  BY DEF InsertCustomer
<1>5. /\ new \in [by : Numbers, email : {EmailOf[f] : f \in Failures}, optedOut : BOOLEAN]
      /\ new.by = handler[h].no
  <2> HIDE DEF out
  <2> QED BY <1>1, <1>2 DEF RequestType
<1>6. GoesOn(h, r) /\ r.at \in {"pay", "consent"}
  <2>1. CASE At(h, "create")
    BY <1>1, <1>3, <2>1, SettledGoesOn
  <2>2. CASE ~At(h, "create")
    <3>1. FALSE \in BOOLEAN /\ r = waits
      BY <2>2
    <3> HIDE DEF r
    <3>2. waits \in RequestType /\ waits.at = "consent" /\ waits.no = handler[h].no
          /\ waits.failure = handler[h].failure
      BY <1>1, <3>1 DEF RequestType, Places, NoCaseYet, NoCustomerYet
    <3> HIDE DEF waits
    <3> QED BY <1>1, <1>3, <3>1, <3>2 DEF GoesOn, InFlight, Places, NoCaseYet, NoCustomerYet
  <2> QED BY <2>1, <2>2
<1> HIDE DEF r, new, out, waits
<1>7. UNCHANGED <<payments, cases, plan, events, requests, faults>>
  BY DEF InsertCustomer
<1>8. CasesAreOwned' /\ ReportsAreServedOnce' /\ ProcessedIsPlanned'
  BY <1>1, <1>6, <1>7, MoveKeepsCases, FaultsAreNat DEF GoesOn, NoCaseYet, NoCustomerYet
<1>9. RequestsAreFormed' /\ TypeOK'
  BY <1>1, <1>4, <1>5, <1>6, <1>7, MoveKeepsRequests DEF GoesOn, IInv, TypeOK
<1>10. CustomersAreOwned'
  <2>1. \A g \in Handlers : handler'[g] = IF g = h THEN r ELSE handler[g]
    BY <1>6 DEF GoesOn, IInv, RequestsAreFormed
  <2>2. \A g \in Handlers : g # h /\ handler[g].at \in NoCustomerYet => handler[g].no # handler[h].no
    BY <1>1 DEF IInv, RequestsAreFormed, TypeOK, InFlight, Idle, NoCustomerYet
  <2> QED BY <1>1, <1>4, <1>5, <1>6, <2>1, <2>2 DEF IInv, CustomersAreOwned, NoCustomerYet
<1>11. NumbersAreInOrder'
  <2>1. handler[h].no \in 0..requests /\ requests \in Nat
    BY NumbersAreNat DEF IInv, TypeOK
  <2> QED BY <1>4, <1>5, <1>7, <2>1 DEF IInv, NumbersAreInOrder
<1> QED BY <1>8, <1>9, <1>10, <1>11 DEF IInv

LEMMA SaveConsentKeepsIInv ==
  ASSUME IInv, NEW h \in Handlers, SaveConsent(h) PROVE IInv'
<1> DEFINE told == CHOOSE b \in BOOLEAN : b \in Told(h)
           kept(c) == IF c.by = handler[h].customer THEN [c EXCEPT !.optedOut = told] ELSE c
           r == Settled(h)
<1>1. InFlight(handler[h]) /\ handler[h].at = "consent" /\ handler[h] # Idle /\ handler[h] \in RequestType
  BY RequestIs DEF SaveConsent, At, Places, NoCaseYet, NoCustomerYet
<1>2. CASE UNCHANGED customers /\ (Goto(h, "throw") \/ handler' = [handler EXCEPT ![h] = r])
  <2>1. PICK r0 : GoesOn(h, r0) /\ r0.at \in {"pay", "throw"}
    BY <1>1, <1>2, GoesOnAt, SettledGoesOn DEF Places, NoCaseYet, NoCustomerYet
  <2>2. UNCHANGED <<db, requests, faults>>
    BY <1>2 DEF SaveConsent, db
  <2> QED BY <1>1, <2>1, <2>2, MoveKeepsIInv DEF NoCaseYet, NoCustomerYet
<1>3. CASE /\ Told(h) # {}
           /\ customers' = {kept(c) : c \in customers}
           /\ handler' = [handler EXCEPT ![h] = r]
  <2>1. told \in BOOLEAN
    <3>1. \E b \in BOOLEAN : b \in Told(h)
      BY <1>1, <1>3 DEF Told, RequestType
    <3> QED BY <3>1
  <2>3. GoesOn(h, r) /\ r.at = "pay"
    BY <1>1, <1>3, SettledGoesOn
  <2>4. \A c \in customers : /\ kept(c).by = c.by
                             /\ kept(c) \in [by : Numbers, email : {EmailOf[f] : f \in Failures}, optedOut : BOOLEAN]
    <3> HIDE DEF told
    <3> QED BY <2>1 DEF IInv, TypeOK
  <2>5. \A d \in customers' : \E c \in customers : d = kept(c) /\ d.by = c.by
    BY <1>3, <2>4
  <2>6. customers' \subseteq [by : Numbers, email : {EmailOf[f] : f \in Failures}, optedOut : BOOLEAN]
    BY <2>4, <2>5
  <2> HIDE DEF r, kept, told
  <2>7. UNCHANGED <<payments, cases, plan, events, requests, faults>>
    BY DEF SaveConsent
  <2>8. CasesAreOwned' /\ ReportsAreServedOnce' /\ ProcessedIsPlanned'
    BY <1>1, <2>3, <2>7, MoveKeepsCases, FaultsAreNat DEF GoesOn, NoCaseYet, NoCustomerYet
  <2>9. RequestsAreFormed' /\ TypeOK'
    BY <1>1, <2>3, <2>6, <2>7, MoveKeepsRequests DEF GoesOn, IInv, TypeOK
  <2>10. CustomersAreOwned'
    <3>1. \A g \in Handlers : handler'[g] = IF g = h THEN r ELSE handler[g]
      BY <2>3 DEF GoesOn, IInv, RequestsAreFormed
    <3>2. \A c, d \in customers' : c.by = d.by => c = d
      BY <2>5 DEF IInv, CustomersAreOwned
    <3>3. \A g \in Handlers : handler'[g].at \in NoCustomerYet => \A c \in customers' : c.by # handler'[g].no
      BY <2>3, <2>5, <3>1 DEF IInv, CustomersAreOwned, NoCustomerYet
    <3> QED BY <3>2, <3>3 DEF CustomersAreOwned
  <2>11. NumbersAreInOrder'
    BY <2>5, <2>7 DEF IInv, NumbersAreInOrder
  <2> QED BY <2>8, <2>9, <2>10, <2>11 DEF IInv
<1> QED BY <1>2, <1>3 DEF SaveConsent

LEMMA CreatePaymentKeepsIInv ==
  ASSUME IInv, NEW h \in Handlers, CreatePayment(h) PROVE IInv'
<1>1. /\ InFlight(handler[h]) /\ handler[h].at = "pay" /\ handler[h] # Idle
      /\ FailureOf(h) \in Failures /\ handler[h].no \in Numbers
  BY RequestIs DEF CreatePayment, At, Places, NoCaseYet, NoCustomerYet, RequestType
<1>2. PICK r : GoesOn(h, r) /\ r.at = "detect"
  BY <1>1, GoesOnAt DEF CreatePayment, Places, NoCaseYet, NoCustomerYet
<1>3. UNCHANGED <<customers, cases, plan, events, requests, faults>>
  BY DEF CreatePayment
<1>4. CasesAreOwned' /\ ReportsAreServedOnce' /\ ProcessedIsPlanned'
  BY <1>1, <1>2, <1>3, MoveKeepsCases, FaultsAreNat DEF GoesOn, NoCaseYet, NoCustomerYet
<1>5. payments' \subseteq [by : Numbers, of : Failures, status : {"failed"}]
  BY <1>1 DEF CreatePayment, IInv, TypeOK
<1>6. RequestsAreFormed' /\ TypeOK'
  BY <1>1, <1>2, <1>3, <1>5, MoveKeepsRequests DEF GoesOn, IInv, TypeOK
<1>7. CustomersAreOwned'
  BY <1>1, <1>2, <1>3, MoveKeepsCustomers DEF GoesOn, NoCustomerYet
<1> QED BY <1>3, <1>4, <1>6, <1>7 DEF IInv, NumbersAreInOrder

LEMMA DetectPaymentFailureRiskKeepsIInv ==
  ASSUME IInv, NEW h \in Handlers, DetectPaymentFailureRisk(h) PROVE IInv'
<1>1. /\ InFlight(handler[h]) /\ handler[h].at = "detect" /\ handler[h] # Idle
      /\ handler[h].no \in Numbers
  BY RequestIs DEF DetectPaymentFailureRisk, At, Places, NoCaseYet, NoCustomerYet, RequestType
<1>2. PICK f \in Failures : handler[h].failure = {f} /\ FailureOf(h) = f
  BY <1>1, RequestIs DEF Places, NoCaseYet, NoCustomerYet
<1>3. PICK r : GoesOn(h, r) /\ r.at = "prepare"
  BY <1>1, GoesOnAt DEF DetectPaymentFailureRisk, Places, NoCaseYet, NoCustomerYet
<1> DEFINE new == [by |-> handler[h].no, of |-> f]
<1>4. cases' = cases \cup {new} /\ UNCHANGED <<customers, payments, plan, events, requests, faults>>
  BY <1>2 DEF DetectPaymentFailureRisk
<1>5. \A g \in Handlers : handler'[g] = IF g = h THEN r ELSE handler[g]
  BY <1>3 DEF GoesOn, IInv, RequestsAreFormed
<1>6. r.no = handler[h].no /\ r.failure = {f} /\ r.at = "prepare" /\ InFlight(r)
  BY <1>2, <1>3 DEF GoesOn
<1>7. new.by = handler[h].no /\ new.of = f
  OBVIOUS
<1>8. \A g \in Handlers : g # h /\ InFlight(handler[g]) => handler[g].no # handler[h].no
  BY <1>1 DEF IInv, TypeOK, InFlight
<1>9. \A c \in cases : c.by # handler[h].no /\ (f \in Webhook => c.of # f)
  BY <1>1, <1>2 DEF IInv, CasesAreOwned, ReportsAreServedOnce, NoCaseYet
<1>10. CasesAreOwned'
  <2> HIDE DEF new
  <2>1. ASSUME NEW g \in Handlers, InFlight(handler[g]), g # h
        PROVE  /\ \A c \in cases' : c.by = handler[g].no =>
                    handler[g].failure = {c.of} /\ handler[g].at \notin NoCaseYet
               /\ handler[g].at \in {"prepare", "plan", "commit", "return"} /\ faults' = 0 =>
                    \E c \in cases' : c.by = handler[g].no
               /\ handler[g].at = "return" =>
                    \A c \in cases' : c.by = handler[g].no => [by |-> c.by, of |-> c.of] \in plan'.items
    BY <1>4, <1>7, <1>8, <2>1 DEF IInv, CasesAreOwned
  <2>2. \A c \in cases' : c.by = r.no => r.failure = {c.of} /\ r.at \notin NoCaseYet
    BY <1>4, <1>6, <1>7, <1>9 DEF NoCaseYet, NoCustomerYet
  <2>3. \E c \in cases' : c.by = r.no
    BY <1>4, <1>6, <1>7
  <2> QED BY <1>5, <1>6, <2>1, <2>2, <2>3 DEF CasesAreOwned
<1>11. ReportsAreServedOnce'
  <2> HIDE DEF new
  <2>1. f \in Webhook => events[f] # "none" /\ events[f] # "PROCESSED"
    BY <1>2 DEF IInv, ReportsAreServedOnce
  <2>2. \A g \in Handlers : handler'[g].failure = handler[g].failure /\ handler'[g].no = handler[g].no
    BY <1>2, <1>5, <1>6
  <2>3. \A e \in Webhook, g \in Handlers : handler[h].failure = {e} /\ handler[g].failure = {e} => g = h
    BY DEF IInv, ReportsAreServedOnce
  <2> QED BY <1>2, <1>4, <1>7, <1>9, <2>1, <2>2, <2>3 DEF IInv, ReportsAreServedOnce
<1>12. ProcessedIsPlanned'
  <2>1. f \in Webhook => events[f] # "PROCESSED"
    BY <1>2, <1>1 DEF IInv, ReportsAreServedOnce
  <2> HIDE DEF new
  <2> QED BY <1>4, <1>7, <2>1 DEF IInv, ProcessedIsPlanned
<1>13. cases' \subseteq [by : Numbers, of : Failures]
  BY <1>1, <1>4 DEF IInv, TypeOK
<1>14. RequestsAreFormed' /\ TypeOK'
  BY <1>1, <1>3, <1>4, <1>13, MoveKeepsRequests DEF GoesOn, IInv, TypeOK
<1>15. CustomersAreOwned'
  BY <1>1, <1>3, <1>4, MoveKeepsCustomers DEF GoesOn, NoCustomerYet
<1>16. NumbersAreInOrder'
  <2>1. handler[h].no \in 0..requests /\ requests \in Nat
    BY NumbersAreNat DEF IInv, TypeOK
  <2> QED BY <1>4, <2>1 DEF IInv, NumbersAreInOrder
<1> QED BY <1>10, <1>11, <1>12, <1>14, <1>15, <1>16 DEF IInv

LEMMA PreparePlanItemKeepsIInv ==
  ASSUME IInv, NEW h \in Handlers, PreparePlanItem(h) PROVE IInv'
<1>1. InFlight(handler[h]) /\ handler[h] # Idle /\ handler[h].at = "prepare"
  BY RequestIs DEF PreparePlanItem, At, Places
<1>2. \E place \in {"plan", "return", "throw"} :
        Goto(h, place) /\ (place = "return" => \A c \in cases : c.by # handler[h].no)
  BY DEF PreparePlanItem
<1>3. \E r : GoesOn(h, r) /\ r.at \in {"plan", "return", "throw"}
             /\ (r.at = "return" => \A c \in cases : c.by # handler[h].no)
  BY <1>1, <1>2, GoesOnAt DEF Places
<1>4. UNCHANGED <<db, requests, faults>>
  BY DEF PreparePlanItem
<1> QED BY <1>1, <1>3, <1>4, MoveKeepsIInv DEF NoCaseYet, NoCustomerYet

LEMMA ThrowKeepsIInv ==
  ASSUME IInv, NEW h \in Handlers, Throw(h) PROVE IInv'
<1>1. InFlight(handler[h]) /\ handler[h] # Idle
  BY RequestIs DEF Throw
<1>2. \E r : GoesOn(h, r) /\ r.at = "throw"
  BY <1>1, GoesOnAt DEF Throw, Places
<1> QED BY <1>1, <1>2, MoveKeepsIInv DEF Throw, NoCaseYet, NoCustomerYet

LEMMA CrashKeepsIInv ==
  ASSUME IInv, NEW h \in Handlers, Crash(h) PROVE IInv'
<1>1. InFlight(handler[h])
  BY RequestIs DEF Crash
<1>2. Idle.at \notin NoCaseYet \cup {"prepare", "plan", "commit", "return"}
  BY IdleIsARequest DEF NoCaseYet, NoCustomerYet
<1> QED BY <1>1, <1>2, MoveKeepsIInv DEF Crash, NoCaseYet, NoCustomerYet

LEMMA GetOrCreateActivePlanKeepsIInv ==
  ASSUME IInv, NEW h \in Handlers, GetOrCreateActivePlan(h) PROVE IInv'
<1>1. /\ InFlight(handler[h]) /\ handler[h].at = "plan" /\ handler[h] \in RequestType
  BY RequestIs DEF GetOrCreateActivePlan, At, Places, NoCaseYet, NoCustomerYet
<1>2. /\ plan'.items = plan.items /\ plan'.by \in Numbers
      /\ plan' \in [by : Numbers, items : SUBSET [by : Numbers, of : Failures]]
  BY <1>1 DEF GetOrCreateActivePlan, NoPlan, IInv, TypeOK, RequestType
<1> DEFINE of == plan'.by
           r == [handler[h] EXCEPT !.at = "commit", !.plan = of]
<1>3. handler' = [handler EXCEPT ![h] = r]
  <2>1. handler' = [handler EXCEPT ![h].at = "commit", ![h].plan = of]
    BY DEF GetOrCreateActivePlan
  <2> HIDE DEF of
  <2> QED BY <2>1 DEF IInv, RequestsAreFormed, RequestType
<1>4. GoesOn(h, r) /\ r.at = "commit"
  BY <1>1, <1>2, <1>3 DEF GoesOn, RequestType, InFlight, Places, NoCaseYet, NoCustomerYet
<1> HIDE DEF r
<1>5. UNCHANGED <<customers, payments, cases, events, requests, faults>>
  BY DEF GetOrCreateActivePlan
<1>6. \A g \in Handlers : handler'[g] = IF g = h THEN r ELSE handler[g]
  BY <1>4 DEF GoesOn, IInv, RequestsAreFormed
<1>7. CasesAreOwned'
  BY <1>1, <1>2, <1>4, <1>5, <1>6 DEF GoesOn, IInv, CasesAreOwned, NoCaseYet, NoCustomerYet
<1>8. ReportsAreServedOnce'
  BY <1>4, <1>5, <1>6 DEF GoesOn, IInv, ReportsAreServedOnce
<1>9. ProcessedIsPlanned'
  BY <1>2, <1>5 DEF IInv, ProcessedIsPlanned
<1>10. RequestsAreFormed' /\ TypeOK'
  BY <1>1, <1>2, <1>4, <1>5, MoveKeepsRequests DEF GoesOn, IInv, TypeOK
<1>11. CustomersAreOwned'
  BY <1>1, <1>4, <1>5, MoveKeepsCustomers DEF GoesOn, NoCustomerYet
<1> QED BY <1>5, <1>7, <1>8, <1>9, <1>10, <1>11 DEF IInv, NumbersAreInOrder

LEMMA CommitItemKeepsIInv ==
  ASSUME IInv, NEW h \in Handlers, CommitItem(h) PROVE IInv'
<1>1. /\ InFlight(handler[h]) /\ handler[h].at = "commit" /\ handler[h] # Idle
      /\ handler[h].no \in Numbers
  BY RequestIs DEF CommitItem, At, Places, NoCaseYet, NoCustomerYet, RequestType
<1>2. CASE plan.by # handler[h].plan
  <2>1. \E r : GoesOn(h, r) /\ r.at = "throw"
    BY <1>1, <1>2, GoesOnAt DEF CommitItem, Places
  <2> QED BY <1>1, <1>2, <2>1, MoveKeepsIInv
          DEF CommitItem, db, NoCaseYet, NoCustomerYet, IInv, TypeOK
<1>3. CASE plan.by = handler[h].plan
  <2>1. PICK f \in Failures : handler[h].failure = {f} /\ FailureOf(h) = f
    BY <1>1, RequestIs DEF Places, NoCaseYet, NoCustomerYet
  <2>2. PICK r : GoesOn(h, r) /\ r.at = "return"
    BY <1>1, <1>3, GoesOnAt DEF CommitItem, Places
  <2> DEFINE item == [by |-> handler[h].no, of |-> f]
  <2>3. plan' = [plan EXCEPT !.items = @ \cup {item}]
    BY <1>3, <2>1 DEF CommitItem
  <2>4. UNCHANGED <<customers, payments, cases, events, requests, faults>>
    BY DEF CommitItem
  <2>5. item \in [by : Numbers, of : Failures]
    BY <1>1
  <2> HIDE DEF item
  <2>6. TypeOK' /\ RequestsAreFormed' /\ item \in plan'.items /\ plan.items \subseteq plan'.items
    BY <1>1, <2>2, <2>3, <2>4, <2>5, MoveKeepsRequests DEF GoesOn, IInv, TypeOK
  <2>7. \A g \in Handlers : handler'[g] = IF g = h THEN r ELSE handler[g]
    BY <2>2 DEF GoesOn, IInv, RequestsAreFormed
  <2>8. CasesAreOwned'
    <3>1. \A c \in cases : c.by = handler[h].no => [by |-> c.by, of |-> c.of] = item
      BY <1>1, <2>1 DEF item, IInv, CasesAreOwned
    <3> QED BY <1>1, <2>2, <2>4, <2>6, <2>7, <3>1 DEF GoesOn, IInv, CasesAreOwned, NoCaseYet, NoCustomerYet
  <2>9. ReportsAreServedOnce'
    BY <2>2, <2>4, <2>7 DEF GoesOn, IInv, ReportsAreServedOnce
  <2>10. ProcessedIsPlanned'
    BY <2>4, <2>6 DEF IInv, ProcessedIsPlanned
  <2>11. CustomersAreOwned'
    BY <1>1, <2>2, <2>4, MoveKeepsCustomers DEF GoesOn, NoCustomerYet
  <2> QED BY <2>4, <2>6, <2>8, <2>9, <2>10, <2>11 DEF IInv, NumbersAreInOrder
<1> QED BY <1>2, <1>3

LEMMA ReturnKeepsIInv ==
  ASSUME IInv, NEW h \in Handlers, Return(h) PROVE IInv'
<1>1. InFlight(handler[h])
  BY RequestIs DEF Return
<1>2. PICK f \in Failures : /\ handler[h].failure = {f} /\ FailureOf(h) = f
                            /\ Reported(h) <=> f \in Webhook
  BY RequestIs DEF Return
<1>3. UNCHANGED <<customers, payments, cases, plan, requests, faults>>
      /\ handler' = [handler EXCEPT ![h] = Idle]
  BY DEF Return
<1>4. /\ events' \in [Webhook -> {"none", "RECEIVED", "PROCESSED", "FAILED"}]
      /\ \A e \in Webhook : events'[e] = "none" => events[e] = "none"
      /\ \A e \in Webhook : events'[e] = "PROCESSED" =>
           events[e] = "PROCESSED" \/ (e = f /\ handler[h].at = "return")
  BY <1>2 DEF Return, At, IInv, TypeOK
<1>5. \A g \in Handlers : handler'[g] = IF g = h THEN Idle ELSE handler[g]
  BY <1>3 DEF IInv, RequestsAreFormed
<1>6. CasesAreOwned'
  BY <1>3, <1>5, IdleIsARequest DEF IInv, CasesAreOwned, InFlight, Places, NoCaseYet, NoCustomerYet
<1>7. ReportsAreServedOnce'
  <2>1. \A e \in Webhook : events'[e] \in {"none", "PROCESSED"} =>
          \A g \in Handlers : handler'[g].failure # {e}
    BY <1>2, <1>4, <1>5, IdleIsARequest DEF IInv, ReportsAreServedOnce
  <2> QED BY <1>3, <1>4, <1>5, <2>1, IdleIsARequest DEF IInv, ReportsAreServedOnce
<1>8. ProcessedIsPlanned'
  <2>1. CASE handler[h].at = "return"
    <3>1. \A c \in cases : f \in Webhook /\ c.of = f => [by |-> c.by, of |-> f] \in plan.items
      BY <1>1, <1>2, <2>1 DEF IInv, CasesAreOwned, ReportsAreServedOnce
    <3>2. (\A c \in cases : c.of # f) => faults > 0
      <4>1. faults = 0 => \E c \in cases : c.by = handler[h].no /\ {c.of} = {f}
        BY <1>1, <1>2, <2>1 DEF IInv, CasesAreOwned
      <4> QED BY <4>1, FaultsAreNat
    <3> QED BY <1>2, <1>3, <1>4, <3>1, <3>2 DEF IInv, ProcessedIsPlanned
  <2>2. CASE handler[h].at # "return"
    BY <1>3, <1>4, <2>2 DEF IInv, ProcessedIsPlanned
  <2> QED BY <2>1, <2>2
<1>9. RequestsAreFormed' /\ TypeOK'
  BY <1>1, <1>3, <1>4, MoveKeepsRequests DEF IInv, TypeOK
<1>10. CustomersAreOwned'
  BY <1>1, <1>3, MoveKeepsCustomers DEF IInv
<1> QED BY <1>3, <1>6, <1>7, <1>8, <1>9, <1>10 DEF IInv, NumbersAreInOrder

\* A new request: its number is new, and so is the report it serves.
LEMMA BeginKeepsIInv ==
  ASSUME IInv, NEW h \in Handlers, NEW f \in Failures, NEW told \in {{}, {TRUE}, {FALSE}},
         handler[h].at = "idle", Begin(h, f, told),
         \/ f \notin Webhook /\ events' = events
         \/ f \in Webhook /\ events[f] = "none" /\ events' = [events EXCEPT ![f] = "RECEIVED"],
         UNCHANGED <<customers, payments, cases, plan, faults>>
  PROVE  IInv'
<1> DEFINE place == IF EmailOf[f] = NoEmail THEN "create" ELSE "find"
           r == [Idle EXCEPT !.at = place, !.no = requests', !.failure = {f}, !.told = told]
<1>1. /\ requests' = requests + 1 /\ requests \in Nat /\ requests' \in Numbers \ {0}
      /\ handler' = [handler EXCEPT ![h] = r]
  BY IngestionAssumption DEF Begin, IInv, TypeOK, Numbers
<1>2. place \in NoCustomerYet /\ place # "return" /\ place \in NoCaseYet
  BY DEF NoCustomerYet, NoCaseYet
<1>3. /\ r \in RequestType /\ InFlight(r)
      /\ r.at = place /\ r.no = requests + 1 /\ r.failure = {f}
  <2> HIDE DEF place
  <2> QED BY <1>1, <1>2, IdleIsARequest DEF RequestType, InFlight, Places
<1> HIDE DEF r, place
<1>4. \A g \in Handlers : handler'[g] = IF g = h THEN r ELSE handler[g]
  BY <1>1 DEF IInv, RequestsAreFormed
<1>5. RequestsAreFormed'
  BY <1>1, <1>3, <1>4 DEF IInv, RequestsAreFormed
<1>6. TypeOK'
  <2>1. \A g \in Handlers : handler[g].no \in 0..requests
    BY DEF IInv, TypeOK
  <2>2. \A g, k \in Handlers :
          handler'[g].no \in 0..requests' /\ (g # k /\ handler'[g].no = handler'[k].no => handler'[g].no = 0)
    BY <1>1, <1>3, <1>4, <2>1 DEF IInv, TypeOK
  <2>3. events' \in [Webhook -> {"none", "RECEIVED", "PROCESSED", "FAILED"}]
    BY DEF IInv, TypeOK
  <2> QED BY <1>1, <2>2, <2>3 DEF IInv, TypeOK
<1>7. NumbersAreInOrder' /\ CustomersAreOwned'
  <2>1. /\ \A c \in customers : c.by \in Nat /\ c.by <= requests
        /\ \A c \in cases : c.by \in Nat /\ c.by <= requests
    BY NumbersAreNat DEF IInv, TypeOK, NumbersAreInOrder
  <2> QED BY <1>1, <1>3, <1>4, <2>1 DEF IInv, NumbersAreInOrder, CustomersAreOwned
<1>8. CasesAreOwned'
  <2>1. \A c \in cases : c.by \in Nat /\ c.by <= requests
    BY NumbersAreNat DEF IInv, TypeOK, NumbersAreInOrder
  <2>2. r.at \notin {"prepare", "plan", "commit", "return"}
    BY <1>2, <1>3 DEF NoCustomerYet
  <2> QED BY <1>1, <1>3, <1>4, <2>1, <2>2 DEF IInv, CasesAreOwned
<1>9. ReportsAreServedOnce'
  <2>1. \A e \in Webhook : events'[e] \in {"none", "PROCESSED"} => events[e] = events'[e] /\ e # f
    BY DEF IInv, TypeOK
  <2>2. f \in Webhook => (\A g \in Handlers : handler[g].failure # {f}) /\ (\A c \in cases : c.of # f)
    BY DEF IInv, ReportsAreServedOnce
  <2> QED BY <1>3, <1>4, <2>1, <2>2 DEF IInv, ReportsAreServedOnce
<1>10. ProcessedIsPlanned'
  BY DEF IInv, TypeOK, ProcessedIsPlanned
<1> QED BY <1>5, <1>6, <1>7, <1>8, <1>9, <1>10 DEF IInv

LEMMA SimulateKeepsIInv ==
  ASSUME IInv, NEW h \in Handlers, NEW f \in Failures, Simulate(h, f) PROVE IInv'
BY BeginKeepsIInv DEF Simulate, At, db

LEMMA DeliverKeepsIInv ==
  ASSUME IInv, NEW h \in Handlers, NEW f \in Failures, Deliver(h, f) PROVE IInv'
<1>1. CASE events[f] = "none"
  BY <1>1, BeginKeepsIInv DEF Deliver, RecordEvent, At
<1>2. CASE events[f] # "none"
  BY <1>2 DEF Deliver, RecordEvent, IInv, TypeOK, RequestsAreFormed, NumbersAreInOrder,
              CustomersAreOwned, CasesAreOwned, ReportsAreServedOnce, ProcessedIsPlanned
<1> QED BY <1>1, <1>2

\* A case that is deleted owes nobody anything.
LEMMA DeletionKeepsIInv == ASSUME IInv, DeleteCases PROVE IInv'
<1>1. /\ cases' = {} /\ UNCHANGED <<customers, payments, plan, events, handler, requests>>
      /\ faults' = faults + 1 /\ faults' \in 0..MaxFaults /\ faults' # 0 /\ faults' > 0
  BY FaultsAreNat, IngestionAssumption DEF DeleteCases
<1>2. TypeOK' /\ RequestsAreFormed' /\ NumbersAreInOrder' /\ CustomersAreOwned'
  BY <1>1 DEF IInv, TypeOK, RequestsAreFormed, NumbersAreInOrder, CustomersAreOwned
<1>3. CasesAreOwned' /\ ReportsAreServedOnce' /\ ProcessedIsPlanned'
  BY <1>1 DEF IInv, CasesAreOwned, ReportsAreServedOnce, ProcessedIsPlanned
<1> QED BY <1>2, <1>3 DEF IInv

LEMMA NextKeepsIInv == IInv /\ [Ingesting]_ingestVars => IInv'
<1> SUFFICES ASSUME IInv, [Ingesting]_ingestVars PROVE IInv'
  OBVIOUS
<1>1. CASE UNCHANGED ingestVars
  BY <1>1 DEF ingestVars, db, IInv, TypeOK, RequestsAreFormed, NumbersAreInOrder,
              CustomersAreOwned, CasesAreOwned, ReportsAreServedOnce, ProcessedIsPlanned
<1>2. ASSUME NEW h \in Handlers, IngestNext(h) PROVE IInv'
  BY <1>2, FindCustomerKeepsIInv, InsertCustomerKeepsIInv, SaveConsentKeepsIInv,
     CreatePaymentKeepsIInv, DetectPaymentFailureRiskKeepsIInv, PreparePlanItemKeepsIInv,
     GetOrCreateActivePlanKeepsIInv, CommitItemKeepsIInv, ReturnKeepsIInv, ThrowKeepsIInv,
     CrashKeepsIInv, SimulateKeepsIInv, DeliverKeepsIInv DEF IngestNext, IngestStep
<1> QED BY <1>1, <1>2, DeletionKeepsIInv DEF Ingesting

LEMMA AlwaysIInv == IngestSpec => []IInv
BY InitHolds, NextKeepsIInv, PTL DEF IngestSpec, Ingesting
-----------------------------------------------------------------------------
\* Type correctness of the documents and the requests.
THEOREM TypeCorrect == IngestSpec => []TypeOK
<1>1. IInv => TypeOK
  BY DEF IInv
<1> QED BY <1>1, AlwaysIInv, PTL

\* The unique event id stands before everything else: however many deliveries of a report
\* overlap, die or fail, it leaves one case at most.
THEOREM RedeliveryMakesOneCase == IngestSpec => []OneCasePerReport
<1>1. IInv => OneCasePerReport
  <2> SUFFICES ASSUME IInv, NEW f \in Webhook
               PROVE  Cardinality({c \in cases : c.of = f}) <= 1
    BY DEF OneCasePerReport
  <2> DEFINE made == {c \in cases : c.of = f}
  <2>1. \A c, d \in made : c = d
    BY DEF IInv, ReportsAreServedOnce
  <2>2. CASE made = {}
    BY <2>2, FS_EmptySet
  <2>3. ASSUME NEW c \in made PROVE Cardinality(made) <= 1
    <3>1. made = {c}
      BY <2>1
    <3> QED BY <3>1, FS_Singleton
  <2> QED BY <2>2, <2>3
<1> QED BY <1>1, AlwaysIInv, PTL

\* The route's last step: an event says PROCESSED only when the case it led to is on the
\* merchant's plan, wherever a fault or a crash struck before, or has been deleted.
THEOREM ProcessedEventsArePlanned == IngestSpec => []ProcessedIsPlanned
<1>1. IInv => ProcessedIsPlanned
  BY DEF IInv
<1> QED BY <1>1, AlwaysIInv, PTL

\* ingestPaymentFailure writes an opt-out only from a report that gives one, and no report
\* of Razorpay does.
THEOREM ReportsKeepConsent == IngestSpec => WebhookKeepsConsent
<1> DEFINE Kept == \A c \in customers, d \in customers' :
             c.by = d.by /\ c.email = d.email /\ c.optedOut # d.optedOut =>
               \E h \in Handlers : handler[h].told = {d.optedOut}
<1>1. ASSUME IInv, [Ingesting]_ingestVars PROVE Kept
  <2>1. CASE customers' = customers
    BY <1>1, <2>1 DEF IInv, CustomersAreOwned
  <2>2. ASSUME NEW h \in Handlers, InsertCustomer(h) PROVE Kept
    <3>1. handler[h].at \in NoCustomerYet /\ \A c \in customers : c.by # handler[h].no
      BY <1>1, <2>2 DEF InsertCustomer, IInv, CustomersAreOwned, NoCustomerYet
    <3>2. \A d \in customers' : d \in customers \/ d.by = handler[h].no
      <4> DEFINE out == At(h, "create") /\ TRUE \in handler[h].told
      <4>1. customers' = customers \cup
              {[by |-> handler[h].no, email |-> EmailOf[FailureOf(h)], optedOut |-> out]}
        BY <2>2 DEF InsertCustomer
      <4> HIDE DEF out
      <4> QED BY <4>1
    <3> QED BY <1>1, <3>1, <3>2 DEF IInv, CustomersAreOwned
  <2>3. ASSUME NEW h \in Handlers, SaveConsent(h), customers' # customers PROVE Kept
    <3> DEFINE told == CHOOSE b \in BOOLEAN : b \in Told(h)
    <3>1. /\ Told(h) # {}
          /\ customers' = {IF c.by = handler[h].customer THEN [c EXCEPT !.optedOut = told] ELSE c : c \in customers}
      BY <2>3 DEF SaveConsent
    <3>2. handler[h].told \in {{}, {TRUE}, {FALSE}}
      BY <1>1 DEF IInv, RequestsAreFormed, RequestType
    <3>3. handler[h].told = {told}
      <4>1. CASE handler[h].told = {TRUE}
        BY <4>1, Zenon DEF Told
      <4>2. CASE handler[h].told = {FALSE}
        BY <4>2, Zenon DEF Told
      <4> QED BY <3>1, <3>2, <4>1, <4>2 DEF Told
    <3> HIDE DEF told
    <3>4. \A d \in customers' : d \in customers \/ d.optedOut = told
      BY <1>1, <3>1 DEF IInv, TypeOK
    <3> QED BY <1>1, <3>3, <3>4 DEF IInv, CustomersAreOwned
  <2>4. CASE \E h \in Handlers : IngestNext(h)
    BY <2>1, <2>2, <2>3, <2>4
    DEF IngestNext, IngestStep, Simulate, Deliver, FindCustomer, CreatePayment,
        DetectPaymentFailureRisk, PreparePlanItem, GetOrCreateActivePlan, CommitItem, Return,
        Throw, Crash, db
  <2> QED BY <1>1, <2>1, <2>4 DEF Ingesting, DeleteCases, ingestVars, db
<1>2. IInv /\ [Ingesting]_ingestVars =>
        [\A c \in customers, d \in customers' :
           c.by = d.by /\ c.email = d.email /\ c.optedOut # d.optedOut =>
             \E h \in Handlers : handler[h].told = {d.optedOut}]_ingestVars
  BY <1>1
<1> QED BY <1>2, AlwaysIInv, PTL DEF IngestSpec, Ingesting, WebhookKeepsConsent
-----------------------------------------------------------------------------
(***************************************************************************)
(* The reset.  A reset that is alone has stopped everything else, so what  *)
(* is stored is what it has not deleted yet and what it has inserted.      *)
(***************************************************************************)
BeforeTasks == {"delete", "customers", "paid", "failed"}
AfterTasks == {"plan", "commit", "count", "succeeded"}

ResetIsFormed(r) ==
  /\ DOMAIN r = DOMAIN NoReset
  /\ r.at \in BeforeTasks \cup {"tasks"} \cup AfterTasks \cup {"idle", "error"}
  /\ r.todo \subseteq Collections /\ r.alone \in BOOLEAN
  /\ r.tasks \in [Specs -> {"none", "detect", "prepare", "ready", "gone", "error"}]

\* A request that is over has nothing left to do.
HandlersRest ==
  /\ DOMAIN handler = Handlers
  /\ \A h \in Handlers : /\ DOMAIN handler[h] = DOMAIN Idle
                         /\ handler[h].at = "idle" => handler[h].failure = {}

\* The tasks run between the inserts and the plan, and nothing else is left of a reset
\* that is over.
TasksInStage(r) ==
  /\ r.at = "idle" => r.tasks = NoTasks /\ ~r.alone
  /\ r.at \in BeforeTasks => r.tasks = NoTasks
  /\ r.at \in AfterTasks => \A s \in Specs : r.tasks[s] \in {"ready", "gone"}

Deleted(r, c) == r.at # "delete" \/ c \notin r.todo

Made(r, s) == [by |-> r.no, of |-> s]

\* What is stored under a lone reset, whose cases nobody deletes: cs, ps, ks and pl are
\* the collections.
Owns(r, cs, ps, ks, pl) ==
  /\ \A s \in Specs : r.tasks[s] # "gone"
  /\ Deleted(r, "customers") => \A d \in cs : d.by = r.no
  /\ Deleted(r, "payments") => \A d \in ps : d.by = r.no
  /\ Deleted(r, "cases") =>
       /\ ks \subseteq {Made(r, s) : s \in Specs}
       /\ \A s \in Specs : r.tasks[s] \in {"prepare", "ready"} => Made(r, s) \in ks
  /\ Deleted(r, "plan") /\ r.at \notin {"commit", "count", "succeeded"} => pl = NoPlan
  /\ r.at = "commit" => pl = [by |-> r.no, items |-> {}] /\ r.plan = r.no
  /\ r.at \in {"count", "succeeded"} =>
       pl = [by |-> r.no, items |-> {Made(r, s) : s \in Planned}]

Quiet(h) ==
  \A g \in Handlers : handler[g].at = "idle" /\ (g # h => reset[g].at \in {"idle", "succeeded"})

ResetInv ==
  /\ requests \in Nat /\ HandlersRest
  /\ DOMAIN reset = Handlers
  /\ \A h \in Handlers : ResetIsFormed(reset[h]) /\ TasksInStage(reset[h])
  /\ \A h \in Handlers : reset[h].alone =>
       Quiet(h) /\ (reset[h].at # "error" => Owns(reset[h], customers, payments, cases, plan))

LEMMA NoResetIsFormed == ResetIsFormed(NoReset) /\ ~NoReset.alone /\ NoReset.at = "idle" /\ TasksInStage(NoReset)
<1>1. NoTasks \in [Specs -> {"none", "detect", "prepare", "ready", "gone", "error"}]
  BY DEF NoTasks
<1>2. FALSE \in BOOLEAN
  OBVIOUS
<1> QED BY <1>1, <1>2 DEF NoReset, ResetIsFormed, TasksInStage, BeforeTasks, AfterTasks, Collections

LEMMA ResetInitHolds == Init => ResetInv
<1> SUFFICES ASSUME Init PROVE ResetInv
  OBVIOUS
<1>1. requests \in Nat /\ HandlersRest
  BY DEF Init, IngestInit, HandlersRest, Idle
<1> QED BY <1>1, NoResetIsFormed DEF Init, ResetInv

\* A step of a reset under way: whoever is alone, it is this one.
LEMMA ResetMoves ==
  ASSUME ResetInv, NEW h \in Handlers, reset[h].at \notin {"idle", "succeeded"}, NEW r, ResetIsFormed(r),
         reset' = [reset EXCEPT ![h] = r], UNCHANGED <<handler, requests>>,
         TasksInStage(r), r.alone => reset[h].alone,
         r.alone /\ r.at # "error" => Owns(r, customers', payments', cases', plan')
  PROVE  ResetInv'
<1> USE DEF ResetInv
<1>1. \A g \in Handlers : reset'[g] = IF g = h THEN r ELSE reset[g]
  OBVIOUS
<1>2. DOMAIN reset' = Handlers /\ \A g \in Handlers : ResetIsFormed(reset'[g]) /\ TasksInStage(reset'[g])
  BY <1>1
<1>3. \A g \in Handlers : reset'[g].alone => g = h
  BY <1>1 DEF Quiet
<1>4. r.alone => Quiet(h)'
  BY <1>1 DEF Quiet
<1>5. HandlersRest'
  BY DEF HandlersRest
<1>6. ASSUME NEW g \in Handlers, reset'[g].alone
      PROVE  /\ Quiet(g)'
             /\ reset'[g].at # "error" => Owns(reset'[g], customers', payments', cases', plan')
  BY <1>1, <1>3, <1>4, <1>6
<1> QED BY <1>2, <1>5, <1>6

\* What stays as it was when a reset fails, or one of its tasks does.
LEMMA FailResetKeeps ==
  ASSUME ResetInv, NEW h \in Handlers, FailReset(h) PROVE ResetInv'
<1> DEFINE r == [reset[h] EXCEPT !.at = "error"]
<1>1. /\ ResetIsFormed(reset[h]) /\ reset[h].at \notin {"idle", "succeeded"}
      /\ reset' = [reset EXCEPT ![h] = r] /\ UNCHANGED <<handler, requests>>
  BY DEF FailReset, ToReset, ResetInv
<1>2. ResetIsFormed(r) /\ r.at = "error" /\ r.alone = reset[h].alone
  BY <1>1 DEF ResetIsFormed, NoReset
<1>3. TasksInStage(r)
  BY <1>2 DEF TasksInStage, BeforeTasks, AfterTasks
<1> HIDE DEF r
<1> QED BY <1>1, <1>2, <1>3, ResetMoves

\* Tasks go on in the stage of the tasks, and after a failure.
LEMMA TasksRun ==
  ASSUME ResetInv, NEW h \in Handlers, NEW s \in Specs, reset[h].tasks[s] \in {"detect", "prepare"}
  PROVE  reset[h].at \in {"tasks", "error"}
<1>1. ResetIsFormed(reset[h]) /\ TasksInStage(reset[h])
  BY DEF ResetInv
<1> QED BY <1>1 DEF ResetIsFormed, TasksInStage, NoReset, NoTasks

LEMMA TaskKeeps ==
  ASSUME ResetInv, NEW h \in Handlers, NEW s \in Specs, reset[h].tasks[s] \in {"detect", "prepare"},
         NEW place \in {"prepare", "ready", "gone", "error"}, TaskTo(h, s, place),
         place = "gone" => reset[h].tasks[s] = "prepare" /\ Made(reset[h], s) \notin cases,
         UNCHANGED <<handler, requests, customers, payments, plan>>,
         \/ cases' = cases /\ (place \in {"gone", "error"} \/ Made(reset[h], s) \in cases)
         \/ cases' = cases \cup {Made(reset[h], s)}
  PROVE  ResetInv'
<1> DEFINE q == reset[h]
           r == [q EXCEPT !.tasks = [q.tasks EXCEPT ![s] = place]]
<1>1. ResetIsFormed(q) /\ q.at \in {"tasks", "error"}
  BY TasksRun DEF ResetInv
<1>2. reset' = [reset EXCEPT ![h] = r]
  BY DEF TaskTo, ResetInv
<1>3. /\ ResetIsFormed(r) /\ r.at = q.at /\ r.alone = q.alone /\ r.no = q.no
      /\ r.tasks = [q.tasks EXCEPT ![s] = place]
  BY <1>1 DEF ResetIsFormed, NoReset
<1>4. q.alone /\ q.at # "error" => Owns(q, customers, payments, cases, plan)
  BY DEF ResetInv
<1>5. TasksInStage(r)
  BY <1>1, <1>3 DEF TasksInStage, BeforeTasks, AfterTasks
<1>6. \A z \in Specs : r.tasks[z] = IF z = s THEN place ELSE q.tasks[z]
  BY <1>1, <1>3 DEF ResetIsFormed, NoReset
<1>7. \A z \in Specs : Made(r, z) = Made(q, z)
  BY <1>3 DEF Made
<1> HIDE DEF r, q
<1>8. ASSUME q.alone, q.at = "tasks" PROVE Owns(r, customers', payments', cases', plan')
  <2>1. /\ \A d \in customers : d.by = q.no
        /\ \A d \in payments : d.by = q.no
        /\ cases \subseteq {Made(q, z) : z \in Specs}
        /\ \A z \in Specs : q.tasks[z] \in {"prepare", "ready"} => Made(q, z) \in cases
        /\ \A z \in Specs : q.tasks[z] # "gone"
        /\ plan = NoPlan
    BY <1>4, <1>8 DEF Owns, Deleted
  <2>2. /\ cases' \subseteq {Made(r, z) : z \in Specs}
        /\ \A z \in Specs : r.tasks[z] \in {"prepare", "ready"} => Made(r, z) \in cases'
        /\ \A z \in Specs : r.tasks[z] # "gone"
    BY <1>6, <1>7, <2>1 DEF q
  <2> QED BY <1>3, <1>8, <2>1, <2>2 DEF Owns, Deleted
<1> QED BY <1>1, <1>2, <1>3, <1>5, <1>8, ResetMoves DEF q

LEMMA TasksKeep ==
  ASSUME ResetInv, NEW h \in Handlers, NEW s \in Specs,
         DetectTask(h, s) \/ PrepareTask(h, s) \/ FailTask(h, s)
  PROVE  ResetInv'
<1>1. CASE DetectTask(h, s)
  BY <1>1, TaskKeeps DEF DetectTask, Made
<1>2. CASE PrepareTask(h, s)
  BY <1>2, TaskKeeps DEF PrepareTask, Made, db
<1>3. CASE FailTask(h, s)
  BY <1>3, TaskKeeps DEF FailTask, db
<1> QED BY <1>1, <1>2, <1>3

\* A stage that ends well: q is the reset before, r after.
LEMMA StageEnds ==
  ASSUME ResetInv, NEW h \in Handlers, NEW q, NEW r, q = reset[h],
         q.at \notin {"idle", "succeeded", "error"}, ResetIsFormed(r), TasksInStage(r), r.alone = q.alone,
         reset' = [reset EXCEPT ![h] = r], UNCHANGED <<handler, requests>>,
         Owns(q, customers, payments, cases, plan) =>
           (r.at # "error" => Owns(r, customers', payments', cases', plan'))
  PROVE  ResetInv'
<1>1. q.alone => Owns(q, customers, payments, cases, plan)
  BY DEF ResetInv
<1> QED BY <1>1, ResetMoves

LEMMA DeleteKeeps ==
  ASSUME ResetInv, NEW h \in Handlers, NEW c \in Collections, Delete(h, c) PROVE ResetInv'
<1> DEFINE q == reset[h]
           place == IF q.todo = {c} THEN "customers" ELSE q.at
           r == [q EXCEPT !.todo = q.todo \ {c}, !.at = place]
<1>1. /\ ResetIsFormed(q) /\ q.at = "delete" /\ c \in q.todo /\ TasksInStage(q)
      /\ UNCHANGED <<handler, requests>>
      /\ customers' = (IF c = "customers" THEN {} ELSE customers)
      /\ payments' = (IF c = "payments" THEN {} ELSE payments)
      /\ cases' = (IF c = "cases" THEN {} ELSE cases)
      /\ plan' = (IF c = "plan" THEN NoPlan ELSE plan)
  BY DEF Delete, ResetAt, ResetInv, DeletedCollections
<1>2. reset' = [reset EXCEPT ![h] = r]
  BY DEF Delete, ResetInv
<1>3. /\ ResetIsFormed(r) /\ r.at = place /\ r.todo = q.todo \ {c} /\ r.alone = q.alone /\ r.no = q.no
      /\ r.tasks = q.tasks
  BY <1>1 DEF ResetIsFormed, NoReset, BeforeTasks
<1>4. place \in {"delete", "customers"} /\ (place = "customers" => q.todo = {c})
  BY <1>1
<1>5. q.tasks = NoTasks
  BY <1>1 DEF TasksInStage, BeforeTasks
<1>6. TasksInStage(r)
  BY <1>3, <1>4, <1>5 DEF TasksInStage, BeforeTasks, AfterTasks
<1>7. \A d \in Collections : Deleted(r, d) => d = c \/ Deleted(q, d)
  BY <1>1, <1>3, <1>4 DEF Deleted
<1>8. \A z \in Specs : r.tasks[z] = "none"
  BY <1>3, <1>5 DEF NoTasks
<1>9. \A z \in Specs : Made(r, z) = Made(q, z)
  BY <1>3 DEF Made
<1> HIDE DEF r, place
<1>10. Owns(q, customers, payments, cases, plan) => Owns(r, customers', payments', cases', plan')
  <2> SUFFICES ASSUME Owns(q, customers, payments, cases, plan)
               PROVE  Owns(r, customers', payments', cases', plan')
    OBVIOUS
  <2>1. /\ "customers" \in Collections /\ "payments" \in Collections
        /\ "cases" \in Collections /\ "plan" \in Collections
    BY DEF Collections
  <2>2. Deleted(r, "customers") => \A d \in customers' : d.by = r.no
    BY <1>1, <1>3, <1>7, <2>1 DEF Owns
  <2>3. Deleted(r, "payments") => \A d \in payments' : d.by = r.no
    BY <1>1, <1>3, <1>7, <2>1 DEF Owns
  <2>4. Deleted(r, "cases") => cases' \subseteq {Made(r, s) : s \in Specs}
    BY <1>1, <1>7, <1>9, <2>1 DEF Owns
  <2>5. Deleted(r, "plan") => plan' = NoPlan
    BY <1>1, <1>7, <2>1 DEF Owns
  <2> QED BY <1>3, <1>4, <1>8, <2>2, <2>3, <2>4, <2>5 DEF Owns
<1> QED BY <1>1, <1>2, <1>3, <1>6, <1>10, StageEnds

\* From a stage that follows the deletions, another is reached and the collections grow.
LEMMA InsertsKeep ==
  ASSUME ResetInv, NEW h \in Handlers, InsertCustomers(h) \/ InsertPaid(h) \/ InsertFailed(h)
  PROVE  ResetInv'
<1> DEFINE q == reset[h]
<1>1. ResetIsFormed(q) /\ TasksInStage(q) /\ DOMAIN reset = Handlers
  BY DEF ResetInv
<1>2. ASSUME NEW place \in {"paid", "failed"}, q.at \in {"customers", "paid"}, ToReset(h, place),
             NEW C, NEW P, customers' = customers \cup C, payments' = payments \cup P,
             \A d \in C : d.by = q.no, \A d \in P : d.by = q.no,
             UNCHANGED <<cases, plan, handler, requests>>
      PROVE  ResetInv'
  <2> DEFINE r == [q EXCEPT !.at = place]
  <2>1. /\ ResetIsFormed(r) /\ r.at = place /\ r.alone = q.alone /\ r.no = q.no /\ r.tasks = q.tasks
        /\ reset' = [reset EXCEPT ![h] = r]
    BY <1>1, <1>2 DEF ResetIsFormed, NoReset, BeforeTasks, ToReset
  <2>2. TasksInStage(r)
    BY <1>1, <1>2, <2>1 DEF TasksInStage, BeforeTasks, AfterTasks
  <2>3. \A z \in Specs : Made(r, z) = Made(q, z)
    BY <2>1 DEF Made
  <2> HIDE DEF r, q
  <2>4. Owns(q, customers, payments, cases, plan) => Owns(r, customers', payments', cases', plan')
    BY <1>2, <2>1, <2>3 DEF Owns, Deleted
  <2> QED BY <1>2, <2>1, <2>2, <2>4, StageEnds DEF q
<1>3. CASE InsertCustomers(h)
  <2> DEFINE C == {[by |-> q.no, email |-> e, optedOut |-> e \in OptedOut] : e \in Specs \cup {"paying"}}
             P == {}
  <2>1. /\ customers' = customers \cup C /\ payments' = payments \cup P
        /\ (\A d \in C : d.by = q.no) /\ (\A d \in P : d.by = q.no)
    BY <1>3 DEF InsertCustomers
  <2>2. ToReset(h, "paid") /\ q.at = "customers" /\ UNCHANGED <<cases, plan, handler, requests>>
    BY <1>3 DEF InsertCustomers, ResetAt
  <2> HIDE DEF C, P, q
  <2> QED BY <1>2, <2>1, <2>2
<1>4. CASE InsertPaid(h)
  <2> DEFINE P == {[by |-> q.no, of |-> "paying", status |-> "paid"]}
             C == {}
  <2>1. /\ customers' = customers \cup C /\ payments' = payments \cup P
        /\ (\A d \in C : d.by = q.no) /\ (\A d \in P : d.by = q.no)
    BY <1>4 DEF InsertPaid
  <2>2. ToReset(h, "failed") /\ q.at = "paid" /\ UNCHANGED <<cases, plan, handler, requests>>
    BY <1>4 DEF InsertPaid, ResetAt
  <2> HIDE DEF C, P, q
  <2> QED BY <1>2, <2>1, <2>2
<1>5. CASE InsertFailed(h)
  <2> DEFINE fresh == [s \in Specs |-> "detect"]
             r == [q EXCEPT !.at = "tasks", !.tasks = fresh]
  <2>1. /\ ResetIsFormed(r) /\ r.at = "tasks" /\ r.alone = q.alone /\ r.no = q.no /\ r.tasks = fresh
        /\ reset' = [reset EXCEPT ![h] = r] /\ q.at = "failed"
        /\ UNCHANGED <<customers, cases, plan, handler, requests>>
    BY <1>1, <1>5 DEF ResetIsFormed, NoReset, InsertFailed, ResetAt
  <2>2. TasksInStage(r)
    BY <2>1 DEF TasksInStage, BeforeTasks, AfterTasks
  <2>3. \A d \in payments' : d \in payments \/ d.by = q.no
    BY <1>5 DEF InsertFailed
  <2>4. (\A z \in Specs : Made(r, z) = Made(q, z)) /\ (\A z \in Specs : r.tasks[z] = "detect")
    BY <2>1 DEF Made
  <2> HIDE DEF r, q, fresh
  <2>5. Owns(q, customers, payments, cases, plan) => Owns(r, customers', payments', cases', plan')
    BY <2>1, <2>3, <2>4 DEF Owns, Deleted
  <2> QED BY <2>1, <2>2, <2>5, StageEnds DEF q
<1> QED BY <1>3, <1>4, <1>5

LEMMA AwaitTasksKeeps ==
  ASSUME ResetInv, NEW h \in Handlers, AwaitTasks(h) PROVE ResetInv'
<1> DEFINE q == reset[h]
<1>1. /\ ResetIsFormed(q) /\ q.at = "tasks" /\ UNCHANGED <<db, handler, requests>>
      /\ DOMAIN reset = Handlers
  BY DEF ResetInv, AwaitTasks, ResetAt
<1>2. PICK place \in {"error", "plan", "count"} :
        /\ ToReset(h, place)
        /\ place # "error" => \A s \in Specs : q.tasks[s] \in {"ready", "gone"}
        /\ place = "count" => \A s \in Planned : q.tasks[s] # "ready"
  BY DEF AwaitTasks, Prepared
<1> DEFINE r == [q EXCEPT !.at = place]
<1>3. /\ ResetIsFormed(r) /\ r.at = place /\ r.alone = q.alone /\ r.no = q.no /\ r.tasks = q.tasks
      /\ reset' = [reset EXCEPT ![h] = r]
  BY <1>1, <1>2 DEF ResetIsFormed, NoReset, AfterTasks, ToReset
<1>4. TasksInStage(r)
  BY <1>2, <1>3 DEF TasksInStage, BeforeTasks, AfterTasks
<1>5. \A z \in Specs : Made(r, z) = Made(q, z)
  BY <1>3 DEF Made
<1> HIDE DEF r, q
<1>6. Owns(q, customers, payments, cases, plan) => place # "count"
  BY <1>2, DemoResetAssumption DEF Owns
<1>7. Owns(q, customers, payments, cases, plan) =>
        (r.at # "error" => Owns(r, customers', payments', cases', plan'))
  BY <1>1, <1>2, <1>3, <1>5, <1>6 DEF Owns, Deleted, db
<1> QED BY <1>1, <1>3, <1>4, <1>7, StageEnds DEF q

LEMMA OpenPlanKeeps ==
  ASSUME ResetInv, NEW h \in Handlers, OpenPlan(h) PROVE ResetInv'
<1> DEFINE q == reset[h]
           n == plan'.by
           r == [q EXCEPT !.at = "commit", !.plan = n]
<1>1. /\ ResetIsFormed(q) /\ TasksInStage(q) /\ q.at = "plan"
      /\ UNCHANGED <<customers, payments, cases, handler, requests>>
      /\ plan' = IF plan = NoPlan THEN [NoPlan EXCEPT !.by = q.no] ELSE plan
  BY DEF ResetInv, OpenPlan, ResetAt
<1> HIDE DEF n
<1>2. reset' = [reset EXCEPT ![h] = r]
  <2>1. reset' = [reset EXCEPT ![h].at = "commit", ![h].plan = n]
    BY DEF OpenPlan, n
  <2> QED BY <2>1 DEF ResetInv
<1>3. plan = NoPlan => plan' = [by |-> q.no, items |-> {}] /\ n = q.no
  BY <1>1 DEF NoPlan, n
<1>4. /\ ResetIsFormed(r) /\ r.at = "commit" /\ r.alone = q.alone /\ r.no = q.no
      /\ r.tasks = q.tasks /\ r.plan = n
  BY <1>1 DEF ResetIsFormed, NoReset, AfterTasks
<1>5. TasksInStage(r)
  BY <1>1, <1>4 DEF TasksInStage, BeforeTasks, AfterTasks
<1>6. \A z \in Specs : Made(r, z) = Made(q, z)
  BY <1>4 DEF Made
<1> HIDE DEF r, q
<1>7. Owns(q, customers, payments, cases, plan) => Owns(r, customers', payments', cases', plan')
  BY <1>1, <1>3, <1>4, <1>6 DEF Owns, Deleted
<1> QED BY <1>1, <1>2, <1>4, <1>5, <1>7, StageEnds DEF q

LEMMA CommitItemsKeeps ==
  ASSUME ResetInv, NEW h \in Handlers, CommitItems(h) PROVE ResetInv'
<1> DEFINE q == reset[h]
           mine == {Made(q, s) : s \in Prepared(h)}
<1>1. /\ ResetIsFormed(q) /\ TasksInStage(q) /\ q.at = "commit" /\ DOMAIN reset = Handlers
      /\ UNCHANGED <<customers, payments, cases, handler, requests>>
  BY DEF ResetInv, CommitItems, ResetAt
<1>2. PICK place \in {"count", "error"} :
        /\ ToReset(h, place)
        /\ place = "count" => plan' = [plan EXCEPT !.items = @ \cup mine]
        /\ place = "error" => plan.by # q.plan
  <2>1. CASE plan.by = q.plan
    BY <2>1 DEF CommitItems, Made
  <2>2. CASE plan.by # q.plan
    BY <2>2 DEF CommitItems
  <2> QED BY <2>1, <2>2
<1> DEFINE r == [q EXCEPT !.at = place]
<1>3. /\ ResetIsFormed(r) /\ r.at = place /\ r.alone = q.alone /\ r.no = q.no /\ r.tasks = q.tasks
      /\ reset' = [reset EXCEPT ![h] = r]
  BY <1>1, <1>2 DEF ResetIsFormed, NoReset, AfterTasks, ToReset
<1>4. TasksInStage(r)
  BY <1>1, <1>2, <1>3 DEF TasksInStage, BeforeTasks, AfterTasks
<1>5. \A z \in Specs : Made(r, z) = Made(q, z)
  BY <1>3 DEF Made
<1>6. (\A s \in Specs : q.tasks[s] # "gone") => mine = {Made(r, s) : s \in Planned}
  <2>1. \A s \in Specs : q.tasks[s] \in {"ready", "gone"}
    BY <1>1 DEF TasksInStage, AfterTasks
  <2>2. (\A s \in Specs : q.tasks[s] # "gone") => Prepared(h) = Planned
    BY <2>1, DemoResetAssumption DEF Prepared
  <2> QED BY <1>5, <2>2, DemoResetAssumption
<1> HIDE DEF r, q, mine
<1>7. ASSUME Owns(q, customers, payments, cases, plan), place = "count"
      PROVE  Owns(r, customers', payments', cases', plan')
  <2>1. plan = [by |-> q.no, items |-> {}]
    BY <1>1, <1>7 DEF Owns
  <2>2. plan' = [by |-> r.no, items |-> {Made(r, s) : s \in Planned}]
    BY <1>2, <1>3, <1>6, <1>7, <2>1 DEF Owns
  <2> QED BY <1>1, <1>3, <1>5, <1>7, <2>2 DEF Owns, Deleted
<1> QED BY <1>1, <1>2, <1>3, <1>4, <1>7, StageEnds DEF q

LEMMA CountDocumentsKeeps ==
  ASSUME ResetInv, NEW h \in Handlers, CountDocuments(h) PROVE ResetInv'
<1> DEFINE q == reset[h]
<1>1. /\ ResetIsFormed(q) /\ TasksInStage(q) /\ q.at = "count" /\ DOMAIN reset = Handlers
      /\ UNCHANGED <<db, handler, requests>>
  BY DEF ResetInv, CountDocuments, ResetAt
<1>2. PICK place \in {"succeeded", "error"} : ToReset(h, place)
  BY DEF CountDocuments
<1> DEFINE r == [q EXCEPT !.at = place]
<1>3. /\ ResetIsFormed(r) /\ r.at = place /\ r.alone = q.alone /\ r.no = q.no /\ r.tasks = q.tasks
      /\ reset' = [reset EXCEPT ![h] = r]
  BY <1>1, <1>2 DEF ResetIsFormed, NoReset, AfterTasks, ToReset
<1>4. TasksInStage(r)
  BY <1>1, <1>2, <1>3 DEF TasksInStage, BeforeTasks, AfterTasks
<1>5. \A z \in Specs : Made(r, z) = Made(q, z)
  BY <1>3 DEF Made
<1>6. {Made(q, s) : s \in Planned} = {Made(r, s) : s \in Planned}
  BY <1>5, DemoResetAssumption
<1> HIDE DEF r, q
<1>7. ASSUME Owns(q, customers, payments, cases, plan), place = "succeeded"
      PROVE  Owns(r, customers', payments', cases', plan')
  BY <1>1, <1>3, <1>5, <1>6, <1>7 DEF Owns, Deleted, db
<1> QED BY <1>1, <1>2, <1>3, <1>4, <1>7, StageEnds DEF q

LEMMA AnswerErrorKeeps ==
  ASSUME ResetInv, NEW h \in Handlers, AnswerError(h) PROVE ResetInv'
<1>1. /\ reset[h].at = "error" /\ reset' = [reset EXCEPT ![h] = NoReset]
      /\ UNCHANGED <<handler, requests>>
  BY DEF AnswerError, ResetAt, db
<1> QED BY <1>1, NoResetIsFormed, ResetMoves

\* The request that starts now takes the place of all that were alone.
LEMMA NobodyIsAlone ==
  ASSUME ResetInv, NEW g \in Handlers, NEW r, r = [reset[g] EXCEPT !.alone = FALSE]
  PROVE  ResetIsFormed(r) /\ TasksInStage(r) /\ ~r.alone /\ r.at = reset[g].at
<1>1. ResetIsFormed(reset[g]) /\ TasksInStage(reset[g])
  BY DEF ResetInv
<1>2. ResetIsFormed(r) /\ ~r.alone /\ r.at = reset[g].at /\ r.tasks = reset[g].tasks
  BY <1>1 DEF ResetIsFormed, NoReset
<1> QED BY <1>1, <1>2 DEF TasksInStage

LEMMA BeginResetKeeps ==
  ASSUME ResetInv, NEW h \in Handlers, BeginReset(h) PROVE ResetInv'
<1> DEFINE quiet == \A q \in Handlers \ {h} : ~Busy(q)
           r == [NoReset EXCEPT !.at = "delete", !.no = requests + 1, !.todo = Collections, !.alone = quiet]
           rest(g) == [reset[g] EXCEPT !.alone = FALSE]
<1>1. /\ handler[h].at = "idle" /\ requests' = requests + 1 /\ UNCHANGED <<db, handler>>
      /\ reset' = [g \in Handlers |-> IF g = h THEN r ELSE rest(g)]
  BY Zenon DEF BeginReset, Joins
<1>2. quiet \in BOOLEAN
  OBVIOUS
<1>3. quiet => \A g \in Handlers \ {h} : handler[g].at = "idle" /\ reset[g].at \in {"idle", "succeeded"}
  BY DEF Busy
<1> HIDE DEF quiet
<1>4. /\ ResetIsFormed(r) /\ r.at = "delete" /\ r.todo = Collections /\ r.tasks = NoTasks
      /\ r.alone = quiet
  BY <1>2, NoResetIsFormed DEF ResetIsFormed, NoReset, BeforeTasks
<1>5. TasksInStage(r)
  BY <1>4 DEF TasksInStage, BeforeTasks, AfterTasks
<1>6. Owns(r, customers', payments', cases', plan')
  BY <1>4 DEF Owns, Deleted, Collections, NoTasks
<1> HIDE DEF r
<1>7. \A g \in Handlers : g # h => /\ ResetIsFormed(rest(g)) /\ TasksInStage(rest(g))
                                   /\ ~rest(g).alone /\ rest(g).at = reset[g].at
  BY NobodyIsAlone
<1> HIDE DEF rest
<1>8. DOMAIN reset' = Handlers /\ \A g \in Handlers : reset'[g] = IF g = h THEN r ELSE rest(g)
  BY <1>1
<1>9. requests' \in Nat /\ HandlersRest'
  BY <1>1 DEF ResetInv, HandlersRest
<1>10. quiet => Quiet(h)'
  BY <1>1, <1>3, <1>7, <1>8 DEF Quiet
<1> QED BY <1>4, <1>5, <1>6, <1>7, <1>8, <1>9, <1>10 DEF ResetInv

\* An ingestion moves one request: it goes on somewhere, or it is over.
LEMMA HandlersMove ==
  ASSUME HandlersRest, NEW h \in Handlers, IngestNext(h) PROVE HandlersRest'
<1> USE DEF HandlersRest
<1>1. ASSUME NEW place, place # "idle", Goto(h, place) PROVE HandlersRest'
  BY <1>1 DEF Goto, Idle
<1>2. ASSUME NEW f, NEW told, Begin(h, f, told) PROVE HandlersRest'
  <2> DEFINE place == IF EmailOf[f] = NoEmail THEN "create" ELSE "find"
             r == [Idle EXCEPT !.at = place, !.no = requests', !.failure = {f}, !.told = told]
  <2>1. handler' = [handler EXCEPT ![h] = r]
    BY <1>2, Zenon DEF Begin
  <2>2. place # "idle"
    OBVIOUS
  <2> HIDE DEF place
  <2>3. DOMAIN r = DOMAIN Idle /\ r.at # "idle"
    BY <2>2 DEF Idle
  <2> HIDE DEF r
  <2> QED BY <2>1, <2>3
<1>3. ASSUME handler' = [handler EXCEPT ![h] = Idle] PROVE HandlersRest'
  BY <1>3 DEF Idle
<1>12. ASSUME handler' = [handler EXCEPT ![h] = Settled(h)] PROVE HandlersRest'
  BY <1>12 DEF Settled, Idle
<1>4. CASE handler' = handler
  BY <1>4
<1>5. CASE \E f \in Failures : Simulate(h, f) \/ Deliver(h, f)
  BY <1>2, <1>4, <1>5 DEF Simulate, Deliver, RecordEvent
<1>6. CASE FindCustomer(h)
  <2>1. CASE Goto(h, "insert")
    BY <1>1, <2>1
  <2>2. ASSUME NEW c, handler' = [handler EXCEPT ![h].at = "consent", ![h].customer = c.by,
                                                 ![h].optedOut = c.optedOut]
        PROVE  HandlersRest'
    BY <2>2 DEF Idle
  <2> QED BY <1>6, <2>1, <2>2 DEF FindCustomer
<1>7. CASE InsertCustomer(h)
  <2>1. handler' = [handler EXCEPT ![h] = Settled(h)] \/
        handler' = [handler EXCEPT ![h] = [@ EXCEPT !.at = "consent", !.customer = handler[h].no,
                                                    !.optedOut = FALSE]]
    BY <1>7, Zenon DEF InsertCustomer
  <2>2. CASE handler' = [handler EXCEPT ![h] = Settled(h)]
    BY <1>12, <2>2
  <2>3. CASE handler' = [handler EXCEPT ![h] = [@ EXCEPT !.at = "consent",
                                  !.customer = handler[h].no, !.optedOut = FALSE]]
    BY <2>3 DEF Idle
  <2> QED BY <2>1, <2>2, <2>3
<1>8. CASE SaveConsent(h)
  <2>1. Goto(h, "throw") \/ handler' = [handler EXCEPT ![h] = Settled(h)]
    BY <1>8, Zenon DEF SaveConsent
  <2> QED BY <1>1, <1>12, <2>1
<1>9. CASE CreatePayment(h) \/ DetectPaymentFailureRisk(h) \/ PreparePlanItem(h) \/ CommitItem(h) \/ Throw(h)
  <2>1. \E place \in {"detect", "prepare", "plan", "throw", "return"} : Goto(h, place)
    BY <1>9 DEF CreatePayment, DetectPaymentFailureRisk, PreparePlanItem, CommitItem, Throw
  <2> QED BY <1>1, <2>1
<1>10. CASE GetOrCreateActivePlan(h)
  <2> DEFINE n == plan'.by
  <2>1. handler' = [handler EXCEPT ![h].at = "commit", ![h].plan = n]
    BY <1>10 DEF GetOrCreateActivePlan
  <2> HIDE DEF n
  <2> QED BY <2>1 DEF Idle
<1>11. CASE Return(h) \/ Crash(h)
  BY <1>3, <1>11 DEF Return, Crash
<1> QED BY <1>5, <1>6, <1>7, <1>8, <1>9, <1>10, <1>11 DEF IngestNext, IngestStep

\* What is not in flight does nothing but begin, or turn a redelivery away.
LEMMA IdleHandlersWait ==
  ASSUME HandlersRest, requests \in Nat, NEW h \in Handlers, IngestNext(h)
  PROVE  /\ requests' \in {requests, requests + 1}
         /\ handler[h].at = "idle" /\ requests' = requests =>
              UNCHANGED <<customers, payments, cases, plan, handler>>
<1>1. handler[h].at = "idle" => handler[h].failure = {}
  BY DEF HandlersRest
<1>2. CASE IngestStep(h) \/ Throw(h) \/ Crash(h)
  <2>1. requests' = requests
    BY <1>2 DEF IngestStep, FindCustomer, InsertCustomer, SaveConsent, CreatePayment,
                DetectPaymentFailureRisk, PreparePlanItem, GetOrCreateActivePlan, CommitItem,
                Return, Throw, Crash
  <2>2. handler[h].at # "idle"
    BY <1>1, <1>2 DEF IngestStep, FindCustomer, InsertCustomer, SaveConsent, CreatePayment,
                DetectPaymentFailureRisk, PreparePlanItem, GetOrCreateActivePlan, CommitItem,
                Return, Throw, Crash, At
  <2> QED BY <2>1, <2>2
<1>3. CASE \E f \in Failures : Simulate(h, f) \/ Deliver(h, f)
  BY <1>3 DEF Simulate, Deliver, RecordEvent, Begin, db
<1> QED BY <1>2, <1>3 DEF IngestNext

LEMMA IngestKeeps ==
  ASSUME ResetInv, NEW h \in Handlers, Ingest(h) PROVE ResetInv'
<1>1. /\ HandlersRest /\ HandlersRest' /\ requests \in Nat /\ IngestNext(h) /\ reset[h].at = "idle"
      /\ requests' \in Nat
  BY HandlersMove, IdleHandlersWait DEF ResetInv, Ingest
<1>2. CASE requests' = requests
  <2>1. reset' = reset
    BY <1>2 DEF Ingest
  <2>2. ASSUME NEW g \in Handlers, reset[g].alone
        PROVE  Quiet(g)' /\ (reset[g].at # "error" => Owns(reset[g], customers', payments', cases', plan'))
    <3>1. Quiet(g) /\ (reset[g].at # "error" => Owns(reset[g], customers, payments, cases, plan))
      BY <2>2 DEF ResetInv
    <3>2. UNCHANGED <<customers, payments, cases, plan, handler>>
      BY <1>1, <1>2, <3>1, IdleHandlersWait DEF Quiet
    <3> QED BY <2>1, <3>1, <3>2 DEF Quiet
  <2> QED BY <1>1, <2>1, <2>2 DEF ResetInv
<1>3. CASE requests' # requests
  <2> DEFINE rest(g) == [reset[g] EXCEPT !.alone = FALSE]
  <2>1. reset' = [g \in Handlers |-> rest(g)]
    BY <1>3 DEF Ingest
  <2>2. \A g \in Handlers : ResetIsFormed(rest(g)) /\ TasksInStage(rest(g)) /\ ~rest(g).alone
    BY NobodyIsAlone
  <2> HIDE DEF rest
  <2> QED BY <1>1, <2>1, <2>2 DEF ResetInv
<1> QED BY <1>2, <1>3

LEMMA ResetNextKeeps == ResetInv /\ [Next]_vars => ResetInv'
<1> SUFFICES ASSUME ResetInv, [Next]_vars PROVE ResetInv'
  OBVIOUS
<1>1. CASE UNCHANGED vars
  BY <1>1 DEF vars, ingestVars, db, ResetInv, HandlersRest, Quiet
<1>2. ASSUME NEW h \in Handlers, ResetNext(h) PROVE ResetInv'
  BY <1>2, BeginResetKeeps, DeleteKeeps, InsertsKeep, TasksKeep, AwaitTasksKeeps, OpenPlanKeeps,
     CommitItemsKeeps, CountDocumentsKeeps, AnswerErrorKeeps, FailResetKeeps
     DEF ResetNext, ResetStep
<1> QED BY <1>1, <1>2, IngestKeeps DEF Next

\* seedDemoDataset of demoSeed.js: a reset that met no other request leaves its own
\* documents and nothing else, whatever it found and for any data set.
THEOREM LoneResetsArePristine == Spec => []AloneMeansPristine
<1>1. ResetInv => AloneMeansPristine
  <2> SUFFICES ASSUME ResetInv, NEW h \in Handlers, reset[h].at = "succeeded", reset[h].alone
               PROVE  LET mine == reset[h].no
                      IN /\ \A d \in customers \cup payments \cup cases \cup plan.items : d.by = mine
                         /\ {c.of : c \in cases} = Specs
                         /\ plan.by = mine /\ {i.of : i \in plan.items} = Planned
    BY DEF AloneMeansPristine
  <2> DEFINE r == reset[h]
  <2>1. Owns(r, customers, payments, cases, plan) /\ TasksInStage(r)
    BY DEF ResetInv
  <2>2. /\ \A d \in customers \cup payments : d.by = r.no
        /\ cases = {Made(r, s) : s \in Specs}
        /\ plan = [by |-> r.no, items |-> {Made(r, s) : s \in Planned}]
    <3>1. \A s \in Specs : Made(r, s) \in cases
      BY <2>1 DEF Owns, Deleted, TasksInStage, AfterTasks
    <3>2. \A d \in customers \cup payments : d.by = r.no
      BY <2>1 DEF Owns, Deleted
    <3>3. cases \subseteq {Made(r, s) : s \in Specs}
      BY <2>1 DEF Owns, Deleted
    <3>4. plan = [by |-> r.no, items |-> {Made(r, s) : s \in Planned}]
      BY <2>1 DEF Owns
    <3> QED BY <3>1, <3>2, <3>3, <3>4
  <2>3. \A s : Made(r, s).by = r.no /\ Made(r, s).of = s
    BY DEF Made
  <2> HIDE DEF r
  <2> QED BY <2>2, <2>3 DEF r
<1>2. ResetInv /\ [Next]_vars => ResetInv'
  BY ResetNextKeeps
<1> QED BY <1>1, <1>2, ResetInitHolds, PTL DEF Spec
=============================================================================
