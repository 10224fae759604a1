----------------------------- MODULE PlanPanel -----------------------------
(***************************************************************************)
(* The recovery plan panel of the payments page and the server behind it.  *)
(* The page reads an overview, which carries the merchant's current plan,  *)
(* when it is mounted, after every answered confirmation, and whenever     *)
(* something else on it asks for one; the answers arrive in any order, one *)
(* that was read before a confirmation also after its answer.  The panel   *)
(* shows its own copy of the plan once a confirmation was answered, the    *)
(* overview's until then.  How plans are created and executed, item by     *)
(* item, is in RecoveryPlan; here a plan has a status and the set of cases *)
(* it is about.                                                            *)
(***************************************************************************)
EXTENDS Naturals, Sequences, FiniteSets

CONSTANTS
  Failures,   \* the cases that are planned while the page is open
  MaxReads,   \* bound on the overview requests in flight together
  MaxCalls,   \* bound on the confirmations in flight together
  Outcomes    \* the ways in which the execution of a plan may end

VARIABLES
  plans,         \* the plan documents, oldest first
  target,        \* each case: the plan that was found open for it, 0 before that
  asked,         \* how many overview requests the server has not served yet
  answers,       \* the overviews on their way to the page
  calls,         \* the confirmation requests
  overview,      \* the plan in the overview the page last received
  localPlan,     \* the plan in the last answer to a confirmation
  open,          \* whether the review list is open
  busy,          \* whether the panel waits for a confirmation
  acknowledged   \* history: the plans whose confirmation was answered to the page

panelVars == <<plans, target, asked, answers, calls, overview, localPlan, open, busy, acknowledged>>

server == <<plans, target>>
reads == <<asked, answers>>
panel == <<overview, localPlan, open, busy, acknowledged>>

Finished == {"COMPLETED", "PARTIAL", "FAILED", "CANCELLED"}

ASSUME PanelAssumption ==
  /\ MaxReads \in Nat \ {0} /\ MaxCalls \in Nat \ {0}
  /\ Outcomes \subseteq Finished

NoPlan == [id |-> 0, status |-> "NONE", items |-> {}]

Documents ==
  [id : 0 .. Cardinality(Failures), items : SUBSET Failures,
   status : Finished \cup {"NONE", "PENDING_APPROVAL", "EXECUTING"}]

PanelTypeOK ==
  /\ target \in [Failures -> {0} \cup DOMAIN plans]
  /\ \A i \in DOMAIN plans : plans[i].status # "NONE"
  /\ asked \in 0 .. MaxReads /\ answers \subseteq Documents
  /\ calls \subseteq [stage : {"sent", "executing", "answered", "failed"},
                      heard : BOOLEAN, plan : Documents]
  /\ overview \in Documents /\ localPlan \in Documents
  /\ open \in BOOLEAN /\ busy \in BOOLEAN
  /\ acknowledged \subseteq DOMAIN plans

\* The page has just been mounted and has asked for its first overview.
PanelInit ==
  /\ plans = << >> /\ target = [c \in Failures |-> 0]
  /\ asked = 1 /\ answers = {} /\ calls = {}
  /\ overview = NoPlan /\ localPlan = NoPlan
  /\ open = FALSE /\ busy = FALSE /\ acknowledged = {}
-----------------------------------------------------------------------------
(***************************************************************************)
(* The server.                                                             *)
(***************************************************************************)
Document(i) == [id |-> i, status |-> plans[i].status, items |-> plans[i].items]

Pending == {i \in DOMAIN plans : plans[i].status = "PENDING_APPROVAL"}

\* findOne by the status; the partial unique index leaves at most one.
OpenPlan == CHOOSE i \in Pending : TRUE

\* A failed payment is planned: the open plan is found, or a new one created, and the
\* item pushed to it later, whatever has become of the plan by then.
FindPlan(c) ==
  /\ target[c] = 0
  /\ IF Pending # {}
       THEN target' = [target EXCEPT ![c] = OpenPlan] /\ UNCHANGED plans
       ELSE /\ plans' = Append(plans, [status |-> "PENDING_APPROVAL", items |-> {}])
            /\ target' = [target EXCEPT ![c] = Len(plans')]
  /\ UNCHANGED <<reads, calls, panel>>

PushItem(c) ==
  /\ target[c] # 0 /\ c \notin plans[target[c]].items
  /\ plans' = [plans EXCEPT ![target[c]].items = @ \cup {c}]
  /\ UNCHANGED <<target, reads, calls, panel>>

\* The overview carries the open plan, or else the most recent one.
CurrentPlan ==
  CASE Pending # {}    -> Document(OpenPlan)
    [] plans = << >>   -> NoPlan
    [] OTHER           -> Document(Len(plans))

ReadOverview ==
  /\ asked > 0 /\ asked' = asked - 1
  /\ answers' = answers \cup {CurrentPlan}
  /\ UNCHANGED <<server, calls, panel>>

\* The plan is claimed only while it waits for approval; a plan past its expiry is
\* cancelled at once, and any other is returned as it stands.
ClaimableAgain(i) == plans[i].status \in {"PENDING_APPROVAL"} \cup Finished

ClaimableForPanel(i) == plans[i].status = "PENDING_APPROVAL"

\* A request moves on; when it has ended and nobody waits for it, that is the end of it.
MovesOn(call, stage, plan) ==
  calls' = (calls \ {call}) \cup
             {c \in {[call EXCEPT !.stage = stage, !.plan = plan]} : c.heard \/ c.stage = "executing"}

ClaimConfirmed(call) ==
  LET i == call.plan.id
  IN  /\ call.stage = "sent"
      /\ \/ /\ ClaimableForPanel(i)
            /\ plans' = [plans EXCEPT ![i].status = "EXECUTING"]
            /\ MovesOn(call, "executing", [Document(i) EXCEPT !.status = "EXECUTING"])
         \/ /\ ClaimableForPanel(i)
            /\ plans' = [plans EXCEPT ![i].status = "CANCELLED"]
            /\ MovesOn(call, "answered", [Document(i) EXCEPT !.status = "CANCELLED"])
         \/ /\ ~ClaimableForPanel(i)
            /\ MovesOn(call, "answered", Document(i))
            /\ UNCHANGED plans
  /\ UNCHANGED <<target, reads, panel>>

\* All items were worked through and saved, which an item pushed meanwhile prevents
\* (VersionError); or the request ended in an error before that.
FinishExecution(call) ==
  LET i == call.plan.id
  IN  /\ call.stage = "executing"
      /\ \/ /\ plans[i].items = call.plan.items
            /\ \E s \in Outcomes :
                 /\ plans' = [plans EXCEPT ![i].status = s]
                 /\ MovesOn(call, "answered", [call.plan EXCEPT !.status = s])
         \/ MovesOn(call, "failed", NoPlan) /\ UNCHANGED plans
  /\ UNCHANGED <<target, reads, panel>>
-----------------------------------------------------------------------------
(***************************************************************************)
(* The page.                                                               *)
(***************************************************************************)
EffectiveOverviewFirst == IF overview # NoPlan THEN overview ELSE localPlan

Effective == IF localPlan # NoPlan THEN localPlan ELSE overview

\* "Review & Confirm Recovery", and under it "Confirm Recovery Plan", are shown for
\* a plan that waits for approval.
Offered == Effective.status = "PENDING_APPROVAL"

Load == asked + Cardinality(answers) < MaxReads /\ asked' = asked + 1 /\ UNCHANGED answers

\* Whatever else asks for an overview: the end of a batch of payment links, completed
\* test payments, the Retry button.  They may do so at any time, a confirmation under way
\* or not, so that overviews overlap each other and the confirmation.
Reload == Load /\ UNCHANGED <<server, calls, panel>>

\* An overview arrives, or the request fails and the page keeps what it has.  One that
\* says the same may still be on its way.
ReceiveOverview(plan) ==
  /\ answers' \in {answers, answers \ {plan}}
  /\ overview' \in {overview, plan}
  /\ UNCHANGED <<server, asked, calls, localPlan, open, busy, acknowledged>>

OpenReview ==
  /\ Offered /\ ~open
  /\ open' = TRUE
  /\ UNCHANGED <<server, reads, calls, overview, localPlan, busy, acknowledged>>

CancelReview ==
  /\ Offered /\ open
  /\ open' = FALSE
  /\ UNCHANGED <<server, reads, calls, overview, localPlan, busy, acknowledged>>

ConfirmPlan ==
  /\ Offered /\ open /\ ~busy /\ Cardinality(calls) < MaxCalls
  /\ busy' = TRUE
  /\ calls' = calls \cup {[stage |-> "sent", heard |-> TRUE, plan |-> Effective]}
  /\ UNCHANGED <<server, reads, overview, localPlan, open, acknowledged>>

\* onConfirmed is load: every answer is followed by another overview.
ReceiveConfirmed(call) ==
  /\ call.stage = "answered"
  /\ calls' = calls \ {call}
  /\ localPlan' = call.plan
  /\ acknowledged' = acknowledged \cup {call.plan.id}
  /\ open' = FALSE /\ busy' = FALSE
  /\ Load
  /\ UNCHANGED <<server, overview>>

\* The page stops waiting; the server carries on with what it has begun.
Abandoned(cs) ==
  {[c EXCEPT !.heard = FALSE] : c \in {d \in cs : d.stage \in {"sent", "executing"}}}

\* The server answered with an error, or the answer was lost on the way.
ConfirmationError(call) ==
  /\ call.heard
  /\ calls' = (calls \ {call}) \cup Abandoned({call})
  /\ busy' = FALSE
  /\ UNCHANGED <<server, reads, overview, localPlan, open, acknowledged>>

\* The page is reloaded, or left and opened again.
Remount ==
  /\ overview' = NoPlan /\ localPlan' = NoPlan
  /\ open' = FALSE /\ busy' = FALSE
  /\ calls' = Abandoned(calls)
  /\ asked' = 1 /\ answers' = {}
  /\ UNCHANGED <<server, acknowledged>>

PanelNext ==
  \/ \E c \in Failures : FindPlan(c) \/ PushItem(c)
  \/ Reload \/ ReadOverview \/ \E plan \in answers : ReceiveOverview(plan)
  \/ OpenReview \/ CancelReview \/ ConfirmPlan \/ Remount
  \/ \E call \in calls : \/ ClaimConfirmed(call) \/ FinishExecution(call)
                         \/ ReceiveConfirmed(call) \/ ConfirmationError(call)
-----------------------------------------------------------------------------
\* Once a confirmation of a plan was answered to the merchant, the page never offers
\* that plan for confirmation again, although overviews the server read while the plan
\* was still open may arrive after the answer, and the page may be mounted anew.
AnsweredPlanIsNotOffered == Offered => Effective.id \notin acknowledged

\* A plan the panel reports as finished is finished in the very way it says, and the
\* cases it lists are on it: nothing re-opens, re-executes or replaces it, although a
\* case that found it open may still be pushed to it.
FinalReportIsTrue ==
  Effective.status \in Finished =>
    /\ Effective.status = plans[Effective.id].status
    /\ Effective.items \subseteq plans[Effective.id].items

\* "One confirmation authorises every customer-facing action below": what is executed
\* is what was listed when the merchant confirmed.
ConfirmedItemsWereShown ==
  [][\A c \in calls, d \in calls' \ calls :
       c.stage = "sent" /\ c \notin calls' /\ d.stage = "executing" =>
         d.plan.items \subseteq c.plan.items]_panelVars
=============================================================================
