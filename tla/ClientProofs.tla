---------------------------- MODULE ClientProofs ----------------------------
(***************************************************************************)
(* What the pages promise, for any number of failed payments, requests in  *)
(* flight, rows, batches, callbacks, tabs and policies: the plan panel     *)
(* never offers a plan whose confirmation was answered and reports only    *)
(* what is final; the manual flow reports only what happened; the voice    *)
(* page never waits for nothing; the evaluation loses no case; and the     *)
(* integration page never has a pair pasted that does not verify.          *)
(*                                                                         *)
(* Most of them show snapshots of documents that others go on writing.     *)
(* The invariants say which facts of a snapshot cannot grow old.           *)
(***************************************************************************)
EXTENDS Client, SequenceTheorems, TLAPS

(***************************************************************************)
(* The plan panel.                                                         *)
(***************************************************************************)
PlanStatuses == Finished \cup {"PENDING_APPROVAL", "EXECUTING"}

PlanDocuments == [status : PlanStatuses, items : SUBSET Failures]

Snapshots == [id : Nat, items : SUBSET Failures, status : {"NONE"} \cup PlanStatuses]

CallDocuments ==
  [stage : {"sent", "executing", "answered", "failed"}, heard : BOOLEAN, plan : Snapshots]

\* What a snapshot of a plan says that stays true: it was not open any more, it was
\* finished in some way, these items were on it.
LastsIn(ps, d) ==
  d # NoPlan =>
    /\ d.id \in DOMAIN ps
    /\ d.items \subseteq ps[d.id].items
    /\ d.status # "PENDING_APPROVAL" => ps[d.id].status # "PENDING_APPROVAL"
    /\ d.status \in Finished => ps[d.id].status = d.status

Lasts(d) == LastsIn(plans, d)

PanelIsFormed ==
  /\ plans \in Seq(PlanDocuments)
  /\ target \in [Failures -> {0} \cup DOMAIN plans]
  /\ answers \subseteq Snapshots /\ calls \subseteq CallDocuments
  /\ overview \in Snapshots /\ localPlan \in Snapshots

SnapshotsLast ==
  /\ \A d \in answers : Lasts(d)
  /\ \A c \in calls : Lasts(c.plan)
  /\ Lasts(overview) /\ Lasts(localPlan)

\* One call at most executes a plan: the claim finds it open and leaves it EXECUTING.
ExecutionIsExclusive ==
  /\ \A c \in calls : c.stage \in {"sent", "executing", "answered"} => c.plan # NoPlan
  /\ \A c \in calls : c.stage = "executing" =>
       c.plan.status = "EXECUTING" /\ plans[c.plan.id].status = "EXECUTING"
  /\ \A c, d \in calls :
       c.stage = "executing" /\ d.stage = "executing" =>
         (c.plan.id = d.plan.id => c = d)

\* Until the panel has an answer of its own, no overview on its way or on the page is
\* older than an answer.
AnswersPrecede ==
  /\ \A c \in calls : c.stage = "answered" => c.plan.status # "PENDING_APPROVAL"
  /\ localPlan.status # "PENDING_APPROVAL"
  /\ \A i \in acknowledged : i \in DOMAIN plans /\ plans[i].status # "PENDING_APPROVAL"
  /\ localPlan = NoPlan =>
       /\ overview.status = "PENDING_APPROVAL" => overview.id \notin acknowledged
       /\ \A d \in answers : d.status = "PENDING_APPROVAL" => d.id \notin acknowledged

PanelInv == PanelIsFormed /\ SnapshotsLast /\ ExecutionIsExclusive /\ AnswersPrecede

LEMMA PanelInitHolds == PanelInit => PanelInv
<1> SUFFICES ASSUME PanelInit PROVE PanelInv
  OBVIOUS
<1>1. NoPlan \in Snapshots /\ NoPlan.status = "NONE"
  BY DEF NoPlan, Snapshots
<1>2. /\ overview = NoPlan /\ localPlan = NoPlan
      /\ answers = {} /\ calls = {} /\ acknowledged = {} /\ plans = << >>
      /\ target = [c \in Failures |-> 0]
  BY DEF PanelInit
<1> QED BY <1>1, <1>2 DEF PanelInv, PanelIsFormed, SnapshotsLast, Lasts, LastsIn, ExecutionIsExclusive, AnswersPrecede
-----------------------------------------------------------------------------
(***************************************************************************)
(* The server only moves plans on.                                         *)
(***************************************************************************)
LEMMA PlanAt ==
  ASSUME PanelInv, NEW i \in DOMAIN plans
  PROVE  plans[i] \in PlanDocuments
<1>1. plans \in Seq(PlanDocuments)
  BY DEF PanelInv, PanelIsFormed
<1> QED BY <1>1, ElementOfSeq

LEMMA SnapshotsAreTyped ==
  ASSUME PanelInv
  PROVE  /\ \A c \in calls : c \in CallDocuments /\ c.plan \in Snapshots
         /\ overview \in Snapshots /\ localPlan \in Snapshots
BY DEF PanelInv, PanelIsFormed, CallDocuments

LEMMA FindPlanKeeps ==
  ASSUME PanelInv, NEW c \in Failures, FindPlan(c) PROVE PanelInv'
<1> USE DEF PanelInv
<1>1. UNCHANGED <<answers, calls, overview, localPlan, acknowledged>>
  BY DEF FindPlan, panel, reads
<1>2. CASE Pending # {}
  <2>1. OpenPlan \in DOMAIN plans /\ plans' = plans /\ target' = [target EXCEPT ![c] = OpenPlan]
    BY <1>2 DEF FindPlan, OpenPlan, Pending
  <2> QED BY <1>1, <2>1 DEF PanelIsFormed, SnapshotsLast, Lasts, LastsIn, ExecutionIsExclusive, AnswersPrecede
<1>3. CASE Pending = {}
  <2> DEFINE new == [status |-> "PENDING_APPROVAL", items |-> {}]
  <2>1. plans' = Append(plans, new) /\ target' = [target EXCEPT ![c] = Len(plans')]
    BY <1>3 DEF FindPlan
  <2>2. new \in PlanDocuments
    BY DEF PlanStatuses, PlanDocuments
  <2> HIDE DEF new
  <2>3. /\ plans' \in Seq(PlanDocuments)
        /\ Len(plans') \in DOMAIN plans'
        /\ DOMAIN plans \subseteq DOMAIN plans'
        /\ \A i \in DOMAIN plans : plans'[i] = plans[i]
    BY <2>1, <2>2 DEF PanelIsFormed
  <2>4. PanelIsFormed'
    BY <1>1, <2>1, <2>3 DEF PanelIsFormed
  <2>5. SnapshotsLast'
    BY <1>1, <2>3 DEF SnapshotsLast, Lasts, LastsIn
  <2>6. ExecutionIsExclusive'
    BY <1>1, <2>3 DEF ExecutionIsExclusive, SnapshotsLast, Lasts, LastsIn
  <2>7. AnswersPrecede'
    BY <1>1, <2>3 DEF AnswersPrecede
  <2> QED BY <2>4, <2>5, <2>6, <2>7
<1> QED BY <1>2, <1>3

\* What a step does that leaves everything but some plans alone, each moved on.
LEMMA PlansMoveOn ==
  ASSUME PanelInv,
         plans' \in Seq(PlanDocuments),
         DOMAIN plans' = DOMAIN plans,
         \A i \in DOMAIN plans :
           /\ plans[i].items \subseteq plans'[i].items
           /\ plans[i].status # "PENDING_APPROVAL" => plans'[i].status # "PENDING_APPROVAL"
           /\ plans[i].status \in Finished => plans'[i].status = plans[i].status
  PROVE  /\ \A d \in Snapshots : Lasts(d) => LastsIn(plans', d)
         /\ \A i \in acknowledged : i \in DOMAIN plans' /\ plans'[i].status # "PENDING_APPROVAL"
<1>1. ASSUME NEW d \in Snapshots, Lasts(d) PROVE LastsIn(plans', d)
  <2> SUFFICES ASSUME d # NoPlan PROVE LastsIn(plans', d)
    BY DEF Lasts, LastsIn
  <2>1. /\ d.id \in DOMAIN plans /\ d.items \subseteq plans[d.id].items
        /\ d.status # "PENDING_APPROVAL" => plans[d.id].status # "PENDING_APPROVAL"
        /\ d.status \in Finished => plans[d.id].status = d.status
    BY <1>1 DEF Lasts, LastsIn
  <2> QED BY <2>1 DEF Lasts, LastsIn
<1>2. \A i \in acknowledged : i \in DOMAIN plans' /\ plans'[i].status # "PENDING_APPROVAL"
  BY DEF PanelInv, AnswersPrecede
<1> QED BY <1>1, <1>2

LEMMA PushItemKeeps ==
  ASSUME PanelInv, NEW c \in Failures, PushItem(c) PROVE PanelInv'
<1> USE DEF PanelInv
<1>1. UNCHANGED <<target, answers, calls, overview, localPlan, acknowledged>>
  BY DEF PushItem, panel, reads
<1>2. target[c] \in DOMAIN plans
  BY DEF PushItem, PanelIsFormed
<1> DEFINE more == [plans[target[c]] EXCEPT !.items = @ \cup {c}]
<1>3. /\ more \in PlanDocuments
      /\ more.status = plans[target[c]].status /\ plans[target[c]].items \subseteq more.items
  <2>1. plans[target[c]] \in PlanDocuments
    BY <1>2, PlanAt
  <2> QED BY <2>1 DEF PlanDocuments
<1>4. plans' = [plans EXCEPT ![target[c]] = more]
  BY <1>2 DEF PushItem, PanelIsFormed
<1> HIDE DEF more
<1>5. /\ plans' \in Seq(PlanDocuments)
      /\ DOMAIN plans' = DOMAIN plans
      /\ \A i \in DOMAIN plans : /\ plans[i].items \subseteq plans'[i].items
                                /\ plans'[i].status = plans[i].status
  BY <1>2, <1>3, <1>4 DEF PanelIsFormed
<1>6. /\ \A d \in Snapshots : Lasts(d) => LastsIn(plans', d)
      /\ \A i \in acknowledged : i \in DOMAIN plans' /\ plans'[i].status # "PENDING_APPROVAL"
  BY <1>5, PlansMoveOn
<1>7. PanelIsFormed'
  BY <1>1, <1>5 DEF PanelIsFormed
<1>8. SnapshotsLast'
  BY <1>1, <1>6 DEF SnapshotsLast, PanelIsFormed, CallDocuments, Lasts, LastsIn
<1>9. ExecutionIsExclusive'
  BY <1>1, <1>5 DEF ExecutionIsExclusive, SnapshotsLast, Lasts, LastsIn
<1>10. AnswersPrecede'
  BY <1>1, <1>6 DEF AnswersPrecede
<1> QED BY <1>7, <1>8, <1>9, <1>10

LEMMA OverviewIsOfPlans ==
  ASSUME PanelInv
  PROVE  /\ CurrentPlan \in Snapshots /\ Lasts(CurrentPlan)
         /\ CurrentPlan.status = "PENDING_APPROVAL" => CurrentPlan.id \notin acknowledged
<1>1. \A i \in DOMAIN plans :
        /\ Document(i) \in Snapshots /\ Lasts(Document(i))
        /\ Document(i).id = i /\ Document(i).status = plans[i].status
  <2> SUFFICES ASSUME NEW i \in DOMAIN plans
               PROVE  /\ Document(i) \in Snapshots /\ Lasts(Document(i))
                      /\ Document(i).id = i /\ Document(i).status = plans[i].status
    OBVIOUS
  <2>1. i \in Nat /\ plans[i] \in PlanDocuments
    BY PlanAt DEF PanelInv, PanelIsFormed
  <2> QED BY <2>1 DEF Document, Snapshots, PlanDocuments, Lasts, LastsIn
<1>2. CASE Pending # {}
  <2>1. OpenPlan \in DOMAIN plans
    BY <1>2 DEF OpenPlan, Pending
  <2>2. plans # << >>
    BY <2>1
  <2>3. CurrentPlan = Document(OpenPlan)
    BY <1>2, <2>2 DEF CurrentPlan
  <2> QED BY <1>1, <2>1, <2>3 DEF PanelInv, AnswersPrecede
<1>3. CASE Pending = {} /\ plans = << >>
  <2>1. CurrentPlan = NoPlan
    BY <1>3 DEF CurrentPlan
  <2> QED BY <2>1 DEF NoPlan, Snapshots, Lasts, LastsIn
<1>4. CASE Pending = {} /\ plans # << >>
  <2>1. Len(plans) \in DOMAIN plans
    BY <1>4 DEF PanelInv, PanelIsFormed
  <2>2. CurrentPlan = Document(Len(plans))
    BY <1>4 DEF CurrentPlan
  <2> QED BY <1>1, <2>1, <2>2 DEF PanelInv, AnswersPrecede
<1> QED BY <1>2, <1>3, <1>4

\* A step that only moves overviews on and brings none that is older than an answer.
LEMMA ReadsMoveOn ==
  ASSUME PanelInv, NEW plan \in Snapshots, Lasts(plan),
         localPlan = NoPlan /\ plan.status = "PENDING_APPROVAL" => plan.id \notin acknowledged,
         answers' \subseteq answers \cup {plan}, overview' \in {overview, plan},
         UNCHANGED <<plans, target, calls, localPlan, acknowledged>>
  PROVE  PanelInv'
<1> USE DEF PanelInv
<1>1. PanelIsFormed'
  BY DEF PanelIsFormed
<1>2. SnapshotsLast'
  BY DEF SnapshotsLast, Lasts
<1>3. ExecutionIsExclusive'
  BY DEF ExecutionIsExclusive
<1>4. AnswersPrecede'
  BY DEF AnswersPrecede
<1> QED BY <1>1, <1>2, <1>3, <1>4

LEMMA ReadOverviewKeeps ==
  ASSUME PanelInv, ReadOverview PROVE PanelInv'
BY OverviewIsOfPlans, ReadsMoveOn DEF ReadOverview, server, panel

LEMMA NothingIsNothing ==
  NoPlan \in Snapshots /\ NoPlan.status = "NONE" /\ Lasts(NoPlan)
BY DEF NoPlan, Snapshots, Lasts, LastsIn

LEMMA ReloadKeeps ==
  ASSUME PanelInv, Reload PROVE PanelInv'
<1>1. UNCHANGED <<plans, target, answers, calls, overview, localPlan, acknowledged>>
  BY DEF Reload, Load, server, panel
<1> QED BY <1>1, NothingIsNothing, ReadsMoveOn

LEMMA ReceiveOverviewKeeps ==
  ASSUME PanelInv, NEW plan, plan \in answers, ReceiveOverview(plan) PROVE PanelInv'
<1>1. /\ plan \in Snapshots /\ Lasts(plan)
      /\ localPlan = NoPlan /\ plan.status = "PENDING_APPROVAL" => plan.id \notin acknowledged
  BY DEF PanelInv, PanelIsFormed, SnapshotsLast, AnswersPrecede
<1>2. /\ answers' \subseteq answers \cup {plan} /\ overview' \in {overview, plan}
      /\ UNCHANGED <<plans, target, calls, localPlan, acknowledged>>
  BY DEF ReceiveOverview, server
<1> QED BY <1>1, <1>2, ReadsMoveOn

\* A step that only moves a call on.
LEMMA CallMovesOn ==
  ASSUME PanelInv, NEW r \in CallDocuments,
         calls' \subseteq calls \cup {r},
         LastsIn(plans, r.plan), r.stage # "executing",
         r.stage \in {"sent", "answered"} => r.plan # NoPlan,
         r.stage = "answered" => r.plan.status # "PENDING_APPROVAL",
         UNCHANGED <<plans, target, answers, overview, localPlan, acknowledged>>
  PROVE  PanelInv'
<1> USE DEF PanelInv
<1>1. PanelIsFormed'
  BY DEF PanelIsFormed
<1>2. SnapshotsLast'
  BY DEF SnapshotsLast, Lasts
<1>3. ExecutionIsExclusive'
  BY DEF ExecutionIsExclusive
<1>4. AnswersPrecede'
  BY DEF AnswersPrecede
<1> QED BY <1>1, <1>2, <1>3, <1>4

\* What a request becomes, if anything is left of it.
LEMMA WhatMovedOn ==
  ASSUME PanelInv, NEW c \in calls, NEW stage \in {"executing", "answered", "failed"},
         NEW d \in Snapshots, MovesOn(c, stage, d)
  PROVE  \E r \in CallDocuments : r.stage = stage /\ r.plan = d /\ calls' \subseteq (calls \ {c}) \cup {r}
<1> DEFINE r == [c EXCEPT !.stage = stage, !.plan = d]
<1>1. c \in CallDocuments
  BY SnapshotsAreTyped
<1>2. r \in CallDocuments /\ r.stage = stage /\ r.plan = d
  BY <1>1 DEF CallDocuments
<1>3. calls' \subseteq (calls \ {c}) \cup {r}
  BY DEF MovesOn
<1> QED BY <1>2, <1>3

\* A step that moves a call on together with the plan it is about.
LEMMA PlanAndCallMoveOn ==
  ASSUME PanelInv, NEW c \in calls, NEW s \in PlanStatuses, NEW stage \in {"executing", "answered"},
         NEW d \in Snapshots,
         c.plan.id \in DOMAIN plans, plans[c.plan.id].status \in {"PENDING_APPROVAL", "EXECUTING"},
         plans[c.plan.id].status = "EXECUTING" => c.stage = "executing",
         s # "PENDING_APPROVAL", stage = "executing" <=> s = "EXECUTING",
         plans' = [plans EXCEPT ![c.plan.id].status = s],
         d.id = c.plan.id, d.status = s, d.items = plans[c.plan.id].items,
         MovesOn(c, stage, d),
         UNCHANGED <<target, answers, overview, localPlan, acknowledged>>
  PROVE  PanelInv'
<1> USE DEF PanelInv
<1> DEFINE i == c.plan.id
           moved == [plans[i] EXCEPT !.status = s]
<1>1. moved \in PlanDocuments /\ moved.status = s /\ moved.items = plans[i].items
  <2>1. plans[i] \in PlanDocuments
    BY PlanAt
  <2> QED BY <2>1 DEF PlanDocuments
<1>2. plans' = [plans EXCEPT ![i] = moved]
  BY DEF PanelIsFormed
<1>3. PICK r \in CallDocuments : r.stage = stage /\ r.plan = d /\ calls' \subseteq (calls \ {c}) \cup {r}
  BY WhatMovedOn
<1>4. i \in DOMAIN plans /\ d.id = i /\ d.items = plans[i].items /\ i \in Nat
      /\ plans[i].status \in {"PENDING_APPROVAL", "EXECUTING"}
      /\ (plans[i].status = "EXECUTING" => c.stage = "executing")
  BY DEF Snapshots
<1> HIDE DEF moved
<1>5. /\ plans' \in Seq(PlanDocuments) /\ DOMAIN plans' = DOMAIN plans
      /\ \A j \in DOMAIN plans : plans'[j] = IF j = i THEN moved ELSE plans[j]
  BY <1>1, <1>2, <1>4 DEF PanelIsFormed
<1>6. /\ \A e \in Snapshots : Lasts(e) => LastsIn(plans', e)
      /\ \A j \in acknowledged : j \in DOMAIN plans' /\ plans'[j].status # "PENDING_APPROVAL"
  <2>1. \A j \in DOMAIN plans :
          /\ plans[j].items \subseteq plans'[j].items
          /\ plans[j].status # "PENDING_APPROVAL" => plans'[j].status # "PENDING_APPROVAL"
          /\ plans[j].status \in Finished => plans'[j].status = plans[j].status
    BY <1>1, <1>4, <1>5 DEF Finished
  <2> QED BY <1>5, <2>1, PlansMoveOn
<1>7. LastsIn(plans', d) /\ d # NoPlan
  <2>1. plans'[i] = moved
    BY <1>4, <1>5
  <2>2. d # NoPlan
    BY DEF NoPlan, PlanStatuses, Finished
  <2> QED BY <1>1, <1>4, <1>5, <2>1, <2>2 DEF LastsIn
<1>8. PanelIsFormed'
  BY <1>3, <1>5 DEF PanelIsFormed
<1>9. SnapshotsLast'
  BY <1>3, <1>6, <1>7, SnapshotsAreTyped DEF SnapshotsLast, Lasts, PanelIsFormed
<1>10. ExecutionIsExclusive'
  <2>1. \A l \in calls : l # c /\ l.stage = "executing" =>
          l.plan.id # i /\ l.plan.id \in DOMAIN plans
    BY <1>4 DEF ExecutionIsExclusive, SnapshotsLast, Lasts, LastsIn
  <2>2. stage = "executing" => r.plan.status = "EXECUTING" /\ r.plan.id = i /\ plans'[i].status = "EXECUTING"
    BY <1>1, <1>3, <1>4, <1>5
  <2>3. \A l \in calls' : l = r \/ (l \in calls /\ l # c)
    BY <1>3
  <2>4. r.plan # NoPlan /\ (r.stage = "executing" => stage = "executing")
    BY <1>3, <1>7
  <2>5. \A l \in calls' : l.stage \in {"sent", "executing", "answered"} => l.plan # NoPlan
    BY <2>3, <2>4 DEF ExecutionIsExclusive
  <2>6. \A l \in calls' : l.stage = "executing" =>
          l.plan.status = "EXECUTING" /\ plans'[l.plan.id].status = "EXECUTING"
    BY <1>5, <2>1, <2>2, <2>3, <2>4 DEF ExecutionIsExclusive
  <2>7. \A k, l \in calls' : k.stage = "executing" /\ l.stage = "executing" =>
          (k.plan.id = l.plan.id => k = l)
    BY <2>1, <2>2, <2>3, <2>4 DEF ExecutionIsExclusive
  <2> QED BY <2>5, <2>6, <2>7 DEF ExecutionIsExclusive
<1>11. AnswersPrecede'
  BY <1>3, <1>6 DEF AnswersPrecede
<1> QED BY <1>8, <1>9, <1>10, <1>11

LEMMA DocumentIsASnapshot ==
  ASSUME PanelInv, NEW i \in DOMAIN plans
  PROVE  /\ Document(i) \in Snapshots /\ Lasts(Document(i)) /\ Document(i) # NoPlan
         /\ Document(i).id = i /\ Document(i).status = plans[i].status
         /\ Document(i).items = plans[i].items
<1>1. i \in Nat /\ plans[i] \in PlanDocuments
  BY PlanAt DEF PanelInv, PanelIsFormed
<1>2. plans[i].status # "NONE"
  BY <1>1 DEF PlanDocuments, PlanStatuses, Finished
<1> QED BY <1>1, <1>2 DEF Document, Snapshots, PlanDocuments, Lasts, LastsIn, NoPlan

LEMMA ClaimConfirmedKeeps ==
  ASSUME PanelInv, NEW c, c \in calls, ClaimConfirmed(c) PROVE PanelInv'
<1> DEFINE i == c.plan.id
<1>1. c.stage = "sent" /\ UNCHANGED <<target, answers, overview, localPlan, acknowledged>>
  BY DEF ClaimConfirmed, panel, reads
<1>2. i \in DOMAIN plans
  BY <1>1, SnapshotsAreTyped DEF PanelInv, ExecutionIsExclusive, SnapshotsLast, Lasts, LastsIn
<1> HIDE DEF i
<1>3. ASSUME NEW s \in {"EXECUTING", "CANCELLED"}, NEW stage \in {"executing", "answered"},
             stage = "executing" <=> s = "EXECUTING",
             plans[i].status = "PENDING_APPROVAL",
             plans' = [plans EXCEPT ![i].status = s],
             MovesOn(c, stage, [Document(i) EXCEPT !.status = s])
      PROVE  PanelInv'
  <2> DEFINE d == [Document(i) EXCEPT !.status = s]
  <2>1. d \in Snapshots /\ d.id = i /\ d.status = s /\ d.items = plans[i].items /\ s \in PlanStatuses
    BY <1>2, DocumentIsASnapshot DEF Snapshots, PlanStatuses, Finished
  <2> HIDE DEF d
  <2>2. MovesOn(c, stage, d)
    BY <1>3 DEF d
  <2> QED BY <1>1, <1>2, <1>3, <2>1, <2>2, PlanAndCallMoveOn DEF i
<1>4. CASE ~ClaimableForPanel(i) /\ UNCHANGED plans /\ MovesOn(c, "answered", Document(i))
  <2>1. PICK r \in CallDocuments :
          r.stage = "answered" /\ r.plan = Document(i) /\ calls' \subseteq (calls \ {c}) \cup {r}
    BY <1>2, <1>4, DocumentIsASnapshot, WhatMovedOn
  <2>2. /\ LastsIn(plans, r.plan) /\ r.plan # NoPlan /\ r.plan.status # "PENDING_APPROVAL"
    BY <1>2, <1>4, <2>1, DocumentIsASnapshot DEF ClaimableForPanel, Lasts
  <2> QED BY <1>1, <1>4, <2>1, <2>2, CallMovesOn
<1>5. \/ /\ plans[i].status = "PENDING_APPROVAL"
         /\ plans' = [plans EXCEPT ![i].status = "EXECUTING"]
         /\ MovesOn(c, "executing", [Document(i) EXCEPT !.status = "EXECUTING"])
      \/ /\ plans[i].status = "PENDING_APPROVAL"
         /\ plans' = [plans EXCEPT ![i].status = "CANCELLED"]
         /\ MovesOn(c, "answered", [Document(i) EXCEPT !.status = "CANCELLED"])
      \/ ~ClaimableForPanel(i) /\ UNCHANGED plans /\ MovesOn(c, "answered", Document(i))
  BY Zenon DEF ClaimConfirmed, ClaimableForPanel, i
<1> QED BY <1>3, <1>4, <1>5

LEMMA FinishExecutionKeeps ==
  ASSUME PanelInv, NEW c, c \in calls, FinishExecution(c) PROVE PanelInv'
<1> DEFINE i == c.plan.id
<1>1. c.stage = "executing" /\ UNCHANGED <<target, answers, overview, localPlan, acknowledged>>
  BY DEF FinishExecution, panel, reads
<1>2. /\ i \in DOMAIN plans /\ plans[i].status = "EXECUTING" /\ c.plan \in Snapshots
  BY <1>1, SnapshotsAreTyped DEF PanelInv, ExecutionIsExclusive, SnapshotsLast, Lasts, LastsIn
<1> HIDE DEF i
<1>3. ASSUME NEW s \in Outcomes,
             plans[i].items = c.plan.items,
             plans' = [plans EXCEPT ![i].status = s],
             MovesOn(c, "answered", [c.plan EXCEPT !.status = s])
      PROVE  PanelInv'
  <2> DEFINE d == [c.plan EXCEPT !.status = s]
  <2>1. s \in PlanStatuses /\ s # "PENDING_APPROVAL" /\ s # "EXECUTING"
    BY PanelAssumption DEF PlanStatuses, Finished
  <2>2. d \in Snapshots /\ d.id = i /\ d.status = s /\ d.items = plans[i].items
    BY <1>2, <1>3, <2>1 DEF Snapshots, i
  <2> HIDE DEF d
  <2>3. MovesOn(c, "answered", d)
    BY <1>3 DEF d
  <2> QED BY <1>1, <1>2, <1>3, <2>1, <2>2, <2>3, PlanAndCallMoveOn DEF i
<1>4. CASE UNCHANGED plans /\ MovesOn(c, "failed", NoPlan)
  <2>1. PICK r \in CallDocuments :
          r.stage = "failed" /\ r.plan = NoPlan /\ calls' \subseteq (calls \ {c}) \cup {r}
    BY <1>4, NothingIsNothing, WhatMovedOn
  <2> QED BY <1>1, <1>4, <2>1, NothingIsNothing, CallMovesOn DEF Lasts
<1>5. \/ \E s \in Outcomes : /\ plans[i].items = c.plan.items
                             /\ plans' = [plans EXCEPT ![i].status = s]
                             /\ MovesOn(c, "answered", [c.plan EXCEPT !.status = s])
      \/ UNCHANGED plans /\ MovesOn(c, "failed", NoPlan)
  BY Zenon DEF FinishExecution, i
<1> QED BY <1>3, <1>4, <1>5
-----------------------------------------------------------------------------
(***************************************************************************)
(* The page only passes snapshots on.                                      *)
(***************************************************************************)
LEMMA EffectiveIsASnapshot ==
  ASSUME PanelInv PROVE Effective \in Snapshots /\ Lasts(Effective)
BY DEF PanelInv, PanelIsFormed, SnapshotsLast, Effective

LEMMA ConfirmPlanKeeps ==
  ASSUME PanelInv, ConfirmPlan PROVE PanelInv'
<1> DEFINE r == [stage |-> "sent", heard |-> TRUE, plan |-> Effective]
<1>1. Effective \in Snapshots /\ Lasts(Effective) /\ Effective # NoPlan
  BY EffectiveIsASnapshot, NothingIsNothing DEF ConfirmPlan, Offered
<1>2. calls' \subseteq calls \cup {r}
      /\ UNCHANGED <<plans, target, answers, overview, localPlan, acknowledged>>
  BY DEF ConfirmPlan, server, reads
<1>3. TRUE \in BOOLEAN
  OBVIOUS
<1>4. r \in CallDocuments /\ r.stage = "sent" /\ r.plan = Effective
  BY <1>1, <1>3 DEF CallDocuments
<1> HIDE DEF r
<1> QED BY <1>1, <1>2, <1>4, CallMovesOn DEF Lasts

\* Calls that nobody listens to any more: nothing the invariant speaks of changes.
LEMMA AbandonedKeeps ==
  ASSUME PanelInv, NEW cs \in SUBSET calls, NEW gone \in SUBSET calls,
         cs \subseteq gone,
         calls' = (calls \ gone) \cup Abandoned(cs),
         UNCHANGED <<plans, target, acknowledged>>,
         \/ UNCHANGED <<answers, overview, localPlan>>
         \/ overview' = NoPlan /\ localPlan' = NoPlan /\ answers' = {}
  PROVE  PanelInv'
<1> USE NothingIsNothing DEF PanelInv
<1>0. FALSE \in BOOLEAN
  OBVIOUS
<1>1. \A l \in calls' : /\ l \in CallDocuments
                        /\ \E c \in calls : c.stage = l.stage /\ c.plan = l.plan
  <2>1. ASSUME NEW c \in calls
        PROVE  /\ [c EXCEPT !.heard = FALSE] \in CallDocuments
               /\ [c EXCEPT !.heard = FALSE].stage = c.stage /\ [c EXCEPT !.heard = FALSE].plan = c.plan
    BY <1>0, SnapshotsAreTyped DEF CallDocuments
  <2>2. \A l \in calls' : l \in calls \/ \E c \in calls : l = [c EXCEPT !.heard = FALSE]
    BY DEF Abandoned
  <2> QED BY <2>1, <2>2, SnapshotsAreTyped
<1>2. PanelIsFormed'
  BY <1>1 DEF PanelIsFormed
<1>3. SnapshotsLast'
  BY <1>1 DEF SnapshotsLast, Lasts
<1>4. ExecutionIsExclusive'
  <2>1. plans' = plans /\ ExecutionIsExclusive
    OBVIOUS
  <2>2. \A l \in calls' : l.stage = "executing" =>
          l.plan.status = "EXECUTING" /\ plans'[l.plan.id].status = "EXECUTING"
    BY <1>1, <2>1 DEF ExecutionIsExclusive
  <2>3. \A l \in calls' : l.stage \in {"sent", "executing", "answered"} => l.plan # NoPlan
    BY <1>1, <2>1 DEF ExecutionIsExclusive
  <2>4. ASSUME NEW k \in calls', NEW l \in calls', k.stage = "executing", l.stage = "executing",
               k.plan.id = l.plan.id
        PROVE  k = l
    <3>1. PICK c \in calls : /\ c.stage = k.stage /\ c.plan = k.plan
                             /\ (c \in calls \ gone /\ k = c) \/ (c \in gone /\ k = [c EXCEPT !.heard = FALSE])
      BY <1>0, SnapshotsAreTyped DEF Abandoned, CallDocuments
    <3>2. PICK d \in calls : /\ d.stage = l.stage /\ d.plan = l.plan
                             /\ (d \in calls \ gone /\ l = d) \/ (d \in gone /\ l = [d EXCEPT !.heard = FALSE])
      BY <1>0, SnapshotsAreTyped DEF Abandoned, CallDocuments
    <3>3. c = d
      BY <2>1, <2>4, <3>1, <3>2 DEF ExecutionIsExclusive
    <3> QED BY <3>1, <3>2, <3>3
  <2> QED BY <2>2, <2>3, <2>4 DEF ExecutionIsExclusive
<1>5. AnswersPrecede'
  BY <1>1 DEF AnswersPrecede
<1> QED BY <1>2, <1>3, <1>4, <1>5

LEMMA ConfirmationErrorKeeps ==
  ASSUME PanelInv, NEW c, c \in calls, ConfirmationError(c) PROVE PanelInv'
<1>1. /\ calls' = (calls \ {c}) \cup Abandoned({c})
      /\ UNCHANGED <<plans, target, answers, overview, localPlan, acknowledged>>
  BY DEF ConfirmationError, server, reads
<1>2. {c} \in SUBSET calls
  OBVIOUS
<1> QED BY <1>1, <1>2, AbandonedKeeps

LEMMA RemountKeeps ==
  ASSUME PanelInv, Remount PROVE PanelInv'
<1>1. /\ calls' = (calls \ calls) \cup Abandoned(calls)
      /\ overview' = NoPlan /\ localPlan' = NoPlan /\ answers' = {}
      /\ UNCHANGED <<plans, target, acknowledged>>
  BY DEF Remount, server
<1> QED BY <1>1, AbandonedKeeps

LEMMA ReceiveConfirmedKeeps ==
  ASSUME PanelInv, NEW c, c \in calls, ReceiveConfirmed(c) PROVE PanelInv'
<1> USE DEF PanelInv
<1> DEFINE answer == c.plan
<1>1. /\ calls' \subseteq calls /\ localPlan' = answer
      /\ acknowledged' = acknowledged \cup {answer.id}
      /\ UNCHANGED <<plans, target, answers, overview>> /\ c.stage = "answered"
  BY DEF ReceiveConfirmed, Load, server
<1>2. /\ answer \in Snapshots /\ Lasts(answer) /\ answer # NoPlan
      /\ answer.status # "PENDING_APPROVAL"
      /\ answer.id \in DOMAIN plans /\ plans[answer.id].status # "PENDING_APPROVAL"
  BY <1>1, SnapshotsAreTyped DEF SnapshotsLast, ExecutionIsExclusive, AnswersPrecede, Lasts, LastsIn
<1> HIDE DEF answer
<1>3. PanelIsFormed'
  BY <1>1, <1>2 DEF PanelIsFormed
<1>4. SnapshotsLast'
  BY <1>1, <1>2 DEF SnapshotsLast, Lasts
<1>5. ExecutionIsExclusive'
  BY <1>1 DEF ExecutionIsExclusive
<1>6. AnswersPrecede'
  BY <1>1, <1>2 DEF AnswersPrecede
<1> QED BY <1>3, <1>4, <1>5, <1>6

LEMMA PanelNextKeeps == PanelInv /\ [PanelNext]_panelVars => PanelInv'
<1> SUFFICES ASSUME PanelInv, [PanelNext]_panelVars PROVE PanelInv'
  OBVIOUS
<1>1. ASSUME UNCHANGED <<plans, target, answers, calls, overview, localPlan, acknowledged>> PROVE PanelInv'
  BY <1>1, NothingIsNothing, ReadsMoveOn
<1>2. CASE OpenReview \/ CancelReview
  BY <1>1, <1>2 DEF OpenReview, CancelReview, server, reads
<1>3. CASE UNCHANGED panelVars
  BY <1>1, <1>3 DEF panelVars
<1> QED BY <1>2, <1>3, RemountKeeps, ReloadKeeps, FindPlanKeeps, PushItemKeeps, ReadOverviewKeeps,
           ReceiveOverviewKeeps, ConfirmPlanKeeps, ClaimConfirmedKeeps, FinishExecutionKeeps,
           ReceiveConfirmedKeeps, ConfirmationErrorKeeps DEF PanelNext

LEMMA PanelInvSuffices == PanelInv => AnsweredPlanIsNotOffered /\ FinalReportIsTrue
<1> SUFFICES ASSUME PanelInv PROVE AnsweredPlanIsNotOffered /\ FinalReportIsTrue
  OBVIOUS
<1>1. AnsweredPlanIsNotOffered
  BY DEF PanelInv, AnswersPrecede, AnsweredPlanIsNotOffered, Offered, Effective
<1>2. FinalReportIsTrue
  BY EffectiveIsASnapshot, NothingIsNothing DEF FinalReportIsTrue, Lasts, LastsIn, Finished
<1> QED BY <1>1, <1>2
-----------------------------------------------------------------------------
(***************************************************************************)
(* The manual flow.  A link is never taken from a case and a recovered     *)
(* case stays recovered, so a report of either stays true, and so does the *)
(* copy a batch made of a row before it got to it.                         *)
(***************************************************************************)
Reported(bk, reports) ==
  \A c \in DOMAIN reports :
    /\ c \in Rows
    /\ reports[c] = "sent" => bk[c].link
    /\ reports[c] = "already_recovered" => bk[c].status = "RECOVERED"

Remembered(bk, copies) ==
  \A c \in DOMAIN copies : c \in Rows /\ (copies[c].status = "RECOVERED" => bk[c].status = "RECOVERED")

BatchDocuments == {"at", "row", "todo", "current", "results"}

BatchIsTrue(bk, r) ==
  /\ DOMAIN r = BatchDocuments
  /\ Remembered(bk, r.todo) /\ Reported(bk, r.results)
  /\ r.at \in {"evaluating", "decided", "linking"} => r.row \in Rows
  /\ r.at \in {"evaluating", "decided", "linking"} /\ r.current.status = "RECOVERED" =>
       bk[r.row].status = "RECOVERED"

RowDocuments == {"status", "intervention", "link"}

FlowInv ==
  /\ DOMAIN book = Rows /\ \A c \in Rows : DOMAIN book[c] = RowDocuments
  /\ flowRows \subseteq Rows
  /\ DOMAIN batch = Batches /\ \A b \in Batches : BatchIsTrue(book, batch[b])
  /\ batch = [b \in Batches |-> batch[b]]
  /\ book = [c \in Rows |-> book[c]]
  /\ Reported(book, linkResults)

\* The server only moves a case on.
BookMovesOn ==
  /\ DOMAIN book' = Rows /\ book' = [c \in Rows |-> book'[c]]
  /\ \A c \in Rows : /\ DOMAIN book'[c] = RowDocuments
                     /\ book[c].link => book'[c].link
                     /\ book[c].status = "RECOVERED" => book'[c].status = "RECOVERED"

LEMMA FlowInitHolds == FlowInit => FlowInv
<1> SUFFICES ASSUME FlowInit PROVE FlowInv
  OBVIOUS
<1>1. DOMAIN NoRows = {}
  BY DEF NoRows
<1>2. DOMAIN DetectedRow = RowDocuments
  BY DEF DetectedRow, RowDocuments
<1>3. DOMAIN IdleBatch = BatchDocuments /\ IdleBatch.todo = NoRows /\ IdleBatch.results = NoRows /\ IdleBatch.at = "idle"
  BY DEF IdleBatch, BatchDocuments
<1>4. \A b \in Batches : BatchIsTrue(book, batch[b])
  BY <1>1, <1>3 DEF FlowInit, BatchIsTrue, Remembered, Reported
<1>5. Reported(book, linkResults)
  BY <1>1 DEF FlowInit, Reported
<1> QED BY <1>2, <1>4, <1>5 DEF FlowInit, FlowInv

LEMMA SnapshotsStayTrue ==
  ASSUME BookMovesOn
  PROVE  /\ \A reports : Reported(book, reports) => Reported(book', reports)
         /\ \A copies : Remembered(book, copies) => Remembered(book', copies)
         /\ \A r : BatchIsTrue(book, r) => BatchIsTrue(book', r)
<1>1. \A reports : Reported(book, reports) => Reported(book', reports)
  BY DEF BookMovesOn, Reported
<1>2. \A copies : Remembered(book, copies) => Remembered(book', copies)
  BY DEF BookMovesOn, Remembered
<1>3. \A r : BatchIsTrue(book, r) => BatchIsTrue(book', r)
  BY <1>1, <1>2 DEF BookMovesOn, BatchIsTrue
<1> QED BY <1>1, <1>2, <1>3

\* What a step has to say of the batch it moves and of what the page reports.
LEMMA BatchMovesOn ==
  ASSUME FlowInv, BookMovesOn, NEW b \in Batches, NEW r,
         batch' = [batch EXCEPT ![b] = r],
         flowRows' = flowRows,
         BatchIsTrue(book', r),
         linkResults' = linkResults \/ linkResults' = r.results
  PROVE  FlowInv'
<1>1. DOMAIN batch' = Batches /\ batch' = [a \in Batches |-> batch'[a]]
      /\ \A a \in Batches : batch'[a] = IF a = b THEN r ELSE batch[a]
  BY DEF FlowInv
<1>2. \A a \in Batches : BatchIsTrue(book', batch'[a])
  <2> SUFFICES ASSUME NEW a \in Batches, BatchIsTrue(book, batch[a]) PROVE BatchIsTrue(book', batch[a])
    BY <1>1 DEF FlowInv
  <2> QED BY SnapshotsStayTrue
<1>3. Reported(book', linkResults')
  <2>1. Reported(book', r.results)
    BY DEF BatchIsTrue
  <2> QED BY <2>1, SnapshotsStayTrue DEF FlowInv
<1> QED BY <1>1, <1>2, <1>3 DEF FlowInv, BookMovesOn

LEMMA NobodyMovesOn == ASSUME FlowInv, UNCHANGED book PROVE BookMovesOn
BY DEF FlowInv, BookMovesOn

LEMMA RowMovesOn ==
  ASSUME FlowInv, NEW c \in Rows, NEW rc, DOMAIN rc = RowDocuments, book' = [book EXCEPT ![c] = rc],
         book[c].link => rc.link, book[c].status = "RECOVERED" => rc.status = "RECOVERED"
  PROVE  BookMovesOn /\ book'[c] = rc
BY DEF FlowInv, BookMovesOn

LEMMA DecisionsMoveOn ==
  ASSUME FlowInv, NEW c \in Rows, NEW rc \in Decisions(book[c])
  PROVE  /\ DOMAIN rc = RowDocuments /\ (book[c].link => rc.link)
         /\ book[c].status = "RECOVERED" <=> rc.status = "RECOVERED"
<1>1. DOMAIN book[c] = RowDocuments
  BY DEF FlowInv
<1>2. CASE book[c].status \in EVALUABLE_STATUSES
  <2> DEFINE decided(i) == [book[c] EXCEPT !.status = "POLICY_APPROVED", !.intervention = i]
  <2>1. rc = decided("CREATE_PAYMENT_LINK") \/ rc = decided("START_VOICE_RECOVERY")
    BY <1>2 DEF Decisions
  <2>2. \A i : /\ DOMAIN decided(i) = RowDocuments /\ decided(i).status = "POLICY_APPROVED"
              /\ decided(i).link = book[c].link
    BY <1>1 DEF RowDocuments
  <2> HIDE DEF decided
  <2>3. DOMAIN rc = RowDocuments /\ rc.status = "POLICY_APPROVED" /\ rc.link = book[c].link
    BY <2>1, <2>2
  <2> QED BY <1>2, <2>3 DEF EVALUABLE_STATUSES
<1>3. CASE book[c].status \notin EVALUABLE_STATUSES
  BY <1>1, <1>3 DEF Decisions
<1> QED BY <1>2, <1>3

LEMMA WithLinkMovesOn ==
  ASSUME FlowInv, NEW c \in Rows, ApprovedForLink(book[c])
  PROVE  /\ DOMAIN WithLink(book[c]) = RowDocuments /\ WithLink(book[c]).link
         /\ book[c].status # "RECOVERED"
BY DEF FlowInv, WithLink, ApprovedForLink, RowDocuments

LEMMA ActElsewhereKeeps ==
  ASSUME FlowInv, NEW c \in Rows, ActElsewhere(c) PROVE FlowInv'
<1>1. BookMovesOn
  <2>1. ASSUME NEW rc \in Decisions(book[c]), book' = [book EXCEPT ![c] = rc] PROVE BookMovesOn
    BY <2>1, DecisionsMoveOn, RowMovesOn
  <2>2. CASE ApprovedForLink(book[c]) /\ book' = [book EXCEPT ![c] = WithLink(@)]
    <3> DEFINE rc == WithLink(book[c])
    <3>1. DOMAIN rc = RowDocuments /\ rc.link /\ book[c].status # "RECOVERED"
      BY <2>2, WithLinkMovesOn
    <3>2. book' = [book EXCEPT ![c] = rc]
      BY <2>2
    <3> HIDE DEF rc
    <3> QED BY <3>1, <3>2, RowMovesOn
  <2>3. ASSUME NEW st \in {"RECOVERED", "FAILED"}, book[c].status = "WAITING_OUTCOME",
               book' = [book EXCEPT ![c].status = st]
        PROVE  BookMovesOn
    <3> DEFINE rc == [book[c] EXCEPT !.status = st]
    <3>1. DOMAIN rc = RowDocuments /\ rc.link = book[c].link
      BY DEF FlowInv, RowDocuments
    <3>2. book' = [book EXCEPT ![c] = rc]
      BY <2>3 DEF FlowInv
    <3> HIDE DEF rc
    <3> QED BY <2>3, <3>1, <3>2, RowMovesOn
  <2> QED BY <2>1, <2>2, <2>3 DEF ActElsewhere
<1>2. UNCHANGED <<batch, flowRows, linkResults>>
  BY DEF ActElsewhere, shown, results
<1> QED BY <1>1, <1>2, SnapshotsStayTrue DEF FlowInv, BookMovesOn

LEMMA SendLinksKeeps ==
  ASSUME FlowInv, NEW b \in Batches, SendLinks(b) PROVE FlowInv'
<1> DEFINE r == [IdleBatch EXCEPT !.at = "next", !.todo = Restrict(book, flowRows)]
<1>1. batch' = [batch EXCEPT ![b] = r] /\ UNCHANGED <<book, flowRows, linkResults>>
  BY DEF SendLinks
<1>2. /\ DOMAIN r = BatchDocuments /\ r.at = "next" /\ r.todo = Restrict(book, flowRows)
      /\ r.results = NoRows /\ DOMAIN NoRows = {}
  BY DEF IdleBatch, BatchDocuments, NoRows
<1> HIDE DEF r
<1>3. Remembered(book, r.todo) /\ Reported(book, r.results)
  BY <1>2 DEF FlowInv, Restrict, Remembered, Reported
<1>4. BatchIsTrue(book', r)
  BY <1>1, <1>2, <1>3 DEF BatchIsTrue
<1> QED BY <1>1, <1>4, NobodyMovesOn, BatchMovesOn

LEMMA NextRowKeeps ==
  ASSUME FlowInv, NEW b \in Batches, NextRow(b) PROVE FlowInv'
<1>1. PICK c \in DOMAIN batch[b].todo :
        batch' = [batch EXCEPT ![b].row = c, ![b].current = batch[b].todo[c],
                    ![b].todo = Restrict(@, DOMAIN @ \ {c}),
                    ![b].at = IF batch[b].todo[c].status \in EVALUABLE_STATUSES THEN "evaluating" ELSE "decided"]
  BY DEF NextRow
<1> DEFINE todo == Restrict(batch[b].todo, DOMAIN batch[b].todo \ {c})
           at == IF batch[b].todo[c].status \in EVALUABLE_STATUSES THEN "evaluating" ELSE "decided"
           r == [batch[b] EXCEPT !.row = c, !.current = batch[b].todo[c], !.todo = todo, !.at = at]
<1>2. BatchIsTrue(book, batch[b]) /\ UNCHANGED <<book, flowRows, linkResults>>
  BY DEF FlowInv, NextRow, shown, results
<1>3. Remembered(book, todo) /\ at \in {"evaluating", "decided"}
  BY <1>2 DEF BatchIsTrue, Remembered, Restrict
<1>4. batch' = [batch EXCEPT ![b] = r]
  BY <1>1, <1>2 DEF FlowInv, BatchIsTrue, BatchDocuments
<1> HIDE DEF todo, at
<1>5. /\ DOMAIN r = BatchDocuments /\ r.row = c /\ r.current = batch[b].todo[c] /\ r.todo = todo
      /\ r.results = batch[b].results
  BY <1>2 DEF BatchIsTrue, BatchDocuments
<1> HIDE DEF r
<1>6. BatchIsTrue(book', r)
  BY <1>1, <1>2, <1>3, <1>5 DEF BatchIsTrue, Remembered
<1> QED BY <1>2, <1>4, <1>6, NobodyMovesOn, BatchMovesOn

\* A row's outcome is pushed: it has to be true when it is.
LEMMA PushKeeps ==
  ASSUME FlowInv, BookMovesOn, NEW b \in Batches, NEW outcome, Push(b, outcome),
         batch[b].at \in {"evaluating", "decided", "linking"},
         outcome = "sent" => book'[batch[b].row].link,
         outcome = "already_recovered" => book'[batch[b].row].status = "RECOVERED",
         flowRows' = flowRows
  PROVE  FlowInv'
<1> DEFINE pushed == [c \in DOMAIN batch[b].results \cup {batch[b].row} |->
                        IF c = batch[b].row THEN outcome ELSE batch[b].results[c]]
           r == [batch[b] EXCEPT !.results = pushed, !.at = "next"]
<1>1. BatchIsTrue(book', batch[b]) /\ batch[b].row \in Rows
  BY SnapshotsStayTrue DEF FlowInv, BatchIsTrue
<1>2. batch' = [batch EXCEPT ![b].results = pushed, ![b].at = "next"] /\ linkResults' = pushed
  BY DEF Push
<1>3. Reported(book', pushed)
  BY <1>1 DEF BatchIsTrue, Reported
<1> HIDE DEF pushed
<1>4. batch' = [batch EXCEPT ![b] = r]
  BY <1>1, <1>2 DEF FlowInv, BatchIsTrue, BatchDocuments
<1>5. DOMAIN r = BatchDocuments /\ r.results = pushed /\ r.at = "next" /\ r.todo = batch[b].todo
  BY <1>1 DEF BatchIsTrue, BatchDocuments
<1> HIDE DEF r
<1>6. BatchIsTrue(book', r)
  BY <1>1, <1>3, <1>5 DEF BatchIsTrue
<1> QED BY <1>2, <1>4, <1>5, <1>6, BatchMovesOn

LEMMA EvaluateRowKeeps ==
  ASSUME FlowInv, NEW b \in Batches, EvaluateRow(b) PROVE FlowInv'
<1> DEFINE c == batch[b].row
<1>1. /\ batch[b].at = "evaluating" /\ flowRows' = flowRows
      /\ BatchIsTrue(book, batch[b]) /\ c \in Rows
  BY DEF FlowInv, EvaluateRow, shown, BatchIsTrue
<1> HIDE DEF c
<1>2. ASSUME NEW rc \in Decisions(book[c]), book' = [book EXCEPT ![c] = rc],
             batch' = [batch EXCEPT ![b].at = "decided", ![b].current = rc],
             UNCHANGED linkResults
      PROVE  FlowInv'
  <2> DEFINE r == [batch[b] EXCEPT !.at = "decided", !.current = rc]
  <2>1. BookMovesOn /\ book'[c] = rc
    BY <1>1, <1>2, DecisionsMoveOn, RowMovesOn
  <2>2. batch' = [batch EXCEPT ![b] = r]
    BY <1>1, <1>2 DEF FlowInv, BatchIsTrue, BatchDocuments
  <2>3. /\ DOMAIN r = BatchDocuments /\ r.row = batch[b].row /\ r.current = rc
        /\ r.todo = batch[b].todo /\ r.results = batch[b].results
    BY <1>1 DEF BatchIsTrue, BatchDocuments
  <2> HIDE DEF r
  <2>4. BatchIsTrue(book', batch[b])
    BY <1>1, <2>1, SnapshotsStayTrue
  <2>5. BatchIsTrue(book', r)
    BY <1>1, <2>1, <2>3, <2>4 DEF BatchIsTrue, c
  <2> QED BY <1>1, <1>2, <2>1, <2>2, <2>5, BatchMovesOn
<1>3. CASE Push(b, "error") /\ UNCHANGED book
  BY <1>1, <1>3, NobodyMovesOn, PushKeeps
<1>4. \/ \E rc \in Decisions(book[c]) :
            /\ book' = [book EXCEPT ![c] = rc]
            /\ batch' = [batch EXCEPT ![b].at = "decided", ![b].current = rc]
            /\ UNCHANGED linkResults
      \/ Push(b, "error") /\ UNCHANGED book
  BY Zenon DEF EvaluateRow, c
<1> QED BY <1>2, <1>3, <1>4

LEMMA DecideRowKeeps ==
  ASSUME FlowInv, NEW b \in Batches, DecideRow(b) PROVE FlowInv'
<1>1. /\ batch[b].at = "decided" /\ UNCHANGED <<book, flowRows>> /\ BookMovesOn
      /\ BatchIsTrue(book, batch[b])
  BY NobodyMovesOn DEF FlowInv, DecideRow, shown
<1>2. CASE batch[b].current.status = "RECOVERED" /\ Push(b, "already_recovered")
  <2>1. book'[batch[b].row].status = "RECOVERED"
    BY <1>1, <1>2 DEF BatchIsTrue
  <2> QED BY <1>1, <1>2, <2>1, PushKeeps
<1>3. CASE Push(b, "blocked")
  BY <1>1, <1>3, PushKeeps
<1>4. CASE batch' = [batch EXCEPT ![b].at = "linking"] /\ UNCHANGED linkResults
  <2> DEFINE r == [batch[b] EXCEPT !.at = "linking"]
  <2>1. batch' = [batch EXCEPT ![b] = r]
    BY <1>4 DEF FlowInv
  <2>2. /\ DOMAIN r = BatchDocuments /\ r.row = batch[b].row /\ r.current = batch[b].current
        /\ r.todo = batch[b].todo /\ r.results = batch[b].results
    BY <1>1 DEF BatchIsTrue, BatchDocuments
  <2> HIDE DEF r
  <2>3. BatchIsTrue(book', r)
    BY <1>1, <2>2 DEF BatchIsTrue
  <2> QED BY <1>1, <1>4, <2>1, <2>3, BatchMovesOn
<1>5. \/ batch[b].current.status = "RECOVERED" /\ Push(b, "already_recovered")
      \/ batch' = [batch EXCEPT ![b].at = "linking"] /\ UNCHANGED linkResults
      \/ Push(b, "blocked")
  BY Zenon DEF DecideRow
<1> QED BY <1>2, <1>3, <1>4, <1>5

LEMMA CreateRowLinkKeeps ==
  ASSUME FlowInv, NEW b \in Batches, CreateRowLink(b) PROVE FlowInv'
<1> DEFINE c == batch[b].row
<1>1. /\ batch[b].at = "linking" /\ flowRows' = flowRows /\ c \in Rows
  BY DEF FlowInv, CreateRowLink, shown, BatchIsTrue
<1> HIDE DEF c
<1>2. CASE book[c].link /\ Push(b, AnsweredWith(TRUE)) /\ UNCHANGED book
  BY <1>1, <1>2, NobodyMovesOn, PushKeeps DEF AnsweredWith, c
<1>3. ASSUME NEW heard \in BOOLEAN, ApprovedForLink(book[c]), book' = [book EXCEPT ![c] = WithLink(book[c])],
             Push(b, AnsweredWith(heard))
      PROVE  FlowInv'
  <2>1. BookMovesOn /\ book'[c].link
    <3> DEFINE rc == WithLink(book[c])
    <3>1. DOMAIN rc = RowDocuments /\ rc.link /\ book[c].status # "RECOVERED"
      BY <1>1, <1>3, WithLinkMovesOn
    <3>2. book' = [book EXCEPT ![c] = rc]
      BY <1>3
    <3> HIDE DEF rc
    <3>3. BookMovesOn /\ book'[c] = rc
      BY <1>1, <3>1, <3>2, RowMovesOn
    <3> QED BY <3>1, <3>3
  <2>2. AnsweredWith(heard) \in {"sent", "error"}
    BY DEF AnsweredWith
  <2> QED BY <1>1, <1>3, <2>1, <2>2, PushKeeps DEF c
<1>4. CASE Push(b, AnsweredWith(FALSE)) /\ UNCHANGED book
  BY <1>1, <1>4, NobodyMovesOn, PushKeeps DEF AnsweredWith
<1>5. \/ book[c].link /\ Push(b, AnsweredWith(TRUE)) /\ UNCHANGED book
      \/ \E heard \in BOOLEAN : /\ ApprovedForLink(book[c]) /\ book' = [book EXCEPT ![c] = WithLink(book[c])]
                                /\ Push(b, AnsweredWith(heard))
      \/ Push(b, AnsweredWith(FALSE)) /\ UNCHANGED book
  BY Zenon DEF CreateRowLink, c
<1> QED BY <1>2, <1>3, <1>4, <1>5

LEMMA FinishBatchKeeps ==
  ASSUME FlowInv, NEW b \in Batches, FinishBatch(b) PROVE FlowInv'
<1>1. batch' = [batch EXCEPT ![b] = IdleBatch] /\ UNCHANGED <<book, flowRows, linkResults>>
  BY DEF FinishBatch
<1>2. BatchIsTrue(book', IdleBatch)
  BY DEF BatchIsTrue, IdleBatch, BatchDocuments, NoRows, Remembered, Reported
<1> QED BY <1>1, <1>2, NobodyMovesOn, BatchMovesOn

LEMMA FlowNextKeeps == FlowInv /\ [FlowNext]_flowVars => FlowInv'
<1> SUFFICES ASSUME FlowInv, [FlowNext]_flowVars PROVE FlowInv'
  OBVIOUS
<1>1. ASSUME UNCHANGED <<book, batch>>, flowRows' \subseteq Rows,
             linkResults' = linkResults \/ linkResults' = NoRows
      PROVE  FlowInv'
  <2>1. Reported(book', linkResults')
    BY <1>1 DEF FlowInv, Reported, NoRows
  <2> QED BY <1>1, <2>1 DEF FlowInv
<1>2. CASE CloseFlow \/ StartCallQueue \/ StartPoll \/ FinishPoll \/ UNCHANGED flowVars
  BY <1>1, <1>2 DEF CloseFlow, StartCallQueue, StartPoll, FinishPoll, flowVars, shown, results, FlowInv
<1>3. ASSUME NEW type \in {"call", "link"}, NEW selected \in SUBSET Rows, OpenFlow(type, selected)
      PROVE  FlowInv'
  BY <1>1, <1>3 DEF OpenFlow
<1> QED BY <1>2, <1>3, ActElsewhereKeeps, SendLinksKeeps, NextRowKeeps, EvaluateRowKeeps,
           DecideRowKeeps, CreateRowLinkKeeps, FinishBatchKeeps DEF FlowNext
-----------------------------------------------------------------------------
(***************************************************************************)
(* The voice page.  Whatever the page waits for is still on its way: the   *)
(* page writes uiState in the same step that sends what it then waits for, *)
(* and the step that uses up the last of it writes uiState again.          *)
(***************************************************************************)
VoiceInv == VoiceTypeOK /\ NeverStuck

LEMMA VoiceInitHolds == VoiceInit => VoiceInv
<1> SUFFICES ASSUME VoiceInit PROVE VoiceInv
  OBVIOUS
<1>1. storedCase \in VoiceCases
  BY DEF VoiceInit, VoiceCases
<1>2. known \in Known
  BY DEF VoiceInit, Known
<1>3. VoiceTypeOK
  <2>1. /\ turns \in 0 .. MaxTurns /\ speaking \in 0 .. MaxSpeeches /\ ending \in Nat
        /\ hearing \in Nat /\ closing \in Nat /\ hearing + closing <= MaxRecognizers
    BY VoicePageAssumption DEF VoiceInit
  <2>2. optedOut \in BOOLEAN /\ session \in BOOLEAN /\ starting \in BOOLEAN
    BY DEF VoiceInit
  <2> QED BY <1>1, <1>2, <2>1, <2>2 DEF VoiceInit, VoiceTypeOK
<1>4. NeverStuck
  BY DEF VoiceInit, NeverStuck
<1> QED BY <1>3, <1>4 DEF VoiceInv

\* What a turn returns is a case.
LEMMA TurnResultsAreCases ==
  ASSUME NEW c \in VoiceCases, NEW rc \in TurnResults(c) PROVE rc \in VoiceCases
BY DEF TurnResults, VoiceCases, NoChoice

LEMMA ServerStepsKeep ==
  ASSUME VoiceInv, CaseMovesOn \/ LoadCase \/ HandleStart \/ StartAnswered PROVE VoiceInv'
<1> USE DEF VoiceInv
<1>1. CASE CaseMovesOn
  <2>1. storedCase' \in VoiceCases /\ optedOut' \in BOOLEAN
    BY <1>1 DEF CaseMovesOn, VoiceTypeOK, VoiceCases, NoChoice
  <2>2. UNCHANGED <<voicePolicy, view, uiState, session, requests, audio>>
    BY <1>1 DEF CaseMovesOn
  <2> QED BY <2>1, <2>2 DEF VoiceTypeOK, NeverStuck, view, requests, audio
<1>2. CASE LoadCase
  BY <1>2 DEF LoadCase, VoiceTypeOK, NeverStuck, backend, requests, audio
<1>3. CASE HandleStart
  BY <1>3 DEF HandleStart, VoiceTypeOK, NeverStuck, backend, view, audio
<1>4. CASE StartAnswered
  <2>1. storedCase' \in VoiceCases /\ shownCase' \in VoiceCases
    <3>1. CASE UNCHANGED <<storedCase, shownCase>>
      BY <3>1 DEF VoiceTypeOK
    <3>2. CASE /\ storedCase' = [storedCase EXCEPT !.voiceAttempts = @ + 1]
               /\ shownCase' = [shownCase EXCEPT !.status = storedCase.status,
                                                 !.voiceAttempts = storedCase.voiceAttempts + 1]
      <4>1. storedCase \in VoiceCases /\ shownCase \in VoiceCases
        BY DEF VoiceTypeOK
      <4>2. \A c \in VoiceCases : c.voiceAttempts + 1 \in Nat
        BY DEF VoiceCases
      <4>3. storedCase' \in VoiceCases
        BY <3>2, <4>1, <4>2 DEF VoiceCases
      <4> DEFINE n == storedCase.voiceAttempts + 1
      <4>4. n \in Nat
        BY <4>1, <4>2
      <4>5. shownCase' = [shownCase EXCEPT !.status = storedCase.status, !.voiceAttempts = n]
        BY <3>2
      <4> HIDE DEF n
      <4>6. shownCase' \in VoiceCases
        BY <4>1, <4>4, <4>5 DEF VoiceCases
      <4> QED BY <4>3, <4>6
    <3> QED BY <1>4, <3>1, <3>2 DEF StartAnswered
  <2>2. uiState' \in {uiState, "READY"} /\ session' \in {session, TRUE} /\ starting' = FALSE
    BY <1>4 DEF StartAnswered
  <2>3. UNCHANGED <<optedOut, voicePolicy, known, ending, turns, audio>>
    BY <1>4 DEF StartAnswered
  <2> QED BY <2>1, <2>2, <2>3 DEF VoiceTypeOK, NeverStuck, audio
<1> QED BY <1>1, <1>2, <1>3, <1>4

LEMMA TurnsKeep ==
  ASSUME VoiceInv, HandleTextSubmit \/ TurnAnswered \/ TurnFailed PROVE VoiceInv'
<1> USE DEF VoiceInv
<1>1. CASE HandleTextSubmit
  BY <1>1, VoicePageAssumption
     DEF HandleTextSubmit, SubmitTranscript, VoiceTypeOK, NeverStuck, backend, view, audio
<1>2. CASE TurnAnswered
  <2>1. /\ turns > 0 /\ turns' = turns - 1
        /\ UNCHANGED <<optedOut, voicePolicy, known, session, starting, ending, hearing, closing>>
    BY <1>2 DEF TurnAnswered
  <2>2. PICK rc \in TurnResults(storedCase) :
          /\ storedCase' = rc /\ shownCase' = rc
          /\ \/ SpeakOrReady
             \/ uiState' = "ENDED" /\ speaking < MaxSpeeches /\ speaking' = speaking + 1
    BY <1>2 DEF TurnAnswered
  <2>3. storedCase' \in VoiceCases /\ shownCase' \in VoiceCases
    BY <2>2, TurnResultsAreCases DEF VoiceTypeOK
  <2>4. /\ uiState' \in {"READY", "RESPONDING", "ENDED"} /\ speaking' \in 0 .. MaxSpeeches
        /\ uiState' = "RESPONDING" => speaking' > 0
    BY <2>2, VoicePageAssumption DEF SpeakOrReady, VoiceTypeOK
  <2>5. turns' \in 0 .. MaxTurns
    BY <2>1, VoicePageAssumption DEF VoiceTypeOK
  <2>6. VoiceTypeOK'
    BY <2>1, <2>3, <2>4, <2>5 DEF VoiceTypeOK
  <2> QED BY <2>4, <2>6 DEF NeverStuck
<1>3. CASE TurnFailed
  BY <1>3, VoicePageAssumption DEF TurnFailed, VoiceTypeOK, NeverStuck, backend, view, audio
<1> QED BY <1>1, <1>2, <1>3

LEMMA CallbacksKeep ==
  ASSUME VoiceInv,
         \/ HandleMicStart \/ HandleMicStop \/ RecognitionResult \/ RecognitionError
         \/ RecognitionEnd \/ SpeechEnd
  PROVE  VoiceInv'
<1> USE VoicePageAssumption DEF VoiceInv, backend, view, requests, audio, VoiceTypeOK, NeverStuck
<1>1. CASE HandleMicStart
  BY <1>1 DEF HandleMicStart
<1>2. CASE HandleMicStop
  BY <1>2 DEF HandleMicStop
<1>3. CASE RecognitionResult
  BY <1>3 DEF RecognitionResult, SubmitTranscript
<1>4. CASE RecognitionError
  BY <1>4 DEF RecognitionError
<1>5. CASE RecognitionEnd
  BY <1>5 DEF RecognitionEnd
<1>6. CASE SpeechEnd
  BY <1>6 DEF SpeechEnd
<1> QED BY <1>1, <1>2, <1>3, <1>4, <1>5, <1>6

LEMMA EndingKeeps ==
  ASSUME VoiceInv, HandleEnd \/ EndAnswered \/ HandleRetry PROVE VoiceInv'
<1> USE DEF VoiceInv, VoiceTypeOK, NeverStuck, backend, view, requests, audio
<1>1. CASE HandleEnd
  BY <1>1 DEF HandleEnd
<1>2. CASE EndAnswered
  BY <1>2 DEF EndAnswered
<1>3. CASE HandleRetry
  BY <1>3 DEF HandleRetry
<1> QED BY <1>1, <1>2, <1>3

LEMMA VoiceNextKeeps == VoiceInv /\ [VoiceNext]_voiceVars => VoiceInv'
<1>1. VoiceInv /\ UNCHANGED voiceVars => VoiceInv'
  BY DEF VoiceInv, VoiceTypeOK, NeverStuck, voiceVars
<1> QED BY <1>1, ServerStepsKeep, TurnsKeep, CallbacksKeep, EndingKeeps DEF VoiceNext

\* An offered session passes every check of the server's that can be seen in the view.
LEMMA ViewIsTheServers == VoiceInv => OfferedSessionIsAccepted
<1> SUFFICES ASSUME VoiceInv, known.policy, shownCase = storedCase, ~optedOut,
                    DeriveVoiceRecoveryView(shownCase) = "startable"
             PROVE  SessionAccepted
  BY DEF OfferedSessionIsAccepted
<1>1. storedCase.voiceAttempts \in Nat /\ voicePolicy.maxVoiceAttempts \in Nat
  BY VoicePageAssumption DEF VoiceInv, VoiceTypeOK, VoiceCases
<1>2. /\ storedCase.status \in MANUAL_SESSION_STATUSES
      /\ ~Exhausted(storedCase)
      /\ voicePolicy.voiceEnabled
  BY DEF DeriveVoiceRecoveryView
<1> QED BY <1>1, <1>2 DEF SessionAccepted, Exhausted
-----------------------------------------------------------------------------
(***************************************************************************)
(* The batch evaluation.  A synthetic case starts RISK_DETECTED, so the    *)
(* pipeline decides it; what it approves, the simulated executor carries   *)
(* out; and what is recovered was scored before.                           *)
(***************************************************************************)
CaseFields == {"status", "rootCause", "recoveryProbability", "selectedIntervention",
               "policyDecision", "attempts", "voiceAttempts", "amount", "recoveredAmount",
               "recoveryWindowExpiresAt"}

\* What a decision leaves of a case in memory.
Decides(x, y) ==
  /\ DOMAIN y = DOMAIN x
  /\ y.amount = x.amount
  /\ y.recoveryProbability = x.recoveryProbability
  /\ y.selectedIntervention = x.selectedIntervention

LEMMA StepDecides ==
  ASSUME NEW x, CaseFields \subseteq DOMAIN x, NEW to
  PROVE  /\ Decides(x, Transition(x, to))
         /\ Transition(x, to).status = IF to \in AllowedTransitions[x.status] THEN to ELSE Thrown
BY DEF Transition, Decides, CaseFields

\* Where the statuses that a batch passes through lead.
LEMMA BatchTransitions ==
  /\ AllowedTransitions["RISK_DETECTED"] = {"ANALYZING"}
  /\ AllowedTransitions["ANALYZING"] = {"ELIGIBLE", "STOPPED", "ESCALATED", "EXPIRED"}
  /\ AllowedTransitions["ELIGIBLE"] = {"ACTION_SELECTED"}
  /\ AllowedTransitions["ACTION_SELECTED"] = {"POLICY_APPROVED", "STOPPED", "ESCALATED", "EXPIRED"}
  /\ AllowedTransitions["POLICY_APPROVED"] = {"ACTION_EXECUTED", "STOPPED", "ESCALATED", "EXPIRED"}
  /\ AllowedTransitions["ACTION_EXECUTED"] = {"WAITING_OUTCOME", "STOPPED", "ESCALATED"}
  /\ AllowedTransitions["WAITING_OUTCOME"] = {"RECOVERED", "FAILED"}
BY DEF AllowedTransitions, Statuses, Terminal

Closed == {"STOPPED", "ESCALATED", "EXPIRED"}

\* No action of the batch is rejected, and a verdict other than an approval closes.
LEMMA VerdictDecides ==
  ASSUME NEW x, CaseFields \subseteq DOMAIN x, NEW env,
         NEW action \in {None, "STOP", "CREATE_PAYMENT_LINK"}, NEW to,
         \/ x.status = "ANALYZING" /\ to = "ELIGIBLE"
         \/ x.status = "ACTION_SELECTED" /\ to = "POLICY_APPROVED"
  PROVE  LET y == Resolve(x, EvaluatePrecedence(x, env, action), to)
         IN  Decides(x, y) /\ y.status \in {to} \cup Closed
<1> DEFINE v == EvaluatePrecedence(x, env, action)
           st == CASE v.outcome = "APPROVE" -> to
                   [] v.outcome = "REJECT"  -> Thrown
                   [] OTHER                 -> OutcomeToStatus[v.outcome]
           tr == Transition(x, st)
<1>1. v.outcome \in {"APPROVE", "STOP", "ESCALATE", "EXPIRE", "BLOCK"}
  BY DEF EvaluatePrecedence, Verdict, ActionAllowlist, CustomerFacing, None
<1>2. st \in {to} \cup Closed
  <2>1. CASE v.outcome = "APPROVE"
    <3>1. st = to
      BY <2>1, Zenon
    <3> QED BY <3>1
  <2>2. CASE v.outcome \in {"STOP", "ESCALATE", "EXPIRE", "BLOCK"}
    <3>1. v.outcome # "APPROVE" /\ v.outcome # "REJECT"
      BY <2>2
    <3>2. st = OutcomeToStatus[v.outcome]
      BY <3>1, Zenon
    <3> QED BY <2>2, <3>2 DEF OutcomeToStatus, Closed
  <2> QED BY <1>1, <2>1, <2>2
<1>3. Resolve(x, v, to) = [tr EXCEPT !.policyDecision = v.reasonCode]
  BY DEF Resolve
<1> HIDE DEF v, st
<1>4. Decides(x, tr) /\ tr.status = st
  BY <1>2, StepDecides, BatchTransitions DEF Closed
<1> HIDE DEF tr
<1> QED BY <1>2, <1>3, <1>4 DEF Decides, CaseFields, v

\* The pipeline on a case just detected: closed before it was scored, or decided with
\* the score on record and an action the executor has.
LEMMA PipelineDecides ==
  ASSUME NEW x, CaseFields \subseteq DOMAIN x, x.status = "RISK_DETECTED",
         NEW env, NEW reason, NEW band \in Bands
  PROVE  LET y == RunEvaluationPipeline(x, env, reason, band, FALSE)
         IN  /\ DOMAIN y = DOMAIN x /\ y.amount = x.amount
             /\ y.status \in {"POLICY_APPROVED"} \cup Closed
             /\ y.status = "POLICY_APPROVED" =>
                  /\ y.recoveryProbability = band
                  /\ y.selectedIntervention \in {"STOP", "CREATE_PAYMENT_LINK"}
<1> DEFINE a == Transition(x, "ANALYZING")
           r == Reenter(x, reason)
           e == EvaluateEligibility(r, env)
           s == [e EXCEPT !.recoveryProbability = band]
           action == SelectIntervention(s, FALSE)
           t == Transition(s, "ACTION_SELECTED")
           n == [t EXCEPT !.selectedIntervention = action]
           y == EvaluatePolicy(n, env, action)
<1>0. RunEvaluationPipeline(x, env, reason, band, FALSE) = IF e.status # "ELIGIBLE" THEN e ELSE y
  BY DEF RunEvaluationPipeline, Evaluable
<1>1. Decides(x, a) /\ a.status = "ANALYZING"
  BY StepDecides, BatchTransitions
<1>2. r = [a EXCEPT !.rootCause = r.rootCause]
  <2> DEFINE c == IF a.rootCause = None THEN AnalyzeRootCause(reason) ELSE a.rootCause
  <2>1. r = [a EXCEPT !.rootCause = c]
    BY Zenon DEF Reenter
  <2> HIDE DEF c, a, r
  <2>2. "rootCause" \in DOMAIN a
    BY <1>1 DEF Decides, CaseFields
  <2> QED BY <2>1, <2>2
<1> HIDE DEF a
<1>3. DOMAIN r = DOMAIN x /\ r.amount = x.amount /\ r.status = "ANALYZING"
  BY <1>1, <1>2 DEF Decides, CaseFields
<1> HIDE DEF r
<1>4. Decides(r, e) /\ e.status \in {"ELIGIBLE"} \cup Closed
  BY <1>3, VerdictDecides DEF EvaluateEligibility
<1>5. action \in {"STOP", "CREATE_PAYMENT_LINK"}
  BY Zenon DEF SelectIntervention
<1> HIDE DEF e, action
<1>7. /\ DOMAIN s = DOMAIN x /\ s.amount = x.amount /\ s.recoveryProbability = band
      /\ s.status = e.status
  BY <1>3, <1>4 DEF Decides, CaseFields
<1> HIDE DEF s
<1>8. CASE e.status = "ELIGIBLE"
  <2>1. Decides(s, t) /\ t.status = "ACTION_SELECTED"
    BY <1>7, <1>8, StepDecides, BatchTransitions
  <2> HIDE DEF t
  <2>2. /\ DOMAIN n = DOMAIN x /\ n.amount = x.amount /\ n.recoveryProbability = band
        /\ n.selectedIntervention = action /\ n.status = "ACTION_SELECTED"
    BY <1>7, <2>1 DEF Decides, CaseFields
  <2> HIDE DEF n
  <2>3. Decides(n, y) /\ y.status \in {"POLICY_APPROVED"} \cup Closed
    BY <1>5, <2>2, VerdictDecides DEF EvaluatePolicy
  <2> HIDE DEF y
  <2> QED BY <1>5, <1>0, <1>8, <2>2, <2>3 DEF Decides
<1>9. CASE e.status # "ELIGIBLE"
  <2>1. RunEvaluationPipeline(x, env, reason, band, FALSE) = e
    BY <1>0, <1>9
  <2> QED BY <1>3, <1>4, <1>9, <2>1 DEF Decides, Closed
<1> QED BY <1>8, <1>9

\* The simulated executor finishes what was approved.
LEMMA SimulationEnds ==
  ASSUME NEW x, CaseFields \subseteq DOMAIN x, x.status = "POLICY_APPROVED",
         NEW action \in {"STOP", "CREATE_PAYMENT_LINK"}, NEW success \in BOOLEAN
  PROVE  LET y == ExecuteAction(x, action, FALSE, success)
         IN  /\ y.amount = x.amount /\ y.recoveryProbability = x.recoveryProbability
             /\ y.status \in {"STOPPED", "RECOVERED", "FAILED"}
             /\ y.status = "RECOVERED" => y.recoveredAmount = x.amount
<1> DEFINE e == Transition(x, "ACTION_EXECUTED")
           stopped == Transition(e, "STOPPED")
           t == Transition(e, "WAITING_OUTCOME")
           count == t.attempts + 1
           w == [t EXCEPT !.attempts = count]
           paid == Transition(w, "RECOVERED")
           failed == Transition(w, "FAILED")
<1>1. Decides(x, e) /\ e.status = "ACTION_EXECUTED"
  BY StepDecides, BatchTransitions
<1>2. action = "STOP" => ExecuteAction(x, action, FALSE, success) = stopped
  BY Zenon DEF ExecuteAction
<1>3. action # "STOP" =>
        ExecuteAction(x, action, FALSE, success) = IF success THEN SetRecovered(w) ELSE failed
  <2> SUFFICES ASSUME action = "CREATE_PAYMENT_LINK"
               PROVE  ExecuteAction(x, action, FALSE, success) = IF success THEN SetRecovered(w) ELSE failed
    OBVIOUS
  <2>1. action # "STOP" /\ action # "ESCALATE"
    OBVIOUS
  <2> QED BY <2>1, Zenon DEF ExecuteAction
<1> HIDE DEF e
<1>4. Decides(e, stopped) /\ stopped.status = "STOPPED"
  BY <1>1, StepDecides, BatchTransitions DEF Decides
<1>5. Decides(e, t) /\ t.status = "WAITING_OUTCOME"
  BY <1>1, StepDecides, BatchTransitions DEF Decides
<1> HIDE DEF stopped, t, count
<1>6. Decides(x, w) /\ w.status = "WAITING_OUTCOME"
  BY <1>1, <1>5 DEF Decides, CaseFields
<1>7. SetRecovered(w) = [paid EXCEPT !.recoveredAmount = w.amount]
  BY DEF SetRecovered
<1> HIDE DEF w
<1>8. Decides(w, paid) /\ paid.status = "RECOVERED" /\ Decides(w, failed) /\ failed.status = "FAILED"
  BY <1>6, StepDecides, BatchTransitions DEF Decides
<1> HIDE DEF paid, failed
<1>9. /\ SetRecovered(w).status = "RECOVERED" /\ SetRecovered(w).recoveredAmount = x.amount
      /\ SetRecovered(w).amount = x.amount
      /\ SetRecovered(w).recoveryProbability = x.recoveryProbability
  BY <1>6, <1>7, <1>8 DEF Decides, CaseFields
<1> QED BY <1>1, <1>2, <1>3, <1>4, <1>6, <1>8, <1>9 DEF Decides

\* What becomes of a case of the batch.
LEMMA FareEnds ==
  ASSUME NEW p, NEW s, s.amount \in Nat, NEW band \in Bands, NEW success \in BOOLEAN
  PROVE  LET y == Fare(s, p, band, success)
         IN  /\ y.status \in Ends /\ y.amount = s.amount
             /\ y.status = "RECOVERED" =>
                  y.recoveryProbability # None /\ y.recoveredAmount = s.amount
<1> DEFINE x == BuildRecoveryCaseInput(s, p)
           env == [policy |-> p, optedOut |-> s.optedOut, now |-> s.age]
           d == RunEvaluationPipeline(x, env, s.reason, band, FALSE)
           y == ExecuteAction(d, d.selectedIntervention, FALSE, success)
<1>1. CaseFields \subseteq DOMAIN x /\ x.status = "RISK_DETECTED" /\ x.amount = s.amount
  BY DEF BuildRecoveryCaseInput, CaseFields
<1>2. Fare(s, p, band, success) = IF d.status = "POLICY_APPROVED" THEN y ELSE d
  BY DEF Fare, EvaluateSynthetic
<1>3. band # None
  BY DEF Bands, None
<1> HIDE DEF x, env
<1>4. /\ DOMAIN d = DOMAIN x /\ d.amount = x.amount
      /\ d.status \in {"POLICY_APPROVED"} \cup Closed
      /\ d.status = "POLICY_APPROVED" =>
           /\ d.recoveryProbability = band
           /\ d.selectedIntervention \in {"STOP", "CREATE_PAYMENT_LINK"}
  BY <1>1, PipelineDecides
<1> HIDE DEF d
<1>5. CASE d.status = "POLICY_APPROVED"
  <2>1. /\ y.amount = d.amount /\ y.recoveryProbability = d.recoveryProbability
        /\ y.status \in {"STOPPED", "RECOVERED", "FAILED"}
        /\ y.status = "RECOVERED" => y.recoveredAmount = d.amount
    BY <1>1, <1>4, <1>5, SimulationEnds
  <2> HIDE DEF y
  <2> QED BY <1>1, <1>2, <1>3, <1>4, <1>5, <2>1 DEF Ends
<1>6. CASE d.status # "POLICY_APPROVED"
  BY <1>1, <1>2, <1>4, <1>6 DEF Ends, Closed
<1> QED BY <1>5, <1>6

EvaluationInv ==
  /\ evaluationPolicy \in EvaluationPolicies /\ nextCase \in 0 .. 12
  /\ metrics \in [ends : [Ends -> Nat], eligibleRevenue : Nat, recoveredRevenue : Nat,
                  policyViolations : Nat]
  /\ MetricsAddUp

LEMMA NothingCounted ==
  /\ NoMetrics \in [ends : [Ends -> Nat], eligibleRevenue : Nat, recoveredRevenue : Nat,
                    policyViolations : Nat]
  /\ NoMetrics.ends["RECOVERED"] + NoMetrics.ends["FAILED"] + NoMetrics.ends["STOPPED"]
       + NoMetrics.ends["ESCALATED"] + NoMetrics.ends["EXPIRED"] = 0
  /\ NoMetrics.policyViolations = 0 /\ NoMetrics.recoveredRevenue <= NoMetrics.eligibleRevenue
BY DEF NoMetrics, Ends

LEMMA EvaluationInitHolds == EvaluationInit => EvaluationInv
BY NothingCounted DEF EvaluationInit, EvaluationInv, MetricsAddUp

\* The amounts of the dataset are ordinary or one above the ceiling.
LEMMA AmountsAreNumbers ==
  ASSUME NEW p \in EvaluationPolicies, NEW k \in 1 .. 11, NEW s \in ARCHETYPES(p)[k]
  PROVE  s.amount \in Nat
<1>1. p.maxAutonomousAmount + 1 \in Nat
  BY EvaluationAssumption
<1>2. ASSUME NEW c, NEW why, NEW old, NEW act, NEW z \in Synthetic(c, why, old, act)
      PROVE  /\ z.amount = 1
             /\ \A v : [z EXCEPT !.amount = v].amount = v
             /\ \A v : [z EXCEPT !.optedOut = v].amount = 1
             /\ \A v : [z EXCEPT !.age = v].amount = 1
             /\ \A v : [z EXCEPT !.attempts = v].amount = 1
  BY <1>2 DEF Synthetic
<1>3. CASE k \in {1, 2, 3, 4, 5, 6, 11}
  BY <1>2, <1>3 DEF ARCHETYPES
<1> DEFINE retryable(oldest) == Synthetic(None, RETRYABLE_REASONS, oldest, {FALSE})
<1>4. CASE k = 7
  <2>1. PICK z \in retryable(4) : s = [z EXCEPT !.amount = p.maxAutonomousAmount + 1]
    BY <1>4 DEF ARCHETYPES
  <2> QED BY <1>1, <1>2, <2>1
<1>5. CASE k = 8
  <2>1. PICK z \in retryable(4) : s = [z EXCEPT !.optedOut = TRUE]
    BY <1>5 DEF ARCHETYPES
  <2> QED BY <1>2, <2>1
<1>6. CASE k = 9
  <2>1. PICK z \in retryable(0) : s = [z EXCEPT !.age = p.recoveryWindowHours + 1]
    BY <1>6 DEF ARCHETYPES
  <2> QED BY <1>2, <2>1
<1>7. CASE k = 10
  <2>1. PICK z \in retryable(6) : s = [z EXCEPT !.attempts = p.maxRecoveryAttempts]
    BY <1>7 DEF ARCHETYPES
  <2> QED BY <1>2, <2>1
<1> QED BY <1>3, <1>4, <1>5, <1>6, <1>7

LEMMA BandsOfScores ==
  ASSUME NEW c, NEW active PROVE ScoreBands(c, active) \subseteq Bands
BY DEF ScoreBands, Bands

LEMMA CountingAddsUp ==
  ASSUME EvaluationInv, NEW rc, rc.status \in Ends, rc.amount \in Nat,
         rc.status = "RECOVERED" => rc.recoveryProbability # None /\ rc.recoveredAmount = rc.amount,
         nextCase \in 1 .. 11, nextCase' = nextCase + 1, evaluationPolicy' = evaluationPolicy,
         metrics' = AggregateMetrics(metrics, rc)
  PROVE  EvaluationInv'
<1> DEFINE m == metrics
           ends == [e \in Ends |-> IF rc.status = e THEN m.ends[e] + 1 ELSE m.ends[e]]
           eligible == IF CountsAsEligible(rc) THEN m.eligibleRevenue + rc.amount ELSE m.eligibleRevenue
           recovered == IF rc.status = "RECOVERED" THEN m.recoveredRevenue + rc.recoveredAmount
                        ELSE m.recoveredRevenue
<1>1. /\ m.ends \in [Ends -> Nat] /\ m.eligibleRevenue \in Nat /\ m.recoveredRevenue \in Nat
      /\ m.policyViolations = 0 /\ m.recoveredRevenue <= m.eligibleRevenue
  BY DEF EvaluationInv, MetricsAddUp
<1>2. metrics' = [m EXCEPT !.ends = ends, !.eligibleRevenue = eligible, !.recoveredRevenue = recovered]
  <2>1. rc.status # "ACTION_EXECUTED"
    BY DEF Ends
  <2>2. metrics' = [m EXCEPT !.ends = ends, !.eligibleRevenue = eligible,
                             !.recoveredRevenue = recovered, !.policyViolations = m.policyViolations]
    BY <2>1, Zenon DEF AggregateMetrics
  <2> HIDE DEF ends, eligible, recovered
  <2> QED BY <2>2 DEF EvaluationInv
<1>3. /\ ends \in [Ends -> Nat]
      /\ ends["RECOVERED"] + ends["FAILED"] + ends["STOPPED"] + ends["ESCALATED"] + ends["EXPIRED"]
           = m.ends["RECOVERED"] + m.ends["FAILED"] + m.ends["STOPPED"] + m.ends["ESCALATED"]
               + m.ends["EXPIRED"] + 1
  BY <1>1 DEF Ends
<1>4. eligible \in Nat /\ recovered \in Nat /\ recovered <= eligible
  BY <1>1 DEF CountsAsEligible
<1> HIDE DEF ends, eligible, recovered
<1>5. /\ metrics' \in [ends : [Ends -> Nat], eligibleRevenue : Nat, recoveredRevenue : Nat,
                       policyViolations : Nat]
      /\ metrics'.ends = ends /\ metrics'.eligibleRevenue = eligible
      /\ metrics'.recoveredRevenue = recovered /\ metrics'.policyViolations = 0
  BY <1>1, <1>2, <1>3, <1>4 DEF EvaluationInv
<1> QED BY <1>1, <1>3, <1>4, <1>5 DEF EvaluationInv, MetricsAddUp

LEMMA EvaluateNextCaseKeeps ==
  ASSUME EvaluationInv, EvaluateNextCase PROVE EvaluationInv'
<1>1. PICK s \in ARCHETYPES(evaluationPolicy)[nextCase], success \in BOOLEAN :
        \E band \in PossibleBandsOf(s) :
          metrics' = AggregateMetrics(metrics, Fare(s, evaluationPolicy, band, success))
  BY DEF EvaluateNextCase
<1>2. PICK band \in PossibleBandsOf(s) :
        metrics' = AggregateMetrics(metrics, Fare(s, evaluationPolicy, band, success))
  BY <1>1
<1>3. /\ nextCase \in 1 .. 11 /\ nextCase' = nextCase + 1 /\ evaluationPolicy' = evaluationPolicy
      /\ evaluationPolicy \in EvaluationPolicies
  BY DEF EvaluateNextCase, EvaluationInv
<1>4. s.amount \in Nat /\ band \in Bands
  BY <1>3, AmountsAreNumbers, BandsOfScores DEF PossibleBandsOf
<1> DEFINE rc == Fare(s, evaluationPolicy, band, success)
<1>5. /\ rc.status \in Ends /\ rc.amount = s.amount
      /\ rc.status = "RECOVERED" => rc.recoveryProbability # None /\ rc.recoveredAmount = s.amount
  BY <1>4, FareEnds
<1> HIDE DEF rc
<1> QED BY <1>2, <1>3, <1>4, <1>5, CountingAddsUp DEF rc

LEMMA EvaluationNextKeeps == EvaluationInv /\ [EvaluationNext]_evaluationVars => EvaluationInv'
<1> SUFFICES ASSUME EvaluationInv, [EvaluationNext]_evaluationVars PROVE EvaluationInv'
  OBVIOUS
<1>1. CASE HandleRun \/ StoreRun
  BY <1>1, NothingCounted DEF HandleRun, StoreRun, EvaluationInv, MetricsAddUp
<1>2. CASE RunAnswered \/ ListRuns \/ ShowLatest \/ LoadFailed \/ UNCHANGED evaluationVars
  BY <1>2 DEF RunAnswered, ListRuns, ShowLatest, LoadFailed, evaluationVars, EvaluationInv, MetricsAddUp
<1> QED BY <1>1, <1>2, EvaluateNextCaseKeeps DEF EvaluationNext
-----------------------------------------------------------------------------
(***************************************************************************)
(* The integration page.  Time runs forward within a tab: what it shows is *)
(* no newer than the secret it holds, so what is pasted from it into       *)
(* Razorpay is checked as a pair, and a pair that was replaced never works *)
(* again.                                                                  *)
(***************************************************************************)
\* The stored pair is the last one issued: the two halves are written together, and
\* only ever by the handler that has just generated them.
LastIssueIsStored == cred = [id |-> issued, secret |-> issued]

\* Nothing a tab was told, or is about to be told, lies in the future.
TabIsPast(t) ==
  /\ request[t].read <= issued /\ request[t].answer <= issued
  /\ reveal[t].answer <= issued
  /\ integration[t] <= issued /\ secretField[t] <= issued

\* Within a tab time runs forward: the URL is no newer than the page it is on, the
\* page no newer than the secret it holds or is waiting for, or than the answer to
\* come.
TabIsOrdered(t) ==
  /\ urlField[t] <= integration[t]
  /\ secretField[t] # NoIssue => integration[t] <= secretField[t]
  /\ reveal[t].key \in {NoIssue, integration[t]}
  /\ reveal[t].at = "read" /\ reveal[t].key # NoIssue => reveal[t].key <= reveal[t].answer
  /\ request[t].at \in {"read", "saved"} => integration[t] <= request[t].read
  /\ request[t].at = "saved" => integration[t] <= request[t].answer

\* So is what was pasted.
PastedInOrder == razorpay.id <= razorpay.secret /\ razorpay.secret <= issued

Ordered ==
  /\ LastIssueIsStored
  /\ \A t \in Tabs : TabIsPast(t) /\ TabIsOrdered(t)
  /\ PastedInOrder

IntegrationInv == IntegrationTypeOK /\ Ordered /\ KnownDeliveryVerifies

\* Before the first visit everything is the issue that never was.
LEMMA IntegrationInitHolds == IntegrationInit => IntegrationInv
BY IntegrationAssumption
DEF IntegrationInit, IntegrationInv, IntegrationTypeOK, Ordered, LastIssueIsStored, TabIsPast, TabIsOrdered, PastedInOrder,
    KnownDeliveryVerifies, Pairs, Issues, Unpaired, NoRequest, NoIssue, Replies

PageRequests == [kind : {"none", "get", "regenerate"}, at : {"idle", "sent", "read", "saved"},
             read : Issues, answer : Issues]

\* A handler moves the request on and notes what it read, or what it will answer.
LEMMA RequestMovesOn ==
  ASSUME NEW r \in PageRequests, NEW a \in {"read", "saved"}, NEW n \in Issues
  PROVE  /\ [r EXCEPT !.at = a, !.read = n] \in PageRequests
         /\ [r EXCEPT !.at = a, !.answer = n] \in PageRequests
BY DEF PageRequests

LEMMA ServerKeepsType ==
  ASSUME IntegrationTypeOK, NEW t \in Tabs, Receive(t) \/ Issue(t) \/ Serialize(t) \/ Reveal(t)
  PROVE  IntegrationTypeOK'
<1>0. cred.id \in Issues /\ cred.secret \in Issues
  BY DEF IntegrationTypeOK, Pairs
<1> USE <1>0 DEF IntegrationTypeOK
<1>a. request \in [Tabs -> PageRequests] /\ request[t] \in PageRequests
  BY DEF PageRequests
<1>1. CASE Receive(t)
  <2> DEFINE r == [request[t] EXCEPT !.at = "read", !.read = cred.id]
  <2>1. r \in PageRequests
    BY <1>a, RequestMovesOn
  <2>2. request' = [request EXCEPT ![t] = r]
    BY <1>1, <1>a DEF Receive
  <2>3. request' \in [Tabs -> PageRequests]
    BY <1>a, <2>1, <2>2
  <2> QED BY <1>1, <2>3 DEF Receive, integrationPage, PageRequests
<1>2. CASE Issue(t)
  <2>1. issued' \in Issues
    BY <1>2, IntegrationAssumption DEF Issue, IssuePair, Issues
  <2>2. cred' \in Pairs
    BY <1>2, <2>1 DEF Issue, IssuePair, Pairs
  <2> DEFINE r == [request[t] EXCEPT !.at = "saved", !.answer = issued']
  <2>3. r \in PageRequests
    BY <1>a, <2>1, RequestMovesOn
  <2>4. request' = [request EXCEPT ![t] = r]
    BY <1>2, <1>a DEF Issue
  <2>5. request' \in [Tabs -> PageRequests]
    BY <1>a, <2>3, <2>4
  <2> QED BY <1>2, <2>1, <2>2, <2>5 DEF Issue, integrationPage, PageRequests
<1>3. CASE Serialize(t)
  <2> DEFINE r == [request[t] EXCEPT !.at = "saved", !.answer = request[t].read]
  <2>1. request[t].read \in Issues
    BY <1>a DEF PageRequests
  <2>2. r \in PageRequests
    BY <1>a, <2>1, RequestMovesOn
  <2>3. request' = [request EXCEPT ![t] = r]
    BY <1>3, <1>a DEF Serialize
  <2>4. request' \in [Tabs -> PageRequests]
    BY <1>a, <2>2, <2>3
  <2> QED BY <1>3, <2>4 DEF Serialize, integrationPage, PageRequests
<1>4. CASE Reveal(t)
  BY <1>4 DEF Reveal, integrationPage
<1> QED BY <1>1, <1>2, <1>3, <1>4

LEMMA PageKeepsType ==
  ASSUME IntegrationTypeOK, NEW t \in Tabs,
         \/ OpenPage(t) \/ Regenerate(t) \/ ShowIntegration(t) \/ AnswerIsLost(t)
         \/ AskSecret(t) \/ HoldSecret(t) \/ HideSecret(t) \/ Paste(t)
  PROVE  IntegrationTypeOK'
<1>0. NoIssue \in Issues
  BY IntegrationAssumption DEF NoIssue, Issues
<1> USE <1>0 DEF IntegrationTypeOK
<1>1. CASE OpenPage(t)
  BY <1>1 DEF OpenPage, Ask, NoRequest
<1>2. CASE Regenerate(t)
  BY <1>2 DEF Regenerate, Ask, NoRequest, integrationPage
<1>3. CASE ShowIntegration(t)
  BY <1>3 DEF ShowIntegration, MountUrlField, MountSecretField, NoRequest
<1>4. CASE AnswerIsLost(t)
  BY <1>4 DEF AnswerIsLost, NoRequest, integrationPage
<1>5. CASE AskSecret(t)
  BY <1>5 DEF AskSecret, integrationPage
<1>6. CASE HoldSecret(t)
  BY <1>6 DEF HoldSecret
<1>7. CASE HideSecret(t)
  BY <1>7 DEF HideSecret
<1>8. CASE Paste(t)
  BY <1>8 DEF Paste, integrationPage
<1> QED BY <1>1, <1>2, <1>3, <1>4, <1>5, <1>6, <1>7, <1>8

LEMMA DeliverKeepsType == IntegrationTypeOK /\ Deliver => IntegrationTypeOK'
BY DEF IntegrationTypeOK, Deliver, integrationPage, Replies

\* The server only adds an issue, and answers with the last one.
LEMMA ServerKeepsOrder ==
  ASSUME IntegrationTypeOK, Ordered, NEW t \in Tabs, Receive(t) \/ Issue(t) \/ Serialize(t) \/ Reveal(t)
  PROVE  Ordered'
<1> USE IntegrationAssumption
    DEF IntegrationTypeOK, Ordered, LastIssueIsStored, TabIsPast, TabIsOrdered, PastedInOrder, Issues, NoIssue
<1>1. CASE Receive(t)
  BY <1>1 DEF Receive, integrationPage
<1>2. CASE Issue(t)
  BY <1>2 DEF Issue, IssuePair, integrationPage
<1>3. CASE Serialize(t)
  BY <1>3 DEF Serialize, integrationPage
<1>4. CASE Reveal(t)
  BY <1>4 DEF Reveal, integrationPage
<1> QED BY <1>1, <1>2, <1>3, <1>4

\* The page takes answers as they come, and forgets what belongs to an older one.
LEMMA PageKeepsOrder ==
  ASSUME IntegrationTypeOK, Ordered, NEW t \in Tabs,
         \/ OpenPage(t) \/ Regenerate(t) \/ ShowIntegration(t) \/ AnswerIsLost(t)
         \/ AskSecret(t) \/ HoldSecret(t) \/ HideSecret(t) \/ Paste(t)
  PROVE  Ordered'
<1> USE IntegrationAssumption
    DEF IntegrationTypeOK, Ordered, LastIssueIsStored, TabIsPast, TabIsOrdered, PastedInOrder, Issues, NoIssue
<1>1. CASE OpenPage(t)
  BY <1>1 DEF OpenPage, Ask, NoRequest
<1>2. CASE Regenerate(t)
  BY <1>2 DEF Regenerate, Ask, NoRequest, integrationPage
<1>3. CASE ShowIntegration(t)
  BY <1>3 DEF ShowIntegration, MountUrlField, MountSecretField, NoRequest
<1>4. CASE AnswerIsLost(t)
  BY <1>4 DEF AnswerIsLost, NoRequest, integrationPage
<1>5. CASE AskSecret(t)
  BY <1>5 DEF AskSecret, integrationPage
<1>6. CASE HoldSecret(t)
  BY <1>6 DEF HoldSecret
<1>7. CASE HideSecret(t)
  BY <1>7 DEF HideSecret
<1>8. CASE Paste(t)
  BY <1>8 DEF Paste, integrationPage
<1> QED BY <1>1, <1>2, <1>3, <1>4, <1>5, <1>6, <1>7, <1>8

\* A delivery that finds its merchant carries the last issue's id, so its secret,
\* which is no older, is the last issue's too.
LEMMA DeliveryVerifies == IntegrationInv /\ Deliver => Ordered' /\ KnownDeliveryVerifies'
<1> SUFFICES ASSUME IntegrationInv, Deliver PROVE Ordered' /\ KnownDeliveryVerifies'
  OBVIOUS
<1>1. Ordered'
  BY DEF IntegrationInv, Ordered, LastIssueIsStored, TabIsPast, TabIsOrdered, PastedInOrder, Deliver, integrationPage
<1>2. /\ issued \in Nat /\ razorpay.id \in Nat /\ razorpay.secret \in Nat
      /\ cred.id = issued /\ cred.secret = issued
  BY IntegrationAssumption DEF IntegrationInv, IntegrationTypeOK, Ordered, LastIssueIsStored, Issues
<1>3. DeliveryIsKnown => Accepted
  BY <1>2 DEF IntegrationInv, Ordered, PastedInOrder, DeliveryIsKnown, Accepted
<1> QED BY <1>1, <1>3 DEF Deliver, KnownDeliveryVerifies

LEMMA IntegrationNextKeeps == IntegrationInv /\ [IntegrationNext]_integrationVars => IntegrationInv'
<1> SUFFICES ASSUME IntegrationInv, [IntegrationNext]_integrationVars PROVE IntegrationInv'
  OBVIOUS
<1> USE DEF IntegrationInv
<1>1. ASSUME NEW t \in Tabs, Receive(t) \/ Issue(t) \/ Serialize(t) \/ Reveal(t)
      PROVE  IntegrationInv'
  <2>1. reply' = reply
    BY <1>1 DEF Receive, Issue, Serialize, Reveal
  <2> QED BY <1>1, <2>1, ServerKeepsType, ServerKeepsOrder DEF KnownDeliveryVerifies
<1>2. ASSUME NEW t \in Tabs,
             \/ OpenPage(t) \/ Regenerate(t) \/ ShowIntegration(t) \/ AnswerIsLost(t)
             \/ AskSecret(t) \/ HoldSecret(t) \/ HideSecret(t) \/ Paste(t)
      PROVE  IntegrationInv'
  <2>1. reply' = reply
    BY <1>2 DEF OpenPage, Regenerate, ShowIntegration, AnswerIsLost, AskSecret, HoldSecret,
                HideSecret, Paste
  <2> QED BY <1>2, <2>1, PageKeepsType, PageKeepsOrder DEF KnownDeliveryVerifies
<1>3. CASE Deliver
  BY <1>3, DeliverKeepsType, DeliveryVerifies
<1>4. CASE UNCHANGED integrationVars
  BY <1>4
  DEF integrationVars, integrationPage, IntegrationTypeOK, Ordered, LastIssueIsStored, TabIsPast, TabIsOrdered, PastedInOrder,
      KnownDeliveryVerifies, Accepted, DeliveryIsKnown
<1> QED BY <1>1, <1>2, <1>3, <1>4 DEF IntegrationNext
-----------------------------------------------------------------------------
LEMMA AlwaysPanelInv == ClientSpec => []PanelInv
<1>1. ClientInit => PanelInv
  BY PanelInitHolds DEF ClientInit
<1>2. PanelInv /\ [ClientNext]_clientVars => PanelInv'
  BY PanelNextKeeps DEF ClientNext, PlanPage, ManualPage, VoiceRecoveryPage, EvaluationPage,
              IntegrationPage, clientVars
<1> QED BY <1>1, <1>2, PTL DEF ClientSpec

LEMMA AlwaysFlowInv == ClientSpec => []FlowInv
<1>1. ClientInit => FlowInv
  BY FlowInitHolds DEF ClientInit
<1>2. FlowInv /\ [ClientNext]_clientVars => FlowInv'
  BY FlowNextKeeps DEF ClientNext, PlanPage, ManualPage, VoiceRecoveryPage, EvaluationPage,
              IntegrationPage, clientVars
<1> QED BY <1>1, <1>2, PTL DEF ClientSpec

LEMMA AlwaysVoiceInv == ClientSpec => []VoiceInv
<1>1. ClientInit => VoiceInv
  BY VoiceInitHolds DEF ClientInit
<1>2. VoiceInv /\ [ClientNext]_clientVars => VoiceInv'
  BY VoiceNextKeeps DEF ClientNext, PlanPage, ManualPage, VoiceRecoveryPage, EvaluationPage,
              IntegrationPage, clientVars
<1> QED BY <1>1, <1>2, PTL DEF ClientSpec

LEMMA AlwaysEvaluationInv == ClientSpec => []EvaluationInv
<1>1. ClientInit => EvaluationInv
  BY EvaluationInitHolds DEF ClientInit
<1>2. EvaluationInv /\ [ClientNext]_clientVars => EvaluationInv'
  BY EvaluationNextKeeps DEF ClientNext, PlanPage, ManualPage, VoiceRecoveryPage, EvaluationPage,
              IntegrationPage, clientVars
<1> QED BY <1>1, <1>2, PTL DEF ClientSpec

LEMMA AlwaysIntegrationInv == ClientSpec => []IntegrationInv
<1>1. ClientInit => IntegrationInv
  BY IntegrationInitHolds DEF ClientInit
<1>2. IntegrationInv /\ [ClientNext]_clientVars => IntegrationInv'
  BY IntegrationNextKeeps DEF ClientNext, PlanPage, ManualPage, VoiceRecoveryPage, EvaluationPage,
              IntegrationPage, clientVars
<1> QED BY <1>1, <1>2, PTL DEF ClientSpec

\* RecoveryPlanSection of Payments.jsx: the answer to a confirmation outlives every
\* overview read before it, in whatever order they arrive.
THEOREM AnsweredPlansAreNotOffered == ClientSpec => []AnsweredPlanIsNotOffered
BY AlwaysPanelInv, PanelInvSuffices, PTL

\* A plan shown as finished is finished that way on the server, for good.
THEOREM FinalReportsAreTrue == ClientSpec => []FinalReportIsTrue
BY AlwaysPanelInv, PanelInvSuffices, PTL

\* sendLinks of Payments.jsx: every row the page reports as sent or recovered is, for
\* any number of batches that overlap each other, the plan and the customer.
THEOREM ReportedOutcomesAreTrue == ClientSpec => []ReportedOutcomeIsTrue
<1>1. FlowInv => ReportedOutcomeIsTrue
  BY DEF FlowInv, Reported, ReportedOutcomeIsTrue
<1> QED BY <1>1, AlwaysFlowInv, PTL

\* VoiceRecovery.jsx: however its callbacks interleave with the answers, the page only
\* shows that it works while something that ends it is under way.
THEOREM PageIsNeverStuck == ClientSpec => []NeverStuck
<1>1. VoiceInv => NeverStuck
  BY DEF VoiceInv
<1> QED BY <1>1, AlwaysVoiceInv, PTL

\* lib/voiceRecoveryView.js against the guards of POST /voice/session: for every policy,
\* a session that a current view of the case offers is one that the server grants.
THEOREM OfferedSessionsAreAccepted == ClientSpec => []OfferedSessionIsAccepted
BY ViewIsTheServers, AlwaysVoiceInv, PTL

\* batchEvaluator.js: for every policy and every number of runs, the five ends that the
\* evaluation page counts add up to the cases it ran, and no case is lost between them.
THEOREM EveryCaseIsCounted == ClientSpec => []MetricsAddUp
<1>1. EvaluationInv => MetricsAddUp
  BY DEF EvaluationInv
<1> QED BY <1>1, AlwaysEvaluationInv, PTL

\* For any number of tabs, rotations, reloads and lost answers: the inbound route
\* never finds a merchant and then refuses the signature.
THEOREM PastedPairVerifies == ClientSpec => []KnownDeliveryVerifies
<1>1. IntegrationInv => KnownDeliveryVerifies
  BY DEF IntegrationInv
<1> QED BY <1>1, AlwaysIntegrationInv, PTL

\* Once a pasted pair is turned away it stays turned away: an id is only stored when
\* it is issued, and what was pasted had been issued before.
THEOREM RotationIsFinal == ClientSpec => RotatedStaysDead
<1>1. ASSUME IntegrationInv, [IntegrationNext]_integrationVars,
             razorpay' = razorpay, ~Accepted, razorpay.id # NoIssue
      PROVE  ~Accepted'
  <2>1. /\ issued \in Nat /\ razorpay.id \in Nat /\ razorpay.secret \in Nat
        /\ cred.id = issued /\ cred.secret = issued
        /\ razorpay.id <= issued
    BY <1>1, IntegrationAssumption
    DEF IntegrationInv, IntegrationTypeOK, Ordered, LastIssueIsStored, PastedInOrder, Issues
  <2>2. CASE cred' = cred
    BY <1>1, <2>2 DEF Accepted, DeliveryIsKnown
  <2>3. CASE \E t \in Tabs : Issue(t)
    BY <1>1, <2>1, <2>3 DEF Issue, IssuePair, Accepted, DeliveryIsKnown
  <2>4. cred' = cred \/ \E t \in Tabs : Issue(t)
    BY <1>1
    DEF IntegrationNext, integrationVars, Receive, Serialize, Reveal, OpenPage, Regenerate,
        ShowIntegration, AnswerIsLost, AskSecret, HoldSecret, HideSecret, Paste, Deliver
  <2> QED BY <2>2, <2>3, <2>4
<1>2. IntegrationInv /\ [ClientNext]_clientVars
      => [razorpay' = razorpay /\ ~Accepted /\ razorpay.id # NoIssue => ~Accepted']_integrationVars
  BY <1>1 DEF ClientNext, PlanPage, ManualPage, VoiceRecoveryPage, EvaluationPage,
              IntegrationPage, clientVars
<1> QED BY <1>2, AlwaysIntegrationInv, PTL DEF ClientSpec, RotatedStaysDead
=============================================================================
