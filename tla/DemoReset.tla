----------------------------- MODULE DemoReset -----------------------------
(***************************************************************************)
(* The reset of the demo merchant (POST /api/demo/seed, seedDemoDataset):  *)
(* the merchant's collections are deleted in parallel, the customers, the  *)
(* paid and the failed payments are inserted, every failed payment becomes *)
(* an evaluated case in a task of its own, the planned ones go to the plan *)
(* in one write, and the counts are checked.  All evaluators share the one *)
(* demo merchant, so resets overlap each other and the ingestions of       *)
(* Ingestion, on the same collections.                                     *)
(***************************************************************************)
EXTENDS Ingestion

CONSTANTS
  Specs,     \* FAILED_SPECS
  Planned,   \* those of them with plan: true
  OptedOut   \* and with optedOut: true

ASSUME DemoResetAssumption ==
  Planned \subseteq Specs /\ Planned # {} /\ OptedOut \subseteq Specs

VARIABLE reset   \* the resets in flight

vars == <<ingestVars, reset>>

NoTasks == [s \in Specs |-> "none"]

NoReset == [at |-> "idle", no |-> 0, todo |-> {}, tasks |-> NoTasks, plan |-> 0, alone |-> FALSE]

Collections == {"customers", "payments", "cases", "plan"}

\* Every variable is of its type.
ResetTypeOK ==
  /\ customers \subseteq [by : Numbers, email : {EmailOf[f] : f \in Failures} \cup Specs \cup {"paying"},
                          optedOut : BOOLEAN]
  /\ payments \subseteq [by : Numbers, of : Failures \cup Specs \cup {"paying"},
                         status : {"paid", "failed"}]
  /\ cases \subseteq [by : Numbers, of : Failures \cup Specs]
  /\ plan.by \in Numbers /\ plan.items \subseteq [by : Numbers, of : Failures \cup Specs]
  /\ events \in [Webhook -> {"none", "RECEIVED", "PROCESSED", "FAILED"}]
  /\ requests \in Numbers /\ faults \in 0..MaxFaults
  /\ \A h \in Handlers : handler[h].at = "idle" \/ reset[h].at = "idle"

Init == IngestInit /\ reset = [h \in Handlers |-> NoReset]
-----------------------------------------------------------------------------
Busy(h) == handler[h].at # "idle" \/ reset[h].at \notin {"idle", "succeeded"}

ResetAt(h, place) == reset[h].at = place

\* A request that starts is alone if nothing is in flight, and no other one still is.
Joins(h) ==
  [g \in Handlers |->
    IF g = h THEN [NoReset EXCEPT !.at = "delete", !.no = requests + 1, !.todo = Collections,
                                  !.alone = \A q \in Handlers \ {h} : ~Busy(q)]
             ELSE [reset[g] EXCEPT !.alone = FALSE]]

BeginReset(h) ==
  /\ handler[h].at = "idle" /\ reset[h].at \in {"idle", "succeeded"}
  /\ requests < MaxRequests /\ requests' = requests + 1
  /\ reset' = Joins(h)
  /\ UNCHANGED <<db, handler, faults>>

ToReset(h, place) == reset' = [reset EXCEPT ![h].at = place]

\* Promise.all over the deleteMany of each collection.  The demo-plink-* events it also
\* deletes belong to no failure of this module.
DeletedCollectionsButPlan == Collections \ {"plan"}

DeletedCollections == Collections

Delete(h, c) ==
  /\ ResetAt(h, "delete") /\ c \in reset[h].todo
  /\ customers' = IF c = "customers" THEN {} ELSE customers
  /\ payments' = IF c = "payments" THEN {} ELSE payments
  /\ cases' = IF c = "cases" THEN {} ELSE cases
  /\ plan' = IF c = "plan" /\ c \in DeletedCollections THEN NoPlan ELSE plan
  /\ reset' = [reset EXCEPT ![h].todo = @ \ {c},
                            ![h].at = IF reset[h].todo = {c} THEN "customers" ELSE @]
  /\ UNCHANGED <<events, handler, requests, faults>>

\* One customer for each failed payment, and "paying" for all the others; one "paying"
\* payment for the paid ones.
InsertCustomers(h) ==
  /\ ResetAt(h, "customers")
  /\ customers' = customers \cup {[by |-> reset[h].no, email |-> e, optedOut |-> e \in OptedOut] :
                                     e \in Specs \cup {"paying"}}
  /\ ToReset(h, "paid")
  /\ UNCHANGED <<payments, cases, plan, events, handler, requests, faults>>

InsertPaid(h) ==
  /\ ResetAt(h, "paid")
  /\ payments' = payments \cup {[by |-> reset[h].no, of |-> "paying", status |-> "paid"]}
  /\ ToReset(h, "failed")
  /\ UNCHANGED <<customers, cases, plan, events, handler, requests, faults>>

InsertFailed(h) ==
  /\ ResetAt(h, "failed")
  /\ payments' = payments \cup {[by |-> reset[h].no, of |-> s, status |-> "failed"] : s \in Specs}
  /\ reset' = [reset EXCEPT ![h].at = "tasks", ![h].tasks = [s \in Specs |-> "detect"]]
  /\ UNCHANGED <<customers, cases, plan, events, handler, requests, faults>>

\* The task of a failed payment.  When one of them throws, the others go on although the
\* reset is answered.
TaskTo(h, s, place) == reset' = [reset EXCEPT ![h].tasks[s] = place]

DetectTask(h, s) ==
  /\ reset[h].tasks[s] = "detect"
  /\ cases' = cases \cup {[by |-> reset[h].no, of |-> s]}
  /\ TaskTo(h, s, IF s \in Planned THEN "prepare" ELSE "ready")
  /\ UNCHANGED <<customers, payments, plan, events, handler, requests, faults>>

\* preparePlanItem, as in Ingestion: a case that is gone has no item, or throws.
PrepareTask(h, s) ==
  /\ reset[h].tasks[s] = "prepare"
  /\ IF [by |-> reset[h].no, of |-> s] \in cases
       THEN TaskTo(h, s, "ready")
       ELSE TaskTo(h, s, "gone") \/ TaskTo(h, s, "error")
  /\ UNCHANGED <<db, handler, requests, faults>>

Drained(h) == \A s \in Specs : reset[h].tasks[s] \in {"none", "ready", "gone", "error"}

\* The planned cases that are still there.
Prepared(h) == {s \in Planned : reset[h].tasks[s] = "ready"}

AwaitTasks(h) ==
  /\ ResetAt(h, "tasks")
  /\ \/ /\ \E s \in Specs : reset[h].tasks[s] = "error"
        /\ ToReset(h, "error")
     \/ /\ \A s \in Specs : reset[h].tasks[s] \in {"ready", "gone"}
        /\ ToReset(h, IF Prepared(h) = {} THEN "count" ELSE "plan")
  /\ UNCHANGED <<db, handler, requests, faults>>

\* commitPlanItems.
OpenPlan(h) ==
  /\ ResetAt(h, "plan")
  /\ plan' = IF plan = NoPlan THEN [NoPlan EXCEPT !.by = reset[h].no] ELSE plan
  /\ reset' = [reset EXCEPT ![h].at = "commit", ![h].plan = plan'.by]
  /\ UNCHANGED <<customers, payments, cases, events, handler, requests, faults>>

CommitItems(h) ==
  /\ ResetAt(h, "commit")
  /\ IF plan.by = reset[h].plan
       THEN /\ plan' = [plan EXCEPT !.items = @ \cup {[by |-> reset[h].no, of |-> s] : s \in Prepared(h)}]
            /\ ToReset(h, "count")
       ELSE ToReset(h, "error") /\ UNCHANGED plan
  /\ UNCHANGED <<customers, payments, cases, events, handler, requests, faults>>

\* The self-check compares the counts with what was inserted; the three counts, which run
\* in parallel, are taken as one.
CountsMatch ==
  /\ Cardinality(customers) = Cardinality(Specs) + 1
  /\ Cardinality({p \in payments : p.status = "paid"}) = 1
  /\ Cardinality({p \in payments : p.status = "failed"}) = Cardinality(Specs)

CountDocuments(h) ==
  /\ ResetAt(h, "count")
  /\ ToReset(h, IF CountsMatch THEN "succeeded" ELSE "error")
  /\ UNCHANGED <<db, handler, requests, faults>>

\* 500; the request is over once its tasks are.
AnswerError(h) ==
  /\ ResetAt(h, "error") /\ Drained(h)
  /\ reset' = [reset EXCEPT ![h] = NoReset]
  /\ UNCHANGED <<db, handler, requests, faults>>

\* A database call of the reset fails.
FailReset(h) ==
  /\ reset[h].at \in {"delete", "customers", "paid", "failed", "plan", "commit", "count"}
  /\ faults < MaxFaults /\ faults' = faults + 1
  /\ ToReset(h, "error")
  /\ UNCHANGED <<db, handler, requests>>

FailTask(h, s) ==
  /\ reset[h].tasks[s] \in {"detect", "prepare"}
  /\ faults < MaxFaults /\ faults' = faults + 1
  /\ TaskTo(h, s, "error")
  /\ UNCHANGED <<db, handler, requests>>

ResetStep(h) ==
  \/ \E c \in Collections : Delete(h, c)
  \/ InsertCustomers(h) \/ InsertPaid(h) \/ InsertFailed(h)
  \/ \E s \in Specs : DetectTask(h, s) \/ PrepareTask(h, s)
  \/ AwaitTasks(h) \/ OpenPlan(h) \/ CommitItems(h)
  \/ CountDocuments(h) \/ AnswerError(h)

ResetNext(h) ==
  \/ BeginReset(h) \/ ResetStep(h) \/ FailReset(h)
  \/ \E s \in Specs : FailTask(h, s)

\* An ingestion that starts leaves no reset alone.
Ingest(h) ==
  /\ reset[h].at = "idle"
  /\ IngestNext(h)
  /\ reset' = IF requests' = requests THEN reset
              ELSE [g \in Handlers |-> [reset[g] EXCEPT !.alone = FALSE]]

Next == \E h \in Handlers : ResetNext(h) \/ Ingest(h)

Spec == Init /\ [][Next]_vars
-----------------------------------------------------------------------------
\* SECURITY.md: the merchant is reseeded on every Enter Demo, so each session starts
\* pristine.  A reset that succeeds and met no other request leaves exactly its own
\* documents, whatever the requests before it left behind, half done resets included, and
\* every item of the open plan has its case.
AloneMeansPristine ==
  \A h \in Handlers : reset[h].at = "succeeded" /\ reset[h].alone =>
    LET mine == reset[h].no
    IN /\ \A d \in customers \cup payments \cup cases \cup plan.items : d.by = mine
       /\ {c.of : c \in cases} = Specs
       /\ plan.by = mine /\ {i.of : i \in plan.items} = Planned
=============================================================================
