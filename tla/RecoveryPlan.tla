---------------------------- MODULE RecoveryPlan ----------------------------
(***************************************************************************)
(* The recovery plans of one merchant, write by write: failed payments are *)
(* planned concurrently (preparePlanItem, then commitPlanItems) while the  *)
(* merchant confirms (confirmRecoveryPlan), perhaps twice.                 *)
(*                                                                         *)
(* A plan is one document.  Mongoose saves the change a handler made to    *)
(* its copy: a pushed item is appended and bumps the document's version    *)
(* without looking at anything else, and statuses set on existing items    *)
(* are written only if the version is still the one that was read.  What   *)
(* executing an item does to its case is in CaseLifecycle and PaymentLink; *)
(* here it counts as one execution of the customer-facing action.          *)
(***************************************************************************)
EXTENDS Naturals, FiniteSets

CONSTANTS
  Cases,        \* the cases to be planned, each by the ingestion that detected it
  CustomerFacing,  \* those whose decision is a payment link or a call
  Plans,        \* plan documents that may come to exist
  Confirms,     \* confirmation requests
  MaxCrashes    \* bound on the confirmations that die half-way

None == "NONE"

ASSUME RecoveryPlanAssumption ==
  /\ IsFiniteSet(Cases) /\ CustomerFacing \subseteq Cases
  /\ IsFiniteSet(Plans) /\ Cardinality(Plans) >= Cardinality(Cases)
  /\ None \notin Plans
  /\ MaxCrashes \in Nat

VARIABLES
  status,    \* the plans: status, None while the document does not exist
  items,     \* the plans: status of the item about each case, None if there is none
  version,   \* the plans: __v
  expired,   \* whether the plan is past its expiresAt
  planner,   \* where the ingestion of each case is
  found,     \* the plan it works on
  confirm,   \* where each confirmation is
  target,    \* the plan it claimed
  copy,      \* the items of its copy of that plan
  base,      \* the version of that copy
  executed,  \* how often the action of each case was carried out
  crashes    \* how many confirmations have died

plan == <<status, items, version, expired>>
committing == <<planner, found>>
confirming == <<confirm, target, copy, base>>
vars == <<plan, committing, confirming, executed, crashes>>

PlanStatuses == {"PENDING_APPROVAL", "EXECUTING", "COMPLETED", "PARTIAL", "FAILED", "CANCELLED"}

ItemStatuses == {"PENDING", "EXECUTED", "ESCALATED", "SKIPPED", "REMOVED", "FAILED"}

Items == [Cases -> ItemStatuses \cup {None}]

NoItems == [c \in Cases |-> None]

TypeOK ==
  /\ status \in [Plans -> PlanStatuses \cup {None}]
  /\ items \in [Plans -> Items]
  /\ version \in [Plans -> Nat]
  /\ expired \in [Plans -> BOOLEAN]
  /\ planner \in [Cases -> {"detected", "prepared", "creating", "adopting", "loaded",
                            "committed", "thrown"}]
  /\ found \in [Cases -> Plans \cup {None}]
  /\ confirm \in [Confirms -> {"idle", "claimed", "executing", "done", "versionError", "dead"}]
  /\ target \in [Confirms -> Plans \cup {None}]
  /\ copy \in [Confirms -> Items]
  /\ base \in [Confirms -> Nat]
  /\ executed \in [Cases -> Nat]
  /\ crashes \in Nat

Init ==
  /\ status = [p \in Plans |-> None]
  /\ items = [p \in Plans |-> NoItems]
  /\ version = [p \in Plans |-> 0]
  /\ expired = [p \in Plans |-> FALSE]
  /\ planner = [c \in Cases |-> "detected"]
  /\ found = [c \in Cases |-> None]
  /\ confirm = [k \in Confirms |-> "idle"]
  /\ target = [k \in Confirms |-> None]
  /\ copy = [k \in Confirms |-> NoItems]
  /\ base = [k \in Confirms |-> 0]
  /\ executed = [c \in Cases |-> 0]
  /\ crashes = 0

Open == {p \in Plans : status[p] = "PENDING_APPROVAL"}
-----------------------------------------------------------------------------
(***************************************************************************)
(* Planning a case.                                                        *)
(***************************************************************************)
PlannerGoto(c, place) == planner' = [planner EXCEPT ![c] = place]

\* preparePlanItem evaluates and saves the case; no plan is touched.
Prepare(c) ==
  /\ planner[c] = "detected"
  /\ PlannerGoto(c, "prepared")
  /\ UNCHANGED <<plan, found, confirming, executed, crashes>>

\* getOrCreateActivePlan: look for the open plan.
FindOpenPlan(c) ==
  /\ planner[c] = "prepared"
  /\ \/ /\ Open = {}
        /\ PlannerGoto(c, "creating")
        /\ UNCHANGED found
     \/ \E p \in Open :
          /\ found' = [found EXCEPT ![c] = p]
          /\ PlannerGoto(c, "loaded")
  /\ UNCHANGED <<plan, confirming, executed, crashes>>

\* The unique index refuses a second open plan.
MayCreateUnindexed == TRUE

MayCreate == Open = {}

CreatePlan(c) ==
  /\ planner[c] = "creating" /\ MayCreate
  /\ \E p \in Plans :
       /\ status[p] = None
       /\ status' = [status EXCEPT ![p] = "PENDING_APPROVAL"]
       /\ found' = [found EXCEPT ![c] = p]
  /\ PlannerGoto(c, "loaded")
  /\ UNCHANGED <<items, version, expired, confirming, executed, crashes>>

DuplicateKey(c) ==
  /\ planner[c] = "creating" /\ ~MayCreate
  /\ PlannerGoto(c, "adopting")
  /\ UNCHANGED <<plan, found, confirming, executed, crashes>>

\* After a duplicate key the other plan is adopted; if it was confirmed meanwhile
\* there is none, and the commit throws on null.
AdoptPlan(c) ==
  /\ planner[c] = "adopting"
  /\ \/ /\ Open = {}
        /\ PlannerGoto(c, "thrown")
        /\ UNCHANGED found
     \/ \E p \in Open :
          /\ found' = [found EXCEPT ![c] = p]
          /\ PlannerGoto(c, "loaded")
  /\ UNCHANGED <<plan, confirming, executed, crashes>>

\* plan.save() after items.push: $push and $inc __v, whatever the plan has become.
CommitItem(c) ==
  /\ planner[c] = "loaded"
  /\ items' = [items EXCEPT ![found[c]][c] = "PENDING"]
  /\ version' = [version EXCEPT ![found[c]] = @ + 1]
  /\ PlannerGoto(c, "committed")
  /\ UNCHANGED <<status, expired, found, confirming, executed, crashes>>
-----------------------------------------------------------------------------
(***************************************************************************)
(* Confirming a plan.                                                      *)
(***************************************************************************)
ConfirmGoto(k, place) == confirm' = [confirm EXCEPT ![k] = place]

ClaimableOrInterrupted(p) == status[p] \in {"PENDING_APPROVAL", "EXECUTING"}

Claimable(p) == status[p] = "PENDING_APPROVAL"

\* The atomic claim returns the plan as it is then; any other plan is only read.
ClaimPlan(k, p) ==
  /\ confirm[k] = "idle" /\ status[p] # None
  /\ IF Claimable(p)
     THEN /\ status' = [status EXCEPT ![p] = "EXECUTING"]
          /\ target' = [target EXCEPT ![k] = p]
          /\ copy' = [copy EXCEPT ![k] = items[p]]
          /\ base' = [base EXCEPT ![k] = version[p]]
          /\ ConfirmGoto(k, "claimed")
     ELSE /\ ConfirmGoto(k, "done")
          /\ UNCHANGED <<status, target, copy, base>>
  /\ UNCHANGED <<items, version, expired, committing, executed, crashes>>

\* claimed.save(): item statuses are written if the version is the one read; with
\* no item there is nothing to check.
SaveCopy(k, final, planStatus) ==
  LET p == target[k]
  IN  IF copy[k] # NoItems /\ version[p] # base[k]
      THEN ConfirmGoto(k, "versionError") /\ UNCHANGED <<status, items>>
      ELSE /\ items' = [items EXCEPT ![p] =
                          [c \in Cases |-> IF final[c] = None THEN @[c] ELSE final[c]]]
           /\ status' = [status EXCEPT ![p] = planStatus]
           /\ ConfirmGoto(k, "done")

CancelExpiredPlan(k) ==
  /\ confirm[k] = "claimed" /\ expired[target[k]]
  /\ SaveCopy(k, [c \in Cases |-> IF copy[k][c] = "PENDING" THEN "REMOVED" ELSE copy[k][c]],
              "CANCELLED")
  /\ UNCHANGED <<version, expired, committing, target, copy, base, executed, crashes>>

StartExecution(k) ==
  /\ confirm[k] = "claimed" /\ ~expired[target[k]]
  /\ ConfirmGoto(k, "executing")
  /\ UNCHANGED <<plan, committing, target, copy, base, executed, crashes>>

\* What executePlanItem can make of an item, and whether the action was carried
\* out: a throw after the action leaves FAILED behind all the same.
Outcomes(c) ==
  IF c \in CustomerFacing
  THEN {<<"EXECUTED", 1>>, <<"EXECUTED", 0>>, <<"FAILED", 0>>, <<"FAILED", 1>>,
        <<"REMOVED", 0>>, <<"ESCALATED", 0>>}
  ELSE {<<"ESCALATED", 0>>, <<"SKIPPED", 0>>}

ExecutePlanItem(k, c) ==
  /\ confirm[k] = "executing" /\ copy[k][c] = "PENDING"
  /\ \E outcome \in Outcomes(c) :
       /\ copy' = [copy EXCEPT ![k][c] = outcome[1]]
       /\ executed' = [executed EXCEPT ![c] = @ + outcome[2]]
  /\ UNCHANGED <<plan, committing, confirm, target, base, crashes>>

DerivePlanStatusLax(its) ==
  LET cf == {c \in CustomerFacing : its[c] # None}
      is(s) == {c \in cf : its[c] = s}
  IN  CASE cf = {} \/ is("EXECUTED") # {} -> "COMPLETED"
        [] OTHER                          -> "FAILED"

DerivePlanStatus(its) ==
  LET cf == {c \in CustomerFacing : its[c] # None}
      is(s) == {c \in cf : its[c] = s}
  IN  CASE cf = is("EXECUTED")             -> "COMPLETED"
        [] cf # {} /\ cf = is("FAILED")    -> "FAILED"
        [] cf # {} /\ cf = is("REMOVED")   -> "CANCELLED"
        [] OTHER                           -> "PARTIAL"

FinishPlan(k) ==
  /\ confirm[k] = "executing" /\ \A c \in Cases : copy[k][c] # "PENDING"
  /\ SaveCopy(k, copy[k], DerivePlanStatus(copy[k]))
  /\ UNCHANGED <<version, expired, committing, target, copy, base, executed, crashes>>

Crash(k) ==
  /\ confirm[k] \in {"claimed", "executing"} /\ crashes < MaxCrashes
  /\ crashes' = crashes + 1
  /\ ConfirmGoto(k, "dead")
  /\ UNCHANGED <<plan, committing, target, copy, base, executed>>

Expire(p) ==
  /\ status[p] # None /\ ~expired[p]
  /\ expired' = [expired EXCEPT ![p] = TRUE]
  /\ UNCHANGED <<status, items, version, committing, confirming, executed, crashes>>

Planning(c) ==
  \/ Prepare(c) \/ FindOpenPlan(c) \/ CreatePlan(c) \/ DuplicateKey(c)
  \/ AdoptPlan(c) \/ CommitItem(c)

Confirming(k) ==
  \/ CancelExpiredPlan(k) \/ StartExecution(k)
  \/ \E c \in Cases : ExecutePlanItem(k, c)
  \/ FinishPlan(k)

Next ==
  \/ \E c \in Cases : Planning(c)
  \/ \E k \in Confirms : \/ Confirming(k) \/ Crash(k)
                         \/ \E p \in Plans : ClaimPlan(k, p)
  \/ \E p \in Plans : Expire(p)

Spec == Init /\ [][Next]_vars

\* A handler that was started runs on unless its process dies; nobody has to
\* confirm, and a plan need not expire.
FairSpec ==
  /\ Spec
  /\ \A c \in Cases : WF_vars(Planning(c))
  /\ \A k \in Confirms : WF_vars(Confirming(k))
-----------------------------------------------------------------------------
\* The partial unique index holds the merchant to one open plan, however many
\* failures are planned at once.
OneOpenPlan == \A p, q \in Open : p = q

\* One confirmation, one execution: however confirmations overlap, repeat and die,
\* and whatever is appended meanwhile, no case's customer-facing action is carried
\* out twice from its plan.
ExecutedOnce == \A c \in Cases : executed[c] <= 1

\* What the merchant is told at the end is true of every item that was executed or
\* closed: COMPLETED, FAILED and CANCELLED each mean all customer-facing items of
\* the plan, save those appended after the confirmation and still PENDING.
ReportedStatusIsTrue ==
  \A p \in Plans, c \in CustomerFacing :
    items[p][c] \notin {None, "PENDING"} =>
      /\ status[p] = "COMPLETED" => items[p][c] = "EXECUTED"
      /\ status[p] = "FAILED" => items[p][c] = "FAILED"
      /\ status[p] = "CANCELLED" => items[p][c] = "REMOVED"

\* A plan that is closed stays as it was reported: its status and the items it
\* closed are not written again.
ClosedIsFinal ==
  [][\A p \in Plans :
       status[p] \in {"COMPLETED", "PARTIAL", "FAILED", "CANCELLED"} =>
         /\ status'[p] = status[p]
         /\ \A c \in Cases : items[p][c] \notin {None, "PENDING"} => items'[p][c] = items[p][c]]_vars

-----------------------------------------------------------------------------
\* models/RecoveryPlan.js: once confirmed, the plan runs to a terminal state.
ConfirmedPlanTerminates ==
  \A p \in Plans : status[p] = "EXECUTING" ~> status[p] \notin {"EXECUTING", "PENDING_APPROVAL"}
=============================================================================
