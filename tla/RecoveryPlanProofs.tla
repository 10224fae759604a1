------------------------- MODULE RecoveryPlanProofs -------------------------
(***************************************************************************)
(* Any number of failures planned at once, any number of confirmations,    *)
(* overlapping, repeated and dying: there is one open plan, no action is   *)
(* carried out twice, and what a closed plan reports is true and stays.    *)
(***************************************************************************)
EXTENDS RecoveryPlan, TLAPS

USE DEF None

ClosedStatuses == {"COMPLETED", "PARTIAL", "FAILED", "CANCELLED"}

\* An ingestion that holds a plan has found it, and an item is only ever where its
\* ingestion has put it: a case is on one plan.
ItemsAreHome ==
  /\ \A c \in Cases : planner[c] = "loaded" => found[c] \in Plans
  /\ \A p \in Plans, c \in Cases :
       items[p][c] # None => planner[c] = "committed" /\ found[c] = p

\* So is the copy of it a confirmation works on.
CopiesAreHome ==
  \A k \in Confirms, c \in Cases :
    copy[k][c] # None => target[k] # None /\ planner[c] = "committed" /\ found[c] = target[k]

\* A claim takes a plan from PENDING_APPROVAL for good, so a plan has one claimer,
\* and until that one has saved it is EXECUTING.
ClaimsExclude ==
  /\ \A k \in Confirms :
       /\ confirm[k] = "idle" => target[k] = None
       /\ confirm[k] \in {"claimed", "executing"} =>
            target[k] # None /\ status[target[k]] = "EXECUTING"
       /\ target[k] # None => status[target[k]] \notin {None, "PENDING_APPROVAL"}
  /\ \A j, k \in Confirms : target[j] # None /\ target[j] = target[k] => j = k

\* Items are closed by the one save at the end: before it they are all PENDING.
ClosedAtOnce ==
  /\ \A p \in Plans, c \in Cases :
       status[p] \notin ClosedStatuses => items[p][c] \in {None, "PENDING"}
  /\ \A k \in Confirms, c \in Cases :
       confirm[k] = "claimed" => copy[k][c] \in {None, "PENDING"}

\* An action that was carried out has left its mark in some confirmation's copy.
ExecutionsAreNoted ==
  \A c \in Cases :
    /\ executed[c] <= 1
    /\ executed[c] = 1 => \E k \in Confirms : copy[k][c] \notin {None, "PENDING"}

Strong ==
  /\ OneOpenPlan /\ ItemsAreHome /\ CopiesAreHome /\ ClaimsExclude /\ ClosedAtOnce
  /\ ExecutionsAreNoted /\ ReportedStatusIsTrue

IInv == TypeOK /\ Strong
-----------------------------------------------------------------------------
\* recoveryPlan.js derivePlanStatus: a plan is only reported COMPLETED, FAILED or
\* CANCELLED if every customer-facing item is, and it is always reported closed.
LEMMA DerivedStatus ==
  ASSUME NEW its \in Items
  PROVE  /\ DerivePlanStatus(its) \in ClosedStatuses
         /\ \A c \in CustomerFacing : its[c] # None =>
              /\ DerivePlanStatus(its) = "COMPLETED" => its[c] = "EXECUTED"
              /\ DerivePlanStatus(its) = "FAILED" => its[c] = "FAILED"
              /\ DerivePlanStatus(its) = "CANCELLED" => its[c] = "REMOVED"
<1> DEFINE cf == {c \in CustomerFacing : its[c] # None}
           is(s) == {c \in cf : its[c] = s}
           done == cf = is("EXECUTED")
           failed == cf # {} /\ cf = is("FAILED")
           removed == cf # {} /\ cf = is("REMOVED")
<1>1. /\ done => \A c \in CustomerFacing : its[c] # None => its[c] = "EXECUTED"
      /\ failed => \A c \in CustomerFacing : its[c] # None => its[c] = "FAILED"
      /\ removed => \A c \in CustomerFacing : its[c] # None => its[c] = "REMOVED"
  OBVIOUS
<1>2. DerivePlanStatus(its) =
        CASE done -> "COMPLETED" [] failed -> "FAILED" [] removed -> "CANCELLED"
          [] OTHER -> "PARTIAL"
  BY DEF DerivePlanStatus
<1>3. \/ done /\ DerivePlanStatus(its) = "COMPLETED"
      \/ failed /\ DerivePlanStatus(its) = "FAILED"
      \/ removed /\ DerivePlanStatus(its) = "CANCELLED"
      \/ DerivePlanStatus(its) = "PARTIAL"
  <2> HIDE DEF done, failed, removed
  <2> QED BY <1>2, Zenon
<1> HIDE DEF done, failed, removed
<1> QED BY <1>1, <1>3 DEF ClosedStatuses

LEMMA InitHolds == Init => IInv
BY RecoveryPlanAssumption
DEF Init, IInv, Strong, TypeOK, Items, NoItems, PlanStatuses, ItemStatuses, OneOpenPlan, Open,
    ItemsAreHome, CopiesAreHome, ClaimsExclude, ClosedAtOnce, ClosedStatuses,
    ExecutionsAreNoted, ReportedStatusIsTrue

\* What a plan comes to in a save: an item keeps its status unless the confirmation
\* has given it another, and what is written is the plan's last word.
LEMMA SaveKeepsIInv ==
  ASSUME IInv, NEW k \in Confirms, confirm[k] \in {"claimed", "executing"},
         NEW final \in Items, NEW verdict \in ClosedStatuses,
         \A c \in Cases : final[c] # None => copy[k][c] # None,
         \A c \in CustomerFacing : final[c] \notin {None, "PENDING"} =>
           /\ verdict = "COMPLETED" => final[c] = "EXECUTED"
           /\ verdict = "FAILED" => final[c] = "FAILED"
           /\ verdict = "CANCELLED" => final[c] = "REMOVED",
         SaveCopy(k, final, verdict),
         UNCHANGED <<version, expired, committing, target, copy, base, executed, crashes>>
  PROVE  IInv'
<1> DEFINE p == target[k]
           saved == [c \in Cases |-> IF final[c] = None THEN items[p][c] ELSE final[c]]
<1>1. p \in Plans /\ status[p] = "EXECUTING" /\ p # None
  BY RecoveryPlanAssumption DEF IInv, TypeOK, Strong, ClaimsExclude
<1>2. CASE UNCHANGED <<status, items>> /\ confirm' = [confirm EXCEPT ![k] = "versionError"]
  <2>1. TypeOK'
    BY <1>2 DEF IInv, TypeOK, committing
  <2>2. OneOpenPlan' /\ ItemsAreHome' /\ CopiesAreHome' /\ ReportedStatusIsTrue'
    BY <1>2 DEF IInv, Strong, OneOpenPlan, Open, ItemsAreHome, CopiesAreHome,
                ReportedStatusIsTrue, committing
  <2>3. ClaimsExclude' /\ ClosedAtOnce'
    BY <1>2 DEF IInv, TypeOK, Strong, ClaimsExclude, ClosedAtOnce, committing
  <2>4. ExecutionsAreNoted'
    BY DEF IInv, Strong, ExecutionsAreNoted
  <2> QED BY <2>1, <2>2, <2>3, <2>4 DEF IInv, Strong
<1>3. CASE /\ items' = [items EXCEPT ![p] = saved]
           /\ status' = [status EXCEPT ![p] = verdict]
           /\ confirm' = [confirm EXCEPT ![k] = "done"]
  <2>1. saved \in Items
    BY <1>1 DEF IInv, TypeOK, Items
  <2>2. TypeOK'
    BY <1>3, <2>1 DEF IInv, TypeOK, committing, PlanStatuses, ClosedStatuses
  <2>3. /\ \A q \in Plans : q # p => items'[q] = items[q] /\ status'[q] = status[q]
        /\ items'[p] = saved /\ status'[p] = verdict
    BY <1>1, <1>3 DEF IInv, TypeOK
  <2>4. OneOpenPlan'
    BY <1>1, <2>3 DEF IInv, Strong, OneOpenPlan, Open, ClosedStatuses
  <2>5. ItemsAreHome'
    BY <1>1, <2>3 DEF IInv, TypeOK, Strong, ItemsAreHome, CopiesAreHome, committing
  <2>6. CopiesAreHome'
    BY DEF IInv, Strong, CopiesAreHome, committing
  <2>7. ClaimsExclude'
    BY <1>1, <1>3, <2>3 DEF IInv, TypeOK, Strong, ClaimsExclude, ClosedStatuses
  <2>8. ClosedAtOnce'
    BY <1>1, <1>3, <2>3 DEF IInv, TypeOK, Strong, ClosedAtOnce
  <2>9. ExecutionsAreNoted'
    BY DEF IInv, Strong, ExecutionsAreNoted
  <2>10. ReportedStatusIsTrue'
    <3>1. \A c \in CustomerFacing : saved[c] \notin {None, "PENDING"} =>
            final[c] \notin {None, "PENDING"} /\ saved[c] = final[c]
      BY <1>1, RecoveryPlanAssumption DEF IInv, Strong, ClosedAtOnce, ClosedStatuses
    <3> QED BY <2>3, <3>1 DEF IInv, Strong, ReportedStatusIsTrue
  <2> QED BY <2>2, <2>4, <2>5, <2>6, <2>7, <2>8, <2>9, <2>10 DEF IInv, Strong
<1> QED BY <1>2, <1>3 DEF SaveCopy, ConfirmGoto
-----------------------------------------------------------------------------
\* Planning: a plan comes to exist only while none is open, and an item is pushed
\* once, to the plan that was found.
LEMMA CreateKeepsIInv ==
  ASSUME IInv, NEW c \in Cases, CreatePlan(c)
  PROVE  IInv'
<1>1. PICK p \in Plans : /\ status[p] = None
                         /\ status' = [status EXCEPT ![p] = "PENDING_APPROVAL"]
                         /\ found' = [found EXCEPT ![c] = p]
  BY DEF CreatePlan
<1>2. /\ planner[c] = "creating" /\ Open = {}
      /\ planner' = [planner EXCEPT ![c] = "loaded"]
      /\ UNCHANGED <<items, version, expired, confirm, target, copy, base, executed, crashes>>
  BY DEF CreatePlan, MayCreate, PlannerGoto, confirming
<1>3. TypeOK'
  BY <1>1, <1>2 DEF IInv, TypeOK, PlanStatuses
<1>4. \A q \in Plans : q # p => status'[q] = status[q]
  BY <1>1 DEF IInv, TypeOK
<1>5. OneOpenPlan'
  BY <1>1, <1>2, <1>4 DEF OneOpenPlan, Open
<1>6. ItemsAreHome' /\ CopiesAreHome'
  BY <1>1, <1>2 DEF IInv, TypeOK, Strong, ItemsAreHome, CopiesAreHome
<1>7. ClaimsExclude'
  BY <1>1, <1>2, <1>4 DEF IInv, TypeOK, Strong, ClaimsExclude
<1>8. ClosedAtOnce' /\ ExecutionsAreNoted'
  BY <1>1, <1>2, <1>4 DEF IInv, TypeOK, Strong, ClosedAtOnce, ExecutionsAreNoted, ClosedStatuses
<1>9. ReportedStatusIsTrue'
  BY <1>1, <1>2, <1>4 DEF IInv, TypeOK, Strong, ReportedStatusIsTrue
<1> QED BY <1>3, <1>5, <1>6, <1>7, <1>8, <1>9 DEF IInv, Strong

LEMMA CommitKeepsIInv ==
  ASSUME IInv, NEW c \in Cases, CommitItem(c)
  PROVE  IInv'
<1> DEFINE p == found[c]
<1>1. p \in Plans /\ planner[c] = "loaded" /\ items[p][c] = None
  BY DEF IInv, TypeOK, Items, Strong, ItemsAreHome, CommitItem
<1>2. /\ items' = [items EXCEPT ![p][c] = "PENDING"]
      /\ version' = [version EXCEPT ![p] = version[p] + 1]
      /\ planner' = [planner EXCEPT ![c] = "committed"]
      /\ UNCHANGED <<status, expired, found, confirm, target, copy, base, executed, crashes>>
  BY DEF CommitItem, PlannerGoto, confirming
<1>3. TypeOK'
  BY <1>1, <1>2 DEF IInv, TypeOK, Items, ItemStatuses
<1>4. \A q \in Plans, d \in Cases :
        items'[q][d] = IF q = p /\ d = c THEN "PENDING" ELSE items[q][d]
  BY <1>1, <1>2 DEF IInv, TypeOK, Items
<1>5. OneOpenPlan' /\ ClaimsExclude' /\ ExecutionsAreNoted'
  BY <1>2 DEF IInv, Strong, OneOpenPlan, Open, ClaimsExclude, ExecutionsAreNoted
<1>6. ItemsAreHome' /\ CopiesAreHome'
  BY <1>1, <1>2, <1>4 DEF IInv, TypeOK, Strong, ItemsAreHome, CopiesAreHome
<1>7. ClosedAtOnce' /\ ReportedStatusIsTrue'
  BY <1>1, <1>2, <1>4 DEF IInv, Strong, ClosedAtOnce, ReportedStatusIsTrue
<1> QED BY <1>3, <1>5, <1>6, <1>7 DEF IInv, Strong

\* The other steps of an ingestion write no document.
LEMMA LookingKeepsIInv ==
  ASSUME IInv, NEW c \in Cases,
         Prepare(c) \/ FindOpenPlan(c) \/ DuplicateKey(c) \/ AdoptPlan(c)
  PROVE  IInv'
<1>1. /\ UNCHANGED <<plan, confirming, executed, crashes>>
      /\ planner[c] \in {"detected", "prepared", "creating", "adopting"}
      /\ \E place \in {"prepared", "creating", "adopting", "thrown", "loaded"} :
           /\ planner' = [planner EXCEPT ![c] = place]
           /\ \/ place # "loaded" /\ UNCHANGED found
              \/ \E p \in Plans : found' = [found EXCEPT ![c] = p]
  BY DEF Prepare, FindOpenPlan, DuplicateKey, AdoptPlan, PlannerGoto, Open
<1>2. TypeOK'
  BY <1>1 DEF IInv, TypeOK, plan, confirming
<1>3. OneOpenPlan' /\ ClaimsExclude' /\ ClosedAtOnce' /\ ExecutionsAreNoted'
      /\ ReportedStatusIsTrue'
  BY <1>1 DEF IInv, Strong, OneOpenPlan, Open, ClaimsExclude, ClosedAtOnce,
              ExecutionsAreNoted, ReportedStatusIsTrue, plan, confirming
<1>4. ItemsAreHome' /\ CopiesAreHome'
  BY <1>1 DEF IInv, TypeOK, Strong, ItemsAreHome, CopiesAreHome, plan, confirming
<1> QED BY <1>2, <1>3, <1>4 DEF IInv, Strong
-----------------------------------------------------------------------------
\* Confirming: the claim copies the plan it takes, and no other claim can have it.
LEMMA ClaimKeepsIInv ==
  ASSUME IInv, NEW k \in Confirms, NEW p \in Plans, ClaimPlan(k, p)
  PROVE  IInv'
<1>1. /\ confirm[k] = "idle" /\ target[k] = None
      /\ UNCHANGED <<items, version, expired, planner, found, executed, crashes>>
  BY DEF IInv, Strong, ClaimsExclude, ClaimPlan, committing
<1>2. CASE ~Claimable(p)
  <2>1. /\ confirm' = [confirm EXCEPT ![k] = "done"]
        /\ UNCHANGED <<status, target, copy, base>>
    BY <1>2 DEF ClaimPlan, ConfirmGoto
  <2>2. TypeOK'
    BY <1>1, <2>1 DEF IInv, TypeOK
  <2>3. OneOpenPlan' /\ ItemsAreHome' /\ CopiesAreHome' /\ ExecutionsAreNoted'
        /\ ReportedStatusIsTrue'
    BY <1>1, <2>1 DEF IInv, Strong, OneOpenPlan, Open, ItemsAreHome, CopiesAreHome,
                      ExecutionsAreNoted, ReportedStatusIsTrue
  <2>4. ClaimsExclude' /\ ClosedAtOnce'
    BY <1>1, <2>1 DEF IInv, TypeOK, Strong, ClaimsExclude, ClosedAtOnce
  <2> QED BY <2>2, <2>3, <2>4 DEF IInv, Strong
<1>3. CASE Claimable(p)
  <2>1. /\ status[p] = "PENDING_APPROVAL"
        /\ status' = [status EXCEPT ![p] = "EXECUTING"]
        /\ target' = [target EXCEPT ![k] = p]
        /\ copy' = [copy EXCEPT ![k] = items[p]]
        /\ base' = [base EXCEPT ![k] = version[p]]
        /\ confirm' = [confirm EXCEPT ![k] = "claimed"]
    BY <1>3 DEF ClaimPlan, Claimable, ConfirmGoto
  <2>2. TypeOK'
    BY <1>1, <2>1 DEF IInv, TypeOK, PlanStatuses
  <2>3. /\ \A q \in Plans : q # p => status'[q] = status[q]
        /\ \A j \in Confirms : j # k => /\ target'[j] = target[j] /\ copy'[j] = copy[j]
                                      /\ confirm'[j] = confirm[j]
        /\ status'[p] = "EXECUTING" /\ target'[k] = p /\ copy'[k] = items[p]
        /\ confirm'[k] = "claimed"
    BY <2>1 DEF IInv, TypeOK
  <2>4. OneOpenPlan'
    BY <2>1, <2>3 DEF IInv, Strong, OneOpenPlan, Open
  <2>5. ItemsAreHome' /\ CopiesAreHome'
    BY <1>1, <2>3, RecoveryPlanAssumption DEF IInv, Strong, ItemsAreHome, CopiesAreHome
  <2>6. \A j \in Confirms : target[j] # p
    BY <2>1, RecoveryPlanAssumption DEF IInv, Strong, ClaimsExclude
  <2>7. ClaimsExclude'
    BY <2>1, <2>3, <2>6, RecoveryPlanAssumption DEF IInv, TypeOK, Strong, ClaimsExclude
  <2>8. ClosedAtOnce'
    BY <1>1, <2>1, <2>3 DEF IInv, Strong, ClosedAtOnce, ClosedStatuses
  <2>9. ExecutionsAreNoted'
    <3>1. \A c \in Cases : copy[k][c] = None
      BY <1>1 DEF IInv, Strong, CopiesAreHome
    <3> QED BY <1>1, <2>3, <3>1 DEF IInv, Strong, ExecutionsAreNoted
  <2>10. ReportedStatusIsTrue'
    BY <1>1, <2>1, <2>3 DEF IInv, Strong, ReportedStatusIsTrue
  <2> QED BY <2>2, <2>4, <2>5, <2>7, <2>8, <2>9, <2>10 DEF IInv, Strong
<1> QED BY <1>2, <1>3

\* An item is executed while it is PENDING in the copy of the plan's only claimer, and
\* not after that.
LEMMA ExecuteKeepsIInv ==
  ASSUME IInv, NEW k \in Confirms, NEW c \in Cases, ExecutePlanItem(k, c)
  PROVE  IInv'
<1>1. PICK s \in ItemStatuses \ {"PENDING"}, n \in {0, 1} :
        /\ copy' = [copy EXCEPT ![k][c] = s]
        /\ executed' = [executed EXCEPT ![c] = executed[c] + n]
  <2>1. PICK outcome \in Outcomes(c) : /\ copy' = [copy EXCEPT ![k][c] = outcome[1]]
                                       /\ executed' = [executed EXCEPT ![c] = @ + outcome[2]]
    BY DEF ExecutePlanItem
  <2>2. outcome[1] \in ItemStatuses \ {"PENDING"} /\ outcome[2] \in {0, 1}
    BY DEF Outcomes, ItemStatuses
  <2> QED BY <2>1, <2>2
<1>2. /\ confirm[k] = "executing" /\ copy[k][c] = "PENDING"
      /\ UNCHANGED <<plan, committing, confirm, target, base, crashes>>
  BY DEF ExecutePlanItem
<1>3. TypeOK'
  BY <1>1, <1>2 DEF IInv, TypeOK, Items, plan, committing
<1>4. /\ \A j \in Confirms, d \in Cases :
           copy'[j][d] = IF j = k /\ d = c THEN s ELSE copy[j][d]
      /\ \A d \in Cases : executed'[d] = IF d = c THEN executed[c] + n ELSE executed[d]
  BY <1>1 DEF IInv, TypeOK, Items
<1>5. OneOpenPlan' /\ ItemsAreHome' /\ ClaimsExclude' /\ ReportedStatusIsTrue'
  BY <1>2 DEF IInv, Strong, OneOpenPlan, Open, ItemsAreHome, ClaimsExclude,
              ReportedStatusIsTrue, plan, committing
<1>6. CopiesAreHome'
  BY <1>2, <1>4 DEF IInv, Strong, CopiesAreHome, committing
<1>7. ClosedAtOnce'
  BY <1>2, <1>4 DEF IInv, Strong, ClosedAtOnce, plan
<1>8. executed[c] = 0
  <2>1. executed[c] \in Nat /\ executed[c] <= 1
    BY DEF IInv, TypeOK, Strong, ExecutionsAreNoted
  <2>2. SUFFICES ASSUME executed[c] = 1 PROVE FALSE
    BY <2>1
  <2>3. PICK j \in Confirms : copy[j][c] \notin {None, "PENDING"}
    BY <2>2 DEF IInv, Strong, ExecutionsAreNoted
  <2>4. target[j] # None /\ target[j] = target[k]
    BY <1>2, <2>3 DEF IInv, Strong, CopiesAreHome
  <2> QED BY <1>2, <2>3, <2>4 DEF IInv, Strong, ClaimsExclude
<1>9. ExecutionsAreNoted'
  BY <1>2, <1>4, <1>8 DEF IInv, TypeOK, Strong, ExecutionsAreNoted, ItemStatuses
<1> QED BY <1>3, <1>5, <1>6, <1>7, <1>9 DEF IInv, Strong

\* What moves a confirmation on and writes nothing.
LEMMA MovingKeepsIInv ==
  ASSUME IInv, NEW k \in Confirms, StartExecution(k) \/ Crash(k)
  PROVE  IInv'
<1>1. /\ confirm[k] \in {"claimed", "executing"}
      /\ \E place \in {"executing", "dead"} : confirm' = [confirm EXCEPT ![k] = place]
      /\ UNCHANGED <<plan, committing, target, copy, base, executed>>
      /\ crashes' \in {crashes, crashes + 1}
  BY DEF StartExecution, Crash, ConfirmGoto
<1>2. TypeOK'
  BY <1>1 DEF IInv, TypeOK, plan, committing
<1>3. OneOpenPlan' /\ ItemsAreHome' /\ CopiesAreHome' /\ ExecutionsAreNoted'
      /\ ReportedStatusIsTrue'
  BY <1>1 DEF IInv, Strong, OneOpenPlan, Open, ItemsAreHome, CopiesAreHome,
              ExecutionsAreNoted, ReportedStatusIsTrue, plan, committing
<1>4. ClaimsExclude' /\ ClosedAtOnce'
  BY <1>1 DEF IInv, TypeOK, Strong, ClaimsExclude, ClosedAtOnce, plan, committing
<1> QED BY <1>2, <1>3, <1>4 DEF IInv, Strong

LEMMA CancelKeepsIInv ==
  ASSUME IInv, NEW k \in Confirms, CancelExpiredPlan(k)
  PROVE  IInv'
<1> DEFINE final == [c \in Cases |-> IF copy[k][c] = "PENDING" THEN "REMOVED" ELSE copy[k][c]]
<1>1. final \in Items /\ "CANCELLED" \in ClosedStatuses
  BY DEF IInv, TypeOK, Items, ItemStatuses, ClosedStatuses
<1>2. /\ confirm[k] = "claimed" /\ SaveCopy(k, final, "CANCELLED")
      /\ UNCHANGED <<version, expired, committing, target, copy, base, executed, crashes>>
  BY DEF CancelExpiredPlan
<1>3. \A c \in Cases : /\ final[c] # None => copy[k][c] # None
                       /\ final[c] \notin {None, "PENDING"} => final[c] = "REMOVED"
  BY <1>2 DEF IInv, Strong, ClosedAtOnce
<1> HIDE DEF final
<1> QED BY <1>1, <1>2, <1>3, SaveKeepsIInv, RecoveryPlanAssumption

LEMMA FinishKeepsIInv ==
  ASSUME IInv, NEW k \in Confirms, FinishPlan(k)
  PROVE  IInv'
<1> DEFINE verdict == DerivePlanStatus(copy[k])
<1>1. copy[k] \in Items
  BY DEF IInv, TypeOK
<1>2. /\ verdict \in ClosedStatuses
      /\ \A c \in CustomerFacing : copy[k][c] # None =>
           /\ verdict = "COMPLETED" => copy[k][c] = "EXECUTED"
           /\ verdict = "FAILED" => copy[k][c] = "FAILED"
           /\ verdict = "CANCELLED" => copy[k][c] = "REMOVED"
  BY <1>1, DerivedStatus
<1>3. /\ confirm[k] = "executing" /\ SaveCopy(k, copy[k], verdict)
      /\ UNCHANGED <<version, expired, committing, target, copy, base, executed, crashes>>
  BY DEF FinishPlan
<1> HIDE DEF verdict
<1> QED BY <1>1, <1>2, <1>3, SaveKeepsIInv

LEMMA ExpireKeepsIInv ==
  ASSUME IInv, NEW p \in Plans, Expire(p)
  PROVE  IInv'
<1>1. TypeOK'
  BY DEF IInv, TypeOK, Expire, committing, confirming
<1>2. Strong'
  BY DEF IInv, Strong, OneOpenPlan, Open, ItemsAreHome, CopiesAreHome, ClaimsExclude,
         ClosedAtOnce, ExecutionsAreNoted, ReportedStatusIsTrue, Expire, committing, confirming
<1> QED BY <1>1, <1>2 DEF IInv

LEMMA NextKeepsIInv == IInv /\ [Next]_vars => IInv'
<1> SUFFICES ASSUME IInv, [Next]_vars PROVE IInv'
  OBVIOUS
<1>1. ASSUME NEW c \in Cases, Planning(c) PROVE IInv'
  BY <1>1, LookingKeepsIInv, CreateKeepsIInv, CommitKeepsIInv DEF Planning
<1>2. ASSUME NEW k \in Confirms, Confirming(k) PROVE IInv'
  BY <1>2, CancelKeepsIInv, MovingKeepsIInv, ExecuteKeepsIInv, FinishKeepsIInv DEF Confirming
<1>3. ASSUME NEW k \in Confirms, Crash(k) PROVE IInv'
  BY <1>3, MovingKeepsIInv
<1>4. ASSUME NEW k \in Confirms, NEW p \in Plans, ClaimPlan(k, p) PROVE IInv'
  BY <1>4, ClaimKeepsIInv
<1>5. ASSUME NEW p \in Plans, Expire(p) PROVE IInv'
  BY <1>5, ExpireKeepsIInv
<1>6. CASE UNCHANGED vars
  BY <1>6
  DEF IInv, TypeOK, Strong, OneOpenPlan, Open, ItemsAreHome, CopiesAreHome, ClaimsExclude,
      ClosedAtOnce, ExecutionsAreNoted, ReportedStatusIsTrue, vars, plan, committing, confirming
<1> QED BY <1>1, <1>2, <1>3, <1>4, <1>5, <1>6 DEF Next

LEMMA AlwaysIInv == Spec => []IInv
BY InitHolds, NextKeepsIInv, PTL DEF Spec
-----------------------------------------------------------------------------
\* Plans, items, copies and counts stay of their types.
THEOREM TypeCorrect == Spec => []TypeOK
<1>1. IInv => TypeOK
  BY DEF IInv
<1> QED BY <1>1, AlwaysIInv, PTL

\* recoveryPlan.js getOrCreateActivePlan: one plan is open, for any number of ingestions.
THEOREM OnePlanIsOpen == Spec => []OneOpenPlan
<1>1. IInv => OneOpenPlan
  BY DEF IInv, Strong
<1> QED BY <1>1, AlwaysIInv, PTL

\* recoveryPlan.js confirmRecoveryPlan: for any number of confirmations, crashes and
\* items appended meanwhile, an action is carried out at most once.
THEOREM ConfirmationExecutesOnce == Spec => []ExecutedOnce
<1>1. IInv => ExecutedOnce
  BY DEF IInv, Strong, ExecutionsAreNoted, ExecutedOnce
<1> QED BY <1>1, AlwaysIInv, PTL

\* recoveryPlan.js derivePlanStatus: what a closed plan reports is true of its items.
THEOREM ReportIsTrue == Spec => []ReportedStatusIsTrue
<1>1. IInv => ReportedStatusIsTrue
  BY DEF IInv, Strong
<1> QED BY <1>1, AlwaysIInv, PTL

\* Only the claimer of an EXECUTING plan closes it, and what is pushed to a closed plan
\* touches none of the items it closed.
THEOREM ClosedPlansAreFinal == Spec => ClosedIsFinal
<1> DEFINE Kept(p) ==
      status[p] \in {"COMPLETED", "PARTIAL", "FAILED", "CANCELLED"} =>
        /\ status'[p] = status[p]
        /\ \A c \in Cases : items[p][c] \notin {None, "PENDING"} => items'[p][c] = items[p][c]
<1>1. ASSUME IInv, NEW c \in Cases, Planning(c), NEW p \in Plans PROVE Kept(p)
  <2>1. CASE CreatePlan(c)
    BY <1>1, <2>1 DEF IInv, TypeOK, CreatePlan
  <2>2. CASE CommitItem(c)
    <3>1. found[c] \in Plans /\ items[found[c]][c] = None
      BY <1>1, <2>2 DEF IInv, TypeOK, Items, Strong, ItemsAreHome, CommitItem
    <3> QED BY <1>1, <2>2, <3>1 DEF IInv, TypeOK, Items, CommitItem
  <2>3. CASE UNCHANGED plan
    BY <2>3 DEF plan
  <2> QED BY <1>1, <2>1, <2>2, <2>3 DEF Planning, Prepare, FindOpenPlan, DuplicateKey, AdoptPlan
<1>2. ASSUME IInv, NEW k \in Confirms, CancelExpiredPlan(k) \/ FinishPlan(k), NEW p \in Plans
      PROVE  Kept(p)
  <2>1. confirm[k] \in {"claimed", "executing"}
    BY <1>2 DEF CancelExpiredPlan, FinishPlan
  <2>2. target[k] \in Plans /\ status[target[k]] = "EXECUTING"
    BY <1>2, <2>1 DEF IInv, TypeOK, Strong, ClaimsExclude
  <2>3. p # target[k] => status'[p] = status[p] /\ items'[p] = items[p]
    BY <1>2, <2>2 DEF IInv, TypeOK, CancelExpiredPlan, FinishPlan, SaveCopy
  <2> QED BY <2>2, <2>3
<1>3. ASSUME IInv, NEW k \in Confirms, NEW q \in Plans, ClaimPlan(k, q), NEW p \in Plans
      PROVE  Kept(p)
  BY <1>3 DEF IInv, TypeOK, ClaimPlan, Claimable
<1>4. ASSUME UNCHANGED <<status, items>>, NEW p \in Plans PROVE Kept(p)
  BY <1>4
<1> HIDE DEF Kept
<1>5. IInv /\ [Next]_vars => \A p \in Plans : Kept(p)
  <2> SUFFICES ASSUME IInv, [Next]_vars, NEW p \in Plans PROVE Kept(p)
    OBVIOUS
  <2>1. CASE \E c \in Cases : Planning(c)
    BY <1>1, <2>1
  <2>2. CASE \E k \in Confirms : CancelExpiredPlan(k) \/ FinishPlan(k)
    BY <1>2, <2>2
  <2>3. CASE \E k \in Confirms, q \in Plans : ClaimPlan(k, q)
    BY <1>3, <2>3
  <2>4. CASE UNCHANGED <<status, items>>
    BY <1>4, <2>4
  <2>5. ASSUME NEW k \in Confirms,
               \/ StartExecution(k) \/ Crash(k) \/ \E c \in Cases : ExecutePlanItem(k, c)
        PROVE  UNCHANGED <<status, items>>
    BY <2>5 DEF StartExecution, Crash, ExecutePlanItem, plan
  <2>6. (\E q \in Plans : Expire(q)) \/ UNCHANGED vars => UNCHANGED <<status, items>>
    BY DEF Expire, vars, plan
  <2> QED BY <2>1, <2>2, <2>3, <2>4, <2>5, <2>6 DEF Next, Confirming
<1>6. IInv /\ [Next]_vars =>
        [\A p \in Plans :
           status[p] \in {"COMPLETED", "PARTIAL", "FAILED", "CANCELLED"} =>
             /\ status'[p] = status[p]
             /\ \A c \in Cases :
                  items[p][c] \notin {None, "PENDING"} => items'[p][c] = items[p][c]]_vars
  BY <1>5 DEF Kept
<1> QED BY <1>6, AlwaysIInv, PTL DEF Spec, ClosedIsFinal
=============================================================================
