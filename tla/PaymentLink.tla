---------------------------- MODULE PaymentLink ----------------------------
(***************************************************************************)
(* The creation of a live payment link, await by await, for one case that  *)
(* is POLICY_APPROVED for CREATE_PAYMENT_LINK.  Every request runs the     *)
(* same function (createLivePaymentLink) and then saves the claimed        *)
(* document: a double click or a retry on POST /:id/payment-link, the plan *)
(* confirmation, a voice turn.  The claim is a timestamp on the case; its  *)
(* age and that of every pending call are counted in ticks and cut off     *)
(* once they are past the TTL, where nothing more can depend on them.      *)
(*                                                                         *)
(* The call to Razorpay has no timeout, so it may outlive the claim, which *)
(* then goes to another request; and a link may be issued to a request     *)
(* that never hears of it.  Two history variables count these mishaps, the *)
(* only ones that cost a second link.                                      *)
(***************************************************************************)
EXTENDS Naturals, FiniteSets

CONSTANTS
  Requests,        \* the requests that may be in flight together
  TTL,             \* PAYMENT_LINK_CLAIM_TTL_MS, in ticks
  MaxOvertaken,    \* bound on the claims that are lost to another request
  MaxLost,         \* bound on the links whose answer gets lost
  MaxCrashes       \* bound on the requests that die in flight

ASSUME PaymentLinkAssumption ==
  TTL \in Nat /\ MaxOvertaken \in Nat /\ MaxLost \in Nat /\ MaxCrashes \in Nat

VARIABLES
  status,     \* the stored case: status
  attempts,   \* the stored case: attempts
  linkId,     \* the stored case: razorpayPaymentLinkId, 0 for null
  claimed,    \* the stored case: razorpayLinkClaimedAt is not null
  claimAge,   \* and how old it is
  issued,     \* how many links Razorpay has issued for the case
  pc,         \* where each request is
  held,       \* how long ago it took the claim
  doc,        \* the attempts of the document the claim returned to it
  got,        \* the link Razorpay answered it with
  crashes,    \* how many requests have died
  overtaken,  \* history: claims that were taken from a request still past the claim
  wasted      \* history: links issued to a request that never saves them

stored == <<status, attempts, linkId, claimed, claimAge>>
request == <<pc, held, doc, got>>
mishaps == <<overtaken, wasted>>
vars == <<stored, issued, request, crashes, mishaps>>

TypeOK ==
  /\ status \in {"POLICY_APPROVED", "WAITING_OUTCOME"}
  /\ attempts \in Nat
  /\ linkId \in Nat
  /\ claimed \in BOOLEAN
  /\ claimAge \in 0 .. TTL + 1
  /\ issued \in Nat
  /\ pc \in [Requests -> {"idle", "loaded", "refused", "calling", "answered",
                          "failed", "done"}]
  /\ held \in [Requests -> 0 .. TTL + 1]
  /\ doc \in [Requests -> Nat]
  /\ got \in [Requests -> Nat]
  /\ crashes \in Nat
  /\ overtaken \in Nat /\ wasted \in Nat

Init ==
  /\ status = "POLICY_APPROVED"
  /\ attempts = 0
  /\ linkId = 0
  /\ claimed = FALSE
  /\ claimAge = 0
  /\ issued = 0
  /\ pc = [r \in Requests |-> "idle"]
  /\ held = [r \in Requests |-> 0]
  /\ doc = [r \in Requests |-> 0]
  /\ got = [r \in Requests |-> 0]
  /\ crashes = 0
  /\ overtaken = 0 /\ wasted = 0

Goto(r, place) == pc' = [pc EXCEPT ![r] = place]

\* Past the claim: from the claim to the save or the release.
Holds(r) == pc[r] \in {"calling", "answered", "failed"}

\* The caller loads the case and applies its own checks: a link that is there is
\* handed out, a case that is not approved is refused.
Load(r) ==
  /\ pc[r] = "idle"
  /\ Goto(r, IF linkId = 0 /\ status = "POLICY_APPROVED" THEN "loaded" ELSE "done")
  /\ UNCHANGED <<stored, issued, held, doc, got, crashes, mishaps>>

(***************************************************************************)
(* claimPaymentLinkCreation: one findOneAndUpdate.                         *)
(***************************************************************************)
StaleClaimEarly == claimAge >= TTL

StaleClaimNever == FALSE

StaleClaim == claimAge > TTL

ClaimableReadOnly == status = "POLICY_APPROVED" /\ linkId = 0

Claimable == status = "POLICY_APPROVED" /\ linkId = 0 /\ (~claimed \/ StaleClaim)

Overtakes == claimed /\ \E q \in Requests : Holds(q) /\ held[q] > TTL

Claim(r) ==
  /\ pc[r] = "loaded" /\ Claimable
  /\ claimed' = TRUE /\ claimAge' = 0
  /\ held' = [held EXCEPT ![r] = 0]
  /\ doc' = [doc EXCEPT ![r] = attempts]
  /\ Goto(r, "calling")
  /\ overtaken' = IF Overtakes THEN overtaken + 1 ELSE overtaken
  /\ UNCHANGED <<status, attempts, linkId, issued, got, crashes, wasted>>

ClaimRefused(r) ==
  /\ pc[r] = "loaded" /\ ~Claimable
  /\ Goto(r, "refused")
  /\ UNCHANGED <<stored, issued, held, doc, got, crashes, mishaps>>

\* The case is fetched again to tell a link that exists (reused) from a claim
\* somebody else holds (CLAIM_CONFLICT); either way nothing is written.
Refetch(r) ==
  /\ pc[r] = "refused"
  /\ Goto(r, "done")
  /\ UNCHANGED <<stored, issued, held, doc, got, crashes, mishaps>>

(***************************************************************************)
(* createRazorpayPaymentLink: Razorpay issues the link and answers, or the *)
(* call fails; if answers get lost, it can fail after the link was issued. *)
(***************************************************************************)
RazorpayAnswers(r) ==
  /\ pc[r] = "calling"
  /\ issued' = issued + 1
  /\ got' = [got EXCEPT ![r] = issued']
  /\ Goto(r, "answered")
  /\ UNCHANGED <<stored, held, doc, crashes, mishaps>>

RazorpayFails(r) ==
  /\ pc[r] = "calling"
  /\ Goto(r, "failed")
  /\ UNCHANGED <<stored, issued, held, doc, got, crashes, mishaps>>

AnswerIsLost(r) ==
  /\ pc[r] = "calling" /\ wasted < MaxLost
  /\ issued' = issued + 1 /\ wasted' = wasted + 1
  /\ Goto(r, "failed")
  /\ UNCHANGED <<stored, held, doc, got, crashes, overtaken>>

ReleaseCounted(r) ==
  /\ pc[r] = "failed"
  /\ claimed' = FALSE /\ claimAge' = 0
  /\ attempts' = attempts + 1
  /\ Goto(r, "done")
  /\ UNCHANGED <<status, linkId, issued, held, doc, got, crashes, mishaps>>

ReleaseFailsCase(r) ==
  /\ pc[r] = "failed"
  /\ claimed' = FALSE /\ claimAge' = 0
  /\ status' = "FAILED"
  /\ Goto(r, "done")
  /\ UNCHANGED <<attempts, linkId, issued, held, doc, got, crashes, mishaps>>

\* releasePaymentLinkClaim clears the claim, whoever took it last.
Release(r) ==
  /\ pc[r] = "failed"
  /\ claimed' = FALSE /\ claimAge' = 0
  /\ Goto(r, "done")
  /\ UNCHANGED <<status, attempts, linkId, issued, held, doc, got, crashes, mishaps>>

\* executeAction on the claimed document, and the caller's save() of the fields it
\* changed; the claim stays on the case.
Save(r) ==
  /\ pc[r] = "answered"
  /\ linkId' = got[r]
  /\ status' = "WAITING_OUTCOME"
  /\ attempts' = doc[r] + 1
  /\ Goto(r, "done")
  /\ UNCHANGED <<claimed, claimAge, issued, held, doc, got, crashes, mishaps>>

\* The request dies with its process or its connection.
Crash(r) ==
  /\ pc[r] \notin {"idle", "done"} /\ crashes < MaxCrashes
  /\ crashes' = crashes + 1
  /\ wasted' = IF pc[r] = "answered" THEN wasted + 1 ELSE wasted
  /\ Goto(r, "done")
  /\ UNCHANGED <<stored, issued, held, doc, got, overtaken>>

\* The merchant clicks again.
Retry(r) ==
  /\ pc[r] = "done"
  /\ Goto(r, "idle")
  /\ UNCHANGED <<stored, issued, held, doc, got, crashes, mishaps>>

Older(age) == IF age > TTL THEN age ELSE age + 1

\* A request may stay past the claim for any time; the bound lets it outlive the TTL
\* only while another claim may be lost.
Tick ==
  /\ overtaken < MaxOvertaken \/ \A r \in Requests : Holds(r) => held[r] < TTL
  /\ claimAge' = IF claimed THEN Older(claimAge) ELSE claimAge
  /\ held' = [r \in Requests |-> IF Holds(r) THEN Older(held[r]) ELSE held[r]]
  /\ UNCHANGED <<status, attempts, linkId, claimed, issued, pc, doc, got, crashes, mishaps>>

Step(r) ==
  \/ Load(r) \/ Claim(r) \/ ClaimRefused(r) \/ Refetch(r)
  \/ RazorpayAnswers(r) \/ RazorpayFails(r) \/ AnswerIsLost(r) \/ Release(r) \/ Save(r)

Next == Tick \/ \E r \in Requests : Step(r) \/ Crash(r) \/ Retry(r)

Spec == Init /\ [][Next]_vars

\* The server carries on with every request, the clock runs, the merchant keeps
\* trying, and Razorpay, asked again and again, does not fail for ever.
Fairness ==
  /\ WF_vars(Tick)
  /\ \A r \in Requests : WF_vars(Step(r)) /\ WF_vars(Retry(r)) /\ SF_vars(RazorpayAnswers(r))

FairSpec == Spec /\ Fairness
-----------------------------------------------------------------------------
\* Only a claim that outlived its TTL lets another request past it: however requests
\* collide, die, fail and drop each other's claims, one is past the claim at a time,
\* and one more for each claim that was overtaken.
OneHolder == Cardinality({r \in Requests : Holds(r)}) <= 1 + overtaken

\* The attempt count moves with the link: one for a case that has its link, none
\* before, whatever failed or died on the way.  Two requests that both save their link
\* count one attempt, for either read the count before the other saved.
AttemptPerLink == attempts = IF linkId = 0 THEN 0 ELSE 1

\* RECOVERY_POLICY.md: a request that dies mid-flight never locks the case out of
\* retrying.  However requests fail, die and collide, the case gets its link.
CaseGetsItsLink == <>(linkId # 0)

Once == INSTANCE LinkOnce
          WITH issued <- issued, named <- linkId, mishaps <- overtaken + wasted

\* The protocol implements LinkOnce: besides an overtaken claim and an answer nobody
\* kept, no retry, double click or race of any number of requests costs a link.
ImplementsLinkOnce == Once!Spec

\* ARCHITECTURE.md: a retry, a double click or a refresh can never create a second
\* link for the same case.  A call that outlives the TTL is enough to break it.
OneLink == issued <= 1
=============================================================================
