----------------------------- MODULE CaseSaves -----------------------------
(***************************************************************************)
(* Several handlers at work on one recovery case.  Each loads the document *)
(* once, decides on its own copy (module RecoveryPolicy), and saves what   *)
(* it has changed: Mongoose writes the modified fields over whatever is    *)
(* stored by then and compares no version.  Only the claim of the payment  *)
(* link looks at the stored document again.  A claim may outlive its TTL   *)
(* at any moment, with its handler still at work; how old it gets, and     *)
(* handlers that die holding it, are the subject of PaymentLink.           *)
(***************************************************************************)
EXTENDS RecoveryPolicy

CONSTANTS
  Handlers,   \* the requests, one handler each
  Jobs,       \* what they may be
  Intents,    \* what a voice turn may hear
  MerchantPolicy,
  Reason,     \* failure reason of the payment
  Draw,       \* the attempts whose simulated outcome is a success, as their seeds give it
  Begun       \* the cases they may find, as the last handler before them left it: no link yet

Kinds == {"evaluate", "simulate", "link", "session", "turn", "outcome"}

StoredFields ==
  {"status", "rootCause", "recoveryProbability", "selectedIntervention", "policyDecision",
   "attempts", "voiceAttempts", "amount", "recoveryWindowExpiresAt", "recoveredAmount",
   "razorpayPaymentLinkId", "razorpayLinkClaimed"}

ASSUME SavesAssumption ==
  /\ Jobs \subseteq Kinds /\ Intents \subseteq VoiceIntents \ {"UNCLEAR"}
  /\ MerchantPolicy.maxRecoveryAttempts \in Nat /\ MerchantPolicy.maxVoiceAttempts \in Nat
  /\ \A rc \in Begun :
       /\ StoredFields \subseteq DOMAIN rc
       /\ rc.razorpayPaymentLinkId = None /\ rc.razorpayLinkClaimed = FALSE
       /\ rc.status # "RECOVERED"

VARIABLES
  stored,    \* the document in recovery_cases
  pc,        \* where each handler is
  job,       \* which route it serves
  read,      \* the document it loaded (or the claim returned)
  stale,     \* the claim on the case is older than its TTL
  overtaken, \* (history) claims that were taken over when they were stale
  links,     \* links Razorpay has issued
  closed,    \* Razorpay: how the link on the case ended, None while it is open
  sessions   \* voice sessions that were answered with a session id

\* The claim and what it is there for.
claims == <<stale, overtaken, links>>

vars == <<stored, pc, job, read, claims, closed, sessions>>

LinkId == "plink"

Env == [policy |-> MerchantPolicy, optedOut |-> FALSE, now |-> 0]

Init ==
  /\ stored \in Begun
  /\ pc = [h \in Handlers |-> "idle"]
  /\ job = [h \in Handlers |-> None]
  /\ read = [h \in Handlers |-> stored]
  /\ stale = FALSE
  /\ overtaken = 0
  /\ links = 0
  /\ closed = None
  /\ sessions = 0

\* save(): $set of the paths that differ from the document as it was loaded.
ModifiedPathsAll(loaded, after) == DOMAIN after

ModifiedPaths(loaded, after) == {f \in DOMAIN after : after[f] # loaded[f]}

Save(h, after) ==
  stored' = [f \in DOMAIN stored |->
               IF f \in ModifiedPaths(read[h], after) THEN after[f] ELSE stored[f]]

\* A handler that threw answers 500 and saves nothing.
SaveUnlessThrown(h, after) ==
  IF after.status = Thrown THEN UNCHANGED stored ELSE Save(h, after)

Goto(h, place) == pc' = [pc EXCEPT ![h] = place]

VoiceEligibleStatuses == {"RISK_DETECTED", "ANALYZING", "FAILED", "ELIGIBLE"}

\* What each route asks of the document it has just loaded.
Accepts(kind) ==
  CASE kind = "evaluate" -> TRUE
    [] kind = "simulate" -> stored.status = "POLICY_APPROVED"
    [] kind = "link"     -> /\ stored.status = "POLICY_APPROVED"
                            /\ stored.selectedIntervention = "CREATE_PAYMENT_LINK"
                            /\ stored.razorpayPaymentLinkId = None
                            /\ stored.attempts < MerchantPolicy.maxRecoveryAttempts
    [] kind = "session"  -> /\ MerchantPolicy.voiceEnabled
                            /\ stored.status \in VoiceEligibleStatuses
                            /\ stored.voiceAttempts < MerchantPolicy.maxVoiceAttempts
    [] kind = "turn"     -> stored.status \notin Terminal
    [] kind = "outcome"  -> stored.razorpayPaymentLinkId # None /\ closed # None

\* A webhook carries how the link ended.
Load(h, kind) ==
  /\ pc[h] = "idle" /\ Accepts(kind)
  /\ job' = [job EXCEPT ![h] = IF kind = "outcome" THEN closed ELSE kind]
  /\ read' = [read EXCEPT ![h] = stored]
  /\ Goto(h, IF kind = "link" THEN "claiming" ELSE "loaded")
  /\ UNCHANGED <<stored, claims, closed, sessions>>

Evaluate(h) ==
  /\ pc[h] = "loaded" /\ job[h] = "evaluate"
  /\ \E band \in {"HIGH", "MID"} :
       SaveUnlessThrown(h, RunEvaluationPipeline(read[h], Env, Reason, band, FALSE))
  /\ Goto(h, "done")
  /\ UNCHANGED <<job, read, claims, closed, sessions>>

\* The draw is seeded with the case and its attempt count: a double click repeats it.
SimulateAction(h) ==
  /\ pc[h] = "loaded" /\ job[h] = "simulate"
  /\ SaveUnlessThrown(h, ExecuteAction(read[h], read[h].selectedIntervention,
                                    FALSE, read[h].attempts \in Draw))
  /\ Goto(h, "done")
  /\ UNCHANGED <<job, read, claims, closed, sessions>>

VoiceSession(h) ==
  /\ pc[h] = "loaded" /\ job[h] = "session"
  /\ Save(h, [read[h] EXCEPT !.voiceAttempts = @ + 1])
  /\ sessions' = sessions + 1
  /\ Goto(h, "done")
  /\ UNCHANGED <<job, read, claims, closed>>

\* A turn waits for the classifier, then decides; an approved link is saved as
\* approved before it is claimed, everything else is saved once at the end.
VoiceTurn(h, intent) ==
  LET decided == RunVoiceDecisionPipeline(read[h], Env, Reason, MapVoiceIntent(intent))
      live    == /\ decided.status = "POLICY_APPROVED"
                 /\ decided.selectedIntervention = "CREATE_PAYMENT_LINK"
  IN  /\ pc[h] = "loaded" /\ job[h] = "turn"
      /\ \/ live /\ Save(h, decided) /\ Goto(h, "claiming")
         \/ /\ ~live /\ decided.status = "POLICY_APPROVED"
            /\ SaveUnlessThrown(h, ExecuteAction(decided, decided.selectedIntervention,
                                                 FALSE, TRUE))
            /\ Goto(h, "done")
         \/ /\ ~live /\ decided.status # "POLICY_APPROVED"
            /\ SaveUnlessThrown(h, decided)
            /\ Goto(h, "done")
      /\ UNCHANGED <<job, read, claims, closed, sessions>>
-----------------------------------------------------------------------------
Claimable ==
  /\ stored.status = "POLICY_APPROVED"
  /\ stored.selectedIntervention = "CREATE_PAYMENT_LINK"
  /\ stored.razorpayPaymentLinkId = None
  /\ ~stored.razorpayLinkClaimed \/ stale

\* One findOneAndUpdate, which returns the document the rest works on.
Claim(h) ==
  /\ pc[h] = "claiming" /\ Claimable
  /\ stored' = [stored EXCEPT !.razorpayLinkClaimed = TRUE]
  /\ stale' = FALSE
  /\ overtaken' = IF stored.razorpayLinkClaimed THEN overtaken + 1 ELSE overtaken
  /\ read' = [read EXCEPT ![h] = stored']
  /\ Goto(h, "claimed")
  /\ UNCHANGED <<job, links, closed, sessions>>

\* PAYMENT_LINK_CLAIM_TTL_MS pass; the call to Razorpay has no time limit of its own.
ClaimExpires ==
  /\ stored.razorpayLinkClaimed /\ ~stale
  /\ stale' = TRUE
  /\ UNCHANGED <<stored, pc, job, read, overtaken, links, closed, sessions>>

\* The link is there and is handed out again, or somebody else is creating it:
\* nothing is saved either way.
ClaimRefused(h) ==
  /\ pc[h] = "claiming" /\ ~Claimable
  /\ Goto(h, "done")
  /\ UNCHANGED <<stored, job, read, claims, closed, sessions>>

\* The claim is released, whoever holds it by now.
RazorpayFails(h) ==
  /\ pc[h] = "claimed"
  /\ stored' = [stored EXCEPT !.razorpayLinkClaimed = FALSE]
  /\ stale' = FALSE
  /\ Goto(h, "done")
  /\ UNCHANGED <<job, read, overtaken, links, closed, sessions>>

RazorpayAnswers(h) ==
  /\ pc[h] = "claimed"
  /\ links' = links + 1
  /\ Goto(h, "answered")
  /\ UNCHANGED <<stored, job, read, stale, overtaken, closed, sessions>>

\* The link the case names from now on is open.
SaveLink(h) ==
  /\ pc[h] = "answered"
  /\ Save(h, ExecuteAction([read[h] EXCEPT !.razorpayPaymentLinkId = LinkId],
                           "CREATE_PAYMENT_LINK", TRUE, FALSE))
  /\ closed' = None
  /\ Goto(h, "done")
  /\ UNCHANGED <<job, read, claims, sessions>>

\* The customer pays the link, or it ends; the webhook's handler looks at the case.
LinkCloses(how) ==
  /\ stored.razorpayPaymentLinkId # None /\ closed = None
  /\ closed' = how
  /\ UNCHANGED <<stored, pc, job, read, claims, sessions>>

Outcome(h) ==
  /\ pc[h] = "loaded" /\ job[h] \in {"RECOVERED", "FAILED"}
  /\ Save(h, ResolveRecoveryOutcome(read[h], job[h]))
  /\ Goto(h, "done")
  /\ UNCHANGED <<job, read, claims, closed, sessions>>

Next ==
  \/ \E h \in Handlers :
       \/ \E kind \in Jobs : Load(h, kind)
       \/ Evaluate(h)
       \/ SimulateAction(h)
       \/ VoiceSession(h)
       \/ \E intent \in Intents : VoiceTurn(h, intent)
       \/ Claim(h) \/ ClaimRefused(h) \/ RazorpayFails(h) \/ RazorpayAnswers(h)
       \/ SaveLink(h)
       \/ Outcome(h)
  \/ ClaimExpires
  \/ \E how \in {"RECOVERED", "FAILED"} : LinkCloses(how)

Spec == Init /\ [][Next]_vars
-----------------------------------------------------------------------------
RestStatuses == {"RISK_DETECTED", "POLICY_APPROVED", "WAITING_OUTCOME", "FAILED"} \cup Terminal

\* The saves of any number of handlers leave a document of the schema, in a status
\* at which some handler picks it up again.
TypeOK ==
  /\ stored.status \in RestStatuses
  /\ stored.selectedIntervention \in ActionAllowlist \cup {None}
  /\ stored.razorpayPaymentLinkId \in {None, LinkId}
  /\ stored.attempts \in Nat /\ stored.voiceAttempts \in Nat
  /\ stored.recoveredAmount \in {0, stored.amount}
  /\ \A h \in Handlers : DOMAIN read[h] = DOMAIN stored

\* A handler with an old copy of the case never gives the claim free, and so the case
\* gets one link, and one more for each claim that was taken over after its TTL: with
\* evaluations, voice turns and webhooks saving in between, as without them.
LinksAreCounted == links <= 1 + overtaken

\* Nor does it take away the link another one has saved in the meantime.
SavedLinkStays ==
  [][stored.razorpayPaymentLinkId # None => stored'.razorpayPaymentLinkId # None]_vars

\* Both, and that the link the case names had been issued, are what LinkOnce promises,
\* the overtaken claims being its mishaps: every other handler's load, decision and
\* stale save is a step that it does not see.
Once == INSTANCE LinkOnce
          WITH issued <- links,
               named <- IF stored.razorpayPaymentLinkId = None THEN 0 ELSE 1,
               mishaps <- overtaken

ImplementsLinkOnce == Once!Spec

\* Fields of two handlers mix in the document, but never into a recovered case
\* without its amount.
RecoveredIsCredited == stored.status = "RECOVERED" => stored.recoveredAmount = stored.amount
-----------------------------------------------------------------------------
(***************************************************************************)
(* What the documents promise and interleaved saves break.                 *)
(***************************************************************************)
\* ARCHITECTURE.md: RECOVERED, STOPPED, ESCALATED and EXPIRED are terminal, and an
\* invalid state change can never silently occur.
TerminalIsFinal == [][stored.status \in Terminal => stored'.status = stored.status]_vars

\* RECOVERY_POLICY.md: MAX_VOICE_ATTEMPTS bounds the sessions of a case.
VoiceLimit == sessions <= MerchantPolicy.maxVoiceAttempts

\* ARCHITECTURE.md: payment_link.paid resolves the case to RECOVERED.  It does so
\* only for a case that waits, so while the link can be paid its case has to wait.
OpenLinkIsAwaited ==
  stored.razorpayPaymentLinkId # None /\ closed = None => stored.status = "WAITING_OUTCOME"
=============================================================================
