# PayRevive in TLA+

PayRevive turns a failed payment into a *recovery case*, decides with fixed
rules what to do about it (a payment link, a voice call, a hand-over to the
merchant, nothing), lets the merchant confirm the decisions as a *recovery
plan*, carries them out through Razorpay or a voice conversation, and learns the
outcome from Razorpay's webhooks.  This directory holds a TLA+ model of the
server that does it (`src/server/src`), of the client's pages that keep state of
their own (`src/client/src`) and of the batch evaluation (`src/evaluation`), the
TLC runs that check it and the TLAPS proofs about it.

    tlc -config CaseLifecycle.cfg MCCaseLifecycle     # any run of PROJECT.json
    tlapm CaseLifecycleProofs.tla                     # any module ...Proofs

## Inventory

Everything the server remembers is in MongoDB, one document per write; there are
no transactions.  Handlers are Express functions that load documents, decide in
memory and save, with an `await` at every database or network call, so two
handlers interleave at every await and a process can die at each.  A page of the
client keeps React state, and writes it from callbacks and from the answers to
its requests, in whatever order they come.

| Component | State | Operations | Must hold |
|---|---|---|---|
| Recovery case (`models/RecoveryCase.js`, `pipeline/transition.js`) | status, root cause, score, selected intervention, attempts, voice attempts, link id and claim, recovered amount | only through the handlers below | terminal is final; revenue agrees with status |
| Decision pipeline (`pipeline/orchestrator.js`, `eligibilityEngine`, `scoringEngine`, `interventionSelector`, `policy/*`) | none (works on the loaded case) | evaluate a case, decide a voice turn, apply the policy | precedence; retry limit; a failed case passes all of it again |
| Case routes (`routes/recoveryCases.js`) | none | evaluate, simulate-action, payment-link | a stale save destroys no link and no revenue |
| Payment link creation (`pipeline/tools.js`, `integrations/razorpay/*`) | the claim `razorpayLinkClaimedAt` | claim, call, save, release | one link per case, but for an overtaken claim or a lost answer; a dead request does not lock the case |
| Recovery plan (`pipeline/recoveryPlan.js`, `models/RecoveryPlan.js`) | plan status, items, document version | append an item, confirm, execute, expire | one open plan; nothing twice; the report is true |
| Razorpay webhook (`routes/webhooks.js`, `models/WebhookEvent.js`) | `webhook_events` | receive, deduplicate, cross-check, resolve | credited at most once, only for a payment; a payment is credited or on record |
| Voice (`routes/voice.js`, `voiceIntentMapper`) | voice attempts | start a session, take a turn | a refusal is a refusal; a reply is true |
| AI provider (`ai/*`, `deterministicVoiceIntent.js`) | none | classify, word a reply | always one of the schema's intents; declining words win |
| Ingestion (`services/paymentFailureIngest.js`, inbound webhook, demo failure) | customer, payment, case, event | ingest a failure, update the opt-out | one case per report; consent kept; PROCESSED means planned, unless the case was deleted |
| Integration (`routes/integration.js`, `Integration.jsx`) | webhook id and secret; the page's fields | issue, rotate, reveal, show, copy | the pair pasted verifies; a rotated one is dead |
| Demo data (`services/demoSeed.js`) | the merchant's collections | reset | a reset that met nobody leaves exactly the data set |
| Merchant policy (`routes/policy.js`) | `merchant.policy` | replace | read fresh where it matters |
| Payments page (`Payments.jsx`) | the plan panel; call queue and link batch | review, confirm; select, send, poll | no answered plan is offered; what is reported is true |
| Voice recovery page (`VoiceRecovery.jsx`, `lib/voiceRecoveryView.js`) | the case as loaded, uiState | session, turns, microphone, speech | never waits for nothing; offers what the server grants |
| Batch evaluation (`src/evaluation`, `Evaluation.jsx`) | stored runs | generate, run, count | the numbers add up |
| Dashboard and audit log, authentication, configuration, scripts | own documents or none | see `PROJECT.json` | read-only, or plumbing |

How they interact: ingestion creates the case and has the plan module decide it
at once (`preparePlanItem`, then `commitPlanItems`).  The merchant confirms the
plan, and `executePlanItem` looks at every case again and creates the link or
places the call.  The same link can be asked for through
`POST /:id/payment-link` and through a voice turn; all three share the claim on
the case.  The webhook finds the case by reference id and compares the link id
with the one that was saved.  A demo reset deletes and creates the documents all
the others work on.  The pages read copies of all of it, and act on them.

What is hard: the append to a plan against its confirmation; three ways to the
same link against a claim that expires; the link's payment against the save of
its id; a record that an event was seen against the processing of the event;
approvals that outlive the policy they were given under; saves that write the
fields of an old copy; answers and callbacks that reach a page after it has moved
on; and the version check of Mongoose, which fires in some saves and not in
others.  The full list, line by line, is in `PROJECT.json` under `hazards`.

## Modules

| Module | Models |
|---|---|
| `RecoveryPolicy` | the decision modules as operators on a case record: status table, root cause, precedence, eligibility, policy, selector, both pipelines, executor, outcome evaluator |
| `RecoveryScore` | the weighted score of a case, exact, while the case, its customer and the policy change |
| `VoiceAgent` | what the customer's words become: Gemini's answer or the keyword rules, and which status the reply speaks of |
| `CaseLifecycle` | one case with every handler that reads or writes it, a handler per step |
| `CaseSaves` | the same handlers split at their load and their save: three on one case, each saving the fields it changed |
| `PaymentLink` | the creation of a link, an await per step, for any number of requests on one case |
| `LinkOnce` | what link creation promises: one link, and one more for each mishap that hides a link from the server; the case names only issued ones |
| `RecoveryPlan` | the plans of one merchant, a write per step: ingestions that append against confirmations that claim, execute and save |
| `WebhookDelivery` | the events of a case's links on their way in, an await per step |
| `RevenueLedger` | what the webhook promises: at most one credit, after a payment |
| `Ingestion` | a failed payment on its way to customer, payment, case, plan and event, an await per step, with faults and restarts |
| `DemoReset` | the reset of the demo data, and `Ingestion` on the same collections |
| `Integration` | the webhook credential: the server, the page in any number of tabs, Razorpay's dashboard and the deliveries |
| `PlanPanel`, `ManualFlow` | the payments page: the plan panel, and the call queue and link batch.  They share one overview, which a batch asks for again when it ends: to the panel that is a `Reload`, which may come at any time |
| `VoicePage` | the voice recovery page |
| `BatchEvaluation` | the archetypes, the evaluation of a batch, its counts and its page |
| `Client` | the five pages with state of their own, one client: payments (two panels), voice recovery, evaluation, integration |
| `MC...` | the instances TLC checks |
| `...Proofs` | the theorems about `RecoveryScore`, `CaseLifecycle`, `CaseSaves`, `PaymentLink`, `RecoveryPlan`, `WebhookDelivery`, `Ingestion` (with `DemoReset`) and `Client` (with its pages) |

`RecoveryScore`, `VoiceAgent`, `CaseSaves` and `BatchEvaluation` extend
`RecoveryPolicy`, and `CaseLifecycle` extends `VoiceAgent`, so that all five decide
with the same operators.  `Client` extends its pages and has one of them open.  `DemoReset` extends `Ingestion`, whose actions it interleaves with
its own.  `PaymentLink` and `CaseSaves` instantiate `LinkOnce` and `WebhookDelivery`
instantiates `RevenueLedger` under a refinement mapping.  The same handlers appear in
`CaseLifecycle` as one step, in `CaseSaves` as two, and in `PaymentLink`,
`RecoveryPlan` and `WebhookDelivery` cut at every await: the first has all the
decisions and one handler at a time, the others have the interleavings and only
the decisions they turn on.

Correspondence.  A variable is a stored field or a React state, named as in the
source; `pc`, `planner`, `confirm`, `handler` and `reset` say where a handler is;
`doc`, `copy`, `read` and `base` are the documents it has in hand.  An action is a
handler (`CaseLifecycle`), the code between two awaits, or one callback of a page.
`PROJECT.json` maps each definition to its lines.  Data is kept as coarse as the
properties allow: an amount, an instant and a count are small numbers, a payment's
reason is one of a few strings, a customer's words are the keyword rules they
match, and a score is the band the selector reads of it (`ScoreBands` says which
bands a cause and an activity leave possible, and `RecoveryScore` shows it).  A handler that throws before it
saves leaves the stored case as it was (`Thrown`, `Save`).

Facts about the code that the models rest on:

* `save()` of a Mongoose document writes the fields the handler changed
  (`CaseSaves!Save`).  A status set on an existing array element makes the save
  conditional on the version that was read; a pushed element does not, but bumps
  the version (`RecoveryPlan!CommitItem`, `SaveCopy`).
* The same holds of a case that is gone: the save of one that was scored, which sets
  an array, fails on its version and is caught (`CASE_GONE`, the ingestion returns and
  its event says PROCESSED); any other save of it throws (`Ingestion!PreparePlanItem`,
  `DemoReset!PrepareTask`).
* The call to Razorpay has no timeout, and a claim is stale after thirty seconds
  whether its holder has died or is still waiting (`PaymentLink!Overtakes`,
  `CaseSaves!ClaimExpires`).
* The cross-check rounds the amount of the event to whole rupees and compares it with
  the case's, whose amount may have paise (`WebhookDelivery!AmountMatches`).
* The failed payment itself keeps a customer "active" for thirty days, and a plan
  lives for a day, so a case on an open plan cannot fall into the lowest band
  (`CustomerActivity`; the instances keep `PlanTTL < ActivityTTL`).
* Razorpay closes a link in one way only, but may report it under two event ids:
  `webhook_events` deduplicates by id, so the second one gets as far as the case
  and `resolveRecoveryOutcome` has to turn it away (`AlreadyResolved`), or sets the
  same amount once more if both had read the case before (`Resolve`).
* The simulated draw is seeded by the case and its attempt count; which way it
  falls is not modelled, both ways are, except in `CaseSaves`, where the same
  attempt of two handlers must fall the same way (`Draw`).
* A customer's email has no unique index, an event id has one: two upserts may
  both insert a customer, two deliveries cannot both record an event
  (`Ingestion!FindCustomer`, `RecordEvent`).
* A field of the integration page keeps the value it was mounted with; only the
  secret's field is keyed by the webhook id (`MountUrlField`, `MountSecretField`).

## Runs

Each run asks one question; states are distinct states.

| Run | What it shows | States |
|---|---|---|
| `CaseLifecycle` | all handlers on one case, with Razorpay and without: types and rest statuses, revenue against status, link against case, retry limit, terminal statuses, revalidation at confirmation, re-entry after a failure, escalation of high values, true replies, declining words | 409 thousand |
| `SavesInterleaved` | three handlers of any kind on one case, with claims that expire at any moment: link and claim survive every stale save, so that together the handlers implement `LinkOnce`, and no recovered case is without its amount | 187 thousand |
| `LinkSelfHealing` | three requests that race, retry, fail, die and outlive the TTL of their claim, with an answer that gets lost: the protocol implements `LinkOnce`, a request past the claim for each claim that was overtaken and one, the attempt count stays with the link, and the case gets its link | 532 thousand |
| `PlanSafety` | three ingestions and two confirmations, one of which may die, with expiry at any time: one open plan, nothing executed twice, a true report, closed plans final | 165 thousand |
| `Webhook` | three overlapping deliveries of the events of two links, one reported twice, two crashes, failing saves: revenue only for the paid link the case names, once, for good, and a payment that is not applied is on record; the amount of the case is whole rupees or has paise | 221 thousand |
| `Ingestion` | a report delivered again and simulated failures of the same customer, two at a time, with a fault or a deletion of the cases under them: one case per report, consent kept, PROCESSED means planned unless the case was deleted, and without a fault the report is planned | 1.0 million |
| `Demo` | resets and ingestions overlap and fail half way: a reset that met nobody leaves exactly the data set | 1.3 million |
| `Client` | the five pages, each against the server it talks to: what is offered, reported, waited for and counted is so, overviews that overtake a confirmation included; of the two tabs that open, rotate, reveal and paste, with answers lost, a delivery that finds the merchant verifies and a rotated pair stays dead | 2.1 million |
| `Score` | a case of each cause grows old and is attempted while its customer fails to pay, other cases end and the window changes: the sum is in a band that `ScoreBands` allows, and only falls with time | 34 thousand |

Three runs each end in a counterexample to a sentence of the repository's own
documents:

| Run | The sentence | What happens |
|---|---|---|
| `CaseRefusalWins` | RECOVERY_POLICY.md:192, an explicit refusal always wins | a turn on an approved case executes the approval, refusal or not |
| `LinkTwice` | ARCHITECTURE.md:350, a retry, a double click or a refresh can never create a second link | a call that takes longer than the thirty seconds of its claim and one retry create two |
| `PlanTerminates` | models/RecoveryPlan.js:9, a confirmed plan runs to a terminal state | an item appended during the execution makes the final save throw; the plan stays EXECUTING |

### Bounds

* `CaseLifecycle`: one case, since no handler but the confirmation touches two and
  that one takes them one after another.  Three reasons, one for each thing the
  selector does with a cause.  One amount, two units: above the ceiling of one
  policy and at the ceiling of the others.  Windows that close before and after
  the other deadlines.  Three policies: a loose one with two attempts, one that is
  below everything the case already has, and one without calls.  The clock stops at
  3, past every deadline.  A plan expires with the first tick, so that no open item
  outlives a window: that the confirmation sees a closed window is covered by the
  theorem `ConfirmationsRevalidate`, for any `PlanTTL`.  Attempts and voice attempts
  are bounded by the policies themselves.
* `CaseSaves`: three handlers, which is a writer, one with an older copy and one in
  between; they find a case just detected, or one with a failed attempt.  One
  policy, because the question is whose write survives and not what is decided.
  Whether a claim is stale is a choice of the moment, without a clock.
* `PaymentLink`: three requests; one claim overtaken, one answer lost, one death,
  each of which may cost a link, so that up to four can be issued.  TTL 1 tells a
  fresh claim, one at the boundary and a stale one apart (2 in `LinkTwice`); ages are
  cut off past the TTL, where no guard can tell them apart.  `MaxOvertaken` stops the
  clock for a request that would outlive its claim once more.
* `RecoveryPlan`: two cases the customer hears of and one that is only closed,
  as many plans as cases, two confirmations.  Symmetry only in the safety run.
* `WebhookDelivery`: the named link, reported by two events, and an orphan with one
  event; three deliveries, two crashes; 1499 rupees or 1499.50.
* `Ingestion`: one report and one simulated failure of the same customer, one
  simulated failure without an email; three requests, two in flight, one fault, which
  may be an error, a death or the deletion of the cases by a reset.
* `DemoReset`: two failed payments in the data set, one of them planned, since the
  seven of the code differ in nothing else; three requests, so that a reset can
  follow two that overlapped or failed; one fault.
* `RecoveryScore`: the clock counts hours and moves in steps past the six hours of
  full recency and twice past the thirty days of activity; the shortest and the
  longest window and the default one; a customer with no payment and one whose
  ratio is nearly one; attempts past where their penalty ends.
* `Integration`, as a page of `Client`: two tabs, two issues: a first visit and a
  rotation, which is all it takes for a tab to hold the pair before the last.
* `Client`: two failures; two overview requests in flight (`MaxReads`), so that one
  read before a confirmation can arrive after its answer or after a newer one; two
  confirmations (`MaxCalls`); executions end COMPLETED, since the panel treats the
  other ends alike (`Outcomes`); two rows with one batch at a time, which is what the
  time allows: overlapping batches are in the theorem alone; two turns, recognizers
  and utterances in flight; policies on both sides of each limit; two evaluation runs.

`CHECK_DEADLOCK FALSE` is set where the system may really stop: all cases planned
and all plans confirmed, all events acknowledged, all requests answered, a
merchant who does nothing more.

### Fairness

* `PaymentLink!FairSpec`: the server carries on with every request it has begun
  (weak), the clock runs (weak), the merchant asks again (weak), and Razorpay,
  asked again and again, answers at last (strong: a call may fail any number of
  times in between).  Deaths, lost answers and overtaken claims are bounded and not
  fair.
* `RecoveryPlan!FairSpec`: an ingestion or a confirmation that has begun goes on
  unless it dies.  Nobody has to confirm, and no plan has to expire.
* `WebhookDelivery!FairSpec`: the creating request saves its link, a delivery that
  has begun goes on, and Razorpay repeats an event until it gets a 200, which is
  its documented contract.
* `IngestSpec`: a request that has begun goes on (weak).  Faults are bounded, not
  fair, and nobody has to report anything.

The pages are checked for safety only: a merchant may stop at any point.  That a
page does not wait in vain is the invariant `NeverStuck`.

## Theorems

The theorems hold for every value of the constants that satisfies the `ASSUME` of
the module: any set of requests, handlers, cases, links and tabs, any TTL, any set
of policies, amounts and windows.  Each proof module states an inductive
invariant, has one lemma per action that preserves it, and reads the properties off.

`PaymentLinkProofs`:

* `TypeCorrect`: the type invariant.
* `AccountsHold`: the inductive invariant.  Nothing bounds how long a request stays
  past the claim, so what holds is a count: at most one request past the claim, and
  one more for each claim that was overtaken (`Exclusion`); at most one link issued or
  about to be, and one more for each mishap (`Billing`).  Neither is inductive, because
  the guard of `Claim` speaks of the age of the claim on the case and not of who
  holds it: `ClaimIsYoungest` ties the two, so that a request which takes over a stale
  claim either overtakes somebody, which is counted, or finds nobody past the claim.
  The requests past the claim are a finite set although `Requests` need not be.
* `ClaimExcludes`, `LinksAreAccountedFor` and the refinement `ClaimImplementsLinkOnce`
  are read off it.  The documented `OneLink` follows for behaviours without an
  overtaken claim, a lost answer and a death that takes an answer with it, and only
  for those.
* `AttemptsCountLinks`: the attempt count moves with the link, because every request
  past the claim has read the count of a case without one (`Counted`).  That is also
  how an attempt is lost when two of them save.

`CaseLifecycleProofs` first says, operator by operator, what the decision modules
do to a case (`TransitionFields`, `PrecedenceVerdict`, `ResolveFields`,
`EvaluationDecides`, `VoiceTurnDecides`, `ExecutionFields`, `OutcomeFields`), then
proves the inductive invariant `IInv` handler by handler:

* a case is `Sound`: of its type, credited exactly when RECOVERED, within some
  policy's limit, and, while POLICY_APPROVED, one attempt below it.  The last part
  is the strengthening: an attempt is counted long after the approval that allowed
  it, under a policy that may have been replaced.
* `LinkTracked`: the case has a link id exactly when Razorpay has a link for it, at
  most the event of its present state has been seen, and an event that has not been
  seen finds a case that waits for it.

From it follow `TypeCorrect`, `CreditIsSound`, `RetriesAreBounded`,
`LinkAgreesWithCase` and the action properties `TerminalCasesAreFinal`,
`FailedCasesReenter`, `HighValueIsEscalated` and `DecliningCustomersAreHeard`.

`RepliesAreTrue` and `ConfirmationsRevalidate` turn on fields that one step writes
and another reads, and need a second invariant on top of `IInv`, `Account`: the
reason on a case is one its status can have (`Explained`); a case is approved to be
closed for a lasting cause, or when its customer has been away for longer than
`ActivityTTL` (`ClosingIsExplained`); and an item that waits to contact the customer
is about a case with another cause and expires at `PlanTTL` (`ItemIsServiceable`).
The last two meet in the confirmation: its re-check approves a case that is selected
to be closed without looking at consent, window or ceiling, and no such case waits
on a plan that has not expired, because a plan lives for a day
(`recoveryPlan.js:32`) and a failed payment counts as activity for thirty
(`scoringEngine.js:17`).  `PlanLifetime` is that assumption.

`CaseSavesProofs`: `SavesImplementLinkOnce`, with `LinksCountedWhateverInterleaves` and
`LinksStaySaved` as what follows from it, and `RecoveredCasesAreCredited`, for any
number of handlers.  A save writes only what its handler changed, so the link's two
fields are touched by nobody but those past the claim.  The copies in hand are of
this case, and what one of them knows to be credited is credited
(`CopiesAreOfTheCase`); a handler past the claim works on a copy without a link
(`HoldersSawNoLink`), so that its save does write the link; and the links issued, with
the calls under way, are one and one more for each overtaken claim, one less while the
claim is free and the case has no link (`LinksAreBilled`), although a failed call frees
the claim of whoever holds it by then.

`RecoveryPlanProofs`: `TypeCorrect`, `OnePlanIsOpen`, `ConfirmationExecutesOnce`,
`ReportIsTrue`, `ClosedPlansAreFinal`, for any number of cases, plans and
confirmations.  An item is on the one plan its planner found (`ItemsAreHome`), and
so is the copy a confirmation works on (`CopiesAreHome`); a claim takes a plan for
good, so a plan has one claimer (`ClaimsExclude`); before the one save at the end
all items are PENDING (`ClosedAtOnce`); and what was executed is noted in some
confirmation's copy (`ExecutionsAreNoted`), which is what makes a repeated execution
impossible although the statuses are saved only at the end.

`WebhookDeliveryProofs`: `TypeCorrect`, `OutcomesAreTrue`, `OutcomesAreFinal` and
the refinement `WebhookImplementsLedger`, for any number of links, events and
deliveries, crashes and failing saves.  A delivery is of an event of a closed link,
and past the cross-check that link is the one the case names
(`DeliveriesAreGenuine`), so two that resolve the case from old copies write the
same outcome; status, amount and link agree (`OutcomeAgrees`), and the case names
no link exactly as long as it has not been waiting for one (`LinkIsAwaited`).

`IngestionProofs`: `TypeCorrect`, `RedeliveryMakesOneCase`,
`ProcessedEventsArePlanned` and `ReportsKeepConsent`, for any number of handlers,
failures, faults and deletions.  Requests are numbered apart (`NumbersAreInOrder`), the
documents a request creates carry its number (`CustomersAreOwned`,
`CasesAreOwned`), and a report is served by one request, which made the only case
of it (`ReportsAreServedOnce`).  A deletion may take that case from under the request:
that an event which is PROCESSED without a case met a deletion is the count of the faults.

The same module proves `LoneResetsArePristine` of `DemoReset`.  That a reset ends
pristine says nothing of the way there, so `ResetInv` says for every stage what a
reset that met nobody owns (`Owns`): a collection it has deleted holds only its own
documents, the cases are those its tasks have made, and the plan is empty until the
commit and complete after it; and while it is alone everyone else rests (`Quiet`),
so nobody else's step can disturb it.

`ClientProofs`: `AnsweredPlansAreNotOffered` and `FinalReportsAreTrue` for any
number of failures, overviews and confirmations, which the page may ask for at any
time, `ReportedOutcomesAreTrue` for any
number of rows and batches.  `PanelInv` says what a copy of a plan says that stays
true (`SnapshotsLast`: it is not open any more, it was finished in this way, these
items are on it), that one call at most executes a plan (`ExecutionIsExclusive`),
and that until the panel has an answer of its own no overview on its way or on the
page is older than an answer (`AnswersPrecede`); once it has one, older overviews do
arrive and are not shown.  `FlowInv` keeps the
copies and the reports of a batch true of the book, because a link is never taken
away and a recovered case stays recovered.

`PageIsNeverStuck` and `OfferedSessionsAreAccepted`, for any number of turns,
recognizers and utterances and any policies: `NeverStuck` is inductive once the
page's variables are of their types (`VoiceInv`), because each of its parts names
the callback the page is waiting for.  `EveryCaseIsCounted`, for any policies and
draws: the archetype that is evaluated next adds to one end and to revenue only if
it was eligible, through the whole pipeline (`EvaluationInv`).

`PastedPairVerifies` and `RotationIsFinal`, for any number of tabs.  The stored pair
is the last one issued; nothing a tab holds is of a later issue, and within a tab the
URL is no newer than the page it is on and the page no newer than the secret it shows
(`Ordered`).  So the id that was pasted is no newer than the secret pasted with it: if
it is the stored one, the last, the secret is the last too.

`RecoveryScoreProofs`: `BandsArePossible` and `ScoreFallsWithTime`, for any customer,
windows, clock, attempts and bounds.  The bands are what every other module draws a
score from, so this is the proof that they draw from enough.  A good cause or an
active customer keeps the sum above 0.15 by the whole terms alone
(`GoodCausesAreNotLow`).  The other end is not a matter of the weights: an inactive
customer with a lost cause could reach 0.755 if the case were young.  But the
payment that became the case is one of the customer's, so the customer has not been
quiet for longer than the case is old and the little before (`QuietSinceTheCase`),
and a case that old has lost a third of its recency in the longest window the policy
takes (`LateRecency`), which leaves 0.707.  That the payment is at most a day older
than its case is assumed (`ScoreAssumption`); the code creates both in one request.
The archetypes of the batch evaluation bring a history of their own, to which the
argument does not apply; none of their inactive customers of a lost cause has
another case, which keeps the sum below 0.705.  `ScoreFallsWithTime` compares the sums of two states over
the common denominator.

Only model-checked: liveness (`CaseGetsItsLink`, `PaidIsCreditedOrRecorded`,
`ReportIsPlanned`, and the violated `ConfirmedPlanTerminates`), which is beyond this
prover (`ENABLED` and fairness).  Every other property of a passing run is proved.
The type invariants that no run lists are proved (`RecoveryPlan`, `WebhookDelivery`,
`Ingestion`, `RecoveryScore`), are part of an inductive invariant (`VoicePage`,
`Integration`) or can be added to the module's cfg.

## Where the code differs from its documents

Besides the three violation runs, the following sentences do not hold of the code.
The modules state most of them as properties; put one in the module's cfg to see
its counterexample.

| Property | The sentence | What happens |
|---|---|---|
| `CaseLifecycle!CalledCustomerCanPay` | ARCHITECTURE.md:540, the conversation still runs through `routes/voice.js` | after the plan's call every decided turn throws |
| `CaseLifecycle!RefusalOutranksCeiling` | RECOVERY_POLICY.md:90 and 203, a refusal outranks the ceiling | the eligibility check of the same turn knows no candidate action yet and escalates a high-value case before the refusal is looked at; `tests/voiceRecovery.test.js`, 11b, records this as a known limitation |
| `WebhookDelivery!PaidIsCredited` | ARCHITECTURE.md:358, `payment_link.paid` resolves the case | a process that dies after it recorded the event, a save that fails, an event that comes before the link id was saved, or an amount with paise, which the cross-check rounds away, loses the payment |
| `CaseSaves!TerminalIsFinal` | terminal statuses are terminal | a save of an older copy writes a status over it |
| `CaseSaves!VoiceLimit` | the limit bounds the sessions of a case | two sessions started at once count one |
| `CaseSaves!OpenLinkIsAwaited` | a paid link resolves its case | another handler's save moves the case on while its link can be paid |
| `Integration!ShownUrlIsNew` | `Integration.jsx`: use the new URL below | the URL field keeps the old one until the page is reloaded |
| `PlanPanel!ConfirmedItemsWereShown` | `Payments.jsx`: one confirmation authorises every action below | items that joined since are executed too |

Seen while modelling and not stated as a property: a reused link may be expired;
a batch that finishes marks the flow then open as done, and reports a case that
already waits for its outcome as blocked by policy; late answers bring an ended
voice session back, and an opted-out customer is offered one; the load of the
latest evaluation run may replace the run just made; a turn whose link could not
be created is answered as one that is being processed.

## Not modelled

Wording (rationales, replies, audit metadata), read-only routes and the figures
they add up, authentication and rate limits (who may call, not what happens), the
prompts and the text of the language model (its result is a free choice among
three failures and the schema's intents), the rounding of the score's doubles, the
signatures' cryptography, start-up, scripts, styling, and the pages that show
one answer of the server and keep nothing.  Promise to pay is left out of the
voice turn: it writes a document no decision reads.  `PROJECT.json` gives the
reason for each component.  Of resets of the demo data that overlap each other or an
ingestion only what they leave to a later, lone reset is checked: nothing is said of
their own results, and `Ingestion` leaves out that the plan is deleted with the cases.

## What is left

1. What a plan item means for its case, as an abstract specification: an item is
   carried out, removed or failed once.  `RecoveryPlan` should implement it.
2. A safety form of `PaidIsCreditedOrRecorded`, that no acknowledged payment is
   without a record, and of `ReportIsPlanned`, proved from the invariants at hand.
3. `PaymentLink` composed with the plan: a claim conflict marks the item EXECUTED.
