---------------------------- MODULE ManualFlow ----------------------------
(***************************************************************************)
(* The manual override of the payments page: the merchant selects failed   *)
(* payments, opens the call queue or the payment-link batch over a         *)
(* snapshot of the selected rows, and the page works through the batch,    *)
(* two requests a row, or polls the queue.  The buttons stay enabled, so a *)
(* flow can be opened while a batch of an earlier one still runs, and the  *)
(* recovery plan, webhooks and other tabs act on the same cases meanwhile. *)
(* An evaluation approves a link or comes to anything else, for which a    *)
(* call stands here; of what the queue polls, only whose case it is        *)
(* matters.                                                                *)
(***************************************************************************)
EXTENDS Naturals, FiniteSets, Functions

CONSTANTS
  Rows,      \* the failed payments on the page, each with its recovery case
  Batches    \* the link batches that may run together

VARIABLES
  book,            \* the recovery cases as the server stores them
  flow,            \* "call", "link" or "closed"
  flowStep,        \* how far it is
  flowRows,        \* the rows it was opened with
  linkResults,     \* what the page reports of them
  linkProcessing,
  callStatuses,    \* the rows whose case has been polled
  batch,           \* the runs of sendLinks
  poll             \* the rows of the polling that is under way

flowVars == <<book, flow, flowStep, flowRows, linkResults,
              linkProcessing, callStatuses, batch, poll>>

shown == <<flow, flowStep, flowRows>>
results == <<linkResults, linkProcessing>>

FlowStatuses == {"RISK_DETECTED", "POLICY_APPROVED", "WAITING_OUTCOME", "RECOVERED",
                 "FAILED"}

FlowCases == [status : FlowStatuses, link : BOOLEAN,
              intervention : {"NONE", "CREATE_PAYMENT_LINK", "START_VOICE_RECOVERY"}]

DetectedRow == [status |-> "RISK_DETECTED", intervention |-> "NONE", link |-> FALSE]

LinkOutcomes == {"sent", "already_recovered", "blocked", "error"}

NoRows == [c \in {} |-> DetectedRow]

IdleBatch == [at |-> "idle", row |-> "NONE", todo |-> NoRows, current |-> DetectedRow,
              results |-> NoRows]

FlowTypeOK ==
  /\ book \in [Rows -> FlowCases]
  /\ flow \in {"closed", "call", "link"}
  /\ flowStep \in {"confirm", "queue", "progress", "done"}
  /\ flowRows \subseteq Rows
  /\ DOMAIN linkResults \subseteq Rows /\ Range(linkResults) \subseteq LinkOutcomes
  /\ linkProcessing \in BOOLEAN
  /\ callStatuses \subseteq Rows
  /\ \A b \in Batches : batch[b].at \in {"idle", "next", "evaluating", "decided", "linking"}
  /\ poll \subseteq Rows

FlowInit ==
  /\ book = [c \in Rows |-> DetectedRow]
  /\ flow = "closed" /\ flowStep = "confirm" /\ flowRows = {}
  /\ linkResults = NoRows /\ linkProcessing = FALSE
  /\ callStatuses = {}
  /\ batch = [b \in Batches |-> IdleBatch]
  /\ poll = {}
-----------------------------------------------------------------------------
(***************************************************************************)
(* The server.                                                             *)
(***************************************************************************)
EVALUABLE_STATUSES == {"RISK_DETECTED", "FAILED"}

\* A case past its evaluation is returned as it stands.
Decisions(rc) ==
  IF rc.status \notin EVALUABLE_STATUSES THEN {rc}
  ELSE {[rc EXCEPT !.status = "POLICY_APPROVED", !.intervention = "CREATE_PAYMENT_LINK"],
        [rc EXCEPT !.status = "POLICY_APPROVED", !.intervention = "START_VOICE_RECOVERY"]}

ApprovedForLink(rc) ==
  rc.status = "POLICY_APPROVED" /\ rc.intervention = "CREATE_PAYMENT_LINK"

WithLink(rc) == [rc EXCEPT !.status = "WAITING_OUTCOME", !.link = TRUE]

\* What else happens to a case: another page or the plan evaluates it or sends its
\* link, the customer pays, or the link expires.
ActElsewhere(c) ==
  /\ \/ /\ book[c].status \in EVALUABLE_STATUSES
        /\ \E rc \in Decisions(book[c]) : book' = [book EXCEPT ![c] = rc]
     \/ ApprovedForLink(book[c]) /\ book' = [book EXCEPT ![c] = WithLink(@)]
     \/ /\ book[c].status = "WAITING_OUTCOME"
        /\ \E s \in {"RECOVERED", "FAILED"} : book' = [book EXCEPT ![c].status = s]
  /\ UNCHANGED <<shown, results, callStatuses, batch, poll>>
-----------------------------------------------------------------------------
(***************************************************************************)
(* The flows.                                                              *)
(***************************************************************************)
\* The effect's cleanup: whatever changes the flow, its step or its rows cancels the
\* polling of the queue as it was, which then drops what it is answered.
StopPolling == poll' = {}

\* The ticked rows are the rows of the flow.
OpenFlow(type, selected) ==
  /\ selected # {}
  /\ flow' = type /\ flowStep' = "confirm"
  /\ flowRows' = selected
  /\ linkResults' = NoRows /\ callStatuses' = {}
  /\ StopPolling
  /\ UNCHANGED <<book, linkProcessing, batch>>

\* Cancel and Close; the link flow has no Close while it is processing.
CloseFlow ==
  /\ flow # "closed"
  /\ flow = "link" /\ flowStep # "confirm" => ~linkProcessing
  /\ flow' = "closed" /\ flowStep' = "confirm" /\ linkProcessing' = FALSE
  /\ StopPolling
  /\ UNCHANGED <<book, flowRows, linkResults, callStatuses, batch>>

StartCallQueue ==
  /\ flow = "call" /\ flowStep = "confirm"
  /\ flowStep' = "queue"
  /\ StopPolling
  /\ UNCHANGED <<book, flow, flowRows, results, callStatuses, batch>>
-----------------------------------------------------------------------------
(***************************************************************************)
(* sendLinks.                                                              *)
(***************************************************************************)
\* The batch works on the snapshot of its rows that the flow was opened with.  Nothing
\* reads it before, so it is taken here, and grows stale while the batch runs.
SendLinks(b) ==
  /\ flow = "link" /\ flowStep = "confirm" /\ batch[b].at = "idle"
  /\ flowStep' = "progress" /\ linkProcessing' = TRUE
  /\ batch' = [batch EXCEPT ![b] = [IdleBatch EXCEPT !.at = "next", !.todo = Restrict(book, flowRows)]]
  /\ StopPolling
  /\ UNCHANGED <<book, flow, flowRows, linkResults, callStatuses>>

\* The loop takes the next row with the case as the snapshot has it; only a case
\* that looks evaluable is evaluated first.
NextRow(b) ==
  /\ batch[b].at = "next"
  /\ \E c \in DOMAIN batch[b].todo :
       LET rc == batch[b].todo[c]
       IN  batch' = [batch EXCEPT ![b].row = c, ![b].current = rc,
                       ![b].todo = Restrict(@, DOMAIN @ \ {c}),
                       ![b].at = IF rc.status \in EVALUABLE_STATUSES THEN "evaluating"
                                 ELSE "decided"]
  /\ UNCHANGED <<book, shown, results, callStatuses, poll>>

\* results.push and setLinkResults.
Push(b, outcome) ==
  LET pushed == [c \in DOMAIN batch[b].results \cup {batch[b].row} |->
                   IF c = batch[b].row THEN outcome ELSE batch[b].results[c]]
  IN  /\ batch' = [batch EXCEPT ![b].results = pushed, ![b].at = "next"]
      /\ linkResults' = pushed

EvaluateRow(b) ==
  LET c == batch[b].row
  IN  /\ batch[b].at = "evaluating"
      /\ \/ \E rc \in Decisions(book[c]) :
              /\ book' = [book EXCEPT ![c] = rc]
              /\ batch' = [batch EXCEPT ![b].at = "decided", ![b].current = rc]
              /\ UNCHANGED linkResults
         \/ Push(b, "error") /\ UNCHANGED book
  /\ UNCHANGED <<shown, linkProcessing, callStatuses, poll>>

\* What the page has in hand decides: report, or ask for the link.
DecideRow(b) ==
  LET rc == batch[b].current
  IN  /\ batch[b].at = "decided"
      /\ \/ rc.status = "RECOVERED" /\ Push(b, "already_recovered")
         \/ /\ rc.status # "RECOVERED" /\ ApprovedForLink(rc)
            /\ batch' = [batch EXCEPT ![b].at = "linking"]
            /\ UNCHANGED linkResults
         \/ rc.status # "RECOVERED" /\ ~ApprovedForLink(rc) /\ Push(b, "blocked")
  /\ UNCHANGED <<book, shown, linkProcessing, callStatuses, poll>>

AnsweredOptimistic(linked) == "sent"

\* Only an answer that carries the link counts as sent.
AnsweredWith(linked) == IF linked THEN "sent" ELSE "error"

\* POST /:id/payment-link hands out the link that is there, creates it for an
\* approved case, and refuses the rest; Razorpay may fail, and an answer may be lost
\* after the link was created.
CreateRowLink(b) ==
  LET c  == batch[b].row
      rc == book[c]
  IN  /\ batch[b].at = "linking"
      /\ \/ rc.status # "RECOVERED" /\ rc.link /\ Push(b, AnsweredWith(TRUE)) /\ UNCHANGED book
         \/ /\ ~rc.link /\ ApprovedForLink(rc)
            /\ book' = [book EXCEPT ![c] = WithLink(rc)]
            /\ \E heard \in BOOLEAN : Push(b, AnsweredWith(heard))
         \/ Push(b, AnsweredWith(FALSE)) /\ UNCHANGED book
  /\ UNCHANGED <<shown, linkProcessing, callStatuses, poll>>

\* The end of a batch ends the processing and moves the flow on, whichever is open.
FinishBatch(b) ==
  /\ batch[b].at = "next" /\ batch[b].todo = NoRows
  /\ batch' = [batch EXCEPT ![b] = IdleBatch]
  /\ linkProcessing' = FALSE /\ flowStep' = "done"
  /\ StopPolling
  /\ UNCHANGED <<book, flow, flowRows, linkResults, callStatuses>>
-----------------------------------------------------------------------------
(***************************************************************************)
(* Polling the call queue.                                                 *)
(***************************************************************************)
StartPoll ==
  /\ flow = "call" /\ flowStep = "queue" /\ poll = {}
  /\ poll' = flowRows
  /\ UNCHANGED <<book, shown, results, callStatuses, batch>>

\* Promise.all: when every row was answered the entries are merged into what is shown; a
\* request that failed leaves no entry.
FinishPoll ==
  /\ poll # {}
  /\ poll' = {}
  /\ \E entries \in SUBSET poll :
       callStatuses' = callStatuses \cup entries
  /\ UNCHANGED <<book, shown, results, batch>>

FlowNext ==
  \/ \E c \in Rows : ActElsewhere(c)
  \/ CloseFlow \/ StartCallQueue \/ StartPoll \/ FinishPoll
  \/ \E type \in {"call", "link"}, selected \in SUBSET Rows : OpenFlow(type, selected)
  \/ \E b \in Batches : \/ SendLinks(b) \/ NextRow(b) \/ EvaluateRow(b) \/ DecideRow(b)
                        \/ CreateRowLink(b) \/ FinishBatch(b)
-----------------------------------------------------------------------------
\* What a row reports is true whatever batch reported it and however the case moved
\* on: "Link sent" means the case has a link, "Already recovered" that it was paid.
ReportedOutcomeIsTrue ==
  \A c \in DOMAIN linkResults :
    /\ linkResults[c] = "sent" => book[c].link
    /\ linkResults[c] = "already_recovered" => book[c].status = "RECOVERED"
=============================================================================
