---------------------------- MODULE Integration ----------------------------
(***************************************************************************)
(* The merchant's webhook credential, from the server that issues it       *)
(* (routes/integration.js) through the page that shows it (Integration.jsx *)
(* in one or more browser tabs) to the Razorpay dashboard it is pasted     *)
(* into and the deliveries signed with it (the inbound route of            *)
(* webhooks.js).                                                           *)
(*                                                                         *)
(* A webhook id and a signing secret are random and never repeat, so each  *)
(* is the number of the issue it came from.                                *)
(***************************************************************************)
EXTENDS Naturals

CONSTANTS
  Tabs,        \* browser tabs that open the page
  AnswersLost, \* whether a request may fail (the database, the audit log, the network)
  MaxIssues    \* bound on the credentials issued

ASSUME IntegrationAssumption == AnswersLost \in BOOLEAN /\ MaxIssues \in Nat

NoIssue == 0

Issues == 0..MaxIssues

VARIABLES
  cred,        \* the stored pair [id, secret], None before the first visit
  issued,      \* credentials generated so far
  request,     \* each tab: its request for the page, "get" or "regenerate", and its answer
  reveal,      \* each tab: its request for the secret, and its answer
  integration, \* each tab: the webhook id it was given last, None while it loads
  urlField,    \* each tab: the URL its Webhook URL field shows and copies
  secretField, \* each tab: the secret its Signing secret field holds, None while masked
  razorpay,    \* the pair the merchant pasted into the Razorpay dashboard
  reply        \* how the last delivery was answered

integrationPage == <<integration, urlField, secretField>>
integrationVars == <<cred, issued, request, reveal, integrationPage, razorpay, reply>>

NoRequest == [kind |-> "none", at |-> "idle", read |-> NoIssue, answer |-> NoIssue]

Replies == {"none", "ENDPOINT_NOT_FOUND", "INVALID_SIGNATURE", "ACCEPTED"}

Unpaired == [id |-> NoIssue, secret |-> NoIssue]

\* The two halves of an issue are only ever stored together.
Pairs == {[id |-> n, secret |-> n] : n \in Issues}

\* Every variable is of its type, and the stored pair is of one issue.
IntegrationTypeOK ==
  /\ cred \in Pairs
  /\ issued \in Issues
  /\ request \in [Tabs -> [kind : {"none", "get", "regenerate"},
                         at : {"idle", "sent", "read", "saved"},
                         read : Issues, answer : Issues]]
  /\ reveal \in [Tabs -> [at : {"idle", "sent", "read"}, key : Issues, answer : Issues]]
  /\ integration \in [Tabs -> Issues]
  /\ urlField \in [Tabs -> Issues]
  /\ secretField \in [Tabs -> Issues]
  /\ razorpay \in [id : Issues, secret : Issues]
  /\ reply \in Replies

IntegrationInit ==
  /\ cred = Unpaired
  /\ issued = 0
  /\ request = [t \in Tabs |-> NoRequest]
  /\ reveal = [t \in Tabs |-> [at |-> "idle", key |-> NoIssue, answer |-> NoIssue]]
  /\ integration = [t \in Tabs |-> NoIssue]
  /\ urlField = [t \in Tabs |-> NoIssue]
  /\ secretField = [t \in Tabs |-> NoIssue]
  /\ razorpay = Unpaired
  /\ reply = "none"
-----------------------------------------------------------------------------
(***************************************************************************)
(* The server: each handler loads the merchant, and saves a new pair when  *)
(* it has to issue one.                                                    *)
(***************************************************************************)
Receive(t) ==
  /\ request[t].at = "sent"
  /\ request' = [request EXCEPT ![t].at = "read", ![t].read = cred.id]
  /\ UNCHANGED <<cred, issued, reveal, integrationPage, razorpay, reply>>

\* GET / issues a pair on the first visit only; POST /regenerate always does.
MustIssue(t) == request[t].kind = "regenerate" \/ request[t].read = NoIssue

IssuePair ==
  /\ issued' = issued + 1
  /\ cred' = [id |-> issued', secret |-> issued']

Issue(t) ==
  /\ request[t].at = "read" /\ MustIssue(t) /\ issued < MaxIssues
  /\ IssuePair
  /\ request' = [request EXCEPT ![t].at = "saved", ![t].answer = issued']
  /\ UNCHANGED <<reveal, integrationPage, razorpay, reply>>

SerializeSaving(t) ==
  /\ request[t].at = "read" /\ ~MustIssue(t)
  /\ cred' = [id |-> request[t].read, secret |-> request[t].read]
  /\ request' = [request EXCEPT ![t].at = "saved", ![t].answer = request[t].read]
  /\ UNCHANGED <<issued, reveal, integrationPage, razorpay, reply>>

Serialize(t) ==
  /\ request[t].at = "read" /\ ~MustIssue(t)
  /\ request' = [request EXCEPT ![t].at = "saved", ![t].answer = request[t].read]
  /\ UNCHANGED <<cred, issued, reveal, integrationPage, razorpay, reply>>

\* POST /reveal.
Reveal(t) ==
  /\ reveal[t].at = "sent" /\ cred.secret # NoIssue
  /\ reveal' = [reveal EXCEPT ![t].at = "read", ![t].answer = cred.secret]
  /\ UNCHANGED <<cred, issued, request, integrationPage, razorpay, reply>>
-----------------------------------------------------------------------------
(***************************************************************************)
(* The page.  Opening or reloading it sends GET; the URL field keeps the   *)
(* value it was first rendered with; the secret field is keyed by the      *)
(* webhook id, so a new id mounts a new, masked field, and an answer to a  *)
(* field that is gone is dropped.                                          *)
(***************************************************************************)
Ask(t, kind) == request' = [request EXCEPT ![t] = [NoRequest EXCEPT !.kind = kind, !.at = "sent"]]

OpenPage(t) ==
  /\ request[t].at = "idle"
  /\ Ask(t, "get")
  /\ reveal' = [reveal EXCEPT ![t].key = NoIssue]
  /\ integration' = [integration EXCEPT ![t] = NoIssue]
  /\ urlField' = [urlField EXCEPT ![t] = NoIssue]
  /\ secretField' = [secretField EXCEPT ![t] = NoIssue]
  /\ UNCHANGED <<cred, issued, razorpay, reply>>

Regenerate(t) ==
  /\ integration[t] # NoIssue /\ request[t].at = "idle"
  /\ Ask(t, "regenerate")
  /\ UNCHANGED <<cred, issued, reveal, integrationPage, razorpay, reply>>

MountUrlField(t, id) == urlField' = [urlField EXCEPT ![t] = IF @ = NoIssue THEN id ELSE @]

MountSecretField(t, id) ==
  /\ secretField' = [secretField EXCEPT ![t] = IF integration[t] = id THEN @ ELSE NoIssue]
  /\ reveal' = [reveal EXCEPT ![t].key = IF @ = id THEN @ ELSE NoIssue]

ShowIntegration(t) ==
  /\ request[t].at = "saved"
  /\ integration' = [integration EXCEPT ![t] = request[t].answer]
  /\ MountUrlField(t, request[t].answer)
  /\ MountSecretField(t, request[t].answer)
  /\ request' = [request EXCEPT ![t] = NoRequest]
  /\ UNCHANGED <<cred, issued, razorpay, reply>>

\* The request is answered with an error, or not at all, before its save or after it.
AnswerIsLost(t) ==
  /\ AnswersLost /\ request[t].at \in {"read", "saved"}
  /\ request' = [request EXCEPT ![t] = NoRequest]
  /\ UNCHANGED <<cred, issued, reveal, integrationPage, razorpay, reply>>

\* Reveal or Copy on a field that holds nothing yet.
AskSecret(t) ==
  /\ integration[t] # NoIssue /\ secretField[t] = NoIssue /\ reveal[t].at = "idle"
  /\ reveal' = [reveal EXCEPT ![t] = [at |-> "sent", key |-> integration[t], answer |-> NoIssue]]
  /\ UNCHANGED <<cred, issued, request, integrationPage, razorpay, reply>>

HoldSecretInAnyField(t) ==
  /\ reveal[t].at = "read"
  /\ secretField' = [secretField EXCEPT ![t] = reveal[t].answer]
  /\ reveal' = [reveal EXCEPT ![t] = [at |-> "idle", key |-> NoIssue, answer |-> NoIssue]]
  /\ UNCHANGED <<cred, issued, request, integration, urlField, razorpay, reply>>

HoldSecret(t) ==
  /\ reveal[t].at = "read"
  /\ secretField' =
       [secretField EXCEPT ![t] = IF reveal[t].key # NoIssue THEN reveal[t].answer ELSE @]
  /\ reveal' = [reveal EXCEPT ![t] = [at |-> "idle", key |-> NoIssue, answer |-> NoIssue]]
  /\ UNCHANGED <<cred, issued, request, integration, urlField, razorpay, reply>>

HideSecret(t) ==
  /\ secretField[t] # NoIssue
  /\ secretField' = [secretField EXCEPT ![t] = NoIssue]
  /\ UNCHANGED <<cred, issued, request, reveal, integration, urlField, razorpay, reply>>

\* The merchant copies both fields into Razorpay's form.
Paste(t) ==
  /\ urlField[t] # NoIssue /\ secretField[t] # NoIssue
  /\ razorpay' = [id |-> urlField[t], secret |-> secretField[t]]
  /\ UNCHANGED <<cred, issued, request, reveal, integrationPage, reply>>

\* The inbound route: the merchant is found by the id in the URL, the body is
\* checked with the secret stored next to it.
DeliveryIsKnown == razorpay.id # NoIssue /\ razorpay.id = cred.id

Accepted == DeliveryIsKnown /\ razorpay.secret = cred.secret

Deliver ==
  /\ razorpay.id # NoIssue
  /\ reply' = IF ~DeliveryIsKnown THEN "ENDPOINT_NOT_FOUND"
              ELSE IF ~Accepted THEN "INVALID_SIGNATURE" ELSE "ACCEPTED"
  /\ UNCHANGED <<cred, issued, request, reveal, integrationPage, razorpay>>

IntegrationNext ==
  \/ \E t \in Tabs :
       \/ Receive(t) \/ Issue(t) \/ Serialize(t) \/ Reveal(t)
       \/ OpenPage(t) \/ Regenerate(t) \/ ShowIntegration(t) \/ AnswerIsLost(t)
       \/ AskSecret(t) \/ HoldSecret(t) \/ HideSecret(t) \/ Paste(t)
  \/ Deliver
-----------------------------------------------------------------------------
\* What is pasted is checked as a pair: whatever was rotated, reloaded, revealed late or
\* pasted from a stale tab, a delivery that still finds the merchant by its URL carries a
\* signature that verifies, so the inbound route answers 404 or accepts and never 400.
KnownDeliveryVerifies == reply # "INVALID_SIGNATURE"

\* A pair that was replaced never becomes valid again, whichever of the overlapping first
\* visits and rotations saves last: what is pasted and turned away stays turned away.
RotatedStaysDead ==
  [][razorpay' = razorpay /\ ~Accepted /\ razorpay.id # NoIssue => ~Accepted']_integrationVars
-----------------------------------------------------------------------------
\* Integration.jsx, after a rotation: update your Razorpay webhook with the new URL and
\* signing secret below.  The page that rotated shows the URL of the pair it was given.
ShownUrlIsNew ==
  \A t \in Tabs : integration[t] # NoIssue => urlField[t] = integration[t]
=============================================================================
