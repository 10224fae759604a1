----------------------------- MODULE VoicePage -----------------------------
(***************************************************************************)
(* The voice recovery page: one case, loaded once, and a conversation kept *)
(* up by callbacks: the answers to the session, turn and end requests, the *)
(* events of the speech recognizers and the end of each utterance.  A      *)
(* callback writes uiState whatever has become of the page since it was    *)
(* registered; only the ends of recognition and speech look at it first.   *)
(* The view derived from the case decides whether a session is offered,    *)
(* the server's own checks whether it is granted.  The terminal status a   *)
(* turn may lead to is one, STOPPED; the decisions are in RecoveryPolicy.  *)
(***************************************************************************)
EXTENDS Naturals

CONSTANTS
  VoicePolicies,   \* the merchant's policy: [maxVoiceAttempts, voiceEnabled]
  MaxTurns,        \* bound on the turns in flight together
  MaxRecognizers,  \* bound on the recognizers that have not ended
  MaxSpeeches      \* bound on the utterances that have not ended

ASSUME VoicePageAssumption ==
  /\ {MaxTurns, MaxRecognizers, MaxSpeeches} \subseteq Nat \ {0}
  /\ VoicePolicies \subseteq [maxVoiceAttempts : Nat, voiceEnabled : BOOLEAN]
  /\ VoicePolicies # {}

VARIABLES
  storedCase,    \* the case as the server has it
  optedOut,      \* its customer's consent
  voicePolicy,
  shownCase,     \* the case as the page has it
  known,         \* what else it loaded: the policy, and the case's place in the plan
  uiState,
  session,       \* whether the page holds a session id
  starting,      \* whether it waits for one
  ending,        \* how many end requests it waits for
  turns,         \* how many turns are in flight
  hearing,       \* how many recognizers may still report speech
  closing,       \* how many others have not reported their end
  speaking       \* how many utterances have not reported their end

voiceVars == <<storedCase, optedOut, voicePolicy, shownCase, known, uiState, session,
               starting, ending, turns, hearing, closing, speaking>>

backend == <<storedCase, optedOut, voicePolicy>>
view == <<shownCase, known>>
requests == <<starting, ending, turns>>
audio == <<hearing, closing, speaking>>

NoChoice == "NONE"

MANUAL_SESSION_STATUSES == {"RISK_DETECTED", "ANALYZING", "FAILED", "ELIGIBLE"}

TERMINAL_STATUSES == {"RECOVERED", "STOPPED", "ESCALATED", "EXPIRED"}

VoiceCases ==
  [status : {"RISK_DETECTED", "POLICY_APPROVED", "WAITING_OUTCOME", "FAILED", "STOPPED"},
   intervention : {NoChoice, "CREATE_PAYMENT_LINK", "START_VOICE_RECOVERY"},
   voiceAttempts : Nat]

\* A plan that neither executes nor has executed the case's call only words a message.
Known == [loaded : BOOLEAN, policy : BOOLEAN, planExecuting : BOOLEAN, itemExecuted : BOOLEAN]

VoiceTypeOK ==
  /\ storedCase \in VoiceCases /\ shownCase \in VoiceCases /\ known \in Known
  /\ optedOut \in BOOLEAN /\ voicePolicy \in VoicePolicies
  /\ uiState \in {"IDLE", "READY", "LISTENING", "THINKING", "RESPONDING", "ENDED"}
  /\ session \in BOOLEAN /\ starting \in BOOLEAN /\ ending \in Nat
  /\ turns \in 0 .. MaxTurns /\ speaking \in 0 .. MaxSpeeches
  /\ hearing \in Nat /\ closing \in Nat /\ hearing + closing <= MaxRecognizers

VoiceInit ==
  /\ storedCase = [status |-> "RISK_DETECTED", intervention |-> NoChoice, voiceAttempts |-> 0]
  /\ optedOut = FALSE /\ voicePolicy \in VoicePolicies
  /\ shownCase = storedCase
  /\ known = [loaded |-> FALSE, policy |-> FALSE, planExecuting |-> FALSE, itemExecuted |-> FALSE]
  /\ uiState = "IDLE" /\ session = FALSE
  /\ starting = FALSE /\ ending = 0 /\ turns = 0
  /\ hearing = 0 /\ closing = 0 /\ speaking = 0
-----------------------------------------------------------------------------
(***************************************************************************)
(* What the page may know and do, and what the server accepts.             *)
(***************************************************************************)
Exhausted(rc) == known.policy /\ rc.voiceAttempts >= voicePolicy.maxVoiceAttempts

DeriveVoiceRecoveryViewUnlimited(rc) ==
  CASE rc.status \in TERMINAL_STATUSES            -> "terminal"
    [] rc.status \notin TERMINAL_STATUSES /\ rc.intervention # NoChoice -> "non_voice"
    [] OTHER -> IF rc.status \in MANUAL_SESSION_STATUSES THEN "startable" ELSE "unavailable"

DeriveVoiceRecoveryView(rc) ==
  LET voice == rc.intervention = "START_VOICE_RECOVERY"
  IN  IF rc.status \in TERMINAL_STATUSES THEN "terminal"
      ELSE IF voice /\ (known.itemExecuted \/ known.planExecuting) THEN "started"
      ELSE IF Exhausted(rc) THEN "limit_reached"
      ELSE IF voice THEN "awaiting_confirmation"
      ELSE IF rc.intervention # NoChoice THEN "non_voice"
      ELSE IF known.policy /\ ~voicePolicy.voiceEnabled THEN "unavailable"
      ELSE IF rc.status \in MANUAL_SESSION_STATUSES THEN "startable"
      ELSE "unavailable"

SessionAccepted ==
  /\ voicePolicy.voiceEnabled /\ ~optedOut
  /\ storedCase.status \in MANUAL_SESSION_STATUSES
  /\ storedCase.voiceAttempts < voicePolicy.maxVoiceAttempts

\* The case is evaluated, planned, paid or given up elsewhere; the customer opts out.
CaseMovesOn ==
  /\ \/ /\ storedCase.status \in MANUAL_SESSION_STATUSES
        /\ \E i \in {"CREATE_PAYMENT_LINK", "START_VOICE_RECOVERY"} :
             storedCase' = [storedCase EXCEPT !.status = "POLICY_APPROVED", !.intervention = i]
        /\ UNCHANGED optedOut
     \/ /\ storedCase.status = "POLICY_APPROVED"
        /\ storedCase.intervention = "CREATE_PAYMENT_LINK"
        /\ storedCase' = [storedCase EXCEPT !.status = "WAITING_OUTCOME"]
        /\ UNCHANGED optedOut
     \/ /\ storedCase.status = "WAITING_OUTCOME"
        /\ storedCase' = [storedCase EXCEPT !.status = "FAILED"]
        /\ UNCHANGED optedOut
     \/ ~optedOut /\ optedOut' = TRUE /\ UNCHANGED storedCase
  /\ UNCHANGED <<voicePolicy, view, uiState, session, requests, audio>>

\* The case must load, the policy and the plan may fail to.
LoadCase ==
  /\ ~known.loaded
  /\ shownCase' = storedCase
  /\ known' \in {k \in Known : k.loaded}
  /\ UNCHANGED <<backend, uiState, session, requests, audio>>
-----------------------------------------------------------------------------
(***************************************************************************)
(* The session.                                                            *)
(***************************************************************************)
HandleStart ==
  /\ known.loaded /\ uiState = "IDLE" /\ ~starting
  /\ DeriveVoiceRecoveryView(shownCase) = "startable"
  /\ starting' = TRUE
  /\ UNCHANGED <<backend, view, uiState, session, ending, turns, audio>>

StartAnswered ==
  /\ starting /\ starting' = FALSE
  /\ \/ /\ SessionAccepted
        /\ storedCase' = [storedCase EXCEPT !.voiceAttempts = @ + 1]
        /\ shownCase' = [shownCase EXCEPT !.status = storedCase.status,
                                          !.voiceAttempts = storedCase.voiceAttempts + 1]
        /\ session' = TRUE /\ uiState' = "READY"
     \/ UNCHANGED <<storedCase, shownCase, session, uiState>>
  /\ UNCHANGED <<optedOut, voicePolicy, known, ending, turns, audio>>

\* submitTranscript, from the recognizer or the text box.
SubmitTranscript ==
  /\ turns < MaxTurns
  /\ turns' = turns + 1
  /\ uiState' = "THINKING"

HandleTextSubmit ==
  /\ session /\ uiState \notin {"IDLE", "THINKING", "ENDED"}
  /\ SubmitTranscript
  /\ UNCHANGED <<backend, view, session, starting, ending, audio>>

\* What a turn can make of the case: nothing (unclear, or past its evaluation), a
\* link, a failed simulated attempt, an end.
TurnResults(rc) ==
  {rc} \cup
  IF rc.status \notin MANUAL_SESSION_STATUSES THEN {}
  ELSE {[rc EXCEPT !.status = s, !.intervention = "CREATE_PAYMENT_LINK"] :
          s \in {"WAITING_OUTCOME", "FAILED"}}
       \cup {[rc EXCEPT !.status = "STOPPED"]}

\* speak: without speech synthesis the page is ready again at once.
SpeakOrReady ==
  \/ uiState' = "READY" /\ UNCHANGED speaking
  \/ /\ speaking < MaxSpeeches
     /\ speaking' = speaking + 1 /\ uiState' = "RESPONDING"

TurnAnswered ==
  /\ turns > 0 /\ turns' = turns - 1
  /\ storedCase.status \notin TERMINAL_STATUSES
  /\ \E rc \in TurnResults(storedCase) :
       /\ storedCase' = rc /\ shownCase' = rc
       /\ IF rc.status \notin TERMINAL_STATUSES THEN SpeakOrReady
          ELSE /\ uiState' = "ENDED"
               /\ speaking < MaxSpeeches /\ speaking' = speaking + 1
  /\ UNCHANGED <<optedOut, voicePolicy, known, session, starting, ending, hearing, closing>>

\* The catch makes the page ready again; a terminal case is always refused.
TurnFailedSilently ==
  /\ turns > 0 /\ turns' = turns - 1
  /\ UNCHANGED <<backend, view, uiState, session, starting, ending, audio>>

TurnFailed ==
  /\ turns > 0 /\ turns' = turns - 1
  /\ uiState' = "READY"
  /\ UNCHANGED <<backend, view, session, starting, ending, audio>>
-----------------------------------------------------------------------------
(***************************************************************************)
(* Recognition and speech.                                                 *)
(***************************************************************************)
HandleMicStart ==
  /\ session /\ uiState = "READY"
  /\ \/ /\ hearing + closing < MaxRecognizers
        /\ hearing' = hearing + 1
        /\ uiState' = "LISTENING"
     \/ UNCHANGED <<hearing, uiState>>
  /\ UNCHANGED <<backend, view, session, requests, closing, speaking>>

\* A recognizer that is stopped may still report what it has heard.
HandleMicStop ==
  /\ uiState = "LISTENING"
  /\ uiState' = "READY"
  /\ UNCHANGED <<backend, view, session, requests, audio>>

\* onresult: the transcript goes to the session the recognizer was started in, also
\* when the page has left that session.
RecognitionResult ==
  /\ hearing > 0
  /\ hearing' = hearing - 1 /\ closing' = closing + 1
  /\ SubmitTranscript
  /\ UNCHANGED <<backend, view, session, starting, ending, speaking>>

RecognitionError ==
  /\ hearing > 0
  /\ hearing' = hearing - 1 /\ closing' = closing + 1
  /\ uiState' = "READY"
  /\ UNCHANGED <<backend, view, session, requests, speaking>>

RecognitionEnd ==
  /\ \/ hearing > 0 /\ hearing' = hearing - 1 /\ UNCHANGED closing
     \/ closing > 0 /\ closing' = closing - 1 /\ UNCHANGED hearing
  /\ uiState' = IF uiState = "LISTENING" THEN "READY" ELSE uiState
  /\ UNCHANGED <<backend, view, session, requests, speaking>>

\* onend and onerror of an utterance, also of one that was cancelled.
SpeechEnd ==
  /\ speaking > 0 /\ speaking' = speaking - 1
  /\ uiState' = IF uiState = "RESPONDING" THEN "READY" ELSE uiState
  /\ UNCHANGED <<backend, view, session, requests, hearing, closing>>

\* handleEnd waits for the server before the page shows the end (one at a time here).
HandleEnd ==
  /\ uiState \notin {"IDLE", "ENDED"} /\ ending = 0
  /\ ending' = 1
  /\ UNCHANGED <<backend, view, uiState, session, starting, turns, audio>>

EndAnswered ==
  /\ ending > 0 /\ ending' = ending - 1
  /\ uiState' = "ENDED"
  /\ UNCHANGED <<backend, view, session, starting, turns, audio>>

HandleRetry ==
  /\ uiState = "ENDED" /\ shownCase.status \notin TERMINAL_STATUSES
  /\ uiState' = "IDLE" /\ session' = FALSE
  /\ UNCHANGED <<backend, view, requests, audio>>

VoiceNext ==
  \/ CaseMovesOn \/ LoadCase \/ HandleStart \/ StartAnswered
  \/ HandleTextSubmit \/ TurnAnswered \/ TurnFailed
  \/ HandleMicStart \/ HandleMicStop
  \/ RecognitionResult \/ RecognitionError \/ RecognitionEnd \/ SpeechEnd
  \/ HandleEnd \/ EndAnswered \/ HandleRetry
-----------------------------------------------------------------------------
\* lib/voiceRecoveryView.js: never offer an action the backend will reject.  A view of
\* the case as it is, made with the policy at hand, offers a session only when the
\* server grants one (the view does not know of an opted-out customer).
OfferedSessionIsAccepted ==
  /\ known.loaded /\ known.policy /\ shownCase = storedCase /\ ~optedOut
  /\ DeriveVoiceRecoveryView(shownCase) = "startable"
  => SessionAccepted

\* However callbacks of overlapping turns, recognizers, utterances and ended sessions
\* come in, the page never waits for something that will not happen: while it thinks
\* a turn is in flight, while it responds an utterance will still end, while it
\* listens a recognizer will still end.
NeverStuck ==
  /\ uiState = "THINKING" => turns > 0
  /\ uiState = "RESPONDING" => speaking > 0
  /\ uiState = "LISTENING" => hearing + closing > 0
=============================================================================
