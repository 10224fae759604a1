-------------------------- MODULE MCCaseLifecycle --------------------------
(***************************************************************************)
(* Instances of CaseLifecycle for TLC.                                     *)
(***************************************************************************)
EXTENDS CaseLifecycle

\* One reason for each thing the selector does with a cause: offer anything,
\* stop, and depend on the score.
MCReasons == {"timeout", "card_declined", "something_else"}

MCAmounts == {2}

\* A window that closes with the plan, and one that outlives the customer's
\* activity.
MCWindowEnds == {0, 2}

Loose == [maxAutonomousAmount |-> 2, maxRecoveryAttempts |-> 2,
          maxVoiceAttempts |-> 1, voiceEnabled |-> TRUE]

\* Everything below what the case already has, or may soon have.
Tight == [maxAutonomousAmount |-> 1, maxRecoveryAttempts |-> 1,
          maxVoiceAttempts |-> 0, voiceEnabled |-> FALSE]

NoCalls == [Loose EXCEPT !.maxVoiceAttempts = 0, !.maxRecoveryAttempts = 1]

MCPolicies == {Loose, Tight, NoCalls}
=============================================================================
