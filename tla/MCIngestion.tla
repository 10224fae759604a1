---------------------------- MODULE MCIngestion ----------------------------
(***************************************************************************)
(* An instance of Ingestion for TLC: a report and the simulations of one   *)
(* customer, and a simulation without an email, two in flight at a time.   *)
(***************************************************************************)
EXTENDS Ingestion

CONSTANTS h1, h2, w1, d1, d2, alice

MCHandlers == {h1, h2}
MCFailures == {w1, d1, d2}
MCWebhook == {w1}
MCEmailOf == [f \in MCFailures |-> IF f = d2 THEN NoEmail ELSE alice]
=============================================================================
