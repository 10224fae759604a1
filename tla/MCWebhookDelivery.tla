------------------------- MODULE MCWebhookDelivery -------------------------
(***************************************************************************)
(* Instances of WebhookDelivery for TLC: the link the case names and one   *)
(* that was left behind; the first is reported twice.  The case is about   *)
(* 1499 or 1499.50 rupees.                                                 *)
(***************************************************************************)
EXTENDS WebhookDelivery

CONSTANTS named, orphan, e1, e2, e3, h1, h2, h3

MCLinks == {named, orphan}
MCEvents == {e1, e2, e3}
MCAbout == [e \in MCEvents |-> IF e = e3 THEN orphan ELSE named]
MCAmounts == {149900, 149950}
MCThree == {h1, h2, h3}
=============================================================================
