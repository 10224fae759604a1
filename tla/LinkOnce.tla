------------------------------ MODULE LinkOnce ------------------------------
(***************************************************************************)
(* What the creation of payment links promises about one recovery case:    *)
(* Razorpay is made to issue one link, and one more for each mishap that   *)
(* hides from the server that it has issued, or is about to issue, another *)
(* one; and the case names only links that were issued, and never none     *)
(* again.                                                                  *)
(***************************************************************************)
EXTENDS Naturals

VARIABLES
  issued,   \* how many links Razorpay has issued for the case
  named,    \* the link the case names, 0 for none
  mishaps   \* how often the server has lost sight of one

Init == issued = 0 /\ named = 0 /\ mishaps = 0

Issues == issued <= mishaps /\ issued' = issued + 1

Issue == Issues /\ UNCHANGED <<named, mishaps>>

\* The mishap may be that the answer with the new link is lost.
Mishap ==
  /\ mishaps' = mishaps + 1
  /\ Issues \/ UNCHANGED issued
  /\ UNCHANGED named

Name == named' \in 1 .. issued /\ UNCHANGED <<issued, mishaps>>

Next == Issue \/ Mishap \/ Name

Spec == Init /\ [][Next]_<<issued, named, mishaps>>
=============================================================================
