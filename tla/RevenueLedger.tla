--------------------------- MODULE RevenueLedger ---------------------------
(***************************************************************************)
(* What the webhook promises about the revenue of one recovery case: it is *)
(* credited at most once, and only after the customer has paid.            *)
(***************************************************************************)
EXTENDS Naturals

VARIABLES
  paid,    \* whether the customer has paid
  revenue  \* what the case counts as recovered, in multiples of its amount

Init == paid = FALSE /\ revenue = 0

Pay == paid' = TRUE /\ UNCHANGED revenue

Credit == paid /\ revenue = 0 /\ revenue' = 1 /\ UNCHANGED paid

Next == Pay \/ Credit

Spec == Init /\ [][Next]_<<paid, revenue>>
=============================================================================
