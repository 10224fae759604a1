--------------------------- MODULE MCPaymentLink ---------------------------
(***************************************************************************)
(* Instances of PaymentLink for TLC.                                       *)
(***************************************************************************)
EXTENDS PaymentLink

CONSTANTS r1, r2, r3

MCRequests == {r1, r2, r3}

MCPair == {r1, r2}
=============================================================================
