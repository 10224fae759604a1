-------------------------- MODULE MCRecoveryScore --------------------------
(* RecoveryScore on a small instance: the clock counts hours. *)
EXTENDS RecoveryScore

\* The extremes of the window and the default.
MCWindows == {1, 72, 2160}

\* A first payment, and a customer whose success ratio is as good as one.
MCPaidBefore == {0, 128}

\* Past the full recency, and twice past the thirty days of activity.
MCWaits == {120, 361}
=============================================================================
