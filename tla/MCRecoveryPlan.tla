--------------------------- MODULE MCRecoveryPlan ---------------------------
(***************************************************************************)
(* Instances of RecoveryPlan for TLC.                                      *)
(***************************************************************************)
EXTENDS RecoveryPlan, TLC

CONSTANTS link, call, stop, k1, k2, p1, p2, p3

\* Two cases the customer hears of, and one that is only closed.
MCCases == {link, call, stop}
MCCustomerFacing == {link, call}
MCConfirms == {k1, k2}
MCPlans == {p1, p2, p3}

MCTwoCases == {link, stop}
MCTwoFacing == {link}
MCTwoPlans == {p1, p2}

Symmetry == Permutations(MCPlans) \cup Permutations(MCConfirms)
=============================================================================
