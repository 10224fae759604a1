---------------------------- MODULE MCDemoReset ----------------------------
(***************************************************************************)
(* An instance of DemoReset for TLC: three requests, two in flight at a    *)
(* time, each a reset or a simulated failure.                              *)
(***************************************************************************)
EXTENDS DemoReset, TLC

CONSTANTS h1, h2, d1, alice, s1, s2

MCHandlers == {h1, h2}
MCFailures == {d1}
MCWebhook == {}
MCEmailOf == [f \in MCFailures |-> alice]
MCSpecs == {s1, s2}
MCPlanned == {s1}

Symmetric == Permutations(MCHandlers)
=============================================================================
