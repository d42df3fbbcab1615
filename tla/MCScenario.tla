----------------------------- MODULE MCScenario -----------------------------
(***************************************************************************)
(* The shapes of scenario the runners build, in a clean and in a used      *)
(* output directory.                                                       *)
(***************************************************************************)
EXTENDS Scenario

MCKinds == {k \in Kind : k.stale => k.capture}

\* A captured scenario in a fresh output directory, without a proxy.
MCCaptured == {[capture |-> TRUE, proxied |-> FALSE, stale |-> FALSE]}
=============================================================================
