----------------------------- MODULE MCCampaign -----------------------------
(***************************************************************************)
(* Two targets, two repetitions: all runners repeat the outer loop and     *)
(* walk their targets in the inner one.  Up to three campaigns on one      *)
(* directory.                                                              *)
(***************************************************************************)
EXTENDS Campaign, Plans

MCTargets == {"first", "second"}
MCPlan == LET One(rep) == <<[target |-> "first", rep |-> rep], [target |-> "second", rep |-> rep]>>
          IN  Repeat(2, 2, One)

\* What the verification of a runner's specs reads (EvidenceOf): run.py mixes
\* all kinds, the later runners evaluate captures.
EvidenceIn(specs) == {EvidenceOf(specs[k]) : k \in DOMAIN specs}
MCEvidences ==
    [nothing |-> [MCTargets -> EvidenceIn(BatchSpecs(1) \o V11Specs(1))],
     json    |-> [MCTargets -> EvidenceIn(V15Specs(1, <<"go">>) \o V17Specs(1))],
     v18     |-> [MCTargets -> EvidenceIn(V18Specs(1, <<"botan">>))],
     e8      |-> [MCTargets -> EvidenceIn(E8Specs(1, <<"go">>))]]
MCSelections == (SUBSET MCTargets) \ {{}}
=============================================================================
