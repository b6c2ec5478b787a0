-------------------------- MODULE MCCampaignLifecycle --------------------------
(* Two disjoint audiences, so that a union of them is neither.                *)
EXTENDS CampaignLifecycle, TLC

CONSTANTS c1, c2

MCAudiences == {{c1}, {c2}}
MCOperations == Operations

SessionSymmetry == Permutations(Sessions)
================================================================================
