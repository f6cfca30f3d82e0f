------------------------ MODULE MCRedemptionService ------------------------
(* Instances of RedemptionService for TLC.                                 *)
EXTENDS RedemptionService, TLC

CONSTANTS e1, e2, r1, r2

MCRedemptions == {r1, r2}

(* Two awards pay for both requests, one for a single request.             *)
MCKeys == {e1, e2} \cup MCRedemptions
MCEvents == {e1, e2}
MCManuals == {}
MCAmounts == {2}

MCCosts == {2}
MCQuantities == {1}

(* Sessions, requests and events are interchangeable; no run that checks   *)
(* liveness uses this.                                                     *)
MCSymmetry == Permutations(Sessions) \cup Permutations(MCRedemptions) \cup Permutations(MCEvents)
=============================================================================
