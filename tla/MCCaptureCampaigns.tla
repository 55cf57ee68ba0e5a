------------------------- MODULE MCCaptureCampaigns -------------------------
(* Two processes and three slots; a target that can be met within the window, *)
(* and one that outlasts it.                                                  *)
EXTENDS CaptureCampaigns

CONSTANTS p1, p2
=============================================================================
