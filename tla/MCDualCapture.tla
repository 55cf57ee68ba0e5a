--------------------------- MODULE MCDualCapture ---------------------------
(* One batch of two attempts, in both modes, invoked by a campaign.          *)
EXTENDS DualCapture
=============================================================================
