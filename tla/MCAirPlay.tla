----------------------------- MODULE MCAirPlay -----------------------------
(* Instances of AirPlay for TLC.  Sessions differ (only Sliders change the *)
(* volume), and liveness is checked, so that there is no symmetry.         *)
EXTENDS AirPlay
=============================================================================
