----------------------------- MODULE MCReceiver -----------------------------
(* Instances of Receiver for TLC.  Every constant is a number (the sizes   *)
(* of four buffers and a bound), which Receiver.cfg gives.                 *)
EXTENDS Receiver
=============================================================================
