-------------------------- MODULE MCTimedTransfers --------------------------
(* The runs of TimedTransfers. *)
EXTENDS TimedTransfers, TLC
=============================================================================
