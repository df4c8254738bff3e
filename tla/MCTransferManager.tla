------------------------- MODULE MCTransferManager -------------------------
(* Model values and symmetry for the runs of TransferManager. *)
EXTENDS TransferManager, TLC

\* No definition picks a plugin or an array: both sets are symmetric.
Symmetry == Permutations(Amx) \cup Permutations(Buf)
=============================================================================
