------------------------ MODULE MCCurlMultiSockets ------------------------
(* Model values and symmetry for the runs of CurlMultiSockets. *)
EXTENDS CurlMultiSockets, TLC

\* No definition picks a descriptor or an object: both sets are symmetric.
Symmetry == Permutations(Fd) \cup Permutations(SD)
=============================================================================
