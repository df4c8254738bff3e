-------------------------- MODULE MCDataCallbacks --------------------------
(* Model values and symmetry for the runs of DataCallbacks. *)
EXTENDS DataCallbacks, TLC

\* No definition picks a function of a plugin: the set is symmetric.
Symmetry == Permutations(Fun)
=============================================================================
