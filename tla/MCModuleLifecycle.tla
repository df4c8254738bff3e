------------------------- MODULE MCModuleLifecycle -------------------------
(* Model values and symmetry for the run of ModuleLifecycle. *)
EXTENDS ModuleLifecycle, TLC

\* No definition picks a plugin or an array: both sets are symmetric.
Symmetry == Permutations(Amx) \cup Permutations(Buf)
=============================================================================
