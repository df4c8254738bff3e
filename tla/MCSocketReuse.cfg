CONSTANTS
  Fd = {f1}
  SD = {g1, g2, g3}
  NoSD = NoSD
  Faults = {"close_without_remove"}
SYMMETRY Symmetry
SPECIFICATION Spec
INVARIANTS
  NoLostReadiness
