CONSTANTS
  Fd = {f1}
  SD = {g1, g2}
  NoSD = NoSD
  Faults = {"missed_close"}
SPECIFICATION Spec
INVARIANTS
  NoLostReadiness
