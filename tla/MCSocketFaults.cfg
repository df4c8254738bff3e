CONSTANTS
  Fd = {f1}
  SD = {g1, g2}
  NoSD = NoSD
  Faults = {"missed_close", "close_without_remove", "wait_error", "wrap_error", "alloc_failure"}
SPECIFICATION Spec
INVARIANTS
  ArmedIffPending
