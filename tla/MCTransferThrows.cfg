CONSTANTS
  MaxHandle = 1
  Amx = {a1}
  NoAmx = NoAmx
  Buf = {b1}
  NoBuf = NoBuf
  Faults = {"perform_throws"}
SPECIFICATION Spec
INVARIANTS
  OwnedOnce
