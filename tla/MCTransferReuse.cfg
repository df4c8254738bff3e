CONSTANTS
  MaxHandle = 1
  Amx = {a1}
  NoAmx = NoAmx
  Buf = {b1}
  NoBuf = NoBuf
  Faults = {"address_reuse"}
SPECIFICATION Spec
INVARIANTS
  NoForeignCompletion
