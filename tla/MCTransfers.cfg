CONSTANTS
  MaxHandle = 3
  Amx = {a1}
  NoAmx = NoAmx
  Buf = {b1, b2}
  NoBuf = NoBuf
  Faults = {}
SPECIFICATION Spec
INVARIANTS
  TypeOK
  HandlesDistinct
  InProgressIffAttached
  NoAttachedDestroyed
  OwnedOnce
  SweptByFrameEnd
  NothingLeft
  CallbackTaskLives
PROPERTIES
  ImplementsTransfers
