CONSTANTS
  MaxHandle = 1
  Amx = {a1}
  NoAmx = NoAmx
  Buf = {b1}
  NoBuf = NoBuf
  Faults = {}
  MaxPosted = 2
SPECIFICATION TimedFairSpec
INVARIANTS
  TimedTypeOK
  NoDeadlineLost
PROPERTIES
  EveryTransferEnds
