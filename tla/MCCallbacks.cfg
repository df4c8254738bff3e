CONSTANTS
  MaxHandle = 1
  Amx = {a1}
  NoAmx = NoAmx
  Buf = {}
  NoBuf = NoBuf
  Faults = {"perform_throws"}
  Offered = {"WRITE", "SEEK"}
  Fun = {f1, f2}
  NoFun = NoFun
  MaxForward = 3
  Cap = 2
  Chunk = {1, 2}
  Seek = {0}
  M = 4
SPECIFICATION CallbacksSpec
SYMMETRY Symmetry
INVARIANTS
  CallbacksTypeOK
  ForwardsExact
  BodyIsPrefix
  CallbacksGetTheirObject
  WriteAlwaysBound
  OnlyOverridesBound
  WideOptionsExact
  SixTakenForText
  InterruptsStop
PROPERTIES
  OthersKeepTheirs
  ImplementsCallbacks
