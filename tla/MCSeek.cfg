CONSTANTS
  MaxHandle = 1
  Amx = {a1}
  NoAmx = NoAmx
  Buf = {}
  NoBuf = NoBuf
  Faults = {}
  Offered = {"SEEK"}
  Fun = {f1}
  NoFun = NoFun
  MaxForward = 1
  Cap = 0
  Chunk = {}
  M = 4
  Seek = {0, 1, 2, 4, 5}
SPECIFICATION CallbacksSpec
INVARIANTS
  SeekArgumentsArrive
