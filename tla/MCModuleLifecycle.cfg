CONSTANTS
  MaxHandle = 2
  Amx = {a1, a2}
  NoAmx = NoAmx
  Buf = {b1, b2}
  NoBuf = NoBuf
  Faults = {"perform_throws"}
SYMMETRY Symmetry
SPECIFICATION LifecycleSpec
INVARIANTS
  LifecycleTypeOK
  DestructorsSeeDetached
  TornDownInOrder
  TornDownCompletely
  FramesReachTheModule
  NoAttachedDestroyed
  NoForeignCompletion
PROPERTIES
  DataStaysPut
