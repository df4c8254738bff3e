CONSTANTS
  Fd = {f1, f2}
  SD = {g1, g2}
  NoSD = NoSD
  Faults = {}
SPECIFICATION Spec
INVARIANTS
  TypeOK
  TcpStaysMapped
  NeverMisclassified
  NoCorpses
  RearmTargetsCurrent
PROPERTIES
  ImplementsContract
