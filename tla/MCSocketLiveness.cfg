CONSTANTS
  Fd = {f1}
  SD = {g1, g2}
  NoSD = NoSD
  Faults = {}
SPECIFICATION FairSpec
PROPERTIES
  EventuallyTold
