SPECIFICATION Spec
CONSTANTS
  p1 = p1
  p2 = p2
  k1 = k1
  k2 = k2
  Procs = {p1, p2}
  Keys = {k1, k2}
  NoRec = NoRec
  BadMeta = BadMeta
  NoEpoch = NoEpoch
  RecordCap = 4
  CompactLines = 2
  JournalCap = 9
  Deletable = {}
  Expirable = {}
  ResetMayCrash = TRUE
  MaxWrites = 1
  MaxFaults = 2
PROPERTY Implements
CHECK_DEADLOCK FALSE
SYMMETRY Symmetry
