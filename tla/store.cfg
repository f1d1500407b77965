SPECIFICATION Spec
CONSTANTS
  p1 = p1
  p2 = p2
  k1 = k1
  k2 = k2
  Procs = {p1, p2}
  Keys = {k1, k2}
  NoRec = NoRec
  BadMeta = BadMeta
  NoEpoch = NoEpoch
  RecordCap = 4
  CompactLines = 2
  JournalCap = 9
  Deletable = {k1}
  Expirable = {k2}
  ResetMayCrash = FALSE
  MaxWrites = 2
  MaxFaults = 1
INVARIANTS TypeOK OneGeneration ActsOnDisk StampedMemoryIsDisk
PROPERTIES CasHolds Implements
CHECK_DEADLOCK FALSE
SYMMETRY Symmetry
