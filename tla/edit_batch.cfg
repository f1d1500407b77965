SPECIFICATION Spec
CONSTANTS
  p1 = p1
  p2 = p2
  Procs = {p1, p2}
  Items <- Mixed
  AbsOf <- Resolve
  Creates = {"new", "raw"}
  Old = {"a", "b", "c"}
  NoFile = NoFile
  User = User
  NoLink = {"raw"}
  MaxUser = 2
  MaxFaults = 3
INVARIANTS TypeOK NoResidue LandsWhole LedgerTrue
PROPERTIES CreateNeverReplaces
CHECK_DEADLOCK FALSE
