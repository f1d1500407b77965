SPECIFICATION Spec
CONSTANTS
  p1 = p1
  p2 = p2
  Procs = {p1}
  Items <- Spelled
  AbsOf <- Resolve
  Creates = {}
  Old = {"a"}
  NoFile = NoFile
  User = User
  NoLink = {}
  MaxUser = 0
  MaxFaults = 0
INVARIANTS LandsWhole
CHECK_DEADLOCK FALSE
