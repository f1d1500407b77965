SPECIFICATION FairGroupSpec
CONSTANTS
  c1 = c1
  c2 = c2
  c3 = c3
  c4 = c4
  c5 = c5
  c6 = c6
  c7 = c7
  k1 = k1
  k2 = k2
  k3 = k3
  Lanes = {"l1", "l2"}
  Calls = {c1, c2, c3, c4, c5, c6, c7}
  LaneOf <- TwoLanes
  Plans = {k1, k2, k3}
  CursorOf <- Cursors
  NoPlan = NoPlan
  Repacks = {k3}
  Crowds <- Companies
  MayLose = {k3}
  MaxLanes = 1
  MaxRestarts = 1
  MaxNonce = 3
  Siblings = {k1, k2}
  MaxPending = 2
  MaxWrites = 2
CHECK_DEADLOCK FALSE
INVARIANTS GroupTypeOK OnceOnly LeaseExcludes
PROPERTIES SemanticFollows EveryTurnComes
