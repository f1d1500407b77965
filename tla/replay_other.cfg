SPECIFICATION Spec
CONSTANTS
  s1 = s1
  s2 = s2
  c1 = c1
  c2 = c2
  c3 = c3
  c4 = c4
  c5 = c5
  Servers = {s1, s2}
  Calls = {c1, c2, c3, c4}
  Reach <- Mostly1
  IdOf <- MixedIds
  DigestOf <- MixedDigests
  Big = {c4}
  Oversize = Oversize
  NoServer = NoServer
  Cap = 4
  MaxFaults = 0
PROPERTIES AppliedOnceAnywhere
CHECK_DEADLOCK FALSE
SYMMETRY Symmetry
