SPECIFICATION Spec
CONSTANTS
  s1 = s1
  s2 = s2
  c1 = c1
  c2 = c2
  c3 = c3
  c4 = c4
  c5 = c5
  Servers = {s1, s2}
  Calls = {c1, c2, c3, c4, c5}
  Reach <- Mostly1
  IdOf <- MixedIds
  DigestOf <- MixedDigests
  Big = {c4, c5}
  Oversize = Oversize
  NoServer = NoServer
  Cap = 4
  MaxFaults = 1
INVARIANTS TypeOK NoStrandedClaim AnswersTrue
PROPERTIES AppliedOnce
CHECK_DEADLOCK FALSE
SYMMETRY Symmetry
