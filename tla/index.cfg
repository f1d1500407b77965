SPECIFICATION Spec
CONSTANTS
  p = p
  q = q
  a = a
  b = b
  large = large
  Servers <- TwoServers
  Deployments <- OneOrBoth
  First = a
  Contents <- ThreeContents
  Big <- OnlyLarge
  MaxTrouble = 3
INVARIANTS TypeOK SkewIsMarked
PROPERTIES AnswersFresh DiskFollows LookupEnds
CHECK_DEADLOCK FALSE
