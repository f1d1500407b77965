SPECIFICATION FairSpec
CONSTANTS
  p1 = p1
  p2 = p2
  p3 = p3
  Procs = {p1, p2, p3}
  HostOf <- OneHost
  Marks <- SomeMarks
  NoLock = NoLock
  NoMark = NoMark
  NoProc = NoProc
  MayCrash = {p1}
  MayRecycle = {p1}
  ProbeWorks = TRUE
  Prompt = TRUE
INVARIANTS TypeOK MutualExclusion HolderKeepsFile
PROPERTIES AcquireReturns OrphanIsBroken
