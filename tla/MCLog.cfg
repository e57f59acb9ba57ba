SPECIFICATION FairSpec
CONSTANTS
  p1 = p1
  p2 = p2
  p3 = p3
  s1 = s1
  s2 = s2
  s3 = s3
  d0 = d0
  d1 = d1
  Proc = {p1, p2}
  Sector = {s1, s2, s3}
  Data = {d0, d1}
  Blank = d0
  NoSector = NoSector
  NoProc = NoProc
  LOGSIZE = 2
  LogBlocks = 4
  MaxCrashes = 2
PROPERTIES WriteAhead Atomic SleepersWake RecoveryEnds
