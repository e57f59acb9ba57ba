SPECIFICATION Spec
CONSTANTS
  Inode = {1, 2}
  Root = 1
  Byte <- MCByte
  BSIZE = 2
  NDIRECT = 1
  NMETA = 2
  NBLOCKS = 6
  NLOG = 1
  LOGSIZE = 6
  Sizes <- MCSizes
  MaxOps = 5
INVARIANTS BlocksExact LogFits
PROPERTIES IsFlat
