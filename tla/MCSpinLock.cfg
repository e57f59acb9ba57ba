SPECIFICATION Spec
CONSTANTS
  CPU = {c1, c2}
  Thread = {t1, t2}
  tickslock = tickslock
  ptable = ptable
  Lock = {tickslock, ptable}
  Rank <- MCRank
  NoLock = NoLock
  NoCPU = NoCPU
SYMMETRY Symmetry
INVARIANTS MutualExclusion HandlersNeverWait InterruptsRestored
