SPECIFICATION KSpec
CONSTANTS
  Proc = {1, 2}
  Initproc = 1
  Sizes = {11, 12, 13}
  PGSIZE = 2
  NPTENTRIES = 2
  NPD = 3
  Sbrk <- MCSbrk
  Headers <- MCHeaders
  WORD = 16
  MaxCalls <- MCMaxCalls
CHECK_DEADLOCK FALSE
INVARIANTS InputExact SleeperHasReason HistoryIsRing PagesOwned ImageExact PanicsOnlyTorn
