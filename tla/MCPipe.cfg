SPECIFICATION FairSpec
CONSTANTS
  Proc = {p1, p2}
  Readers = {p1, p2}
  Writers = {p2}
  Byte = {0, 1}
  PIPESIZE = 2
  Modulus = 4
  Messages <- MCMessages
  ReadSizes = {1, 3}
  Killable = {p1}
  NoProc = NoProc
  NoResult = NoResult
INVARIANTS NoUseAfterFree SleeperHasReason
PROPERTIES IsFifo CloseReleases
