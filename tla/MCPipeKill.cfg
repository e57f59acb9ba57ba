SPECIFICATION FairSpec
CONSTANTS
  Proc = {p1, p2}
  Readers = {p1}
  Writers = {p2}
  Byte = {0}
  PIPESIZE = 2
  Modulus = 4
  Messages <- MCZeros
  ReadSizes = {1}
  Killable = {p1}
  NoProc = NoProc
  NoResult = NoResult
PROPERTY KilledDies
