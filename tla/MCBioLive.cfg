SPECIFICATION FairSpec
CONSTANTS
  p1 = p1
  p2 = p2
  p3 = p3
  b1 = b1
  b2 = b2
  b3 = b3
  s1 = s1
  s2 = s2
  s3 = s3
  d0 = d0
  d1 = d1
  NoSector = NoSector
  NoProc = NoProc
  NoBuf = NoBuf
  Data = {d0}
  Proc = {p1, p2, p3}
  Buf = {b1, b2}
  Sector = {s1, s2}
  ReadErrors = {FALSE}
PROPERTIES TransferEnds WaiterWoken
