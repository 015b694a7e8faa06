\* An edit through a link and a write of one file that crash, fail and stall.
SPECIFICATION FairLockSpec
CONSTANTS
  e1 = e1
  e2 = e2
  w = w
  p = p
  s = s
  a = a
  b = b
  c = c
  d = d
  Absent = Absent
  NoLink = NoLink
  NoHash = NoHash
  NoCall = NoCall
  Path = {p, s}
  Line = {a, b, c, d}
  Call = {e1, e2, w}
  ToolOf <- MCTool
  PathOf <- ViaLink
  OldLine <- MCOld
  NewLine <- MCNew
  InitFile <- OneFile
  InitLink <- LinkToP
CONSTRAINT OneFault
INVARIANTS
  ObservedLossNeverOk
PROPERTIES
  WrittenOverWhatWasRead
  ExpectedOrRefused
  LiveLockKept
  EveryLockFrees
