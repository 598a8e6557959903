SPECIFICATION Spec
CONSTANTS
  p1 = p1
  p2 = p2
  Proc = {p1, p2}
  NoProc = NoProc
  Ino = {i1, i2}
  NoIno = NoIno
  NoName = NoName
  Name = {n1, n2}
  Block = {b1, b2}
  Mixes <- Apart
  MaxFiles = 2
SYMMETRY Symmetry
INVARIANTS DiskEntriesTrue DiskNoDuplicates DiskMetaClean DiskLinksCover BlocksOwned
